-------------------------- MODULE PathParserProofs --------------------------
(***************************************************************************)
(* Theorems about PathParser, for every path of any length: what the loop  *)
(* makes of it, when it ends, when it leaves a list without an end, which  *)
(* strings the names are, and how names compare.                           *)
(***************************************************************************)
EXTENDS PathParser, SequenceTheorems, FiniteSetTheorems, WellFoundedInduction, TLAPS

(* A set of natural numbers has a least element. *)
LEMMA LeastOf ==
  ASSUME NEW T, T \subseteq Nat, T # {}
  PROVE  \E s \in T : \A t \in T : s <= t
<1>1. PICK s \in T : \A t \in T : ~(<<t, s>> \in OpToRel(<, Nat))
  BY WFMin, NatLessThanWellFounded
<1>2. \A x, y \in Nat : x < y => <<x, y>> \in OpToRel(<, Nat)
  BY Zenon DEF OpToRel
<1>3. \A t \in T : ~(t < s)
  BY <1>1, <1>2, Zenon
<1> QED
  BY <1>3

-----------------------------------------------------------------------------
(***************************************************************************)
(* Strings.                                                                *)
(***************************************************************************)
Strings == Seq(Characters)

LEMMA StringFacts ==
  ASSUME NEW str \in Strings
  PROVE  /\ Len(str) \in Nat /\ DOMAIN str = 1 .. Len(str)
         /\ \A i \in 1 .. Len(str) : str[i] \in Characters
         /\ str = <<>> <=> Len(str) = 0
  BY LenProperties, ElementOfSeq, EmptySeq DEF Strings

LEMMA SameString ==
  ASSUME NEW s \in Strings, NEW t \in Strings, Len(s) = Len(t),
         \A i \in 1 .. Len(s) : s[i] = t[i]
  PROVE  s = t
  BY SeqEqual DEF Strings

(* The characters behind the first k, up to number n. *)
LEMMA Cutting ==
  ASSUME NEW str \in Strings, NEW k \in Nat, NEW n \in k .. Len(str)
  PROVE  /\ SubSeq(str, k + 1, n) \in Strings
         /\ Len(SubSeq(str, k + 1, n)) = n - k
         /\ \A i \in 1 .. (n - k) : SubSeq(str, k + 1, n)[i] = str[k + i]
<1>1. k + 1 \in Int /\ n \in Int /\ \A i \in (k + 1) .. n : str[i] \in Characters
  BY StringFacts
<1>2. /\ SubSeq(str, k + 1, n) \in Seq(Characters)
      /\ Len(SubSeq(str, k + 1, n)) = IF k + 1 <= n THEN n - (k + 1) + 1 ELSE 0
      /\ \A i \in 1 .. (n - (k + 1) + 1) : SubSeq(str, k + 1, n)[i] = str[(k + 1) + i - 1]
  BY <1>1, SubSeqProperties
<1> DEFINE sub == SubSeq(str, k + 1, n)
<1> HIDE DEF sub
<1>3. ASSUME NEW i \in 1 .. (n - k) PROVE sub[i] = str[k + i]
  <2>1. i \in 1 .. (n - (k + 1) + 1) /\ (k + 1) + i - 1 = k + i
    BY <1>1
  <2> QED
    BY <1>2, <2>1 DEF sub
<1>4. Len(sub) = n - k
  BY <1>1, <1>2 DEF sub
<1> QED
  BY <1>2, <1>3, <1>4 DEF Strings, sub

LEMMA CutAgain ==
  ASSUME NEW str \in Strings, NEW k \in 0 .. Len(str), NEW p \in 0 .. (Len(str) - k)
  PROVE  LET rest == SubSeq(str, k + 1, Len(str))
         IN  /\ SubSeq(rest, p + 1, Len(rest)) = SubSeq(str, k + p + 1, Len(str))
             /\ SubSeq(rest, 1, p) = SubSeq(str, k + 1, k + p)
<1> DEFINE rest == SubSeq(str, k + 1, Len(str))
<1>1. Len(str) \in Nat /\ k \in Nat /\ p \in Nat /\ Len(str) \in k .. Len(str)
  BY StringFacts
<1>2. /\ rest \in Strings /\ Len(rest) = Len(str) - k
      /\ \A i \in 1 .. (Len(str) - k) : rest[i] = str[k + i]
  BY <1>1, Cutting
<1> HIDE DEF rest
<1>3. SubSeq(rest, p + 1, Len(rest)) = SubSeq(str, k + p + 1, Len(str))
  <2> DEFINE s == SubSeq(rest, p + 1, Len(rest))
             t == SubSeq(str, k + p + 1, Len(str))
             n == Len(str) - (k + p)
  <2>1. Len(rest) \in p .. Len(rest) /\ k + p \in Nat /\ Len(str) \in (k + p) .. Len(str)
    BY <1>1, <1>2
  <2>2. s \in Strings /\ Len(s) = Len(rest) - p /\ \A i \in 1 .. (Len(rest) - p) : s[i] = rest[p + i]
    BY <1>1, <1>2, <2>1, Cutting
  <2>3. t \in Strings /\ Len(t) = n /\ \A i \in 1 .. n : t[i] = str[(k + p) + i]
    BY <1>1, <2>1, Cutting
  <2> HIDE DEF s, t
  <2>4. Len(rest) - p = n /\ n \in Nat
    BY <1>1, <1>2
  <2>5. ASSUME NEW i \in 1 .. n PROVE s[i] = t[i]
    <3>1. p + i \in 1 .. (Len(str) - k) /\ k + (p + i) = (k + p) + i
      BY <1>1
    <3> QED
      BY <1>2, <2>2, <2>3, <2>4, <3>1
  <2> QED
    BY <2>2, <2>3, <2>4, <2>5, SameString DEF s, t
<1>4. SubSeq(rest, 1, p) = SubSeq(str, k + 1, k + p)
  <2> DEFINE s == SubSeq(rest, 0 + 1, p)
             t == SubSeq(str, k + 1, k + p)
  <2>1. p \in 0 .. Len(rest) /\ 0 \in Nat /\ k + p \in k .. Len(str) /\ (k + p) - k = p
    BY <1>1, <1>2
  <2>2. s \in Strings /\ Len(s) = p - 0 /\ \A i \in 1 .. (p - 0) : s[i] = rest[0 + i]
    BY <1>2, <2>1, Cutting
  <2>3. t \in Strings /\ Len(t) = p /\ \A i \in 1 .. p : t[i] = str[k + i]
    BY <1>1, <2>1, Cutting
  <2>4. s = SubSeq(rest, 1, p)
    OBVIOUS
  <2> HIDE DEF s, t
  <2>5. ASSUME NEW i \in 1 .. p PROVE s[i] = t[i]
    <3>1. i \in 1 .. (Len(str) - k) /\ 0 + i = i /\ p - 0 = p
      BY <1>1
    <3> QED
      BY <1>2, <2>2, <2>3, <3>1
  <2>6. Len(s) = p
    BY <1>1, <2>2
  <2> QED
    BY <2>2, <2>3, <2>4, <2>5, <2>6, SameString DEF t
<1> QED
  BY <1>3, <1>4 DEF rest

(* str_index_of finds the first place, and only if there is one. *)
LEMMA FirstPlace ==
  ASSUME NEW str \in Strings, NEW needle
  PROVE  \/ /\ str_index_of(str, needle) = -1
            /\ \A i \in 1 .. Len(str) : str[i] # needle
         \/ /\ str_index_of(str, needle) \in 0 .. (Len(str) - 1)
            /\ str[str_index_of(str, needle) + 1] = needle
            /\ \A i \in 1 .. str_index_of(str, needle) : str[i] # needle
<1> DEFINE T == {i \in DOMAIN str : str[i] = needle}
<1>1. Len(str) \in Nat /\ DOMAIN str = 1 .. Len(str)
  BY StringFacts
<1>2. CASE \A i \in DOMAIN str : str[i] # needle
  BY <1>1, <1>2 DEF str_index_of
<1>3. CASE T # {}
  <2>0. T \subseteq Nat
    BY <1>1
  <2> HIDE DEF T
  <2>1. PICK first \in T : \A i \in T : first <= i
    BY <1>3, <2>0, LeastOf
  <2> USE DEF T
  <2> DEFINE IsFirst(i) == str[i] = needle /\ \A j \in 1 .. (i - 1) : str[j] # needle
             place == CHOOSE i \in DOMAIN str : IsFirst(i)
  <2>2. IsFirst(first)
    BY <1>1, <2>1
  <2>3. place \in DOMAIN str /\ IsFirst(place)
    BY <2>1, <2>2
  <2>4. str_index_of(str, needle) = place - 1
    BY <1>3 DEF str_index_of
  <2> HIDE DEF place
  <2> QED
    BY <1>1, <2>3, <2>4
<1> QED
  BY <1>2, <1>3

-----------------------------------------------------------------------------
(***************************************************************************)
(* Types, and the list: each node points to the next one, and the last one *)
(* to its predecessor until the list is finished.                          *)
(***************************************************************************)
Node == [name : Strings, next : {NULL} \cup Nat, borrowed : BOOLEAN]

Types ==
  /\ pc \in {"start", "loop", "tail", "done", "refused"}
  /\ path \in Strings /\ rest_of_path \in Strings
  /\ rest_freed \in BOOLEAN
  /\ driver_no \in Digits \cup {NULL}
  /\ parts \in Seq(Node)
  /\ pc = "start" => parts = <<>>

NodesFacts(nodes) ==
  /\ Len(nodes) \in Nat /\ DOMAIN nodes = 1 .. Len(nodes)
  /\ \A i \in 1 .. Len(nodes) : nodes[i] \in Node

LEMMA NodesAre == ASSUME NEW nodes \in Seq(Node) PROVE NodesFacts(nodes)
  BY LenProperties, ElementOfSeq DEF NodesFacts

(* What LinkTo returns: one node more, and a successor for the last one. *)
IsLinked(all, nodes, node) ==
  /\ all \in Seq(Node) /\ Len(all) = Len(nodes) + 1 /\ all[Len(nodes) + 1] = node
  /\ \A i \in 1 .. Len(nodes) :
       all[i] = IF i = Len(nodes) THEN [nodes[i] EXCEPT !.next = Len(nodes) + 1] ELSE nodes[i]

LEMMA Linking ==
  ASSUME NEW nodes \in Seq(Node), NEW node \in Node
  PROVE  IsLinked(LinkTo(nodes, node), nodes, node)
<1> DEFINE n == Len(nodes)
           Linked(i) == IF i = n THEN [nodes[i] EXCEPT !.next = n + 1] ELSE nodes[i]
           linked == [i \in 1 .. n |-> Linked(i)]
<1>1. n \in Nat /\ \A i \in 1 .. n : nodes[i] \in Node
  BY NodesAre DEF NodesFacts
<1>2. \A i \in 1 .. n : Linked(i) \in Node
  BY <1>1 DEF Node
<1> HIDE DEF Linked
<1>3. linked \in Seq(Node) /\ Len(linked) = n /\ \A i \in 1 .. n : linked[i] = Linked(i)
  BY <1>1, <1>2
<1>4. LinkTo(nodes, node) = Append(linked, node)
  BY DEF LinkTo, Linked
<1> HIDE DEF linked, n
<1>5. /\ Append(linked, node) \in Seq(Node) /\ Len(Append(linked, node)) = n + 1
      /\ \A i \in 1 .. n : Append(linked, node)[i] = Linked(i)
      /\ Append(linked, node)[n + 1] = node
  BY <1>1, <1>3, AppendProperties
<1> QED
  BY <1>4, <1>5 DEF Linked, n, IsLinked

Chain(nodes) ==
  \A i \in 1 .. Len(nodes) :
    nodes[i].next = IF i < Len(nodes) THEN i + 1 ELSE IF i = 1 THEN NULL ELSE i - 1

LEMMA ChainGoesOn ==
  ASSUME NEW nodes \in Seq(Node), NEW node \in Node, Chain(nodes),
         node.next = IF nodes = <<>> THEN NULL ELSE Len(nodes)
  PROVE  Chain(LinkTo(nodes, node))
<1> DEFINE all == LinkTo(nodes, node)
           n == Len(nodes)
<1>1. /\ n \in Nat /\ \A i \in 1 .. n : nodes[i] \in Node
      /\ nodes = <<>> <=> n = 0
  BY NodesAre, EmptySeq DEF NodesFacts
<1>2. /\ Len(all) = n + 1 /\ all[n + 1] = node
      /\ \A i \in 1 .. n : all[i] = IF i = n THEN [nodes[i] EXCEPT !.next = n + 1] ELSE nodes[i]
  BY Linking DEF IsLinked
<1> HIDE DEF all, n
<1>3. ASSUME NEW i \in 1 .. n PROVE all[i].next = i + 1
  <2>1. CASE i = n
    BY <1>1, <1>2, <2>1 DEF Node
  <2>2. CASE i < n
    <3>0. i # n
      BY <1>1, <2>2
    <3>1. all[i] = nodes[i]
      BY <1>2, <3>0
    <3>2. nodes[i].next = IF i < n THEN i + 1 ELSE IF i = 1 THEN NULL ELSE i - 1
      BY DEF Chain, n
    <3> QED
      BY <1>1, <2>2, <3>1, <3>2
  <2> QED
    BY <1>1, <2>1, <2>2
<1>4. all[n + 1].next = IF n + 1 = 1 THEN NULL ELSE (n + 1) - 1
  BY <1>1, <1>2 DEF n
<1>5. ASSUME NEW i \in 1 .. (n + 1)
      PROVE  all[i].next = IF i < n + 1 THEN i + 1 ELSE IF i = 1 THEN NULL ELSE i - 1
  <2>1. CASE i < n + 1
    BY <1>1, <1>3, <2>1
  <2>2. CASE i = n + 1
    BY <1>1, <1>4, <2>2
  <2> QED
    BY <1>1, <2>1, <2>2
<1> QED
  BY <1>2, <1>5 DEF Chain, all

-----------------------------------------------------------------------------
(***************************************************************************)
(* Where the loop is in the path: behind the first Cut characters of what  *)
(* follows the drive.                                                      *)
(***************************************************************************)
Cut == Len(Argument) - Len(rest_of_path)

Behind(k) == SubSeq(Argument, k + 1, Len(Argument))

SeparatorsUpTo(k) == {i \in 1 .. k : Argument[i] = "/"}

(* The first k characters are names, each with its separator. *)
NamesUpTo(k) ==
  /\ Argument[1] # "/" /\ Argument[k] = "/"
  /\ \A i \in 1 .. (k - 1) : Argument[i] = "/" => Argument[i + 1] # "/"

NoneBehind(k) == \A i \in (k + 1) .. Len(Argument) : Argument[i] # "/"

LEMMA ArgumentIs ==
  ASSUME Types
  PROVE  /\ Argument \in Strings /\ Len(Argument) \in Nat
         /\ \A i \in 1 .. Len(Argument) : Argument[i] \in Characters
         /\ str_slice(path, 3, Len(path)) = Argument
<1>1. path \in Strings /\ Len(path) \in Nat
  BY StringFacts DEF Types
<1>2. Argument \in Strings
  <2>1. CASE Len(path) >= 3
    <3>1. 3 \in Nat /\ Len(path) \in 3 .. Len(path) /\ 3 + 1 = 4
      BY <1>1, <2>1
    <3>2. SubSeq(path, 3 + 1, Len(path)) \in Strings
      BY <1>1, <3>1, Cutting
    <3> QED
      BY <3>2 DEF Argument
  <2>2. CASE Len(path) < 3
    <3>1. SubSeq(path, 4, Len(path)) = <<>>
      BY <1>1, <2>2, SubSeqEmpty
    <3> QED
      BY <3>1, EmptySeq DEF Argument, Strings
  <2> QED
    BY <1>1, <2>1, <2>2
<1>3. str_slice(path, 3, Len(path)) = Argument
  BY <1>1 DEF str_slice, Argument
<1> QED
  BY <1>2, <1>3, StringFacts

(* What an iteration cuts off, and what it leaves. *)
LEMMA Slices ==
  ASSUME Types, NEW k \in 0 .. Len(Argument), rest_of_path = Behind(k)
  PROVE  LET index == str_index_of(rest_of_path, "/")
         IN  \/ index = -1 /\ NoneBehind(k)
             \/ /\ index \in 0 .. (Len(Argument) - k - 1)
                /\ Argument[k + index + 1] = "/"
                /\ \A i \in (k + 1) .. (k + index) : Argument[i] # "/"
                /\ Remaining(index) = Behind(k + index + 1)
                /\ Len(Remaining(index)) = Len(Argument) - (k + index + 1)
                /\ str_slice(rest_of_path, 0, index)
                     = SubSeq(Argument, k + 1, k + index + 1)
<1> DEFINE A == Argument
           rest == rest_of_path
           index == str_index_of(rest, "/")
<1>1. A \in Strings /\ Len(A) \in Nat /\ rest \in Strings /\ k \in Nat
  BY ArgumentIs DEF Types
<1>2. Len(rest) = Len(A) - k /\ \A i \in 1 .. (Len(A) - k) : rest[i] = A[k + i]
  <2>1. Len(A) \in k .. Len(A)
    BY <1>1
  <2> QED
    BY <1>1, <2>1, Cutting DEF Behind
<1>3. \/ index = -1 /\ \A i \in 1 .. Len(rest) : rest[i] # "/"
      \/ /\ index \in 0 .. (Len(rest) - 1) /\ rest[index + 1] = "/"
         /\ \A i \in 1 .. index : rest[i] # "/"
  BY <1>1, FirstPlace
<1> HIDE DEF A, index
<1>4. \A i \in (k + 1) .. Len(A) : i - k \in 1 .. (Len(A) - k) /\ k + (i - k) = i
  BY <1>1
<1>5. \A i \in (k + 1) .. Len(A) : A[i] = rest[i - k]
  BY <1>2, <1>4
<1>6. CASE index = -1 /\ \A i \in 1 .. Len(rest) : rest[i] # "/"
  <2>1. \A i \in (k + 1) .. Len(A) : A[i] # "/"
    BY <1>2, <1>4, <1>5, <1>6
  <2> QED
    BY <1>6, <2>1 DEF NoneBehind, A, index
<1>7. CASE /\ index \in 0 .. (Len(rest) - 1) /\ rest[index + 1] = "/"
           /\ \A i \in 1 .. index : rest[i] # "/"
  <2> DEFINE p == index + 1
  <2>1. /\ index \in 0 .. (Len(A) - k - 1) /\ p \in 0 .. (Len(A) - k)
        /\ p \in 1 .. (Len(A) - k) /\ index \in Nat
    BY <1>1, <1>2, <1>7
  <2>2. A[k + index + 1] = "/"
    <3>1. rest[p] = A[k + p] /\ k + p = k + index + 1
      BY <1>1, <1>2, <2>1
    <3> QED
      BY <1>7, <3>1
  <2>3. ASSUME NEW i \in (k + 1) .. (k + index) PROVE A[i] # "/"
    <3>1. i - k \in 1 .. index /\ i \in (k + 1) .. Len(A)
      BY <1>1, <2>1
    <3> QED
      BY <1>5, <1>7, <3>1
  <2>4. /\ SubSeq(rest, p + 1, Len(rest)) = SubSeq(A, k + p + 1, Len(A))
        /\ SubSeq(rest, 1, p) = SubSeq(A, k + 1, k + p)
    BY <1>1, <2>1, CutAgain DEF Behind, A
  <2>5. Remaining(index) = SubSeq(rest, p + 1, Len(rest))
    <3>1. ~(Len(rest) < Len(rest))
      BY <1>1, <1>2
    <3> QED
      BY <3>1, Zenon DEF Remaining, str_slice
  <2>6. str_slice(rest, 0, index) = SubSeq(rest, 1, p)
    BY <1>1, <1>2, <1>7 DEF str_slice
  <2>7. k + p = k + index + 1
    BY <1>1, <2>1
  <2>8. Remaining(index) = Behind(k + index + 1)
    BY <2>4, <2>5, <2>7 DEF Behind, A
  <2>9. Len(Remaining(index)) = Len(A) - (k + index + 1)
    <3>1. k + index + 1 \in Nat /\ Len(A) \in (k + index + 1) .. Len(A)
      BY <1>1, <2>1
    <3> QED
      BY <1>1, <2>8, <3>1, Cutting DEF Behind, A
  <2> QED
    BY <2>1, <2>2, <2>3, <2>4, <2>6, <2>7, <2>8, <2>9 DEF A, index
<1> QED
  BY <1>3, <1>6, <1>7 DEF A, index

-----------------------------------------------------------------------------
(* Behind the first k characters comes one more name, of index characters. *)
NextName(k, index) ==
  /\ index \in 1 .. (Len(Argument) - k - 1)
  /\ Argument[k + index + 1] = "/"
  /\ \A i \in (k + 1) .. (k + index) : Argument[i] # "/"

LEMMA SeparatorsAreFinite ==
  ASSUME NEW k \in Nat
  PROVE  IsFiniteSet(SeparatorsUpTo(k)) /\ Cardinality(SeparatorsUpTo(k)) \in Nat
<1>1. IsFiniteSet(1 .. k) /\ SeparatorsUpTo(k) \subseteq 1 .. k
  BY FS_Interval DEF SeparatorsUpTo
<1> QED
  BY <1>1, FS_Subset, FS_CardinalityType

LEMMA NamesGrow ==
  ASSUME Types, NEW k \in 0 .. Len(Argument), k = 0 \/ NamesUpTo(k), NEW index,
         NextName(k, index)
  PROVE  /\ k + index + 1 \in 1 .. Len(Argument)
         /\ NamesUpTo(k + index + 1)
         /\ Cardinality(SeparatorsUpTo(k + index + 1)) = Cardinality(SeparatorsUpTo(k)) + 1
<1> DEFINE A == Argument
           m == k + index + 1
<1>1. /\ Len(A) \in Nat /\ k \in Nat /\ m \in 1 .. Len(A) /\ m - 1 = k + index
      /\ index \in Nat \ {0} /\ A[m] = "/"
      /\ \A i \in (k + 1) .. (m - 1) : A[i] # "/"
  BY ArgumentIs DEF NextName
<1>2. k > 0 => A[1] # "/" /\ A[k] = "/" /\ \A i \in 1 .. (k - 1) : A[i] = "/" => A[i + 1] # "/"
  BY <1>1 DEF NamesUpTo
<1>3. SeparatorsUpTo(m) = SeparatorsUpTo(k) \cup {m} /\ m \notin SeparatorsUpTo(k)
  BY <1>1 DEF SeparatorsUpTo
<1>4. Cardinality(SeparatorsUpTo(m)) = Cardinality(SeparatorsUpTo(k)) + 1
  BY <1>1, <1>3, SeparatorsAreFinite, FS_AddElement
<1> HIDE DEF A
<1>5. A[1] # "/"
  <2>1. k = 0 => 1 \in (k + 1) .. (m - 1)
    BY <1>1
  <2> QED
    BY <1>1, <1>2, <2>1
<1>6. ASSUME NEW i \in 1 .. (m - 1), A[i] = "/" PROVE A[i + 1] # "/"
  <2>1. i \in 1 .. k
    BY <1>1, <1>6
  <2>2. CASE i = k
    <3>1. i + 1 \in (k + 1) .. (m - 1)
      BY <1>1, <2>2
    <3> QED
      BY <1>1, <3>1
  <2>3. CASE i < k
    BY <1>1, <1>2, <1>6, <2>1, <2>3
  <2> QED
    BY <1>1, <2>1, <2>2, <2>3
<1> QED
  BY <1>1, <1>4, <1>5, <1>6 DEF NamesUpTo, A

(* A path of names, the last of which needs no separator, is endless only  *)
(* when it has one and is not a single name.                               *)
LEMMA EndsWithNames ==
  ASSUME Types, NEW k \in 0 .. Len(Argument), k = 0 \/ NamesUpTo(k), NEW index,
         NextName(k, index), NoneBehind(k + index + 1)
  PROVE  Endless(Argument) <=> k + index + 1 = Len(Argument) /\ k > 0
<1> DEFINE A == Argument
           m == k + index + 1
<1>1. /\ Len(A) \in Nat /\ k \in Nat /\ m \in 1 .. Len(A) /\ A \in Strings
      /\ A[1] # "/" /\ A[m] = "/" /\ \A i \in 1 .. (m - 1) : A[i] = "/" => A[i + 1] # "/"
  BY NamesGrow, ArgumentIs DEF NamesUpTo
<1>2. /\ m - 1 = k + index /\ index > 0 /\ index \in Nat
      /\ \A i \in (k + 1) .. (m - 1) : A[i] # "/"
      /\ \A i \in (m + 1) .. Len(A) : A[i] # "/"
      /\ k > 0 => A[k] = "/"
  BY ArgumentIs DEF NextName, NoneBehind, NamesUpTo
<1>3. A # <<>>
  BY <1>1, StringFacts
<1> HIDE DEF A
<1>4. ASSUME NEW i \in 1 .. (Len(A) - 1), A[i] = "/", A[i + 1] = "/" PROVE FALSE
  <2>1. i \in 1 .. (m - 1) \/ i = m \/ i \in (m + 1) .. Len(A)
    BY <1>1
  <2>2. i = m => i + 1 \in (m + 1) .. Len(A)
    BY <1>1
  <2> QED
    BY <1>1, <1>2, <1>4, <2>1, <2>2
<1>5. A[Len(A)] = "/" <=> m = Len(A)
  <2>1. m = Len(A) \/ Len(A) \in (m + 1) .. Len(A)
    BY <1>1
  <2> QED
    BY <1>1, <1>2, <2>1
<1>6. m = Len(A) => ((\E i \in 1 .. (Len(A) - 1) : A[i] = "/") <=> k > 0)
  <2>1. k > 0 => k \in 1 .. (m - 1)
    BY <1>1, <1>2
  <2>2. k = 0 => \A i \in 1 .. (m - 1) : A[i] # "/"
    BY <1>1, <1>2
  <2> QED
    BY <1>1, <1>2, <2>1, <2>2
<1>7. Endless(A) <=> A[Len(A)] = "/" /\ \E i \in 1 .. (Len(A) - 1) : A[i] = "/"
  BY <1>1, <1>3, <1>4, Zenon DEF Endless
<1>8. Endless(A) <=> m = Len(A) /\ k > 0
  BY <1>5, <1>6, <1>7
<1> QED
  BY <1>8 DEF A

(* Where the loop leaves without a name to cut off. *)
LEMMA EndsWithout ==
  ASSUME Types, NEW k \in 0 .. Len(Argument), k = 0 \/ (NamesUpTo(k) /\ ~NoneBehind(k)),
         \/ NoneBehind(k)
         \/ k < Len(Argument) /\ Argument[k + 1] = "/"
  PROVE  Endless(Argument) <=> k > 0
<1> DEFINE A == Argument
<1>1. Len(A) \in Nat /\ k \in Nat /\ A \in Strings /\ (A = <<>> <=> Len(A) = 0)
  BY ArgumentIs, StringFacts
<1>2. CASE k = 0
  <2>1. NoneBehind(0) => \A i \in 1 .. Len(A) : A[i] # "/"
    BY DEF NoneBehind
  <2>2. (\A i \in 1 .. Len(A) : A[i] # "/") \/ A[1] = "/"
    BY <1>2, <2>1
  <2>3. (\A i \in 1 .. Len(A) : A[i] # "/") => \A i \in 1 .. (Len(A) - 1) : A[i] # "/"
    BY <1>1
  <2>4. ~Endless(A)
    BY <2>2, <2>3 DEF Endless
  <2> QED
    BY <1>1, <1>2, <2>4
<1>3. CASE k > 0
  <2>1. A[1] # "/" /\ A[k] = "/" /\ k \in 1 .. (Len(A) - 1) /\ A[k + 1] = "/"
    BY <1>1, <1>3 DEF NamesUpTo
  <2>2. A # <<>>
    BY <1>1, <2>1
  <2> QED
    BY <1>3, <2>1, <2>2 DEF Endless
<1> QED
  BY <1>1, <1>2, <1>3

-----------------------------------------------------------------------------
(***************************************************************************)
(* The inductive invariant.                                                *)
(***************************************************************************)
InLoop ==
  pc = "loop" =>
    /\ Cut \in 0 .. Len(Argument) /\ rest_of_path = Behind(Cut)
    /\ parts = <<>> <=> Cut = 0
    /\ Cut = 0 \/ (NamesUpTo(Cut) /\ ~NoneBehind(Cut))
    /\ Len(parts) <= Cardinality(SeparatorsUpTo(Cut))

BehindLoop ==
  pc = "tail" =>
    /\ parts # <<>>
    /\ Endless(Argument) <=> rest_of_path = <<>> /\ Len(parts) > 1

AtEnd ==
  pc = "done" => (Endless(Argument) <=> \A i \in DOMAIN parts : parts[i].next # NULL)

Freed ==
  /\ rest_freed => rest_of_path = <<>> /\ pc \in {"tail", "done"}
  /\ \A i \in 1 .. Len(parts) : parts[i].borrowed => pc = "done" /\ ~rest_freed

ListInv ==
  /\ Types
  /\ pc \in {"loop", "tail"} => Chain(parts)
  /\ InLoop /\ BehindLoop /\ AtEnd /\ Freed

LEMMA InitList == Init => ListInv
<1> SUFFICES ASSUME Init PROVE ListInv
  OBVIOUS
<1>1. path \in Strings
  <2>1. PICK prefix \in Prefixes, rest \in Rests : path = prefix \o rest
    BY DEF Init
  <2>2. rest \in Strings
    <3>1. PICK n \in 0 .. MaxRest : rest \in [1 .. n -> Letters \cup {"/"}]
      BY <2>1 DEF Rests
    <3>2. n \in Nat
      BY PathAssumption
    <3>3. rest \in [1 .. n -> Characters]
      BY <3>1 DEF Characters
    <3> QED
      BY <3>2, <3>3, SeqDef DEF Strings
  <2>3. prefix \in Strings
    BY PathAssumption DEF Strings
  <2> QED
    BY <2>1, <2>2, <2>3, ConcatProperties DEF Strings
<1>2. <<>> \in Strings /\ <<>> \in Seq(Node) /\ Len(<<>>) = 0
  BY EmptySeq DEF Strings
<1>3. /\ pc = "start" /\ parts = <<>> /\ rest_of_path = <<>> /\ rest_freed = FALSE
      /\ driver_no = NULL
  BY DEF Init
<1>4. Types
  BY <1>1, <1>2, <1>3 DEF Types
<1>5. Freed
  BY <1>2, <1>3 DEF Freed
<1>6. (pc \in {"loop", "tail"} => Chain(parts)) /\ InLoop /\ BehindLoop /\ AtEnd
  BY <1>3 DEF InLoop, BehindLoop, AtEnd
<1> QED
  BY <1>4, <1>5, <1>6 DEF ListInv

LEMMA BeginKeeps ==
  ASSUME ListInv, Begin
  PROVE  ListInv'
<1>1. /\ Types /\ pc = "start" /\ parts = <<>> /\ ~rest_freed
      /\ UNCHANGED <<path, rest_freed, parts>>
  BY DEF ListInv, Types, Freed, Begin
<1>2. Len(parts) = 0 /\ Argument' = Argument /\ Argument \in Strings /\ Len(Argument) \in Nat
  BY <1>1, ArgumentIs, EmptySeq DEF Argument
<1>3. CASE /\ path_parser_is_path_valid /\ pc' = "loop" /\ driver_no' = path[1]
           /\ rest_of_path' = str_slice(path, 3, Len(path))
  <2>1. rest_of_path' = Argument
    BY <1>1, <1>3, ArgumentIs
  <2>2. Types'
    BY <1>1, <1>2, <1>3, <2>1 DEF Types, path_parser_is_path_valid
  <2>3. Cut' = 0
    BY <1>2, <2>1 DEF Cut
  <2>4. Behind(0) = Argument
    BY <1>2, SubSeqFull DEF Behind, Strings
  <2>5. Cardinality(SeparatorsUpTo(0)') \in Nat
    <3>1. SeparatorsUpTo(0)' = SeparatorsUpTo(0)
      BY <1>2 DEF SeparatorsUpTo
    <3> QED
      BY <3>1, SeparatorsAreFinite
  <2>6. InLoop'
    <3>1. SeparatorsUpTo(Cut)' = SeparatorsUpTo(0)' /\ Behind(Cut)' = Behind(0)
      BY <1>2, <2>3 DEF SeparatorsUpTo, Behind
    <3>2. Len(parts') <= Cardinality(SeparatorsUpTo(Cut)')
      BY <1>1, <1>2, <2>5, <3>1
    <3>3. Cut' \in 0 .. Len(Argument') /\ rest_of_path' = Behind(Cut)'
      BY <1>2, <2>1, <2>3, <2>4, <3>1
    <3>4. Cut' = 0 /\ parts' = <<>>
      BY <1>1, <2>3
    <3>5. (parts = <<>> <=> Cut = 0)'
      BY <3>4
    <3>6. (Cut = 0 \/ (NamesUpTo(Cut) /\ ~NoneBehind(Cut)))'
      BY <3>4
    <3>7. (Len(parts) <= Cardinality(SeparatorsUpTo(Cut)))'
      BY <3>2
    <3>8. (Cut \in 0 .. Len(Argument) /\ rest_of_path = Behind(Cut))'
      BY <3>3
    <3> QED
      BY <3>5, <3>6, <3>7, <3>8, Zenon DEF InLoop
  <2> QED
    BY <1>1, <1>2, <1>3, <2>2, <2>6 DEF ListInv, BehindLoop, AtEnd, Freed, Chain
<1>4. CASE pc' = "refused" /\ UNCHANGED <<driver_no, rest_of_path>>
  <2>1. Types'
    BY <1>1, <1>4 DEF Types
  <2> QED
    BY <1>1, <1>2, <1>4, <2>1 DEF ListInv, InLoop, BehindLoop, AtEnd, Freed, Chain
<1> QED
  BY <1>3, <1>4 DEF Begin

LEMMA FinishKeeps ==
  ASSUME ListInv, Finish
  PROVE  ListInv'
<1> DEFINE n == Len(parts)
           last == [name |-> rest_of_path, next |-> NULL, borrowed |-> TRUE]
<1>1. /\ Types /\ pc = "tail" /\ pc' = "done" /\ Chain(parts) /\ BehindLoop /\ Freed
      /\ UNCHANGED <<path, rest_of_path, rest_freed, driver_no>>
  BY DEF ListInv, Finish
<1>2. /\ parts \in Seq(Node) /\ n \in Nat \ {0} /\ DOMAIN parts = 1 .. n
      /\ \A i \in 1 .. n : parts[i] \in Node
  BY <1>1, NodesAre, EmptySeq DEF Types, BehindLoop, NodesFacts
<1>3. /\ rest_of_path \in Strings /\ Len(rest_of_path) \in Nat
      /\ rest_of_path = <<>> <=> Len(rest_of_path) = 0
  BY <1>1, StringFacts DEF Types
<1>4. Endless(Argument)' = Endless(Argument)
  BY <1>1 DEF Endless, Argument
<1>5. NULL \notin Nat
  BY PathAssumption
<1>6. CASE Len(rest_of_path) > 0
  <2>1. last \in Node
    BY <1>3 DEF Node
  <2>2. parts' = LinkTo(parts, last)
    BY <1>6 DEF Finish
  <2>3. /\ parts' \in Seq(Node) /\ Len(parts') = n + 1 /\ parts'[n + 1] = last
        /\ \A i \in 1 .. n :
             parts'[i] = IF i = n THEN [parts[i] EXCEPT !.next = n + 1] ELSE parts[i]
    <3>1. IsLinked(parts', parts, last)
      BY <1>2, <2>1, <2>2, Linking
    <3> QED
      BY <3>1, Zenon DEF IsLinked
  <2>4. DOMAIN parts' = 1 .. (n + 1)
    BY <1>2, <2>3
  <2>5. ~(\A i \in DOMAIN parts' : parts'[i].next # NULL)
    BY <1>2, <2>3, <2>4
  <2>6. ~Endless(Argument)
    BY <1>1, <1>3, <1>6 DEF BehindLoop
  <2>7. AtEnd'
    BY <1>4, <2>5, <2>6 DEF AtEnd
  <2>8. ~rest_freed
    BY <1>1, <1>3, <1>6 DEF Freed
  <2>9. Types'
    BY <1>1, <2>3 DEF Types
  <2> QED
    BY <1>1, <2>7, <2>8, <2>9 DEF ListInv, InLoop, BehindLoop, Freed
<1>7. CASE ~(Len(rest_of_path) > 0)
  <2>1. parts' = parts /\ rest_of_path = <<>>
    BY <1>3, <1>7 DEF Finish
  <2>2. Endless(Argument) <=> n > 1
    BY <1>1, <2>1 DEF BehindLoop
  <2>3. parts[n].next = IF n = 1 THEN NULL ELSE n - 1
    BY <1>1, <1>2 DEF Chain
  <2>4. ASSUME NEW i \in 1 .. n, n > 1 PROVE parts[i].next # NULL
    <3>1. i < n \/ i = n
      <4>1. n \in Nat
        BY <1>2
      <4> HIDE DEF n
      <4> QED
        BY <4>1
    <3>2. CASE i < n
      BY <1>1, <1>2, <1>5, <3>2 DEF Chain
    <3>3. CASE i = n
      BY <1>2, <1>5, <2>3, <2>4, <3>3
    <3> QED
      BY <3>1, <3>2, <3>3
  <2>5. Endless(Argument) <=> \A i \in DOMAIN parts : parts[i].next # NULL
    BY <1>2, <2>2, <2>3, <2>4
  <2>6. AtEnd'
    BY <1>4, <2>1, <2>5 DEF AtEnd
  <2>7. Types' /\ Freed'
    BY <1>1, <2>1 DEF Types, Freed
  <2> QED
    BY <1>1, <2>6, <2>7 DEF ListInv, InLoop, BehindLoop
<1> QED
  BY <1>6, <1>7, <1>3

LEMMA IterateKeeps ==
  ASSUME ListInv, Iterate
  PROVE  /\ ListInv'
         /\ pc' = "loop" => Len(rest_of_path') < Len(rest_of_path)
         /\ Len(parts') <= Cardinality(Separators(Argument)) + 1
<1> DEFINE A == Argument
           k == Cut
           index == str_index_of(rest_of_path, "/")
           m == k + index + 1
           cut == IF index <= 0 THEN rest_of_path ELSE str_slice(rest_of_path, 0, index)
           node == [name |-> cut, next |-> Last, borrowed |-> FALSE]
<1>1. /\ Types /\ pc = "loop" /\ Chain(parts) /\ InLoop /\ Freed /\ ~rest_freed
      /\ UNCHANGED <<path, driver_no>>
  BY DEF ListInv, Iterate, Freed
<1>2. /\ k \in 0 .. Len(A) /\ rest_of_path = Behind(k)
      /\ parts = <<>> <=> k = 0
      /\ k = 0 \/ (NamesUpTo(k) /\ ~NoneBehind(k))
      /\ Len(parts) <= Cardinality(SeparatorsUpTo(k))
  BY <1>1 DEF InLoop
<1>3. /\ A \in Strings /\ Len(A) \in Nat /\ A' = A
      /\ parts \in Seq(Node) /\ Len(parts) \in Nat /\ (parts = <<>> <=> Len(parts) = 0)
      /\ DOMAIN parts = 1 .. Len(parts) /\ \A i \in 1 .. Len(parts) : parts[i] \in Node
  BY <1>1, ArgumentIs, NodesAre, EmptySeq DEF Types, Argument, NodesFacts
<1>4. \/ index = -1 /\ NoneBehind(k)
      \/ index = 0 /\ k < Len(A) /\ A[k + 1] = "/"
      \/ /\ NextName(k, index) /\ Remaining(index) = Behind(m)
         /\ Len(Remaining(index)) = Len(A) - m
         /\ str_slice(rest_of_path, 0, index) = SubSeq(A, k + 1, m)
  <2> HIDE DEF A, k, index
  <2>1. \/ index = -1 /\ NoneBehind(k)
        \/ /\ index \in 0 .. (Len(A) - k - 1)
           /\ A[k + index + 1] = "/"
           /\ \A i \in (k + 1) .. (k + index) : A[i] # "/"
           /\ Remaining(index) = Behind(m)
           /\ Len(Remaining(index)) = Len(A) - m
           /\ str_slice(rest_of_path, 0, index) = SubSeq(A, k + 1, m)
    BY <1>1, <1>2, Slices DEF A, index
  <2>2. CASE index = 0 /\ index \in 0 .. (Len(A) - k - 1) /\ A[k + index + 1] = "/"
    <3>1. k < Len(A) /\ k + index + 1 = k + 1
      BY <1>2, <1>3, <2>2
    <3> QED
      BY <2>2, <3>1
  <2>3. CASE index # 0 /\ index \in 0 .. (Len(A) - k - 1)
    <3>1. index \in 1 .. (Len(A) - k - 1)
      BY <2>3
    <3> QED
      BY <2>1, <2>3, <3>1 DEF NextName, A
  <2> QED
    BY <2>1, <2>2, <2>3
<1>14. index \in Int
  <2> HIDE DEF k, A, index
  <2> QED
    BY <1>4 DEF NextName
<1>5. cut \in Strings
  <2>1. rest_of_path \in Strings
    BY <1>1 DEF Types
  <2>2. NextName(k, index) => SubSeq(A, k + 1, m) \in Strings
    <3> SUFFICES ASSUME NextName(k, index) PROVE SubSeq(A, k + 1, m) \in Strings
      OBVIOUS
    <3> HIDE DEF A, k, index
    <3>1. k \in Nat /\ m \in k .. Len(A)
      BY <1>2, <1>3 DEF NextName, A
    <3> QED
      BY <1>3, <3>1, Cutting
  <2> HIDE DEF A, k, index
  <2>3. index <= 0 \/ NextName(k, index)
    BY <1>4
  <2>4. NextName(k, index) => ~(index <= 0) /\ cut = SubSeq(A, k + 1, m)
    <3>1. NextName(k, index) => ~(index <= 0)
      BY DEF NextName
    <3>2. NextName(k, index) => str_slice(rest_of_path, 0, index) = SubSeq(A, k + 1, m)
      <4>1. NextName(k, index) => ~(index = -1) /\ ~(index = 0)
        BY DEF NextName
      <4> QED
        BY <1>4, <4>1
    <3> QED
      BY <3>1, <3>2
  <2> QED
    BY <2>1, <2>2, <2>3, <2>4
<1>6. node \in Node /\ node.next = (IF parts = <<>> THEN NULL ELSE Len(parts)) /\ ~node.borrowed
  BY <1>3, <1>5 DEF Node, Last
<1>7. parts' = LinkTo(parts, node)
  BY DEF Iterate
<1> HIDE DEF node, cut
<1>8. /\ parts' \in Seq(Node) /\ Len(parts') = Len(parts) + 1 /\ Chain(parts')
      /\ \A i \in 1 .. Len(parts') : ~parts'[i].borrowed
  <2>1. /\ parts' \in Seq(Node) /\ Len(parts') = Len(parts) + 1 /\ parts'[Len(parts) + 1] = node
        /\ \A i \in 1 .. Len(parts) :
             parts'[i] = IF i = Len(parts) THEN [parts[i] EXCEPT !.next = Len(parts) + 1]
                                           ELSE parts[i]
    <3>1. IsLinked(parts', parts, node)
      BY <1>3, <1>6, <1>7, Linking
    <3> QED
      BY <3>1, Zenon DEF IsLinked
  <2>2. Chain(parts')
    BY <1>1, <1>3, <1>6, <1>7, ChainGoesOn
  <2>3. ASSUME NEW i \in 1 .. Len(parts) PROVE ~parts'[i].borrowed
    <3>1. ~parts[i].borrowed
      BY <1>1 DEF Freed
    <3> QED
      BY <1>3, <2>1, <3>1 DEF Node
  <2>4. ~parts'[Len(parts) + 1].borrowed
    BY <1>6, <2>1
  <2> QED
    BY <1>3, <2>1, <2>2, <2>3, <2>4
<1>9. parts' # <<>> /\ (Len(parts') > 1 <=> k > 0)
  BY <1>2, <1>3, <1>8, EmptySeq
<1>10. Len(parts') <= Cardinality(Separators(A)) + 1
  <2>1. Separators(A) = SeparatorsUpTo(Len(A))
    BY <1>3, StringFacts DEF Separators, SeparatorsUpTo
  <2>2. SeparatorsUpTo(k) \subseteq SeparatorsUpTo(Len(A))
    BY <1>2, <1>3 DEF SeparatorsUpTo
  <2> HIDE DEF A, k
  <2>3. /\ Cardinality(SeparatorsUpTo(k)) <= Cardinality(SeparatorsUpTo(Len(A)))
        /\ Cardinality(SeparatorsUpTo(k)) \in Nat /\ Cardinality(SeparatorsUpTo(Len(A))) \in Nat
    BY <1>2, <1>3, <2>2, SeparatorsAreFinite, FS_Subset
  <2> QED
    BY <1>2, <1>3, <1>8, <2>1, <2>3
<1>11. Endless(Argument)' = Endless(Argument)
  BY <1>1 DEF Endless, Argument
<1>12. CASE index <= 0
  <2>1. /\ rest_of_path' = <<>> /\ rest_freed' = TRUE /\ pc' = "tail"
    <3>1. ~(index > 0)
      BY <1>12, <1>14
    <3> QED
      BY <3>1 DEF Iterate, FreedString
  <2>2. NoneBehind(k) \/ (k < Len(A) /\ A[k + 1] = "/")
    <3> HIDE DEF k, A, index
    <3> QED
      BY <1>4, <1>12 DEF NextName
  <2>3. Endless(A) <=> k > 0
    <3> HIDE DEF k
    <3> QED
      BY <1>1, <1>2, <2>2, EndsWithout
  <2>4. BehindLoop'
    BY <1>9, <1>11, <2>1, <2>3 DEF BehindLoop
  <2>5. Types' /\ Freed'
    <3>1. <<>> \in Strings
      BY EmptySeq DEF Strings
    <3> QED
      BY <1>1, <1>8, <2>1, <3>1 DEF Types, Freed
  <2> QED
    BY <1>8, <1>10, <2>1, <2>4, <2>5 DEF ListInv, InLoop, AtEnd
<1>13. CASE index > 0
  <2>1. /\ rest_of_path' = Remaining(index) /\ rest_freed' = rest_freed
        /\ pc' = IF str_index_of(Remaining(index), "/") >= 0 THEN "loop" ELSE "tail"
    <3>1. ~(index <= 0)
      BY <1>13, <1>14
    <3> QED
      BY <3>1 DEF Iterate
  <2>2. /\ NextName(k, index) /\ Remaining(index) = Behind(m)
        /\ Len(Remaining(index)) = Len(A) - m
    <3> HIDE DEF k, A, index
    <3> QED
      BY <1>4, <1>13
  <2> HIDE DEF k, index
  <2>3. /\ m \in 1 .. Len(A) /\ NamesUpTo(m) /\ k < m
        /\ Cardinality(SeparatorsUpTo(m)) = Cardinality(SeparatorsUpTo(k)) + 1
    <3>1. /\ m \in 1 .. Len(A) /\ NamesUpTo(m)
          /\ Cardinality(SeparatorsUpTo(m)) = Cardinality(SeparatorsUpTo(k)) + 1
      BY <1>1, <1>2, <2>2, NamesGrow
    <3>2. index \in Nat /\ k \in Nat
      BY <1>2, <2>2 DEF NextName
    <3> QED
      BY <3>1, <3>2
  <2>4. Cut' = m
    BY <1>3, <2>1, <2>2, <2>3 DEF Cut
  <2>5. rest_of_path' \in Strings /\ Len(rest_of_path') = Len(A) - m
    <3>1. m \in Nat /\ Len(A) \in m .. Len(A)
      BY <1>3, <2>3
    <3> QED
      BY <1>3, <2>1, <2>2, <3>1, Cutting DEF Behind
  <2>6. Types' /\ Freed'
    BY <1>1, <1>8, <2>1, <2>5 DEF Types, Freed
  <2>7. Len(rest_of_path') < Len(rest_of_path)
    BY <1>2, <1>3, <2>3, <2>5 DEF k, Cut
  <2>8. \/ str_index_of(rest_of_path', "/") = -1 /\ NoneBehind(m)
        \/ str_index_of(rest_of_path', "/") >= 0 /\ ~NoneBehind(m)
    <3> DEFINE rest == rest_of_path'
               next == str_index_of(rest, "/")
    <3>1. \/ next = -1 /\ \A i \in 1 .. Len(rest) : rest[i] # "/"
          \/ next \in 0 .. (Len(rest) - 1) /\ rest[next + 1] = "/"
      BY <2>5, FirstPlace
    <3>2. \A i \in 1 .. (Len(A) - m) : rest[i] = A[m + i]
      <4>1. m \in Nat /\ Len(A) \in m .. Len(A)
        BY <1>3, <2>3
      <4> QED
        BY <1>3, <2>1, <2>2, <4>1, Cutting DEF Behind
    <3> HIDE DEF rest, next, A
    <3>3. Len(rest) = Len(A) - m
      BY <2>5 DEF rest
    <3>4. CASE next = -1 /\ \A i \in 1 .. Len(rest) : rest[i] # "/"
      <4>1. ASSUME NEW i \in (m + 1) .. Len(A) PROVE A[i] # "/"
        <5>1. i - m \in 1 .. Len(rest) /\ m + (i - m) = i
          BY <1>3, <2>3, <3>3
        <5> QED
          BY <3>2, <3>3, <3>4, <5>1
      <4> QED
        BY <3>4, <4>1 DEF NoneBehind, A, next, rest
    <3>5. CASE next \in 0 .. (Len(rest) - 1) /\ rest[next + 1] = "/"
      <4>1. /\ next + 1 \in 1 .. (Len(A) - m) /\ m + (next + 1) \in (m + 1) .. Len(A)
            /\ next >= 0
        BY <1>3, <2>3, <3>3, <3>5
      <4>2. A[m + (next + 1)] = "/"
        BY <3>2, <3>5, <4>1
      <4>3. ~NoneBehind(m)
        BY <4>1, <4>2 DEF NoneBehind, A
      <4> QED
        BY <4>1, <4>3 DEF next, rest
    <3> QED
      BY <3>1, <3>4, <3>5
  <2>9. CASE str_index_of(rest_of_path', "/") >= 0 /\ ~NoneBehind(m)
    <3>1. pc' = "loop"
      BY <2>1, <2>9
    <3>2. /\ Behind(Cut)' = Behind(m) /\ NamesUpTo(Cut)' = NamesUpTo(m)
          /\ NoneBehind(Cut)' = NoneBehind(m) /\ SeparatorsUpTo(Cut)' = SeparatorsUpTo(m)
      BY <1>3, <2>4 DEF Behind, NamesUpTo, NoneBehind, SeparatorsUpTo
    <3>3. Len(parts') <= Cardinality(SeparatorsUpTo(m))
      <4>1. Cardinality(SeparatorsUpTo(k)) \in Nat
        BY <1>2, SeparatorsAreFinite
      <4> QED
        BY <1>2, <1>3, <1>8, <2>3, <4>1
    <3>4. InLoop'
      BY <1>3, <1>9, <2>1, <2>2, <2>3, <2>4, <2>9, <3>2, <3>3 DEF InLoop
    <3> QED
      BY <1>8, <1>10, <2>6, <2>7, <3>1, <3>4 DEF ListInv, BehindLoop, AtEnd
  <2>10. CASE str_index_of(rest_of_path', "/") = -1 /\ NoneBehind(m)
    <3>1. pc' = "tail"
      BY <2>1, <2>10
    <3>2. Endless(A) <=> m = Len(A) /\ k > 0
      BY <1>1, <1>2, <2>2, <2>10, EndsWithNames
    <3>3. rest_of_path' = <<>> <=> m = Len(A)
      BY <1>3, <2>3, <2>5, StringFacts
    <3>4. BehindLoop'
      BY <1>9, <1>11, <3>2, <3>3 DEF BehindLoop
    <3> QED
      BY <1>8, <1>10, <2>6, <3>1, <3>4 DEF ListInv, InLoop, AtEnd
  <2> QED
    BY <2>8, <2>9, <2>10
<1> HIDE DEF index, k, A
<1>15. index <= 0 \/ index > 0
  BY <1>14
<1> QED
  BY <1>10, <1>12, <1>13, <1>15 DEF A

-----------------------------------------------------------------------------
LEMMA NextList ==
  ASSUME ListInv, [Next]_vars
  PROVE  ListInv'
<1>1. CASE UNCHANGED vars
  <2>1. UNCHANGED <<pc, path, rest_of_path, rest_freed, parts, driver_no>>
    BY <1>1 DEF vars
  <2>2. Types'
    BY <2>1 DEF ListInv, Types
  <2>3. Argument' = Argument /\ Cut' = Cut
    BY <2>1 DEF Argument, Cut
  <2>4. InLoop'
    BY <2>1, <2>3 DEF ListInv, InLoop, Behind, NamesUpTo, NoneBehind, SeparatorsUpTo
  <2> QED
    BY <2>1, <2>2, <2>3, <2>4 DEF ListInv, Chain, BehindLoop, AtEnd, Freed, Endless
<1> QED
  BY <1>1, BeginKeeps, IterateKeeps, FinishKeeps DEF Next

(***************************************************************************)
(* Paths of any length become a list without an end exactly when they      *)
(* begin with a name and have an empty segment behind it, other than a     *)
(* single separator at the very end.                                       *)
(***************************************************************************)
THEOREM EndlessLists == Spec => []ListIsEndlessExactlyFor
<1>1. ListInv => ListIsEndlessExactlyFor
  BY DEF ListInv, AtEnd, ListIsEndlessExactlyFor
<1> QED
  BY <1>1, InitList, NextList, PTL DEF Spec

(***************************************************************************)
(* No name in the list lies in a block that was freed, for any path: what  *)
(* is looked at after it was freed is empty, and not made a name.          *)
(***************************************************************************)
THEOREM NoFreedName == Spec => []NoNameIsFreed
<1>1. ListInv => NoNameIsFreed
  <2> SUFFICES ASSUME ListInv PROVE NoNameIsFreed
    OBVIOUS
  <2>1. DOMAIN parts = 1 .. Len(parts)
    BY NodesAre DEF ListInv, Types, NodesFacts
  <2> QED
    BY <2>1 DEF ListInv, Freed, NoNameIsFreed
<1> QED
  BY <1>1, InitList, NextList, PTL DEF Spec

(***************************************************************************)
(* The loop comes to an end for every path: an iteration that goes on      *)
(* leaves a shorter one, and there is at most one node more than there are *)
(* separators.                                                             *)
(***************************************************************************)
THEOREM LoopEnds == Spec => IterationsShrinkThePath
<1>1. ListInv /\ [Next]_vars =>
        [pc = "loop" =>
           /\ pc' = "loop" => Len(rest_of_path') < Len(rest_of_path)
           /\ Len(parts') <= Cardinality(Separators(Argument)) + 1]_vars
  <2> SUFFICES ASSUME ListInv, Next, pc = "loop"
               PROVE  /\ pc' = "loop" => Len(rest_of_path') < Len(rest_of_path)
                      /\ Len(parts') <= Cardinality(Separators(Argument)) + 1
    OBVIOUS
  <2>1. Iterate
    BY DEF Next, Begin, Finish
  <2> QED
    BY <2>1, IterateKeeps
<1> QED
  BY <1>1, InitList, NextList, PTL DEF Spec, IterationsShrinkThePath

-----------------------------------------------------------------------------
(***************************************************************************)
(* Comparing names.                                                        *)
(***************************************************************************)
LEMMA LowerIs ==
  ASSUME NEW c \in Characters, NEW d \in Characters
  PROVE  /\ str_to_lower(c) \in Int
         /\ str_to_lower(c) = str_to_lower(d) <=> WithoutCase(c) = WithoutCase(d)
<1> DEFINE Lower(n) == IF n \in 97 .. 122 THEN n ELSE Char(n + 32)
           Upper(n) == IF n \in 97 .. 122 THEN n - 32 ELSE n
<1>1. \A n \in -128 .. 127 : Char(n + 32) = IF n < 96 THEN n + 32 ELSE n - 224
  BY DEF Char
<1>2. \A n \in -128 .. 127 :
        Lower(n) = IF n \in 97 .. 122 THEN n ELSE IF n < 96 THEN n + 32 ELSE n - 224
  BY <1>1
<1> HIDE DEF Lower
<1>3. \A m, n \in -128 .. 127 : Lower(m) = Lower(n) <=> Upper(m) = Upper(n)
  <2> SUFFICES ASSUME NEW m \in -128 .. 127, NEW n \in -128 .. 127
               PROVE  Lower(m) = Lower(n) <=> Upper(m) = Upper(n)
    OBVIOUS
  <2>1. /\ Lower(m) = IF m \in 97 .. 122 THEN m ELSE IF m < 96 THEN m + 32 ELSE m - 224
        /\ Lower(n) = IF n \in 97 .. 122 THEN n ELSE IF n < 96 THEN n + 32 ELSE n - 224
    BY <1>2
  <2>2. CASE m \in 97 .. 122 /\ n \in 97 .. 122
    BY <2>1, <2>2
  <2>3. CASE m \in 97 .. 122 /\ n \notin 97 .. 122
    BY <2>1, <2>3
  <2>4. CASE m \notin 97 .. 122 /\ n \in 97 .. 122
    BY <2>1, <2>4
  <2>5. CASE m \notin 97 .. 122 /\ n \notin 97 .. 122
    <3>1. m = n => Lower(m) = Lower(n)
      OBVIOUS
    <3>2. Lower(m) = Lower(n) => m = n
      BY <2>1, <2>5
    <3> QED
      BY <2>5, <3>1, <3>2
  <2> QED
    BY <2>2, <2>3, <2>4, <2>5
<1>4. Code[c] \in -128 .. 127 /\ Code[d] \in -128 .. 127
  BY PathAssumption
<1>5. /\ str_to_lower(c) = Lower(Code[c]) /\ str_to_lower(d) = Lower(Code[d])
      /\ WithoutCase(c) = Upper(Code[c]) /\ WithoutCase(d) = Upper(Code[d])
  BY DEF str_to_lower, WithoutCase, Lower
<1>6. Lower(Code[c]) \in Int
  BY <1>2, <1>4
<1> HIDE DEF Upper
<1> QED
  BY <1>3, <1>4, <1>5, <1>6

LEMMA SignFacts ==
  ASSUME NEW n \in Int
  PROVE  Sign(-n) = - Sign(n) /\ (Sign(n) = 0 <=> n = 0) /\ Sign(n) \in Int
  BY DEF Sign

(* str_icmp does not depend on the order, and what it takes for the same   *)
(* agrees up to the case of letters, for names of any length.              *)
LEMMA Comparing ==
  ASSUME NEW s \in Strings, NEW t \in Strings
  PROVE  /\ str_icmp(s, t) = - str_icmp(t, s)
         /\ str_icmp(s, t) = 0 <=>
              /\ Len(s) = Len(t)
              /\ \A k \in DOMAIN s : WithoutCase(s[k]) = WithoutCase(t[k])
<1>1. /\ Len(s) \in Nat /\ DOMAIN s = 1 .. Len(s) /\ \A i \in 1 .. Len(s) : s[i] \in Characters
      /\ Len(t) \in Nat /\ DOMAIN t = 1 .. Len(t) /\ \A i \in 1 .. Len(t) : t[i] \in Characters
  BY StringFacts
<1>2. CASE Len(s) # Len(t)
  <2>1. /\ str_icmp(s, t) = Sign(Len(s) - Len(t))
        /\ str_icmp(t, s) = Sign(Len(t) - Len(s))
    BY <1>2 DEF str_icmp
  <2>2. /\ Len(s) - Len(t) \in Int /\ Len(t) - Len(s) = - (Len(s) - Len(t))
        /\ Len(s) - Len(t) # 0 /\ Len(t) - Len(s) \in Int
        /\ Len(s) - Len(t) = - (Len(t) - Len(s))
    <3>1. \A a, b \in Nat : a # b => /\ a - b \in Int /\ b - a = - (a - b) /\ a - b # 0
                                    /\ b - a \in Int /\ a - b = - (b - a)
      OBVIOUS
    <3> QED
      BY <1>1, <1>2, <3>1
  <2>3. Sign(- (Len(t) - Len(s))) = - Sign(Len(t) - Len(s)) /\ Sign(Len(s) - Len(t)) # 0
    BY <2>2, SignFacts
  <2> QED
    BY <1>2, <2>1, <2>2, <2>3
<1>3. CASE Len(s) = Len(t)
  <2> DEFINE D(i) == str_to_lower(s[i]) - str_to_lower(t[i])
             E(i) == str_to_lower(t[i]) - str_to_lower(s[i])
             differ == {i \in DOMAIN s : D(i) # 0}
             first == CHOOSE i \in differ : \A j \in differ : i <= j
  <2>1. \A i \in DOMAIN s : /\ D(i) \in Int /\ E(i) = - D(i) /\ E(i) \in Int
                            /\ D(i) = - E(i)
                            /\ D(i) = 0 <=> WithoutCase(s[i]) = WithoutCase(t[i])
    <3>1. ASSUME NEW i \in DOMAIN s
          PROVE  /\ str_to_lower(s[i]) \in Int /\ str_to_lower(t[i]) \in Int
                 /\ str_to_lower(s[i]) = str_to_lower(t[i])
                      <=> WithoutCase(s[i]) = WithoutCase(t[i])
      BY <1>1, <1>3, LowerIs
    <3> QED
      BY <3>1
  <2>2. {i \in DOMAIN t : E(i) # 0} = differ
    BY <1>1, <1>3, <2>1
  <2>3. str_icmp(s, t) = IF differ = {} THEN 0 ELSE Sign(D(first))
    BY <1>3 DEF str_icmp
  <2>4. str_icmp(t, s) = IF differ = {} THEN 0 ELSE Sign(E(first))
    <3>1. str_icmp(t, s) = LET same == {i \in DOMAIN t : E(i) # 0}
                           IN  IF same = {} THEN 0
                               ELSE Sign(E(CHOOSE i \in same : \A j \in same : i <= j))
      BY <1>3 DEF str_icmp
    <3> QED
      BY <2>2, <3>1
  <2>5. differ # {} => first \in differ
    <3>1. differ \subseteq Nat
      BY <1>1
    <3> HIDE DEF differ
    <3>2. differ # {} => \E i \in differ : \A j \in differ : i <= j
      BY <3>1, LeastOf
    <3> QED
      BY <3>2
  <2> HIDE DEF first, D, E
  <2>6. CASE differ = {}
    <3>1. str_icmp(s, t) = 0 /\ str_icmp(t, s) = 0
      BY <2>3, <2>4, <2>6
    <3>2. \A i \in DOMAIN s : D(i) = 0
      BY <2>6
    <3>3. \A k \in DOMAIN s : WithoutCase(s[k]) = WithoutCase(t[k])
      BY <2>1, <3>2
    <3>4. str_icmp(s, t) = - str_icmp(t, s)
      <4>1. \A m, n \in Int : m + n = 0 => m = - n
        OBVIOUS
      <4>2. /\ str_icmp(s, t) \in Int /\ str_icmp(t, s) \in Int
            /\ str_icmp(s, t) + str_icmp(t, s) = 0
        BY <3>1
      <4> HIDE DEF differ
      <4> QED
        BY <4>1, <4>2
    <3> QED
      BY <1>3, <3>1, <3>3, <3>4
  <2>7. CASE differ # {}
    <3>1. first \in DOMAIN s /\ D(first) # 0
      BY <2>5, <2>7
    <3>2. /\ D(first) \in Int /\ E(first) \in Int /\ D(first) = - E(first)
          /\ WithoutCase(s[first]) # WithoutCase(t[first])
      BY <2>1, <3>1
    <3>3. str_icmp(s, t) = Sign(D(first)) /\ str_icmp(t, s) = Sign(E(first))
      BY <2>3, <2>4, <2>7
    <3>4. Sign(D(first)) # 0 /\ Sign(- E(first)) = - Sign(E(first))
      BY <3>1, <3>2, SignFacts
    <3> QED
      BY <3>1, <3>2, <3>3, <3>4
  <2> QED
    BY <2>6, <2>7
<1> QED
  BY <1>2, <1>3

(***************************************************************************)
(* Names are looked up without regard to the case of the letters A to Z,   *)
(* and to nothing else, for names of any length and any set of characters. *)
(***************************************************************************)
THEOREM NamesCompare == Spec => []NamesCompareWithoutCase
<1>1. ListInv => NamesCompareWithoutCase
  <2> SUFFICES ASSUME ListInv, NEW i \in DOMAIN parts, NEW j \in DOMAIN parts
               PROVE  parts[i].name \in Strings /\ parts[j].name \in Strings
    BY Comparing DEF NamesCompareWithoutCase
  <2> QED
    BY NodesAre DEF ListInv, Types, NodesFacts, Node
<1> QED
  BY <1>1, InitList, NextList, PTL DEF Spec

-----------------------------------------------------------------------------
(***************************************************************************)
(* A path of names.  ends tells where the name of each node ends in str:   *)
(* ends[0] is 0, and node i has the characters behind ends[i - 1], up to   *)
(* number ends[i].                                                         *)
(***************************************************************************)
Spells(nodes, str, ends) ==
  /\ ends \in [0 .. Len(nodes) -> 0 .. Len(str)] /\ ends[0] = 0
  /\ \A i \in 1 .. Len(nodes) :
       /\ ends[i - 1] < ends[i]
       /\ nodes[i].name = SubSeq(str, ends[i - 1] + 1, ends[i])

(* The first m of them end in the only separator they have. *)
Cuts(str, ends, m) ==
  \A i \in 1 .. m :
    /\ str[ends[i]] = "/"
    /\ \A j \in (ends[i - 1] + 1) .. (ends[i] - 1) : str[j] # "/"

(* The last one goes to the end of str and has none. *)
Reaches(str, ends, n) ==
  /\ n > 0 /\ ends[n] = Len(str) /\ Cuts(str, ends, n - 1)
  /\ \A j \in (ends[n - 1] + 1) .. Len(str) : str[j] # "/"

Further(ends, n, end) == [i \in 0 .. (n + 1) |-> IF i = n + 1 THEN end ELSE ends[i]]

LEMMA SpellsMore ==
  ASSUME NEW nodes \in Seq(Node), NEW node \in Node, NEW str \in Strings, NEW ends,
         Spells(nodes, str, ends), NEW end \in 0 .. Len(str), ends[Len(nodes)] < end,
         node.name = SubSeq(str, ends[Len(nodes)] + 1, end)
  PROVE  Spells(LinkTo(nodes, node), str, Further(ends, Len(nodes), end))
<1> DEFINE all == LinkTo(nodes, node)
           n == Len(nodes)
           more == Further(ends, n, end)
<1>1. n \in Nat /\ \A i \in 1 .. n : nodes[i] \in Node
  BY NodesAre DEF NodesFacts
<1>2. IsLinked(all, nodes, node)
  BY Linking
<1> HIDE DEF all
<1>3. /\ Len(all) = n + 1 /\ all[n + 1] = node
      /\ \A i \in 1 .. n : all[i].name = nodes[i].name
  <2>1. Len(all) = n + 1 /\ all[n + 1] = node
    BY <1>2 DEF IsLinked
  <2>2. \A i \in 1 .. n : all[i] = [nodes[i] EXCEPT !.next = n + 1] \/ all[i] = nodes[i]
    BY <1>2 DEF IsLinked
  <2>3. \A i \in 1 .. n : all[i].name = nodes[i].name
    BY <1>1, <2>2 DEF Node
  <2> QED
    BY <2>1, <2>3
<1>4. /\ ends \in [0 .. n -> 0 .. Len(str)] /\ ends[0] = 0
      /\ \A i \in 1 .. n : /\ ends[i - 1] < ends[i]
                           /\ nodes[i].name = SubSeq(str, ends[i - 1] + 1, ends[i])
  BY DEF Spells
<1> HIDE DEF n
<1>5. /\ more \in [0 .. (n + 1) -> 0 .. Len(str)] /\ more[n + 1] = end
      /\ \A i \in 0 .. n : more[i] = ends[i]
  BY <1>1, <1>4 DEF Further
<1> HIDE DEF more
<1>6. more[0] = 0
  BY <1>1, <1>4, <1>5
<1>7. ASSUME NEW i \in 1 .. (n + 1)
      PROVE  more[i - 1] < more[i] /\ all[i].name = SubSeq(str, more[i - 1] + 1, more[i])
  <2>1. CASE i = n + 1
    <3>1. i - 1 = n /\ more[i - 1] = ends[n] /\ more[i] = end
      BY <1>1, <1>5, <2>1
    <3> QED
      BY <1>3, <2>1, <3>1 DEF n
  <2>2. CASE i \in 1 .. n
    <3>1. more[i - 1] = ends[i - 1] /\ more[i] = ends[i]
      BY <1>1, <1>5, <2>2
    <3> QED
      BY <1>3, <1>4, <2>2, <3>1
  <2> QED
    BY <1>1, <2>1, <2>2
<1> QED
  BY <1>3, <1>5, <1>6, <1>7 DEF Spells, all, more, n

LEMMA CutsMore ==
  ASSUME NEW str, NEW n \in Nat, NEW ends, NEW end, NEW m \in 0 .. n, Cuts(str, ends, m)
  PROVE  /\ Cuts(str, Further(ends, n, end), m)
         /\ /\ m = n /\ str[end] = "/"
            /\ \A j \in (ends[n] + 1) .. (end - 1) : str[j] # "/"
            => Cuts(str, Further(ends, n, end), n + 1)
<1> DEFINE more == Further(ends, n, end)
<1>1. more[n + 1] = end /\ \A i \in 0 .. n : more[i] = ends[i]
  BY DEF Further
<1> HIDE DEF more
<1>2. ASSUME NEW i \in 1 .. m
      PROVE  /\ str[more[i]] = "/"
             /\ \A j \in (more[i - 1] + 1) .. (more[i] - 1) : str[j] # "/"
  <2>1. i \in 0 .. n /\ i - 1 \in 0 .. n
    OBVIOUS
  <2>2. more[i] = ends[i] /\ more[i - 1] = ends[i - 1]
    BY <1>1, <2>1
  <2> QED
    BY <2>2 DEF Cuts
<1>3. ASSUME m = n, str[end] = "/", \A j \in (ends[n] + 1) .. (end - 1) : str[j] # "/",
             NEW i \in 1 .. (n + 1)
      PROVE  /\ str[more[i]] = "/"
             /\ \A j \in (more[i - 1] + 1) .. (more[i] - 1) : str[j] # "/"
  <2>1. CASE i = n + 1
    <3>1. more[i] = end /\ i - 1 = n /\ more[i - 1] = ends[n]
      BY <1>1, <2>1
    <3> QED
      BY <1>3, <3>1
  <2>2. CASE i \in 1 .. m
    BY <1>2, <2>2
  <2> QED
    BY <1>3, <2>1, <2>2
<1> QED
  BY <1>2, <1>3 DEF Cuts, more

-----------------------------------------------------------------------------
(***************************************************************************)
(* The names, put together one after the other, are the path.              *)
(***************************************************************************)
Joins(f, nodes) ==
  f = [i \in 0 .. Len(nodes) |-> IF i = 0 THEN <<>> ELSE f[i - 1] \o nodes[i].name]

LEMMA JoinedIs ==
  ASSUME NEW nodes, Len(nodes) \in Nat, NEW str \in Strings, NEW ends, Spells(nodes, str, ends)
  PROVE  LET f == [i \in 0 .. Len(nodes) |-> SubSeq(str, 1, ends[i])]
         IN  Joins(f, nodes) /\ \A g : Joins(g, nodes) => g = f
<1> DEFINE n == Len(nodes)
           f == [i \in 0 .. n |-> SubSeq(str, 1, ends[i])]
<1>1. /\ n \in Nat /\ ends \in [0 .. n -> 0 .. Len(str)] /\ ends[0] = 0 /\ Len(str) \in Nat
      /\ \A i \in 1 .. n : /\ ends[i - 1] < ends[i]
                           /\ nodes[i].name = SubSeq(str, ends[i - 1] + 1, ends[i])
  BY StringFacts DEF Spells
<1> HIDE DEF n
<1>2. f[0] = <<>>
  BY <1>1, SubSeqEmpty
<1>3. ASSUME NEW i \in 1 .. n PROVE f[i] = f[i - 1] \o nodes[i].name
  <2>1. /\ i \in 0 .. n /\ i - 1 \in 0 .. n
        /\ ends[i] \in 0 .. Len(str) /\ ends[i - 1] \in 0 .. Len(str) /\ ends[i - 1] < ends[i]
    BY <1>1
  <2>2. /\ 1 \in 1 .. (Len(str) + 1) /\ ends[i - 1] \in (1 - 1) .. Len(str)
        /\ ends[i] \in ends[i - 1] .. Len(str)
    <3>1. \A a, b, l \in Nat : a \in 0 .. l /\ b \in 0 .. l /\ a < b =>
            1 \in 1 .. (l + 1) /\ a \in (1 - 1) .. l /\ b \in a .. l
      OBVIOUS
    <3>2. ends[i] \in Nat /\ ends[i - 1] \in Nat
      BY <2>1
    <3> QED
      BY <1>1, <2>1, <3>1, <3>2
  <2>3. SubSeq(str, 1, ends[i - 1]) \o SubSeq(str, ends[i - 1] + 1, ends[i])
          = SubSeq(str, 1, ends[i])
    BY <2>2, ConcatAdjacentSubSeq DEF Strings
  <2> QED
    BY <1>1, <2>1, <2>3
<1>4. DOMAIN f = 0 .. n
  OBVIOUS
<1>5. Joins(f, nodes)
  <2>1. f = [i \in 0 .. n |-> f[i]]
    OBVIOUS
  <2>2. \A i \in 0 .. n : f[i] = IF i = 0 THEN <<>> ELSE f[i - 1] \o nodes[i].name
    <3> HIDE DEF f
    <3>1. \A i \in 0 .. n : i = 0 \/ i \in 1 .. n
      BY <1>1
    <3> QED
      BY <1>2, <1>3, <3>1
  <2> HIDE DEF f
  <2> QED
    BY <2>1, <2>2 DEF Joins, n
<1>6. ASSUME NEW g, Joins(g, nodes) PROVE g = f
  <2> HIDE DEF f
  <2>1. /\ g = [i \in 0 .. n |-> IF i = 0 THEN <<>> ELSE g[i - 1] \o nodes[i].name]
        /\ f = [i \in 0 .. n |-> IF i = 0 THEN <<>> ELSE f[i - 1] \o nodes[i].name]
    BY <1>5, <1>6 DEF Joins, n
  <2> DEFINE T == {i \in 0 .. n : g[i] # f[i]}
  <2>2. CASE T = {}
    <3>1. \A i \in 0 .. n : g[i] = f[i]
      BY <2>2
    <3>2. /\ g = [i \in 0 .. n |-> g[i]] /\ f = [i \in 0 .. n |-> f[i]]
      BY <2>1
    <3> QED
      BY <3>1, <3>2
  <2>3. CASE T # {}
    <3>1. T \subseteq Nat
      BY <1>1
    <3>2. PICK i \in T : \A j \in T : i <= j
      <4> HIDE DEF T
      <4> QED
        BY <2>3, <3>1, LeastOf
    <3>3. i \in 0 .. n /\ g[i] # f[i]
      BY <3>2
    <3>4. CASE i = 0
      BY <2>1, <3>3, <3>4
    <3>5. CASE i # 0
      <4>1. i - 1 \in 0 .. n /\ ~(i <= i - 1)
        BY <1>1, <3>3, <3>5
      <4>2. g[i - 1] = f[i - 1]
        BY <3>2, <4>1
      <4> QED
        BY <2>1, <3>3, <3>5, <4>2
    <3> QED
      BY <3>4, <3>5
  <2> QED
    BY <2>2, <2>3
<1> QED
  BY <1>5, <1>6 DEF n

(* Name number i of n: the characters behind a up to b, its separator with it. *)
LEMMA SegmentIs ==
  ASSUME NEW str \in Strings, NEW n, NEW i, NEW a \in Nat, NEW b \in Nat, a < b,
         a = 0 \/ str[a] = "/",
         i = n => b = Len(str) /\ \A j \in (a + 1) .. Len(str) : str[j] # "/",
         i # n => str[b] = "/" /\ \A j \in (a + 1) .. (b - 1) : str[j] # "/"
  PROVE  SegmentBounds(str, a + 1, b - (IF i = n THEN 0 ELSE 1))
<1>1. PICK end : end = b - (IF i = n THEN 0 ELSE 1)
  OBVIOUS
<1>2. (i = n => end = b) /\ (i # n => end = b - 1)
  BY <1>1
<1>3. a + 1 <= end + 1
  BY <1>2
<1>4. a + 1 = 1 \/ str[(a + 1) - 1] = "/"
  OBVIOUS
<1>5. end = Len(str) \/ str[end + 1] = "/"
  BY <1>2
<1>6. \A j \in (a + 1) .. end : str[j] # "/"
  BY <1>2
<1>7. SegmentBounds(str, a + 1, end)
  BY <1>3, <1>4, <1>5, <1>6 DEF SegmentBounds
<1> QED
  BY <1>1, <1>7

(* What such a list is, said as WellFormedPathIsSplit says it. *)
LEMMA SplitIs ==
  ASSUME Types, NEW ends, Spells(parts, Argument, ends),
         Reaches(Argument, ends, Len(parts)),
         \A i \in 1 .. Len(parts) : parts[i].next = IF i = Len(parts) THEN NULL ELSE i + 1
  PROVE  WellFormedPathIsSplit
<1> DEFINE A == Argument
           n == Len(parts)
           f == [i \in 0 .. n |-> SubSeq(A, 1, ends[i])]
<1>1. /\ n \in Nat \ {0} /\ A \in Strings /\ Len(A) \in Nat
  BY NodesAre, ArgumentIs DEF Types, NodesFacts, Reaches
<1>2. /\ ends \in [0 .. n -> 0 .. Len(A)] /\ ends[0] = 0 /\ ends[n] = Len(A)
      /\ \A i \in 1 .. n : ends[i - 1] < ends[i]
      /\ \A i \in 1 .. (n - 1) : /\ A[ends[i]] = "/"
                               /\ \A j \in (ends[i - 1] + 1) .. (ends[i] - 1) : A[j] # "/"
      /\ \A j \in (ends[n - 1] + 1) .. Len(A) : A[j] # "/"
  BY DEF Spells, Reaches, Cuts
<1>3. Joins(f, parts) /\ \A g : Joins(g, parts) => g = f
  BY <1>1, JoinedIs
<1> HIDE DEF n
<1>4. ASSUME NEW i \in 0 .. n PROVE f[i] = SubSeq(A, 1, ends[i]) /\ Len(f[i]) = ends[i]
  <2>1. 0 \in Nat /\ ends[i] \in 0 .. Len(A) /\ 0 + 1 = 1
    BY <1>2
  <2>2. Len(SubSeq(A, 0 + 1, ends[i])) = ends[i] - 0
    BY <1>1, <2>1, Cutting
  <2>3. Len(SubSeq(A, 1, ends[i])) = ends[i]
    BY <2>1, <2>2
  <2> QED
    BY <2>3
<1>5. f[n] = A
  BY <1>1, <1>2, <1>4, SubSeqFull DEF Strings
<1> HIDE DEF f
<1>6. ASSUME NEW i \in 1 .. n
      PROVE  LET first == Len(f[i - 1]) + 1
                 last  == Len(f[i]) - (IF i = n THEN 0 ELSE 1)
             IN  SegmentBounds(A, first, last)
  <2> DEFINE a == ends[i - 1]
             b == ends[i]
  <2>1. /\ i - 1 \in 0 .. n /\ i \in 0 .. n
        /\ i = 1 \/ i - 1 \in 1 .. (n - 1)
        /\ i = n \/ i \in 1 .. (n - 1)
    BY <1>1
  <2>2. a \in 0 .. Len(A) /\ b \in 0 .. Len(A) /\ a < b /\ (i = 1 => a = 0)
    <3>1. \A x \in 0 .. n : ends[x] \in 0 .. Len(A)
      BY <1>2
    <3>2. a < b
      BY <1>2
    <3>3. i = 1 => i - 1 = 0
      OBVIOUS
    <3> QED
      BY <1>2, <2>1, <3>1, <3>2, <3>3
  <2>3. i # 1 => A[a] = "/"
    BY <1>2, <2>1
  <2>4. i = n => b = Len(A) /\ \A j \in (a + 1) .. Len(A) : A[j] # "/"
    BY <1>2
  <2>5. i # n => A[b] = "/" /\ \A j \in (a + 1) .. (b - 1) : A[j] # "/"
    BY <1>2, <2>1
  <2>6. Len(f[i - 1]) = a /\ Len(f[i]) = b
    <3>1. \A x \in 0 .. n : Len(f[x]) = ends[x]
      BY <1>4
    <3> QED
      BY <2>1, <3>1
  <2> HIDE DEF a, b, A, n
  <2>7. a \in Nat /\ b \in Nat /\ (a = 0 \/ A[a] = "/")
    BY <2>2, <2>3
  <2>8. SegmentBounds(A, a + 1, b - (IF i = n THEN 0 ELSE 1))
    BY <1>1, <2>2, <2>4, <2>5, <2>7, SegmentIs
  <2> QED
    BY <2>6, <2>8
<1> DEFINE Joined == CHOOSE g : Joins(g, parts)
<1>7. Joined = f
  BY <1>3
<1> SUFFICES ASSUME pc = "done", WellFormed(Argument)
             PROVE  /\ Joined[n] = A
                    /\ \A i \in 1 .. n :
                         LET first == Len(Joined[i - 1]) + 1
                             last  == Len(Joined[i]) - (IF i = n THEN 0 ELSE 1)
                         IN  SegmentBounds(A, first, last)
                    /\ \A i \in 1 .. n : parts[i].next = IF i = n THEN NULL ELSE i + 1
  BY DEF WellFormedPathIsSplit, Joins, n
<1> QED
  BY <1>5, <1>6, <1>7 DEF n

-----------------------------------------------------------------------------
SplitLoop ==
  pc = "loop" =>
    \E ends : /\ Spells(parts, Argument, ends) /\ Cuts(Argument, ends, Len(parts))
              /\ ends[Len(parts)] = Cut

(* A single name, or names with a separator each and one more in rest_of_path. *)
SplitTail ==
  pc = "tail" /\ WellFormed(Argument) =>
    \/ /\ rest_of_path = <<>> /\ Len(parts) = 1
       /\ \E ends : Spells(parts, Argument, ends) /\ Reaches(Argument, ends, 1)
    \/ \E ends : /\ Spells(parts, Argument, ends) /\ Cuts(Argument, ends, Len(parts))
                 /\ ends[Len(parts)] < Len(Argument)
                 /\ rest_of_path = Behind(ends[Len(parts)])
                 /\ NoneBehind(ends[Len(parts)])

SplitDone ==
  pc = "done" /\ WellFormed(Argument) =>
    /\ \E ends : Spells(parts, Argument, ends) /\ Reaches(Argument, ends, Len(parts))
    /\ \A i \in 1 .. Len(parts) : parts[i].next = IF i = Len(parts) THEN NULL ELSE i + 1

SplitInv == SplitLoop /\ SplitTail /\ SplitDone

LEMMA BeginSplits ==
  ASSUME ListInv, Begin
  PROVE  SplitInv'
<1>1. /\ Types /\ pc = "start" /\ parts = <<>> /\ UNCHANGED <<path, rest_freed, parts>>
  BY DEF ListInv, Types, Begin
<1>2. /\ Len(parts) = 0 /\ Argument' = Argument /\ parts' = parts
      /\ Argument \in Strings /\ Len(Argument) \in Nat
  BY <1>1, ArgumentIs, EmptySeq DEF Argument
<1>3. pc' = "loop" \/ pc' = "refused"
  BY DEF Begin
<1>4. CASE pc' = "loop"
  <2>1. Cut' = 0
    BY <1>1, <1>2, <1>4, ArgumentIs DEF Begin, Cut
  <2> DEFINE ends == [i \in 0 .. 0 |-> 0]
  <2>2. /\ Spells(parts, Argument, ends) /\ Cuts(Argument, ends, 0) /\ ends[0] = 0
    BY <1>2 DEF Spells, Cuts
  <2> HIDE DEF ends
  <2>3. SplitLoop'
    BY <1>2, <2>1, <2>2 DEF SplitLoop, Spells, Cuts
  <2> QED
    BY <1>4, <2>3 DEF SplitInv, SplitTail, SplitDone
<1> QED
  BY <1>3, <1>4 DEF SplitInv, SplitLoop, SplitTail, SplitDone

LEMMA FinishSplits ==
  ASSUME ListInv, SplitInv, Finish
  PROVE  SplitInv'
<1> DEFINE A == Argument
           n == Len(parts)
           last == [name |-> rest_of_path, next |-> NULL, borrowed |-> TRUE]
<1>1. /\ Types /\ pc = "tail" /\ pc' = "done" /\ Chain(parts) /\ BehindLoop
      /\ UNCHANGED <<path, rest_of_path, rest_freed, driver_no>>
  BY DEF ListInv, Finish
<1>2. /\ parts \in Seq(Node) /\ n \in Nat \ {0} /\ \A i \in 1 .. n : parts[i] \in Node
      /\ A \in Strings /\ Len(A) \in Nat /\ A' = A
  BY <1>1, ArgumentIs, NodesAre, EmptySeq DEF Types, BehindLoop, NodesFacts, Argument
<1>3. /\ rest_of_path \in Strings /\ Len(rest_of_path) \in Nat
      /\ rest_of_path = <<>> <=> Len(rest_of_path) = 0
  BY <1>1, StringFacts DEF Types
<1> SUFFICES ASSUME WellFormed(A)' PROVE SplitDone'
  BY <1>1 DEF SplitInv, SplitLoop, SplitTail, SplitDone
<1>4. WellFormed(A)
  BY <1>2 DEF WellFormed
<1>5. CASE rest_of_path = <<>> /\ n = 1
           /\ \E ends : Spells(parts, A, ends) /\ Reaches(A, ends, 1)
  <2>1. parts' = parts
    BY <1>3, <1>5 DEF Finish
  <2>2. parts[1].next = NULL
    BY <1>1, <1>2, <1>5 DEF Chain
  <2>3. PICK ends : Spells(parts, A, ends) /\ Reaches(A, ends, 1)
    BY <1>5
  <2>4. Spells(parts, A, ends)' /\ Reaches(A, ends, Len(parts))'
    BY <1>2, <1>5, <2>1, <2>3 DEF Spells, Reaches, Cuts
  <2>5. \A i \in 1 .. Len(parts') : parts'[i].next = IF i = Len(parts') THEN NULL ELSE i + 1
    <3>1. Len(parts') = 1 /\ parts'[1].next = NULL
      BY <1>5, <2>1, <2>2
    <3>2. 1 .. 1 = {1}
      OBVIOUS
    <3> QED
      BY <3>1, <3>2
  <2> QED
    BY <2>4, <2>5 DEF SplitDone
<1>6. CASE \E ends : /\ Spells(parts, A, ends) /\ Cuts(A, ends, n) /\ ends[n] < Len(A)
                     /\ rest_of_path = Behind(ends[n]) /\ NoneBehind(ends[n])
  <2>1. PICK ends : /\ Spells(parts, A, ends) /\ Cuts(A, ends, n) /\ ends[n] < Len(A)
                    /\ rest_of_path = Behind(ends[n]) /\ NoneBehind(ends[n])
    BY <1>6
  <2>2. ends[n] \in 0 .. Len(A)
    BY <1>2, <2>1 DEF Spells
  <2>3. Len(rest_of_path) > 0
    <3>1. ends[n] \in Nat /\ Len(A) \in ends[n] .. Len(A) /\ Len(A) - ends[n] > 0
      <4> HIDE DEF A, n
      <4> QED
        BY <1>2, <2>1, <2>2
    <3>2. Len(SubSeq(A, ends[n] + 1, Len(A))) = Len(A) - ends[n]
      BY <1>2, <3>1, Cutting
    <3> QED
      BY <2>1, <3>1, <3>2 DEF Behind
  <2>4. last \in Node
    BY <1>3 DEF Node
  <2>5. parts' = LinkTo(parts, last)
    BY <2>3 DEF Finish
  <2>6. /\ Len(parts') = n + 1 /\ parts'[n + 1] = last
        /\ \A i \in 1 .. n :
             parts'[i] = IF i = n THEN [parts[i] EXCEPT !.next = n + 1] ELSE parts[i]
    <3>1. IsLinked(parts', parts, last)
      BY <1>2, <2>4, <2>5, Linking
    <3> QED
      BY <3>1, Zenon DEF IsLinked
  <2> DEFINE more == Further(ends, n, Len(A))
  <2>7. Spells(parts', A, more)
    <3>1. Len(A) \in 0 .. Len(A) /\ last.name = SubSeq(A, ends[n] + 1, Len(A))
      <4>1. Len(A) \in 0 .. Len(A)
        BY <1>2
      <4>2. last.name = rest_of_path
        OBVIOUS
      <4> QED
        BY <2>1, <4>1, <4>2, Zenon DEF Behind
    <3> QED
      BY <1>2, <2>1, <2>4, <2>5, <3>1, SpellsMore
  <2>8. Reaches(A, more, Len(parts'))
    <3> HIDE DEF A, n
    <3>1. Cuts(A, more, n)
      BY <1>2, <2>1, CutsMore
    <3>2. more[n + 1] = Len(A) /\ more[n] = ends[n] /\ (n + 1) - 1 = n /\ n + 1 > 0
      BY <1>2 DEF Further
    <3> HIDE DEF more
    <3> QED
      BY <2>1, <2>6, <3>1, <3>2 DEF Reaches, NoneBehind, A
  <2>9. \A i \in 1 .. Len(parts') : parts'[i].next = IF i = Len(parts') THEN NULL ELSE i + 1
    <3> SUFFICES ASSUME NEW i \in 1 .. (n + 1)
                 PROVE  parts'[i].next = IF i = n + 1 THEN NULL ELSE i + 1
      BY <2>6
    <3> HIDE DEF n
    <3>1. CASE i = n + 1
      BY <2>6, <3>1
    <3>2. CASE i = n
      <4>1. i # n + 1 /\ i \in 1 .. n /\ parts[i] \in Node
        BY <1>2, <3>2
      <4>2. parts'[i] = [parts[i] EXCEPT !.next = n + 1]
        BY <2>6, <3>2, <4>1
      <4> QED
        BY <3>2, <4>1, <4>2 DEF Node
    <3>3. CASE i < n
      <4>1. i \in 1 .. n /\ i # n /\ i # n + 1
        BY <1>2, <3>3
      <4>2. parts'[i] = parts[i]
        BY <2>6, <4>1
      <4>3. parts[i].next = i + 1
        BY <1>1, <3>3, <4>1 DEF Chain, n
      <4> QED
        BY <4>1, <4>2, <4>3
    <3>4. i = n + 1 \/ i = n \/ i < n
      BY <1>2
    <3> QED
      BY <3>1, <3>2, <3>3, <3>4
  <2> HIDE DEF more
  <2> QED
    BY <1>2, <2>7, <2>8, <2>9 DEF SplitDone, Spells, Reaches, Cuts
<1> QED
  BY <1>1, <1>4, <1>5, <1>6 DEF SplitInv, SplitTail

LEMMA IterateSplits ==
  ASSUME ListInv, SplitInv, Iterate
  PROVE  SplitInv'
<1> DEFINE A == Argument
           n == Len(parts)
           k == Cut
           index == str_index_of(rest_of_path, "/")
           m == k + index + 1
           cut == IF index <= 0 THEN rest_of_path ELSE str_slice(rest_of_path, 0, index)
           node == [name |-> cut, next |-> Last, borrowed |-> FALSE]
<1>1. /\ Types /\ pc = "loop" /\ Chain(parts) /\ InLoop /\ UNCHANGED <<path, driver_no>>
  BY DEF ListInv, Iterate
<1>2. /\ k \in 0 .. Len(A) /\ rest_of_path = Behind(k) /\ (parts = <<>> <=> k = 0)
      /\ k = 0 \/ (NamesUpTo(k) /\ ~NoneBehind(k))
  BY <1>1 DEF InLoop
<1>3. /\ A \in Strings /\ Len(A) \in Nat /\ A' = A /\ rest_of_path \in Strings
      /\ parts \in Seq(Node) /\ n \in Nat /\ (parts = <<>> <=> n = 0)
  BY <1>1, ArgumentIs, NodesAre, EmptySeq DEF Types, Argument, NodesFacts
<1>4. \/ index = -1 /\ NoneBehind(k)
      \/ /\ index \in 0 .. (Len(A) - k - 1) /\ A[m] = "/"
         /\ \A i \in (k + 1) .. (k + index) : A[i] # "/"
         /\ Remaining(index) = Behind(m)
         /\ str_slice(rest_of_path, 0, index) = SubSeq(A, k + 1, m)
  BY <1>1, <1>2, Slices
<1>5. PICK ends : Spells(parts, A, ends) /\ Cuts(A, ends, n) /\ ends[n] = k
  BY <1>1 DEF SplitInv, SplitLoop
<1>6. parts' = LinkTo(parts, node)
  BY DEF Iterate
<1>7. WellFormed(A)' = WellFormed(A)
  BY <1>3 DEF WellFormed
<1> HIDE DEF A, n, k, index
<1>8. index \in Int
  BY <1>4
<1>9. CASE index <= 0
  <2>1. pc' = "tail" /\ rest_of_path' = <<>>
    <3>1. ~(index > 0)
      BY <1>8, <1>9
    <3> QED
      BY <3>1 DEF Iterate, FreedString, index
  <2> SUFFICES ASSUME WellFormed(A) PROVE SplitTail'
    BY <1>7, <2>1 DEF SplitInv, SplitLoop, SplitTail, SplitDone, A
  <2>2. index = -1 /\ NoneBehind(k)
    <3> SUFFICES ASSUME index = 0, index \in 0 .. (Len(A) - k - 1), A[m] = "/" PROVE FALSE
      BY <1>4, <1>9
    <3>1. m = k + 1 /\ k + 1 \in 1 .. Len(A) /\ k \in Nat
      BY <1>2, <1>3
    <3>2. A[1] # "/"
      BY DEF WellFormed
    <3>3. k # 0
      BY <3>1, <3>2
    <3>4. A[k] = "/" /\ k \in 1 .. (Len(A) - 1)
      BY <1>2, <1>3, <3>1, <3>3 DEF NamesUpTo, A
    <3> QED
      BY <3>1, <3>4 DEF WellFormed
  <2>3. k = 0 /\ n = 0
    BY <1>2, <1>3, <2>2
  <2>4. rest_of_path = A
    BY <1>2, <1>3, <2>3, SubSeqFull DEF Behind, Strings, A
  <2>5. Len(A) > 0
    BY <1>3, EmptySeq DEF WellFormed, Strings
  <2> DEFINE more == Further(ends, n, Len(A))
  <2>6. Spells(parts', A, more) /\ Len(parts') = 1
    <3>1. node \in Node /\ node.name = SubSeq(A, ends[n] + 1, Len(A))
      <4>1. node.name = rest_of_path
        BY <1>9
      <4>2. node \in Node
        BY <1>3, <1>9 DEF Node, Last
      <4>3. rest_of_path = SubSeq(A, ends[n] + 1, Len(A))
        BY <1>2, <1>5 DEF Behind, A
      <4> QED
        BY <4>1, <4>2, <4>3
    <3> HIDE DEF node
    <3>2. Len(A) \in 0 .. Len(A) /\ ends[n] < Len(A)
      BY <1>3, <1>5, <2>3, <2>5
    <3>3. Spells(parts', A, more)
      BY <1>3, <1>5, <1>6, <3>1, <3>2, SpellsMore DEF n
    <3>4. IsLinked(parts', parts, node)
      BY <1>3, <1>6, <3>1, Linking
    <3> QED
      BY <2>3, <3>3, <3>4 DEF IsLinked, n
  <2>7. Reaches(A, more, 1)
    <3>1. more[1] = Len(A) /\ more[0] = 0
      BY <1>5, <2>3 DEF Further
    <3> HIDE DEF more
    <3>2. \A j \in 1 .. Len(A) : A[j] # "/"
      BY <2>2, <2>3 DEF NoneBehind, A
    <3> QED
      BY <3>1, <3>2 DEF Reaches, Cuts
  <2> HIDE DEF more
  <2> QED
    BY <1>3, <2>1, <2>6, <2>7 DEF SplitTail, Spells, Reaches, Cuts, A
<1>10. CASE index > 0
  <2>1. /\ rest_of_path' = Remaining(index)
        /\ pc' = IF str_index_of(Remaining(index), "/") >= 0 THEN "loop" ELSE "tail"
    <3>1. ~(index <= 0)
      BY <1>8, <1>10
    <3> QED
      BY <3>1 DEF Iterate, index
  <2>2. /\ index \in 1 .. (Len(A) - k - 1) /\ A[m] = "/"
        /\ \A i \in (k + 1) .. (k + index) : A[i] # "/"
        /\ Remaining(index) = Behind(m)
        /\ str_slice(rest_of_path, 0, index) = SubSeq(A, k + 1, m)
    BY <1>4, <1>10
  <2>3. /\ m \in k .. Len(A) /\ m \in 1 .. Len(A) /\ m \in 0 .. Len(A) /\ k < m /\ k \in Nat
        /\ m - 1 = k + index
    BY <1>2, <1>3, <2>2
  <2> DEFINE more == Further(ends, n, m)
  <2>4. node \in Node /\ node.name = SubSeq(A, ends[n] + 1, m)
    <3>1. node.name = str_slice(rest_of_path, 0, index)
      BY <1>8, <1>10
    <3>2. node.name \in Strings
      BY <1>3, <2>2, <2>3, <3>1, Cutting
    <3>3. node \in Node
      BY <1>3, <3>2 DEF Node, Last, n
    <3> HIDE DEF node
    <3> QED
      BY <1>5, <2>2, <3>1, <3>3
  <2> HIDE DEF node, m
  <2>5. Spells(parts', A, more) /\ Len(parts') = n + 1
    <3>1. Spells(parts', A, more)
      BY <1>3, <1>5, <1>6, <2>3, <2>4, SpellsMore DEF n
    <3>2. IsLinked(parts', parts, node)
      BY <1>3, <1>6, <2>4, Linking
    <3> QED
      BY <3>1, <3>2 DEF IsLinked, n
  <2>6. Cuts(A, more, n + 1)
    <3>1. \A j \in (ends[n] + 1) .. (m - 1) : A[j] # "/"
      BY <1>5, <2>2, <2>3
    <3>2. n \in 0 .. n
      BY <1>3
    <3> QED
      BY <1>3, <1>5, <2>2, <3>1, <3>2, CutsMore
  <2>7. more[n + 1] = m
    BY <1>3 DEF Further
  <2> HIDE DEF more
  <2>8. CASE pc' = "loop"
    <3>1. Len(rest_of_path') = Len(A) - m
      <4>1. m \in Nat /\ Len(A) \in m .. Len(A)
        BY <1>3, <2>3
      <4> QED
        BY <1>3, <2>1, <2>2, <4>1, Cutting DEF Behind, A
    <3>2. Cut' = m
      BY <1>3, <2>3, <3>1 DEF Cut, A
    <3>3. SplitLoop'
      BY <1>3, <2>5, <2>6, <2>7, <3>2 DEF SplitLoop, Spells, Cuts, A
    <3> QED
      BY <2>8, <3>3 DEF SplitInv, SplitTail, SplitDone
  <2>9. CASE pc' = "tail"
    <3> SUFFICES ASSUME WellFormed(A) PROVE SplitTail'
      BY <1>7, <2>9 DEF SplitInv, SplitLoop, SplitTail, SplitDone, A
    <3>1. NoneBehind(m)
      <4>1. ~(str_index_of(Remaining(index), "/") >= 0)
        BY <2>1, <2>9
      <4>2. m \in Nat /\ Len(A) \in m .. Len(A)
        BY <1>3, <2>3
      <4>3. /\ Behind(m) \in Strings /\ Len(Behind(m)) = Len(A) - m
            /\ \A i \in 1 .. (Len(A) - m) : Behind(m)[i] = A[m + i]
        BY <1>3, <4>2, Cutting DEF Behind, A
      <4>4. \A i \in 1 .. (Len(A) - m) : Behind(m)[i] # "/"
        <5> DEFINE place == str_index_of(Behind(m), "/")
        <5>1. \/ place = -1 /\ \A i \in 1 .. Len(Behind(m)) : Behind(m)[i] # "/"
              \/ place \in 0 .. (Len(Behind(m)) - 1)
          BY <4>3, FirstPlace
        <5>2. ~(place >= 0)
          BY <2>2, <4>1
        <5> HIDE DEF place
        <5> QED
          BY <4>3, <5>1, <5>2
      <4>5. ASSUME NEW i \in (m + 1) .. Len(A) PROVE A[i] # "/"
        <5>1. i - m \in 1 .. (Len(A) - m) /\ m + (i - m) = i
          BY <1>3, <4>2
        <5> QED
          BY <4>3, <4>4, <5>1
      <4> QED
        BY <4>5 DEF NoneBehind, A
    <3>2. m < Len(A)
      <4>1. m # Len(A)
        BY <2>2 DEF WellFormed
      <4> QED
        BY <1>3, <2>3, <4>1
    <3>3. PICK table : table = more
      OBVIOUS
    <3>4. PICK end : end = m
      OBVIOUS
    <3>5. Spells(parts, Argument, table)' /\ Cuts(Argument, table, Len(parts))'
      BY <1>3, <2>5, <2>6, <3>3 DEF Spells, Cuts, A
    <3>6. table[Len(parts')] = end /\ end < Len(Argument')
      BY <1>3, <2>5, <2>7, <3>2, <3>3, <3>4 DEF A
    <3>7. rest_of_path' = Behind(end)' /\ NoneBehind(end)'
      BY <1>3, <2>1, <2>2, <3>1, <3>4 DEF Behind, NoneBehind, A
    <3> QED
      BY <3>5, <3>6, <3>7 DEF SplitTail
  <2> QED
    BY <2>1, <2>8, <2>9
<1>11. index <= 0 \/ index > 0
  BY <1>8
<1> QED
  BY <1>9, <1>10, <1>11

LEMMA NextSplits == ASSUME ListInv, SplitInv, [Next]_vars PROVE SplitInv'
<1>1. CASE UNCHANGED vars
  <2>1. /\ UNCHANGED <<pc, parts, rest_of_path>> /\ Argument' = Argument /\ Cut' = Cut
    BY <1>1 DEF vars, Argument, Cut
  <2>2. SplitLoop'
    BY <2>1 DEF SplitInv, SplitLoop, Spells, Cuts
  <2>3. SplitTail'
    BY <2>1 DEF SplitInv, SplitTail, Spells, Cuts, Reaches, WellFormed, Behind, NoneBehind
  <2>4. SplitDone'
    BY <2>1 DEF SplitInv, SplitDone, Spells, Cuts, Reaches, WellFormed
  <2> QED
    BY <2>2, <2>3, <2>4 DEF SplitInv
<1> QED
  BY <1>1, BeginSplits, IterateSplits, FinishSplits DEF Next

(***************************************************************************)
(* A path of any length without empty segments becomes the list of its     *)
(* segments, in order and linked up to NULL, each but the last with the    *)
(* separator behind it.                                                    *)
(***************************************************************************)
THEOREM PathsAreSplit == Spec => []WellFormedPathIsSplit
<1>1. Init => SplitInv
  BY DEF Init, SplitInv, SplitLoop, SplitTail, SplitDone
<1>2. ListInv /\ SplitInv => WellFormedPathIsSplit
  <2> SUFFICES ASSUME ListInv, SplitInv, pc = "done", WellFormed(Argument)
               PROVE  WellFormedPathIsSplit
    BY DEF WellFormedPathIsSplit
  <2> QED
    BY SplitIs DEF ListInv, SplitInv, SplitDone
<1> QED
  BY <1>1, <1>2, InitList, NextList, NextSplits, PTL DEF Spec

-----------------------------------------------------------------------------
(* Every pointer of a node is NULL or the number of a node. *)
PointersOK == \A i \in 1 .. Len(parts) : parts[i].next \in {NULL} \cup 1 .. Len(parts)

LEMMA PointersStay ==
  ASSUME Types, PointersOK, NEW node \in Node, parts' = LinkTo(parts, node),
         node.next \in {NULL} \cup 1 .. (Len(parts) + 1)
  PROVE  PointersOK'
<1> DEFINE n == Len(parts)
<1>1. n \in Nat /\ \A i \in 1 .. n : parts[i] \in Node /\ parts[i].next \in {NULL} \cup 1 .. n
  BY NodesAre DEF Types, NodesFacts, PointersOK
<1>2. /\ Len(parts') = n + 1 /\ parts'[n + 1] = node
      /\ \A i \in 1 .. n :
           parts'[i] = IF i = n THEN [parts[i] EXCEPT !.next = n + 1] ELSE parts[i]
  <2>1. IsLinked(parts', parts, node)
    BY Linking DEF Types
  <2> QED
    BY <2>1, Zenon DEF IsLinked
<1>3. node.next \in {NULL} \cup 1 .. (n + 1)
  OBVIOUS
<1> HIDE DEF n
<1>4. ASSUME NEW i \in 1 .. (n + 1) PROVE parts'[i].next \in {NULL} \cup 1 .. (n + 1)
  <2>1. CASE i = n + 1
    BY <1>2, <1>3, <2>1
  <2>2. CASE i \in 1 .. n
    <3>1. parts'[i] = [parts[i] EXCEPT !.next = n + 1] \/ parts'[i] = parts[i]
      BY <1>2, <2>2
    <3>2. parts[i] \in Node /\ parts[i].next \in {NULL} \cup 1 .. (n + 1)
      BY <1>1, <2>2
    <3> QED
      BY <1>1, <3>1, <3>2 DEF Node
  <2> QED
    BY <1>1, <2>1, <2>2
<1> QED
  BY <1>2, <1>4 DEF PointersOK

LEMMA NextPointers == ASSUME ListInv, PointersOK, [Next]_vars PROVE PointersOK'
<1>1. Types /\ rest_of_path \in Strings /\ parts \in Seq(Node) /\ Len(parts) \in Nat
      /\ (parts = <<>> <=> Len(parts) = 0)
  BY NodesAre, EmptySeq DEF ListInv, Types, NodesFacts
<1>2. CASE parts' = parts
  BY <1>2 DEF PointersOK
<1>3. CASE Iterate
  <2>1. PICK cut : parts' = LinkTo(parts, [name |-> cut, next |-> Last, borrowed |-> FALSE])
    BY <1>3 DEF Iterate
  <2> DEFINE node == [name |-> cut, next |-> Last, borrowed |-> FALSE]
  <2>2. Types'
    BY <1>3, NextList DEF ListInv
  <2>3. node \in Node
    <3>1. parts'[Len(parts) + 1] = node /\ Len(parts') = Len(parts) + 1
      BY <1>1, <2>1 DEF LinkTo
    <3>2. Len(parts) + 1 \in 1 .. Len(parts')
      BY <1>1, <3>1
    <3> QED
      BY <2>2, <3>1, <3>2, NodesAre DEF Types, NodesFacts
  <2>4. node.next \in {NULL} \cup 1 .. (Len(parts) + 1)
    BY <1>1 DEF Last
  <2> HIDE DEF node
  <2> QED
    BY <1>1, <2>1, <2>3, <2>4, PointersStay DEF node
<1>4. CASE Finish /\ Len(rest_of_path) > 0
  <2> DEFINE node == [name |-> rest_of_path, next |-> NULL, borrowed |-> TRUE]
  <2>1. parts' = LinkTo(parts, node)
    BY <1>4 DEF Finish
  <2>2. node \in Node /\ node.next = NULL
    BY <1>1 DEF Node
  <2> HIDE DEF node
  <2> QED
    BY <1>1, <2>1, <2>2, PointersStay
<1> QED
  BY <1>2, <1>3, <1>4 DEF Next, Begin, Finish, vars

(***************************************************************************)
(* Type correctness: path_parser_parse_path leaves no pointer but to nodes *)
(* of its list, and NULL.                                                  *)
(***************************************************************************)
THEOREM PathTypes == Spec => []TypeOK
<1>1. Init => PointersOK
  <2>1. Len(<<>>) = 0
    BY EmptySeq
  <2> QED
    BY <2>1 DEF Init, PointersOK
<1>2. ListInv /\ PointersOK => TypeOK
  <2> SUFFICES ASSUME ListInv, PointersOK PROVE TypeOK
    OBVIOUS
  <2>1. Types /\ DOMAIN parts = 1 .. Len(parts) /\ \A i \in 1 .. Len(parts) : parts[i] \in Node
    BY NodesAre DEF ListInv, Types, NodesFacts
  <2> QED
    BY <2>1 DEF Types, TypeOK, Node, PointersOK, Pointer, Strings
<1> QED
  BY <1>1, <1>2, InitList, NextList, NextPointers, PTL DEF Spec
=============================================================================
