----------------------------- MODULE PathParser -----------------------------
(***************************************************************************)
(* path_parser_parse_path of src/src/lib/fs/path_parser.c: the do-while    *)
(* that cuts a path into a linked list of parts, one step an iteration,    *)
(* with the str_slice, str_index_of and str_copy of src/src/lib/string.c   *)
(* that it is built from, and the str_icmp that the names are looked up    *)
(* with.  A part is a node of the list; its name is a string, and the      *)
(* buffer it lies in may be the one that the loop frees.                   *)
(***************************************************************************)
EXTENDS Integers, Sequences, FiniteSets

CONSTANTS
  MaxPathSize,   \* KERNEL_MAX_PATH_SIZE
  Digits,        \* characters that is_digit accepts
  Letters,       \* characters of names
  Prefixes,      \* what callers begin paths with
  Code,          \* the signed 8-bit code of each character
  MaxRest,       \* bound: the length of what follows
  NULL

Characters == Digits \cup Letters \cup {":", "/"}

ASSUME PathAssumption ==
  /\ MaxPathSize \in Nat /\ MaxRest \in Nat
  /\ Code \in [Characters -> -128 .. 127]
  /\ \A c, d \in Characters : Code[c] = Code[d] => c = d
  /\ \A prefix \in Prefixes :
       /\ prefix \in Seq(Characters)
       /\ Len(prefix) + MaxRest < 2^16      \* strlen counts in a uint16_t
  /\ NULL \notin Nat                       \* no number of a node

VARIABLES
  pc,              \* "start", "loop", "tail", "done" or "refused"
  path,            \* the argument
  rest_of_path,    \* what the loop has not cut up yet
  rest_freed,      \* rest_of_path points to a block that was freed
  parts,           \* the nodes in the order they were allocated
  driver_no        \* root->driver_no

vars == <<pc, path, rest_of_path, rest_freed, parts, driver_no>>

Rests == UNION {[1 .. n -> Letters \cup {"/"}] : n \in 0 .. MaxRest}

(* NULL, or the number of a node. *)
Pointer == {NULL} \cup 1 .. Len(parts)

-----------------------------------------------------------------------------
(***************************************************************************)
(* Strings, without the NUL at their end.                                  *)
(***************************************************************************)

(* Mutant of str_index_of: the search goes on to the last place. *)
str_index_of_Last(str, needle) ==
  IF \A i \in DOMAIN str : str[i] # needle THEN -1
  ELSE (CHOOSE i \in DOMAIN str :
          str[i] = needle /\ \A j \in (i + 1) .. Len(str) : str[j] # needle) - 1

(* str_index_of: the first place of the character, from 0, or -1. *)
str_index_of(str, needle) ==
  IF \A i \in DOMAIN str : str[i] # needle THEN -1
  ELSE (CHOOSE i \in DOMAIN str :
          str[i] = needle /\ \A j \in 1 .. (i - 1) : str[j] # needle) - 1

(* str_slice takes the character at the end as well. *)
str_slice(str, start, end) ==
  SubSeq(str, start + 1, IF end < Len(str) THEN end + 1 ELSE Len(str))

(* A value stored in a char. *)
Char(n) == ((n + 128) % 256) - 128

(* Mutant of str_to_lower: it moves lower-case letters too. *)
str_to_lower_Always(c) == Char(Code[c] + 32)

(***************************************************************************)
(* str_to_lower.  Its second test asks for a code below 65 and above 90,   *)
(* so that digits and all other characters are moved up by 32 as well, and *)
(* wrap round in a char.                                                   *)
(***************************************************************************)
str_to_lower(c) ==
  IF Code[c] \in 97 .. 122 THEN Code[c] ELSE Char(Code[c] + 32)

Sign(n) == IF n > 0 THEN 1 ELSE IF n < 0 THEN -1 ELSE 0

(* str_icmp: by length first, then by the first character that differs. *)
str_icmp(str1, str2) ==
  LET Difference(i) == str_to_lower(str1[i]) - str_to_lower(str2[i])
      differ == {i \in DOMAIN str1 : Difference(i) # 0}
  IN  IF Len(str1) # Len(str2) THEN Sign(Len(str1) - Len(str2))
      ELSE IF differ = {} THEN 0
      ELSE Sign(Difference(CHOOSE i \in differ : \A j \in differ : i <= j))

path_parser_is_path_valid ==
  /\ Len(path) <= MaxPathSize
  /\ path # <<>>
  /\ path[1] \in Digits
  /\ str_slice(path, 1, 2) = <<":", "/">>

-----------------------------------------------------------------------------
Init ==
  /\ pc = "start"
  /\ path \in {prefix \o rest : prefix \in Prefixes, rest \in Rests}
  /\ rest_of_path = <<>>
  /\ rest_freed = FALSE
  /\ parts = <<>>
  /\ driver_no = NULL

Begin ==
  /\ pc = "start"
  /\ IF path_parser_is_path_valid
       THEN /\ pc' = "loop"
            /\ driver_no' = path[1]
            /\ rest_of_path' = str_slice(path, 3, Len(path))
       ELSE /\ pc' = "refused"
            /\ UNCHANGED <<driver_no, rest_of_path>>
  /\ UNCHANGED <<path, rest_freed, parts>>

(* Mutant of FreedString: free leaves the bytes as they are. *)
FreedString_Kept(str) == str

(* free clears the block, so that a freed string reads as empty. *)
FreedString(str) == <<>>

(* Mutant of LinkTo: the predecessor is not linked to the new node. *)
LinkTo_OneWay(nodes, node) == Append(nodes, node)

(***************************************************************************)
(* The new node points back to its predecessor until the next iteration,   *)
(* or the branch behind the loop, gives it a successor.                    *)
(***************************************************************************)
LinkTo(nodes, node) ==
  LET previous == Len(nodes)
  IN  Append([i \in 1 .. previous |->
                IF i = previous THEN [nodes[i] EXCEPT !.next = previous + 1]
                                ELSE nodes[i]],
             node)

Last == IF parts = <<>> THEN NULL ELSE Len(parts)

(* Mutant of Remaining: the loop goes on with the old string. *)
Remaining_Kept(separator_index) == rest_of_path

Remaining(separator_index) ==
  str_slice(rest_of_path, separator_index + 1, Len(rest_of_path))

Iterate ==
  LET separator_index == str_index_of(rest_of_path, "/")
      name  == IF separator_index <= 0 THEN rest_of_path
               ELSE str_slice(rest_of_path, 0, separator_index)
      after == Remaining(separator_index)
  IN  /\ pc = "loop"
      /\ parts' = LinkTo(parts, [name |-> name, next |-> Last, borrowed |-> FALSE])
      /\ \/ /\ separator_index <= 0
            /\ rest_of_path' = FreedString(rest_of_path)
            /\ rest_freed' = TRUE
            /\ pc' = "tail"
         \/ /\ separator_index > 0
            /\ rest_of_path' = after
            /\ pc' = IF str_index_of(after, "/") >= 0 THEN "loop" ELSE "tail"
            /\ UNCHANGED rest_freed
      /\ UNCHANGED <<path, driver_no>>

(* What is left becomes the last part, with rest_of_path itself as its name. *)
Finish ==
  /\ pc = "tail"
  /\ pc' = "done"
  /\ parts' = IF Len(rest_of_path) > 0
                THEN LinkTo(parts, [name |-> rest_of_path, next |-> NULL,
                                    borrowed |-> TRUE])
                ELSE parts
  /\ UNCHANGED <<path, rest_of_path, rest_freed, driver_no>>

Next == Begin \/ Iterate \/ Finish

Spec == Init /\ [][Next]_vars

-----------------------------------------------------------------------------
(* Type correctness of the list under construction. *)
TypeOK ==
  /\ pc \in {"start", "loop", "tail", "done", "refused"}
  /\ path \in Seq(Characters) /\ rest_of_path \in Seq(Characters)
  /\ rest_freed \in BOOLEAN
  /\ driver_no \in Digits \cup {NULL}
  /\ \A i \in DOMAIN parts :
       /\ parts[i].name \in Seq(Characters)
       /\ parts[i].next \in Pointer
       /\ parts[i].borrowed \in BOOLEAN

(***************************************************************************)
(* The reference: a path cut at its separators.                            *)
(***************************************************************************)
Argument == SubSeq(path, 4, Len(path))

Separators(str) == {i \in DOMAIN str : str[i] = "/"}

WellFormed(str) ==
  /\ str # <<>>
  /\ str[1] # "/" /\ str[Len(str)] # "/"
  /\ \A i \in 1 .. (Len(str) - 1) : str[i] = "/" => str[i + 1] # "/"

(* Where segment number i of str begins and ends, separator excluded. *)
SegmentBounds(str, first, last) ==
  /\ first <= last + 1
  /\ first = 1 \/ str[first - 1] = "/"
  /\ last = Len(str) \/ str[last + 1] = "/"
  /\ \A i \in first .. last : str[i] # "/"

(***************************************************************************)
(* A path without empty segments becomes the list of its segments, in      *)
(* order, from the first node to NULL; but every name except the last      *)
(* ends in the separator, which no name in a FAT directory does.           *)
(***************************************************************************)
WellFormedPathIsSplit ==
  pc = "done" /\ WellFormed(Argument) =>
    LET n == Len(parts)
        Joined[i \in 0 .. n] == IF i = 0 THEN <<>> ELSE Joined[i - 1] \o parts[i].name
    IN  /\ Joined[n] = Argument
        /\ \A i \in 1 .. n :
             LET first == Len(Joined[i - 1]) + 1
                 last  == Len(Joined[i]) - (IF i = n THEN 0 ELSE 1)
             IN  SegmentBounds(Argument, first, last)
        /\ \A i \in 1 .. n : parts[i].next = IF i = n THEN NULL ELSE i + 1

(***************************************************************************)
(* Which paths the loop turns into a list without an end: the ones that    *)
(* begin with a name and have an empty segment behind it, other than a     *)
(* single separator at the very end.  Their last two nodes point to each   *)
(* other, so that path_parser_free_part and any walk along next would      *)
(* never come back.                                                        *)
(***************************************************************************)
Endless(str) ==
  /\ str # <<>> /\ str[1] # "/"
  /\ \/ \E i \in 1 .. (Len(str) - 1) : str[i] = "/" /\ str[i + 1] = "/"
     \/ str[Len(str)] = "/" /\ \E i \in 1 .. (Len(str) - 1) : str[i] = "/"

ListIsEndlessExactlyFor ==
  pc = "done" =>
    (Endless(Argument) <=> \A i \in DOMAIN parts : parts[i].next # NULL)

(***************************************************************************)
(* fat16_find_item_in_directory looks for a name with str_icmp.  Although  *)
(* str_to_lower changes characters that have no case, it finds exactly the *)
(* names that agree up to the case of the letters A to Z: no two others    *)
(* become the same, and which is the larger does not depend on the order   *)
(* in which they are compared.                                             *)
(***************************************************************************)
WithoutCase(c) == IF Code[c] \in 97 .. 122 THEN Code[c] - 32 ELSE Code[c]

NamesCompareWithoutCase ==
  pc = "done" =>
    \A i, j \in DOMAIN parts :
      LET str1 == parts[i].name
          str2 == parts[j].name
      IN  /\ str_icmp(str1, str2) = - str_icmp(str2, str1)
          /\ str_icmp(str1, str2) = 0 <=>
               /\ Len(str1) = Len(str2)
               /\ \A k \in DOMAIN str1 : WithoutCase(str1[k]) = WithoutCase(str2[k])

(***************************************************************************)
(* No name in the list lies in a block that was freed, although the branch *)
(* behind the loop looks at rest_of_path after the loop has freed it.      *)
(***************************************************************************)
NoNameIsFreed ==
  \A i \in DOMAIN parts : parts[i].borrowed => ~rest_freed

(***************************************************************************)
(* The loop comes to an end for every path, one with empty segments too:   *)
(* an iteration leaves the loop or a shorter path, so that there are never *)
(* more nodes than separators and one.                                     *)
(***************************************************************************)
IterationsShrinkThePath ==
  [][pc = "loop" =>
       /\ pc' = "loop" => Len(rest_of_path') < Len(rest_of_path)
       /\ Len(parts') <= Cardinality(Separators(Argument)) + 1]_vars
=============================================================================
