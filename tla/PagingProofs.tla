----------------------------- MODULE PagingProofs -----------------------------
(***************************************************************************)
(* Theorems about Paging, for tables of every size, every place of the     *)
(* directory and of each table, and any number of calls and of kept        *)
(* translations.                                                           *)
(***************************************************************************)
EXTENDS Paging, TLAPS

(***************************************************************************)
(* The directory and the tables as the code built them and as paging_set   *)
(* was told.                                                               *)
(***************************************************************************)
TablesAgree ==
  /\ \A i \in 0 .. (Entries - 1) :
       mem[WordOf(DirectoryFrame, i)] = Present(TableFrame(i))
  /\ \A page \in Frames :
       mem[WordOf(TableFrame(page \div Entries), page % Entries)] = given[page]

(* Nobody wrote to frame 0. *)
FrameZeroIsJunk == \A i \in 0 .. (Entries - 1) : mem[WordOf(0, i)] = Junk

(* Types of what the argument reads. *)
PagingTypes ==
  /\ mode \in {"boot", "run", "wild"}
  /\ mem \in [Words -> Entry \cup {Junk}]
  /\ cr3 \in {0, DirectoryFrame}
  /\ paging \in BOOLEAN
  /\ given \in [Frames -> Entry]
  /\ recent \in [Frames -> SUBSET Entry]
  /\ moved \in BOOLEAN

(* Paging is on only with the directory's address in cr3. *)
Running ==
  /\ TablesAgree
  /\ FrameZeroIsJunk
  /\ \A page \in Frames : given[page] \in recent[page]
  /\ \A page \in Structures :
       given[page] = Present(page) /\ recent[page] = {Present(page)}
  /\ paging => cr3 = DirectoryFrame
  /\ \A page \in DOMAIN tlb : page \in Frames => tlb[page] \in recent[page]

Booting ==
  /\ ~paging /\ cr3 = 0 /\ tlb = <<>> /\ ~moved
  /\ mem = [w \in Words |-> Junk]
  /\ given = [page \in Frames |-> Present(page)]
  /\ recent = [page \in Frames |-> {Present(page)}]

PagingInv ==
  /\ PagingTypes
  /\ mode = "boot" => Booting
  /\ mode = "run" /\ ~moved => Running

-----------------------------------------------------------------------------
(* Quotients and remainders. *)
LEMMA ProductInNat == \A m, n \in Nat : m * n \in Nat
  OBVIOUS

LEMMA Distributes == \A a, b, c \in Nat : (a + b) * c = a * c + b * c
  OBVIOUS

LEMMA DivisionFacts ==
  ASSUME NEW n \in Nat, NEW d \in Nat \ {0}
  PROVE  /\ n \div d \in Nat /\ n % d \in Nat
         /\ n % d < d
         /\ n = (n \div d) * d + (n % d)
  OBVIOUS

LEMMA Monotone == ASSUME NEW a \in Nat, NEW b \in Nat, NEW d \in Nat, a <= b
                  PROVE  a * d <= b * d
<1>1. b - a \in Nat /\ a + (b - a) = b
  OBVIOUS
<1>2. b * d = a * d + (b - a) * d
  BY <1>1, Distributes
<1>3. (b - a) * d \in Nat /\ a * d \in Nat
  BY <1>1, ProductInNat
<1> QED
  BY <1>2, <1>3

LEMMA Uniqueness ==
  ASSUME NEW q1 \in Nat, NEW q2 \in Nat, NEW d \in Nat \ {0},
         NEW r1 \in Nat, NEW r2 \in Nat, r1 < d, r2 < d,
         q1 * d + r1 = q2 * d + r2
  PROVE  q1 = q2 /\ r1 = r2
<1>1. ASSUME NEW p \in Nat, NEW q \in Nat, NEW r \in Nat, NEW s \in Nat, r < d, s < d,
             p * d + r = q * d + s, p + 1 <= q
      PROVE  FALSE
  <2>1. (p + 1) * d <= q * d
    BY <1>1, Monotone
  <2>2. (p + 1) * d = p * d + 1 * d /\ 1 * d = d
    BY Distributes
  <2>3. p * d \in Nat /\ q * d \in Nat
    BY ProductInNat
  <2> QED
    BY <1>1, <2>1, <2>2, <2>3
<1>2. ~(q1 + 1 <= q2) /\ ~(q2 + 1 <= q1)
  BY <1>1
<1>3. q1 = q2
  BY <1>2
<1>4. q1 * d \in Nat
  BY ProductInNat
<1> QED
  BY <1>3, <1>4

LEMMA DivModOf ==
  ASSUME NEW q \in Nat, NEW d \in Nat \ {0}, NEW r \in Nat, r < d
  PROVE  (q * d + r) \div d = q /\ (q * d + r) % d = r
<1> DEFINE n == q * d + r
<1>1. n \in Nat
  BY ProductInNat
<1> HIDE DEF n
<1>2. n \div d \in Nat /\ n % d \in Nat /\ n % d < d /\ n = (n \div d) * d + (n % d)
  BY <1>1, DivisionFacts
<1>3. n = q * d + r
  BY DEF n
<1>4. n \div d = q /\ n % d = r
  BY <1>2, <1>3, Uniqueness
<1> QED
  BY <1>3, <1>4

-----------------------------------------------------------------------------
(***************************************************************************)
(* Words and frames.                                                       *)
(***************************************************************************)
LEMMA SizeFacts ==
  /\ Entries \in Nat \ {0}
  /\ Entries * Entries \in Nat \ {0}
  /\ Frames \subseteq Nat
  /\ Structures \subseteq Frames
  /\ 0 \in Frames /\ 0 \notin Structures
<1>1. Entries \in Nat \ {0}
  BY PagingAssumption
<1>2. Entries * Entries \in Nat /\ Entries * Entries # 0
  BY <1>1
<1>3. Structures \subseteq Frames \ {0}
  BY PagingAssumption DEF Structures, TableFrame
<1> QED
  BY <1>1, <1>2, <1>3 DEF Frames

LEMMA PlacesInTables ==
  ASSUME NEW page \in Frames
  PROVE  /\ page \div Entries \in Indexes /\ page % Entries \in Indexes
         /\ page = (page \div Entries) * Entries + (page % Entries)
<1> DEFINE q == page \div Entries
           r == page % Entries
<1>1. /\ page \in Nat /\ page < Entries * Entries
      /\ q \in Nat /\ r \in Nat /\ r < Entries /\ page = q * Entries + r
  BY SizeFacts, DivisionFacts DEF Frames
<1> HIDE DEF q, r
<1>2. q < Entries
  <2>1. CASE Entries <= q
    <3>1. Entries * Entries <= q * Entries
      BY <1>1, <2>1, Monotone, SizeFacts
    <3>2. q * Entries \in Nat
      BY <1>1, ProductInNat, SizeFacts
    <3> QED
      BY <1>1, <3>1, <3>2, SizeFacts
  <2> QED
    BY <1>1, <2>1, SizeFacts
<1>3. q \in Indexes /\ r \in Indexes
  BY <1>1, <1>2, SizeFacts DEF Indexes
<1> QED
  BY <1>1, <1>3 DEF q, r

LEMMA PlaceIsPage ==
  ASSUME NEW q \in Indexes, NEW r \in Indexes
  PROVE  /\ q * Entries + r \in Frames
         /\ (q * Entries + r) \div Entries = q /\ (q * Entries + r) % Entries = r
<1>1. q \in Nat /\ r \in Nat /\ q + 1 <= Entries /\ r < Entries
  BY SizeFacts DEF Indexes
<1>2. (q + 1) * Entries <= Entries * Entries
  BY <1>1, Monotone, SizeFacts
<1>3. (q + 1) * Entries = q * Entries + 1 * Entries /\ 1 * Entries = Entries
  BY <1>1, Distributes, SizeFacts
<1>4. q * Entries \in Nat
  BY <1>1, ProductInNat, SizeFacts
<1>5. q * Entries + r \in Frames
  BY <1>1, <1>2, <1>3, <1>4, SizeFacts DEF Frames
<1> QED
  BY <1>1, <1>5, DivModOf, SizeFacts

LEMMA WordFacts ==
  ASSUME NEW frame \in Frames, NEW index \in Indexes
  PROVE  /\ WordOf(frame, index) \in Words
         /\ \A f \in Frames, i \in Indexes :
              WordOf(f, i) = WordOf(frame, index) => f = frame /\ i = index
         /\ WordOf(frame, index) \div Entries = frame
         /\ WordOf(frame, index) % Entries = index
<1>1. frame \in Nat /\ index \in Nat /\ index < Entries /\ frame + 1 <= Entries * Entries
  BY SizeFacts DEF Indexes, Frames
<1>2. (frame + 1) * Entries <= (Entries * Entries) * Entries
  BY <1>1, Monotone, SizeFacts
<1>3. (frame + 1) * Entries = frame * Entries + 1 * Entries /\ 1 * Entries = Entries
  BY <1>1, Distributes, SizeFacts
<1>4. frame * Entries \in Nat /\ (Entries * Entries) * Entries \in Nat
  BY <1>1, ProductInNat, SizeFacts
<1>5. WordOf(frame, index) \in Words
  BY <1>1, <1>2, <1>3, <1>4, SizeFacts DEF Words, WordOf
<1>6. ASSUME NEW f \in Frames, NEW i \in Indexes, WordOf(f, i) = WordOf(frame, index)
      PROVE  f = frame /\ i = index
  <2>1. f \in Nat /\ i \in Nat /\ i < Entries
    BY SizeFacts DEF Indexes
  <2> QED
    BY <1>1, <1>6, <2>1, Uniqueness, SizeFacts DEF WordOf
<1>7. WordOf(frame, index) \div Entries = frame /\ WordOf(frame, index) % Entries = index
  BY <1>1, DivModOf, SizeFacts DEF WordOf
<1> QED
  BY <1>5, <1>6, <1>7

LEMMA FrameFacts ==
  /\ DirectoryFrame \in Structures
  /\ \A i \in Indexes : TableFrame(i) \in Structures /\ TableFrame(i) # DirectoryFrame
                        /\ TableFrame(i) # 0 /\ TableAt(TableFrame(i)) = i
  /\ \A i, j \in Indexes : TableFrame(i) = TableFrame(j) => i = j
  /\ \A f \in Structures : f # DirectoryFrame => TableAt(f) \in Indexes
<1>1. \A i, j \in Indexes : TableFrame(i) = TableFrame(j) => i = j
  BY PagingAssumption DEF TableFrame
<1>2. \A i \in Indexes : TableFrame(i) \in Frames \ {0, DirectoryFrame}
  BY PagingAssumption DEF TableFrame
<1>3. ASSUME NEW i \in Indexes
      PROVE  TableAt(TableFrame(i)) = i
  <2>1. TableAt(TableFrame(i)) \in Indexes /\ TableFrame(TableAt(TableFrame(i))) = TableFrame(i)
    BY DEF TableAt
  <2> QED
    BY <1>1, <2>1
<1>4. ASSUME NEW f \in Structures, f # DirectoryFrame
      PROVE  TableAt(f) \in Indexes
  <2>1. PICK i \in Indexes : f = TableFrame(i)
    BY <1>4 DEF Structures
  <2> QED
    BY <1>3, <2>1
<1> QED
  BY <1>1, <1>2, <1>3, <1>4 DEF Structures

LEMMA PresentFacts ==
  ASSUME NEW frame \in Frames
  PROVE  Present(frame) \in Entry /\ Present(frame) # Junk
         /\ Present(frame).present /\ Present(frame).frame = frame
<1>1. Present(frame) \in Entry
  BY DEF Present, Entry
<1>2. Present(frame) # Junk
  BY <1>1, PagingAssumption
<1> QED
  BY <1>1, <1>2 DEF Present

-----------------------------------------------------------------------------
(***************************************************************************)
(* What the processor finds.                                               *)
(***************************************************************************)
LEMMA WalkAgrees ==
  ASSUME PagingTypes, TablesAgree, cr3 = DirectoryFrame, NEW page \in Frames
  PROVE  Walk(page) = given[page]
<1> DEFINE i == page \div Entries
<1>1. i \in Indexes
  BY PlacesInTables
<1>2. TableFrame(i) \in Frames
  BY <1>1, FrameFacts, SizeFacts
<1>3. Load(cr3, i) = Present(TableFrame(i))
  BY <1>1, <1>2, PresentFacts DEF Load, TablesAgree, Indexes
<1>4. given[page] \in Entry /\ given[page] # Junk
  BY PagingAssumption DEF PagingTypes
<1>5. Load(TableFrame(i), page % Entries) = given[page]
  BY <1>4 DEF Load, TablesAgree
<1> QED
  BY <1>2, <1>3, <1>5, PresentFacts DEF Walk

LEMMA TranslateAgrees ==
  ASSUME PagingTypes, Running, NEW page \in Frames
  PROVE  /\ paging => Translate(page) \in recent[page]
         /\ page \in Structures => Translate(page) = Present(page)
<1>1. paging => Walk(page) = given[page]
  BY WalkAgrees DEF Running
<1>2. paging => Translate(page) \in recent[page]
  BY <1>1 DEF Translate, Running
<1> QED
  BY <1>2 DEF Translate, Running

-----------------------------------------------------------------------------
(***************************************************************************)
(* The steps.                                                              *)
(***************************************************************************)
LEMMA InitPagingInv == Init => PagingInv
<1> SUFFICES ASSUME Init PROVE PagingInv
  OBVIOUS
<1>1. given \in [Frames -> Entry] /\ recent \in [Frames -> SUBSET Entry]
  BY PresentFacts DEF Init
<1> QED
  BY <1>1 DEF Init, PagingInv, PagingTypes, Booting

LEMMA CreateKeeps ==
  ASSUME PagingInv, paging_create_chunk
  PROVE  PagingInv'
<1>1. /\ Booting /\ PagingTypes /\ mode' = "run"
      /\ UNCHANGED <<cr3, paging, tlb, sets, given, recent, moved>>
  BY DEF paging_create_chunk, PagingInv, hardwareVars, observations
<1> DEFINE built(w) == IF w \div Entries = DirectoryFrame
                         THEN Present(TableFrame(w % Entries))
                       ELSE IF w \div Entries \in Structures
                         THEN Present(TableAt(w \div Entries) * Entries + (w % Entries))
                       ELSE mem[w]
<1>2. mem' = [w \in Words |-> built(w)]
  BY DEF paging_create_chunk
<1>3. ASSUME NEW w \in Words
      PROVE  w % Entries \in Indexes
  <2>1. w \in Nat
    BY <1>3, SizeFacts DEF Words
  <2> QED
    BY <2>1, DivisionFacts, SizeFacts DEF Indexes
<1>4. ASSUME NEW w \in Words
      PROVE  built(w) \in Entry \cup {Junk}
  <2>1. CASE w \div Entries = DirectoryFrame
    BY <1>3, <2>1, FrameFacts, PresentFacts, SizeFacts
  <2>2. CASE w \div Entries # DirectoryFrame /\ w \div Entries \in Structures
    <3>1. TableAt(w \div Entries) \in Indexes
      BY <2>2, FrameFacts
    <3>2. TableAt(w \div Entries) * Entries + (w % Entries) \in Frames
      BY <1>3, <3>1, PlaceIsPage
    <3> QED
      BY <2>2, <3>2, PresentFacts
  <2>3. CASE w \div Entries # DirectoryFrame /\ w \div Entries \notin Structures
    BY <1>1, <2>3 DEF PagingTypes
  <2> QED
    BY <2>1, <2>2, <2>3
<1>5. PagingTypes'
  BY <1>1, <1>2, <1>4 DEF PagingTypes
<1>6. ASSUME NEW i \in 0 .. (Entries - 1)
      PROVE  mem'[WordOf(DirectoryFrame, i)] = Present(TableFrame(i))
  <2>1. i \in Indexes /\ DirectoryFrame \in Frames
    BY FrameFacts, SizeFacts DEF Indexes
  <2>2. /\ WordOf(DirectoryFrame, i) \in Words
        /\ WordOf(DirectoryFrame, i) \div Entries = DirectoryFrame
        /\ WordOf(DirectoryFrame, i) % Entries = i
    BY <2>1, WordFacts
  <2> QED
    BY <1>2, <2>2
<1>7. ASSUME NEW page \in Frames
      PROVE  mem'[WordOf(TableFrame(page \div Entries), page % Entries)] = given'[page]
  <2> DEFINE i == page \div Entries
             j == page % Entries
             w == WordOf(TableFrame(i), j)
  <2>1. i \in Indexes /\ j \in Indexes /\ page = i * Entries + j
    BY PlacesInTables
  <2> HIDE DEF i, j
  <2>2. TableFrame(i) \in Frames /\ TableFrame(i) \in Structures
        /\ TableFrame(i) # DirectoryFrame
    BY <2>1, FrameFacts, SizeFacts
  <2>3. w \in Words /\ w \div Entries = TableFrame(i) /\ w % Entries = j
    BY <2>1, <2>2, WordFacts
  <2>4. TableAt(TableFrame(i)) = i
    BY <2>1, FrameFacts
  <2>5. mem'[w] = Present(i * Entries + j)
    BY <1>2, <2>2, <2>3, <2>4
  <2>6. given'[page] = Present(page)
    BY <1>1 DEF Booting
  <2> QED
    BY <2>1, <2>5, <2>6 DEF i, j
<1>8. TablesAgree'
  BY <1>6, <1>7 DEF TablesAgree, TableFrame, WordOf, Present
<1>9. FrameZeroIsJunk'
  <2>1. ASSUME NEW i \in 0 .. (Entries - 1)
        PROVE  mem'[WordOf(0, i)] = Junk
    <3>1. i \in Indexes
      BY DEF Indexes
    <3>2. WordOf(0, i) \in Words /\ WordOf(0, i) \div Entries = 0
      BY <3>1, WordFacts, SizeFacts
    <3>3. 0 \notin Structures
      BY SizeFacts
    <3>4. mem[WordOf(0, i)] = Junk
      BY <1>1, <3>2 DEF Booting
    <3> QED
      BY <1>2, <3>2, <3>3, <3>4, FrameFacts
  <2> QED
    BY <2>1 DEF FrameZeroIsJunk, WordOf
<1>10. /\ \A page \in Frames : given'[page] \in recent'[page]
       /\ \A page \in Structures :
            given'[page] = Present(page) /\ recent'[page] = {Present(page)}
       /\ ~paging' /\ tlb' = <<>>
  BY <1>1, SizeFacts DEF Booting
<1>11. Running'
  BY <1>8, <1>9, <1>10 DEF Running, Structures, Present
<1> QED
  BY <1>1, <1>5, <1>11 DEF PagingInv

LEMMA SwitchKeeps ==
  ASSUME PagingInv, paging_switch_directory
  PROVE  PagingInv'
<1>1. /\ PagingTypes /\ mode = "run"
      /\ cr3' = DirectoryFrame /\ tlb' = <<>>
      /\ recent' = [page \in Frames |-> {given[page]}]
      /\ UNCHANGED <<mode, mem, paging, given, moved>>
  BY DEF paging_switch_directory, PagingInv, Flushed
<1>2. PagingTypes'
  BY <1>1 DEF PagingTypes
<1>3. ASSUME ~moved
      PROVE  Running'
  <2>1. Running
    BY <1>1, <1>3 DEF PagingInv
  <2>2. TablesAgree' /\ FrameZeroIsJunk'
    BY <1>1, <2>1 DEF Running, TablesAgree, FrameZeroIsJunk, TableFrame,
                      WordOf, Present
  <2>3. \A page \in Structures :
          given'[page] = Present(page) /\ recent'[page] = {Present(page)}
    BY <1>1, <2>1, SizeFacts DEF Running
  <2> QED
    BY <1>1, <2>2, <2>3 DEF Running, Structures, Present
<1> QED
  BY <1>1, <1>2, <1>3 DEF PagingInv

LEMMA EnableKeeps ==
  ASSUME PagingInv, paging_enable_paging
  PROVE  PagingInv'
<1>1. /\ PagingTypes /\ mode = "run" /\ paging' = TRUE
      /\ mode' \in {"run", "wild"}
      /\ mode' = "run" => \A page \in KernelPages : Walk(page) = Present(page)
      /\ UNCHANGED <<mem, cr3, tlb, given, recent, moved>>
  BY DEF paging_enable_paging, PagingInv, observations
<1>2. PagingTypes'
  BY <1>1 DEF PagingTypes
<1>3. ASSUME ~moved, mode' = "run"
      PROVE  Running'
  <2>1. Running
    BY <1>1, <1>3 DEF PagingInv
  <2>2. cr3 = DirectoryFrame
    <3> SUFFICES ASSUME cr3 # DirectoryFrame PROVE FALSE
      OBVIOUS
    <3>1. cr3 = 0
      BY <1>1 DEF PagingTypes
    <3>2. PICK page \in KernelPages : TRUE
      BY PagingAssumption
    <3>3. page \in Frames
      BY <3>2, PagingAssumption
    <3>4. Load(0, page \div Entries) = Missing
      BY <2>1, <3>1, <3>3, PlacesInTables DEF Load, Running, FrameZeroIsJunk, Indexes
    <3>5. Walk(page) = Missing
      BY <3>1, <3>4 DEF Walk, Missing
    <3> QED
      BY <1>1, <1>3, <3>2, <3>5 DEF Missing, Present
  <2>3. TablesAgree' /\ FrameZeroIsJunk'
    BY <1>1, <2>1 DEF Running, TablesAgree, FrameZeroIsJunk, TableFrame,
                      WordOf, Present
  <2> QED
    BY <1>1, <2>1, <2>2, <2>3 DEF Running, Structures, Present
<1> QED
  BY <1>1, <1>2, <1>3 DEF PagingInv

(* The processor keeps or drops a translation. *)
LEMMA TlbKeeps ==
  ASSUME PagingInv, mode = "run",
         UNCHANGED <<mode, mem, cr3, paging, given, recent, moved>>,
         Running => \A page \in DOMAIN tlb' : page \in Frames => tlb'[page] \in recent[page]
  PROVE  PagingInv'
  BY DEF PagingInv, PagingTypes, Running, TablesAgree, FrameZeroIsJunk,
         TableFrame, Structures, WordOf, Present

LEMMA KeepKeeps ==
  ASSUME PagingInv, NEW page \in Frames, Keep(page)
  PROVE  PagingInv'
<1>1. /\ mode = "run" /\ paging
      /\ UNCHANGED <<mode, mem, cr3, paging, given, recent, moved>>
      /\ DOMAIN tlb' = DOMAIN tlb \cup {page}
      /\ tlb'[page] = Walk(page)
      /\ \A p \in DOMAIN tlb : p # page => tlb'[p] = tlb[p]
  BY DEF Keep, observations
<1>2. ASSUME Running
      PROVE  \A p \in DOMAIN tlb' : p \in Frames => tlb'[p] \in recent[p]
  <2>1. Walk(page) \in recent[page]
    BY <1>1, <1>2, WalkAgrees DEF Running, PagingInv
  <2> QED
    BY <1>1, <1>2, <2>1 DEF Running
<1> QED
  BY <1>1, <1>2, TlbKeeps

LEMMA DropKeeps ==
  ASSUME PagingInv, NEW page \in Frames, Drop(page)
  PROVE  PagingInv'
<1>1. /\ mode = "run"
      /\ UNCHANGED <<mode, mem, cr3, paging, given, recent, moved>>
      /\ DOMAIN tlb' \subseteq DOMAIN tlb
      /\ \A p \in DOMAIN tlb' : tlb'[p] = tlb[p]
  BY DEF Drop, observations, Restrict
<1> QED
  BY <1>1, TlbKeeps DEF Running

-----------------------------------------------------------------------------
(* Where paging_get_indexes leads for the address of a page. *)
LEMMA AddressFacts ==
  ASSUME NEW address \in Words
  PROVE  LET page == address \div Entries
             info == paging_get_indexes(address)
         IN  /\ page \in Frames
             /\ info.directory = page \div Entries
             /\ info.table = page % Entries
<1> DEFINE page == address \div Entries
           rest == address % Entries
           q == page \div Entries
           r == page % Entries
           E2 == Entries * Entries
<1>1. address \in Nat /\ address < E2 * Entries
  BY SizeFacts, ProductInNat DEF Words
<1>2. page \in Nat /\ rest \in Nat /\ rest < Entries /\ address = page * Entries + rest
  BY <1>1, DivisionFacts, SizeFacts
<1>3. E2 \in Nat \ {0} /\ Entries \in Nat \ {0}
  BY SizeFacts
<1>4. page \in Frames
  <2> HIDE DEF page, rest, E2
  <2>1. CASE E2 <= page
    <3>1. E2 * Entries <= page * Entries
      BY <1>2, <1>3, <2>1, Monotone
    <3>2. page * Entries \in Nat /\ E2 * Entries \in Nat
      BY <1>2, <1>3, ProductInNat
    <3> QED
      BY <1>1, <1>2, <3>1, <3>2
  <2>2. CASE page < E2
    BY <1>2, <1>3, <2>2 DEF Frames, E2
  <2> QED
    BY <1>2, <1>3, <2>1, <2>2
<1>5. q \in Nat /\ r \in Nat /\ r < Entries /\ q < Entries /\ page = q * Entries + r
  <2> HIDE DEF page
  <2>1. q \in Indexes /\ r \in Indexes /\ page = q * Entries + r
    BY <1>4, PlacesInTables
  <2> HIDE DEF q, r
  <2> QED
    BY <1>3, <2>1 DEF Indexes
<1> HIDE DEF page, rest, q, r
<1>6. address = q * E2 + (r * Entries + rest)
  <2>1. (q * Entries + r) * Entries = (q * Entries) * Entries + r * Entries
    BY <1>3, <1>5, ProductInNat, Distributes
  <2>2. (q * Entries) * Entries = q * E2
    BY <1>3, <1>5
  <2>3. q * E2 \in Nat /\ r * Entries \in Nat
    BY <1>3, <1>5, ProductInNat
  <2> HIDE DEF E2
  <2> QED
    BY <1>2, <1>5, <2>1, <2>2, <2>3
<1>7. r * Entries + rest \in Nat /\ r * Entries + rest < E2
  <2>1. (r + 1) * Entries <= E2
    BY <1>3, <1>5, Monotone
  <2>2. (r + 1) * Entries = r * Entries + 1 * Entries /\ 1 * Entries = Entries
    BY <1>3, <1>5, Distributes
  <2>3. r * Entries \in Nat
    BY <1>3, <1>5, ProductInNat
  <2> HIDE DEF E2
  <2> QED
    BY <1>2, <1>3, <2>1, <2>2, <2>3
<1>8. address \div E2 = q /\ address % E2 = r * Entries + rest
  <2> HIDE DEF E2
  <2> QED
    BY <1>3, <1>5, <1>6, <1>7, DivModOf
<1>9. (r * Entries + rest) \div Entries = r
  BY <1>2, <1>3, <1>5, DivModOf
<1> QED
  BY <1>4, <1>8, <1>9 DEF paging_get_indexes, page, q, r

LEMMA SetKeeps ==
  ASSUME PagingInv, NEW address \in Words, NEW flags \in NewEntries,
         paging_set(address, flags)
  PROVE  PagingInv'
<1> DEFINE page  == address \div Entries
           q     == page \div Entries
           r     == page % Entries
           info  == paging_get_indexes(address)
           read  == Translate(DirectoryFrame)
           entry == Load(read.frame, info.directory)
           write == Translate(entry.frame)
           done  == paging_is_aligned(address) /\ read.present /\ write.present
<1>1. PagingTypes /\ mode = "run" /\ UNCHANGED <<cr3, paging, tlb>> /\ flags \in Entry
  BY PagingAssumption DEF paging_set, PagingInv, hardwareVars
<1>2. page \in Frames /\ info.directory = q /\ info.table = r /\ q \in Indexes /\ r \in Indexes
  BY AddressFacts, PlacesInTables
<1>3. CASE ~done
  <2>1. mode' \in {"run", "wild"} /\ UNCHANGED <<mem, given, recent, moved>>
    BY <1>1, <1>3 DEF paging_set, SetWord
  <2> HIDE DEF done
  <2> QED
    BY <1>1, <2>1 DEF PagingInv, PagingTypes, Running, TablesAgree, FrameZeroIsJunk, TableFrame, Structures, WordOf, Present
<1>4. CASE done
  <2>1. /\ mem' = [mem EXCEPT ![WordOf(write.frame, r)] = flags]
        /\ given' = [given EXCEPT ![page] = flags]
        /\ recent' = [recent EXCEPT ![page] = @ \cup {flags}]
        /\ moved' = (moved \/ (page \in Structures /\ flags # Present(page)))
        /\ mode' = mode
    BY <1>2, <1>4 DEF paging_set, SetWord
  <2> HIDE DEF done, info, page, q, r
  <2>2. PagingTypes'
    BY <1>1, <1>2, <2>1 DEF PagingTypes
  <2>3. ASSUME ~moved'
        PROVE  Running'
    <3>1. Running /\ (page \in Structures => flags = Present(page))
      BY <1>1, <2>1, <2>3 DEF PagingInv
    <3>2. TableFrame(q) \in Structures /\ TableFrame(q) \in Frames
          /\ DirectoryFrame \in Structures /\ DirectoryFrame \in Frames
      BY <1>2, FrameFacts, SizeFacts
    <3>3. read.frame = DirectoryFrame
      BY <1>1, <3>1, <3>2, TranslateAgrees, PresentFacts
    <3>4. Load(DirectoryFrame, q) = Present(TableFrame(q))
      BY <1>2, <3>1, <3>2, PresentFacts DEF Load, Running, TablesAgree, Indexes
    <3>5. entry.frame = TableFrame(q)
      BY <1>2, <3>2, <3>3, <3>4, PresentFacts
    <3>6. write.frame = TableFrame(q)
      BY <1>1, <3>1, <3>2, <3>5, TranslateAgrees, PresentFacts
    <3> DEFINE changed == WordOf(TableFrame(q), r)
    <3>7. mem' = [mem EXCEPT ![changed] = flags] /\ changed \in DOMAIN mem
      <4>1. changed \in Words
        BY <1>2, <3>2, WordFacts
      <4> QED
        BY <1>1, <2>1, <3>6, <4>1 DEF PagingTypes
    <3>8. ASSUME NEW f \in Frames, NEW i \in Indexes, f # TableFrame(q) \/ i # r
          PROVE  mem'[WordOf(f, i)] = mem[WordOf(f, i)]
      <4>1. WordOf(f, i) # changed
        BY <1>2, <3>2, <3>8, WordFacts
      <4>2. WordOf(f, i) \in DOMAIN mem
        BY <1>1, WordFacts DEF PagingTypes
      <4> HIDE DEF changed
      <4> QED
        BY <3>7, <4>1, <4>2
    <3>9. ASSUME NEW i \in Indexes
          PROVE  mem'[WordOf(DirectoryFrame, i)] = Present(TableFrame(i))
      BY <1>2, <3>1, <3>2, <3>8, <3>9, FrameFacts DEF Running, TablesAgree, Indexes
    <3>10. ASSUME NEW p \in Frames
           PROVE  mem'[WordOf(TableFrame(p \div Entries), p % Entries)] = given'[p]
      <4>1. /\ p \div Entries \in Indexes /\ p % Entries \in Indexes
            /\ TableFrame(p \div Entries) \in Frames
        BY PlacesInTables, FrameFacts, SizeFacts
      <4>2. CASE p = page
        <5>1. mem'[changed] = flags
          BY <3>7
        <5> QED
          BY <1>1, <1>2, <2>1, <4>2, <5>1 DEF PagingTypes, q, r
      <4>3. CASE p # page
        <5>1. p \div Entries # q \/ p % Entries # r
          BY <1>2, <4>3, PlacesInTables DEF q, r
        <5>2. TableFrame(p \div Entries) # TableFrame(q) \/ p % Entries # r
          BY <1>2, <4>1, <5>1, FrameFacts
        <5>3. given'[p] = given[p]
          BY <1>1, <2>1, <4>3 DEF PagingTypes
        <5> QED
          BY <3>1, <3>8, <4>1, <5>2, <5>3 DEF Running, TablesAgree
      <4> QED
        BY <4>2, <4>3
    <3>11. TablesAgree'
      BY <3>9, <3>10 DEF TablesAgree, TableFrame, WordOf, Present, Indexes
    <3>12. FrameZeroIsJunk'
      <4>1. ASSUME NEW i \in Indexes
            PROVE  mem'[WordOf(0, i)] = Junk
        <5>1. TableFrame(q) # 0
          BY <1>2, FrameFacts
        <5> QED
          BY <3>1, <3>8, <4>1, <5>1, SizeFacts DEF Running, FrameZeroIsJunk, Indexes
      <4> QED
        BY <4>1 DEF FrameZeroIsJunk, WordOf, Indexes
    <3>13. \A p \in Frames : given'[p] \in recent'[p] /\ recent[p] \subseteq recent'[p]
      BY <1>1, <1>2, <2>1, <3>1 DEF PagingTypes, Running
    <3>14. \A p \in Structures : given'[p] = Present(p) /\ recent'[p] = {Present(p)}
      BY <1>1, <1>2, <2>1, <3>1, SizeFacts DEF PagingTypes, Running
    <3> QED
      BY <1>1, <3>1, <3>11, <3>12, <3>13, <3>14
      DEF Running, Structures, Present
  <2> QED
    BY <1>1, <2>1, <2>2, <2>3 DEF PagingInv
<1> QED
  BY <1>3, <1>4

LEMMA NextPagingInv == PagingInv /\ [Next]_vars => PagingInv'
<1> SUFFICES ASSUME PagingInv, [Next]_vars PROVE PagingInv'
  OBVIOUS
<1>1. CASE KernelIsGone
  BY <1>1 DEF KernelIsGone, PagingInv, PagingTypes, hardwareVars, observations
<1>2. CASE UNCHANGED vars
  BY <1>2 DEF vars, hardwareVars, observations, PagingInv, PagingTypes, Booting, Running,
              TablesAgree, FrameZeroIsJunk, TableFrame, Structures, WordOf,
              Present
<1> QED
  BY <1>1, <1>2, CreateKeeps, SwitchKeeps, EnableKeeps, SetKeeps, KeepKeeps, DropKeeps
  DEF Next

LEMMA PagingInvariant == Spec => []PagingInv
  BY InitPagingInv, NextPagingInv, PTL DEF Spec

(***************************************************************************)
(* The tables say of every page what paging_set was last told about it,    *)
(* for tables of every size, until a call moves the directory or a table.  *)
(***************************************************************************)
THEOREM TablesSayWhatWasSet == Spec => []WalkGivesWhatWasSet
<1>1. PagingInv => WalkGivesWhatWasSet
  BY WalkAgrees DEF PagingInv, Running, WalkGivesWhatWasSet
<1> QED
  BY <1>1, PagingInvariant, PTL

(***************************************************************************)
(* The processor uses what a page was given since the last switch to the   *)
(* directory, whatever translations it kept and however many.              *)
(***************************************************************************)
THEOREM ProcessorIsAtMostASwitchBehind == Spec => []ProcessorUsesRecentEntries
<1>1. PagingInv => ProcessorUsesRecentEntries
  BY TranslateAgrees DEF PagingInv, ProcessorUsesRecentEntries
<1> QED
  BY <1>1, PagingInvariant, PTL
=============================================================================
