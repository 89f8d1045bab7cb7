----------------------------- MODULE HeapProofs -----------------------------
(***************************************************************************)
(* Proofs about module Heap, for every heap size, block size and set of    *)
(* requests that HeapAssumption allows: its inductive invariant, what its  *)
(* steps keep, and its refinement of Allocator.                            *)
(***************************************************************************)
EXTENDS Heap, WellFoundedInduction, TLAPS

-----------------------------------------------------------------------------
(***************************************************************************)
(* Arithmetic of blocks and addresses.                                     *)
(***************************************************************************)

(* The block count of the table that heap_create_table computes. *)
LEMMA TotalType == Total \in Nat
  BY HeapAssumption DEF Total

(* heap_create_table's check for less than one block leaves at least one. *)
LEMMA TotalPositive == AvailableBytes >= BlockSize => Total > 0
  BY HeapAssumption DEF Total

(* The block count of a request, rounded in unsigned arithmetic. *)
LEMMA RequiredType ==
  ASSUME NEW bytes \in Requests PROVE required_blocks(bytes) \in Nat
<1>1. bytes \in Nat /\ BlockSize \in Nat \ {0} /\ SizeMod \in Nat \ {0}
  BY HeapAssumption
<1>2. bytes % BlockSize \in 0 .. (BlockSize - 1)
  BY <1>1
<1>3. heap_align_amount_of_bytes_requested(bytes) \in Nat
  BY <1>1, <1>2 DEF heap_align_amount_of_bytes_requested
<1>. QED
  BY <1>1, <1>3 DEF required_blocks

(* The address arithmetic of heap_free stays inside the table. *)
LEMMA BlockOfType ==
  ASSUME NEW address \in Addresses, InHeap(address)
  PROVE  BlockOf(address) \in Blocks
<1>. DEFINE x == address - StartAddress
<1>1. x \in Nat /\ BlockSize \in Nat \ {0} /\ Total \in Nat
  BY HeapAssumption, TotalType DEF Addresses, InHeap
<1>2. x < Total * BlockSize
  BY HeapAssumption, TotalType, <1>1 DEF Addresses, InHeap, EndAddress
<1>. HIDE DEF x
<1>3. x \div BlockSize \in Nat
  BY <1>1
<1>4. x \div BlockSize < Total
  BY <1>1, <1>2
<1>. QED
  BY <1>1, <1>3, <1>4 DEF BlockOf, Blocks, x

(***************************************************************************)
(* heap_request_memory's answer exists whenever some run of blocks is long *)
(* enough, fits, and is the lowest one.                                    *)
(***************************************************************************)
LEMMA FirstFitFits ==
  ASSUME NEW n \in Nat, HasFit(n)
  PROVE  /\ FirstFit(n) \in Blocks
         /\ Fits(FirstFit(n), n)
         /\ \A t \in Blocks : Fits(t, n) => FirstFit(n) <= t
<1>. DEFINE T == {s \in Blocks : Fits(s, n)}
<1>1. T \subseteq Nat /\ T # {}
  BY TotalType DEF HasFit, Blocks
<1>2. PICK s \in T : \A t \in T : ~(<<t, s>> \in OpToRel(<, Nat))
  BY <1>1, WFMin, NatLessThanWellFounded
<1>3. \A t \in T : s <= t
  <2>1. \A x, y \in Nat : x < y => <<x, y>> \in OpToRel(<, Nat)
    BY Zenon DEF OpToRel
  <2>2. \A t \in T : ~(t < s)
    BY <1>1, <1>2, <2>1, Zenon
  <2>. QED
    BY <1>1, <2>2
<1>4. \E u \in Blocks : Fits(u, n) /\ \A t \in Blocks : Fits(t, n) => u <= t
  BY <1>3
<1>. QED
  BY <1>4 DEF FirstFit

-----------------------------------------------------------------------------
(***************************************************************************)
(* What the inductive invariant says about heap_free's walk.               *)
(***************************************************************************)

(***************************************************************************)
(* heap_free's do-while, started at a block with IS_FIRST, clears inside   *)
(* the table exactly the held range without its last block (or the single  *)
(* block, when the range has one block or none).                           *)
(***************************************************************************)
LEMMA FreedWithin ==
  ASSUME IInv, mode = "run", NEW s \in Blocks, heap_entry_is_first(entries[s])
  PROVE  \A b \in Blocks :
           b \in FreedBy(s) <=> b = s \/ (s < b /\ b < s + held[s] - 1)
<1>1. Total \in Nat /\ held \in [Blocks -> 0 .. Total] /\ s \in Nat /\ s < Total
  BY TotalType DEF IInv, TypeOK, Blocks
<1>2. \A b \in Blocks : NoStrayFlags(b)
  BY DEF IInv
<1>3. \A t \in Blocks : HeldRangeIntact(t)
  BY DEF IInv
<1>4. ASSUME NEW b \in Blocks, s < b, b < s + held[s] - 1
      PROVE  b \in FreedBy(s)
  <2>1. held[s] # 0 /\ b \in Nat /\ held[s] \in Nat
    BY <1>1, <1>4 DEF Blocks
  <2>2. ASSUME NEW c \in (s + 1) .. b PROVE heap_entry_has_next(entries[c])
    <3>1. c \in RangeHeld(s) /\ c # s /\ c # s + held[s] - 1
      BY <1>1, <1>4, <2>1 DEF RangeHeld
    <3>2. entries[c] = EntryFor(c, s, s + held[s] - 1)
      BY <1>3, <2>1, <3>1 DEF HeldRangeIntact
    <3>. QED
      BY <3>1, <3>2 DEF EntryFor, heap_entry_has_next
  <2>. QED
    BY <1>1, <1>4, <2>2 DEF FreedBy, Blocks
<1>5. ASSUME NEW b \in Blocks, b \in FreedBy(s), b # s
      PROVE  s < b /\ b < s + held[s] - 1
  <2>1. b \in Nat /\ s < b /\ \A c \in (s + 1) .. b : heap_entry_has_next(entries[c])
    BY <1>1, <1>5 DEF FreedBy, Blocks
  <2>2. SUFFICES ASSUME ~(b < s + held[s] - 1) PROVE FALSE
    BY <2>1
  <2>3. held[s] \in Nat
    BY <1>1
  <2>4. CASE held[s] >= 2
    <3>. DEFINE c == s + held[s] - 1
    <3>1. c \in (s + 1) .. b /\ c \in RangeHeld(s)
      BY <1>1, <2>1, <2>2, <2>3, <2>4 DEF RangeHeld
    <3>2. entries[c] = EntryFor(c, s, c)
      BY <1>3, <2>4, <2>3, <3>1 DEF HeldRangeIntact
    <3>3. c # s
      BY <1>1, <2>4, <2>3
    <3>. QED
      BY <2>1, <3>1, <3>2, <3>3
         DEF EntryFor, heap_entry_has_next, HEAP_ENTRY_TAKEN, HEAP_HAS_NEXT
  <2>5. CASE held[s] < 2
    <3>1. s + 1 \in Blocks /\ heap_entry_has_next(entries[s + 1])
      BY <1>1, <2>1 DEF Blocks
    <3>2. PICK t \in Blocks : t < s + 1 /\ s + 1 < t + held[t] - 1
      BY <1>2, <3>1 DEF NoStrayFlags
    <3>3. t \in Nat /\ held[t] \in Nat
      BY <1>1 DEF Blocks
    <3>4. t < s
      BY <1>1, <2>3, <2>5, <3>2, <3>3
    <3>5. held[t] # 0 /\ s \in RangeHeld(t) /\ s # t
      BY <1>1, <3>2, <3>3, <3>4 DEF RangeHeld
    <3>6. entries[s] = EntryFor(s, t, t + held[t] - 1)
      BY <1>3, <3>5 DEF HeldRangeIntact
    <3>. QED
      BY <3>5, <3>6 DEF EntryFor, heap_entry_is_first, HEAP_IS_FIRST,
                        HEAP_ENTRY_TAKEN, HEAP_HAS_NEXT
  <2>. QED
    BY <2>3, <2>4, <2>5
<1>. QED
  BY <1>1, <1>4, <1>5 DEF FreedBy

(***************************************************************************)
(* What a block range that is held, or found free by heap_request_memory,  *)
(* says about the others: a free run meets no held range.                  *)
(***************************************************************************)
LEMMA HeldIsTaken ==
  ASSUME IInv, NEW s \in Blocks, NEW b \in RangeHeld(s)
  PROVE  /\ held[s] # 0
         /\ b \in Blocks
         /\ heap_entry_is_taken(entries[b])
<1>1. Total \in Nat /\ held[s] \in Nat /\ s \in Nat
  BY TotalType DEF IInv, TypeOK, Blocks
<1>2. held[s] # 0 /\ b \in Int /\ s <= b /\ b < s + held[s]
  BY <1>1 DEF RangeHeld
<1>3. HeldRangeIntact(s)
  BY DEF IInv
<1>4. entries[b] = EntryFor(b, s, s + held[s] - 1) /\ s + held[s] <= Total
  BY <1>2, <1>3 DEF HeldRangeIntact
<1>. QED
  BY <1>1, <1>2, <1>4 DEF EntryFor, heap_entry_is_taken, Blocks

LEMMA FreeRunIsUnheld ==
  ASSUME IInv, NEW f \in Blocks, NEW n \in Nat, n > 0, Fits(f, n)
  PROVE  /\ held[f] = 0
         /\ \A s \in Blocks : held[s] # 0 => s + held[s] <= f \/ f + n <= s
<1>1. Total \in Nat /\ f \in Nat /\ \A s \in Blocks : held[s] \in Nat /\ s \in Nat
  BY TotalType DEF IInv, TypeOK, Blocks
<1>2. ASSUME NEW s \in Blocks, NEW b \in f .. (f + n - 1), b \in RangeHeld(s)
      PROVE  FALSE
  <2>1. heap_entry_is_taken(entries[b])
    BY <1>2, HeldIsTaken
  <2>2. heap_entry_is_free(entries[b])
    BY DEF Fits
  <2>. QED
    BY <2>1, <2>2 DEF heap_entry_is_free
<1>3. held[f] = 0
  <2>1. SUFFICES ASSUME held[f] # 0 PROVE FALSE
    OBVIOUS
  <2>2. f \in f .. (f + n - 1) /\ f \in RangeHeld(f)
    BY <1>1, <2>1 DEF RangeHeld
  <2>. QED
    BY <1>2, <2>2
<1>4. ASSUME NEW s \in Blocks, held[s] # 0
      PROVE  s + held[s] <= f \/ f + n <= s
  <2>1. SUFFICES ASSUME f < s + held[s], s < f + n PROVE FALSE
    BY <1>1
  <2>2. CASE s <= f
    <3>1. f \in f .. (f + n - 1) /\ f \in RangeHeld(s)
      BY <1>1, <2>1, <2>2 DEF RangeHeld
    <3>. QED
      BY <1>2, <3>1
  <2>3. CASE f < s
    <3>1. s \in f .. (f + n - 1) /\ s \in RangeHeld(s)
      BY <1>1, <1>4, <2>1, <2>3 DEF RangeHeld
    <3>. QED
      BY <1>2, <3>1
  <2>. QED
    BY <1>1, <2>2, <2>3
<1>. QED
  BY <1>3, <1>4

(* heap_free from one held range, or leaked block, clears no entry of another. *)
LEMMA FreedApart ==
  ASSUME IInv, mode = "run", NEW s \in Blocks, heap_entry_is_first(entries[s]),
         NEW t \in Blocks, t # s, NEW b \in RangeHeld(t)
  PROVE  b \notin FreedBy(s)
<1>0. b \in Blocks /\ held[t] # 0
  BY HeldIsTaken
<1>1. /\ s \in Nat /\ t \in Nat /\ b \in Nat /\ held[s] \in Nat /\ held[t] \in Nat
      /\ b \in Blocks /\ held[t] # 0 /\ t <= b /\ b < t + held[t]
  BY <1>0, TotalType DEF IInv, TypeOK, Blocks, RangeHeld
<1>2. HeldRangeIntact(t) /\ HeldRangeIntact(s)
  BY DEF IInv
<1>3. b # s
  <2>1. SUFFICES ASSUME b = s PROVE FALSE
    OBVIOUS
  <2>2. entries[s] = EntryFor(s, t, t + held[t] - 1)
    BY <1>1, <1>2, <2>1 DEF HeldRangeIntact
  <2>. QED
    BY <2>2 DEF EntryFor, heap_entry_is_first, HEAP_ENTRY_TAKEN,
                HEAP_IS_FIRST, HEAP_HAS_NEXT
<1>4. ~(s < b /\ b < s + held[s] - 1)
  <2>1. SUFFICES ASSUME s < b, b < s + held[s] - 1 PROVE FALSE
    OBVIOUS
  <2>2. held[s] # 0
    BY <1>1, <2>1
  <2>3. (s < t => s + held[s] <= t) /\ (t < s => t + held[t] <= s)
    BY <1>1, <1>2, <2>2 DEF HeldRangeIntact
  <2>. QED
    BY <1>1, <2>1, <2>3
<1>. QED
  BY <1>1, <1>3, <1>4, FreedWithin

-----------------------------------------------------------------------------
(***************************************************************************)
(* The table and the held ranges, without mode and dirty.                  *)
(***************************************************************************)
TableInv ==
  /\ entries \in [0 .. Total -> HEAP_ENTRY]
  /\ held \in [Blocks -> 0 .. Total]
  /\ \A s \in Blocks : HeldRangeIntact(s)
  /\ \A b \in Blocks : NoStrayFlags(b)

(* heap_malloc's marking of blocks f .. f + n - 1, found free, keeps it. *)
LEMMA GrantKeepsTable ==
  ASSUME IInv, mode = "run",
         NEW f \in Blocks, NEW n \in Nat, n > 0, Fits(f, n),
         entries' = Mark(f, f + n - 1),
         held' = [held EXCEPT ![f] = n]
  PROVE  TableInv'
<1>1. /\ Total \in Nat /\ f \in Nat /\ f + n <= Total
      /\ entries \in [0 .. Total -> HEAP_ENTRY] /\ held \in [Blocks -> 0 .. Total]
      /\ \A s \in Blocks : held[s] \in Nat /\ s \in Nat /\ s < Total
  BY TotalType DEF IInv, TypeOK, Blocks, Fits
<1>2. /\ held[f] = 0
      /\ \A s \in Blocks : held[s] # 0 => s + held[s] <= f \/ f + n <= s
  BY FreeRunIsUnheld
<1>3. held' \in [Blocks -> 0 .. Total] /\ held'[f] = n
      /\ \A s \in Blocks \ {f} : held'[s] = held[s]
  BY <1>1
<1>4. /\ \A b \in f .. (f + n - 1) : entries'[b] = EntryFor(b, f, f + n - 1)
      /\ \A b \in Blocks : b \notin f .. (f + n - 1) => entries'[b] = entries[b]
  BY <1>1 DEF Mark, Blocks
<1>5. entries' \in [0 .. Total -> HEAP_ENTRY]
  BY <1>1 DEF Mark, EntryFor, HEAP_ENTRY
<1>6. ASSUME NEW s \in Blocks PROVE HeldRangeIntact(s)'
  <2>1. CASE s = f
    <3>1. \A b \in RangeHeld(f)' : entries'[b] = EntryFor(b, f, f + held'[f] - 1)
      BY <1>1, <1>3, <1>4 DEF RangeHeld
    <3>2. \A t \in Blocks : f < t /\ held'[t] # 0 => f + n <= t
      BY <1>1, <1>2, <1>3
    <3>. QED
      BY <1>1, <1>3, <2>1, <3>1, <3>2 DEF HeldRangeIntact
  <2>2. CASE s # f /\ held[s] # 0
    <3>1. HeldRangeIntact(s) /\ held'[s] = held[s] /\ RangeHeld(s)' = RangeHeld(s)
      BY <1>3, <2>2 DEF IInv, RangeHeld
    <3>2. ASSUME NEW b \in RangeHeld(s) PROVE entries'[b] = entries[b]
      <4>1. b \in Blocks /\ b \notin f .. (f + n - 1)
        BY <1>1, <1>2, <2>2, HeldIsTaken DEF RangeHeld
      <4>. QED
        BY <1>4, <4>1
    <3>3. \A t \in Blocks : s < t /\ held'[t] # 0 => s + held[s] <= t
      BY <1>1, <1>2, <1>3, <2>2, <3>1 DEF HeldRangeIntact
    <3>. QED
      BY <2>2, <3>1, <3>2, <3>3 DEF HeldRangeIntact
  <2>3. CASE s # f /\ held[s] = 0
    BY <1>3, <2>3 DEF HeldRangeIntact
  <2>. QED
    BY <2>1, <2>2, <2>3
<1>7. ASSUME NEW b \in Blocks PROVE NoStrayFlags(b)'
  <2>1. CASE b \in f .. (f + n - 1)
    <3>1. entries'[b] = EntryFor(b, f, f + n - 1)
      BY <1>4, <2>1
    <3>2. heap_entry_is_taken(entries'[b])
      BY <3>1 DEF EntryFor, heap_entry_is_taken
    <3>3. heap_entry_is_first(entries'[b]) => b = f
      BY <3>1 DEF EntryFor, heap_entry_is_first, HEAP_ENTRY_TAKEN,
                  HEAP_IS_FIRST, HEAP_HAS_NEXT
    <3>4. heap_entry_has_next(entries'[b]) => b # f /\ b # f + n - 1
      BY <3>1 DEF EntryFor, heap_entry_has_next, HEAP_ENTRY_TAKEN,
                  HEAP_IS_FIRST, HEAP_HAS_NEXT
    <3>5. heap_entry_has_next(entries'[b]) => f < b /\ b < f + held'[f] - 1
      BY <1>1, <1>3, <2>1, <3>4
    <3>. QED
      BY <1>1, <1>3, <3>2, <3>3, <3>5 DEF NoStrayFlags, heap_entry_is_free
  <2>2. CASE b \notin f .. (f + n - 1)
    <3>1. entries'[b] = entries[b] /\ b # f /\ NoStrayFlags(b)
      BY <1>1, <1>4, <2>2 DEF IInv
    <3>2. \A s \in Blocks : s < b /\ b < s + held[s] - 1 => held'[s] = held[s]
      BY <1>1, <1>2, <1>3 DEF Blocks
    <3>. QED
      BY <1>3, <3>1, <3>2 DEF NoStrayFlags
  <2>. QED
    BY <2>1, <2>2
<1>. QED
  BY <1>3, <1>5, <1>6, <1>7 DEF TableInv

(* heap_malloc of a request that rounds to 0 bytes marks block 0 and keeps it. *)
LEMMA NullKeepsTable ==
  ASSUME IInv, mode = "run", entries' = Mark(0, 0), held' = held
  PROVE  TableInv'
<1>1. /\ Total \in Nat /\ Total > 0
      /\ entries \in [0 .. Total -> HEAP_ENTRY] /\ held \in [Blocks -> 0 .. Total]
      /\ \A s \in Blocks : held[s] \in Nat /\ s \in Nat /\ s < Total
  BY TotalType DEF IInv, TypeOK, Blocks
<1>2. /\ entries' \in [0 .. Total -> HEAP_ENTRY]
      /\ entries'[0] = {HEAP_ENTRY_TAKEN, HEAP_IS_FIRST}
      /\ \A b \in Blocks \ {0} : entries'[b] = entries[b]
  BY <1>1 DEF Mark, EntryFor, HEAP_ENTRY, Blocks
<1>3. ASSUME NEW s \in Blocks PROVE HeldRangeIntact(s)'
  <2>1. SUFFICES ASSUME held[s] # 0 PROVE HeldRangeIntact(s)'
    BY DEF HeldRangeIntact
  <2>2. HeldRangeIntact(s) /\ RangeHeld(s)' = RangeHeld(s)
    BY DEF IInv, RangeHeld
  <2>3. ASSUME NEW b \in RangeHeld(s)
        PROVE  entries'[b] = EntryFor(b, s, s + held[s] - 1)
    <3>1. b \in Blocks /\ entries[b] = EntryFor(b, s, s + held[s] - 1)
      BY <2>1, <2>2, HeldIsTaken DEF HeldRangeIntact
    <3>2. CASE b = 0
      <4>1. s = 0
        BY <1>1, <3>2 DEF RangeHeld
      <4>. QED
        BY <1>2, <3>2, <4>1 DEF EntryFor
    <3>. QED
      BY <1>2, <3>1, <3>2
  <2>. QED
    BY <2>2, <2>3 DEF HeldRangeIntact
<1>4. ASSUME NEW b \in Blocks PROVE NoStrayFlags(b)'
  <2>1. CASE b = 0
    BY <1>2, <2>1 DEF NoStrayFlags, heap_entry_is_free, heap_entry_is_taken,
                      heap_entry_has_next, HEAP_ENTRY_TAKEN, HEAP_IS_FIRST,
                      HEAP_HAS_NEXT
  <2>2. CASE b # 0
    BY <1>2, <2>2 DEF IInv, NoStrayFlags
  <2>. QED
    BY <2>1, <2>2
<1>. QED
  BY <1>1, <1>2, <1>3, <1>4 DEF TableInv

(* heap_free from a block with IS_FIRST keeps it. *)
LEMMA FreeKeepsTable ==
  ASSUME IInv, mode = "run", NEW s \in Blocks, heap_entry_is_first(entries[s]),
         entries' = [b \in 0 .. Total |-> IF b \in FreedBy(s)
                                            THEN HEAP_ENTRY_FREE
                                            ELSE entries[b]],
         held' = [held EXCEPT ![s] = 0]
  PROVE  TableInv'
<1>1. /\ Total \in Nat
      /\ entries \in [0 .. Total -> HEAP_ENTRY] /\ held \in [Blocks -> 0 .. Total]
      /\ \A t \in Blocks : held[t] \in Nat /\ t \in Nat /\ t < Total
  BY TotalType DEF IInv, TypeOK, Blocks
<1>2. \A b \in Blocks : b \in FreedBy(s) <=> b = s \/ (s < b /\ b < s + held[s] - 1)
  BY FreedWithin
<1>3. /\ entries' \in [0 .. Total -> HEAP_ENTRY]
      /\ \A b \in Blocks :
           entries'[b] = IF b \in FreedBy(s) THEN HEAP_ENTRY_FREE ELSE entries[b]
  BY <1>1 DEF HEAP_ENTRY, HEAP_ENTRY_FREE, Blocks
<1>4. /\ held' \in [Blocks -> 0 .. Total] /\ held'[s] = 0
      /\ \A t \in Blocks \ {s} : held'[t] = held[t]
  BY <1>1
<1>5. ASSUME NEW t \in Blocks PROVE HeldRangeIntact(t)'
  <2>1. SUFFICES ASSUME t # s, held[t] # 0 PROVE HeldRangeIntact(t)'
    BY <1>4 DEF HeldRangeIntact
  <2>2. HeldRangeIntact(t) /\ HeldRangeIntact(s) /\ RangeHeld(t)' = RangeHeld(t)
        /\ held'[t] = held[t]
    BY <1>4, <2>1 DEF IInv, RangeHeld
  <2>3. ASSUME NEW b \in RangeHeld(t) PROVE b \in Blocks /\ b \notin FreedBy(s)
    BY <2>1, HeldIsTaken, FreedApart
  <2>4. \A u \in Blocks : t < u /\ held'[u] # 0 => t + held[t] <= u
    BY <1>4, <2>1, <2>2 DEF HeldRangeIntact
  <2>. QED
    BY <1>3, <2>1, <2>2, <2>3, <2>4 DEF HeldRangeIntact
<1>6. ASSUME NEW b \in Blocks PROVE NoStrayFlags(b)'
  <2>1. CASE b \in FreedBy(s)
    BY <1>3, <2>1 DEF NoStrayFlags, HEAP_ENTRY_FREE, heap_entry_is_free,
                      heap_entry_is_first, heap_entry_has_next
  <2>2. CASE b \notin FreedBy(s)
    <3>1. entries'[b] = entries[b] /\ b # s /\ NoStrayFlags(b)
      BY <1>2, <1>3, <2>2 DEF IInv
    <3>2. ASSUME NEW t \in Blocks, t < b, b < t + held[t] - 1
          PROVE  held'[t] = held[t]
      BY <1>2, <1>4, <2>2, <3>2
    <3>. QED
      BY <1>4, <3>1, <3>2 DEF NoStrayFlags
  <2>. QED
    BY <2>1, <2>2
<1>. QED
  BY <1>3, <1>4, <1>5, <1>6 DEF TableInv

(* Every outcome of heap_malloc, on its own or inside zalloc, keeps it. *)
LEMMA MallocKeepsTable ==
  ASSUME IInv, mode = "run", NEW bytes \in Requests, heap_malloc(bytes)
  PROVE  TableInv'
<1>. DEFINE n == required_blocks(bytes)
<1>1. n \in Nat
  BY RequiredType
<1>. HIDE DEF n
<1>2. CASE n = 0 /\ entries' = Mark(0, 0) /\ UNCHANGED held
  BY <1>2, NullKeepsTable
<1>3. CASE /\ n > 0 /\ HasFit(n)
           /\ entries' = Mark(FirstFit(n), FirstFit(n) + n - 1)
           /\ held' = [held EXCEPT ![FirstFit(n)] = n]
  BY <1>1, <1>3, FirstFitFits, GrantKeepsTable
<1>4. CASE UNCHANGED <<entries, held>>
  BY <1>4 DEF IInv, TypeOK, TableInv, HeldRangeIntact, NoStrayFlags, RangeHeld
<1>. QED
  BY <1>2, <1>3, <1>4 DEF heap_malloc, n

-----------------------------------------------------------------------------
(***************************************************************************)
(* The invariant.                                                          *)
(***************************************************************************)
LEMMA InitIInv == Init => IInv
<1>. SUFFICES ASSUME Init PROVE IInv
  OBVIOUS
<1>1. TypeOK
  BY TotalType DEF Init, TypeOK, HEAP_ENTRY, HEAP_ENTRY_FREE, Blocks
<1>. QED
  BY <1>1 DEF Init, IInv, HeldRangeIntact, Blocks

LEMMA NextIInv == IInv /\ [Next]_vars => IInv'
<1>. SUFFICES ASSUME IInv, [Next]_vars PROVE IInv'
  OBVIOUS
<1>0. TypeOK /\ Total \in Nat
  BY TotalType DEF IInv
<1>1. CASE memory_init
  <2>1. TypeOK'
    BY <1>0, <1>1 DEF memory_init, TypeOK, HEAP_ENTRY, HEAP_ENTRY_FREE
  <2>2. \A s \in Blocks : held'[s] = 0
    BY <1>1 DEF memory_init, IInv
  <2>3. \A s \in Blocks : HeldRangeIntact(s)'
    BY <2>2 DEF HeldRangeIntact
  <2>4. mode' = "run" => Total > 0
    BY <1>1, TotalPositive DEF memory_init
  <2>5. mode' = "run" => \A b \in Blocks : NoStrayFlags(b)'
    BY <1>0, <1>1 DEF memory_init, NoStrayFlags, HEAP_ENTRY_FREE, Blocks,
                heap_entry_is_first, heap_entry_has_next
  <2>. QED
    BY <2>1, <2>2, <2>3, <2>4, <2>5 DEF IInv
<1>2. ASSUME NEW bytes \in Requests, malloc(bytes) PROVE IInv'
  <2>1. TableInv' /\ dirty' = dirty /\ mode = "run" /\ mode' \in {"run", "panic"}
    BY <1>2, MallocKeepsTable DEF malloc
  <2>. QED
    BY <2>1 DEF IInv, TableInv, TypeOK
<1>3. ASSUME NEW bytes \in Requests, zalloc(bytes) PROVE IInv'
  <2>1. TableInv' /\ mode = "run" /\ mode' \in {"run", "panic", "wild"}
    BY <1>3, MallocKeepsTable DEF zalloc
  <2>2. dirty' \subseteq Blocks
    BY <1>0, <1>3 DEF zalloc, TypeOK
  <2>. QED
    BY <2>1, <2>2 DEF IInv, TableInv, TypeOK
<1>4. ASSUME NEW b \in Blocks, memcpy(b) PROVE IInv'
  BY <1>4 DEF memcpy, IInv, TypeOK, HeldRangeIntact, NoStrayFlags, RangeHeld
<1>5. ASSUME NEW address \in Addresses, free(address) PROVE IInv'
  <2>1. CASE heap_free(address)
    <3>1. BlockOf(address) \in Blocks
      BY <2>1, BlockOfType DEF heap_free
    <3>2. TableInv' /\ mode = "run" /\ mode' = mode /\ dirty' \subseteq Blocks
      BY <1>0, <1>5, <2>1, <3>1, FreeKeepsTable DEF heap_free, free, TypeOK
    <3>. QED
      BY <3>2 DEF IInv, TableInv, TypeOK
  <2>2. CASE heap_free_panics(address)
    BY <2>2 DEF heap_free_panics, IInv, TypeOK, HeldRangeIntact, RangeHeld
  <2>3. CASE heap_free_behind(address)
    BY <2>3 DEF heap_free_behind, IInv, TypeOK, HeldRangeIntact, RangeHeld
  <2>. QED
    BY <1>5, <2>1, <2>2, <2>3 DEF free
<1>6. CASE UNCHANGED vars
  BY <1>6 DEF vars, IInv, TypeOK, HeldRangeIntact, NoStrayFlags, RangeHeld
<1>. QED
  BY <1>1, <1>2, <1>3, <1>4, <1>5, <1>6 DEF Next

(* Held ranges lie in the table, are marked taken and do not overlap. *)
LEMMA IInvIsolation == IInv => Isolation
<1>. SUFFICES ASSUME IInv, NEW s \in Blocks
              PROVE  /\ RangeHeld(s) \subseteq Blocks
                     /\ \A b \in RangeHeld(s) : heap_entry_is_taken(entries[b])
                     /\ \A t \in Blocks \ {s} : RangeHeld(s) \cap RangeHeld(t) = {}
  BY DEF Isolation
<1>1. RangeHeld(s) \subseteq Blocks
      /\ \A b \in RangeHeld(s) : heap_entry_is_taken(entries[b])
  BY HeldIsTaken
<1>2. ASSUME NEW t \in Blocks \ {s}, NEW b \in RangeHeld(s), b \in RangeHeld(t)
      PROVE  FALSE
  <2>1. held[s] # 0 /\ held[t] # 0 /\ b \in Blocks
    BY <1>2, HeldIsTaken
  <2>2. Blocks \subseteq Nat
    BY TotalType DEF Blocks
  <2>3. held[s] \in Nat /\ held[t] \in Nat
    BY TotalType DEF IInv, TypeOK
  <2>4. /\ s \in Nat /\ t \in Nat /\ b \in Nat
        /\ s <= b /\ b < s + held[s] /\ t <= b /\ b < t + held[t]
    BY <1>2, <2>1, <2>2, <2>3 DEF RangeHeld
  <2>5. (s < t => s + held[s] <= t) /\ (t < s => t + held[t] <= s)
    BY <2>1 DEF IInv, HeldRangeIntact
  <2>. QED
    BY <2>3, <2>4, <2>5
<1>. QED
  BY <1>1, <1>2

(* The inductive invariant holds throughout every behaviour of the heap. *)
THEOREM HeapInvariant == Spec => []IInv
<1>. QED
  BY InitIInv, NextIInv, PTL DEF Spec

(***************************************************************************)
(* The table, the held ranges and the blocks with content keep their types *)
(* through every sequence of malloc, zalloc, free and stores.              *)
(***************************************************************************)
THEOREM TypeCorrect == Spec => []TypeOK
<1>1. IInv => TypeOK
  BY DEF IInv
<1>. QED
  BY <1>1, HeapInvariant, PTL

(***************************************************************************)
(* No sequence of malloc, zalloc and free, however it leaks, makes two     *)
(* callers hold the same block or a block outside the heap.                *)
(***************************************************************************)
THEOREM HeapIsolation == Spec => []Isolation
<1>. QED
  BY IInvIsolation, HeapInvariant, PTL


-----------------------------------------------------------------------------
(***************************************************************************)
(* What a single step may do: the action properties, and that Heap         *)
(* implements Allocator.  All of them follow from the inductive invariant  *)
(* and from the five ways in which a step changes the table.               *)
(***************************************************************************)

(***************************************************************************)
(* The shapes of a step of a running heap.                                 *)
(***************************************************************************)

(* heap_malloc hands out n blocks from f on. *)
Granted(f, n) ==
  /\ n > 0
  /\ Fits(f, n)
  /\ entries' = Mark(f, f + n - 1)
  /\ held' = [held EXCEPT ![f] = n]
  /\ dirty' \subseteq dirty
  /\ mode' = mode

(* heap_malloc of a request that rounds to 0 bytes. *)
Claimed ==
  /\ entries' = Mark(0, 0)
  /\ held' = held
  /\ dirty' \subseteq dirty

(* heap_free of a block with IS_FIRST. *)
Freed(s) ==
  /\ heap_entry_is_first(entries[s])
  /\ entries' = [b \in 0 .. Total |-> IF b \in FreedBy(s)
                                        THEN HEAP_ENTRY_FREE
                                        ELSE entries[b]]
  /\ held' = [held EXCEPT ![s] = 0]
  /\ dirty' = dirty \ {s}
  /\ mode' = mode

(* A store by a holder. *)
Filled(b) ==
  /\ b \in LiveBlocks
  /\ dirty' = dirty \cup {b}
  /\ UNCHANGED <<mode, entries, held>>

(* A refused request, a panic, or nothing at all. *)
Idle == UNCHANGED <<entries, held, dirty>>

(* One of the shapes fits every step that a running heap takes. *)
LEMMA StepShapes ==
  ASSUME IInv, mode = "run", [Next]_vars
  PROVE  \/ \E f \in Blocks, n \in Nat : Granted(f, n)
         \/ Claimed
         \/ \E s \in Blocks : Freed(s)
         \/ \E b \in Blocks : Filled(b)
         \/ Idle
<1>1. CASE memory_init
  BY <1>1 DEF memory_init
<1>2. ASSUME NEW bytes \in Requests, malloc(bytes)
      PROVE  (\E f \in Blocks, n \in Nat : Granted(f, n)) \/ Claimed \/ Idle
  <2>. DEFINE n == required_blocks(bytes)
  <2>1. n \in Nat
    BY RequiredType
  <2>2. CASE n = 0
    BY <1>2, <2>2 DEF malloc, heap_malloc, Claimed
  <2>3. CASE n > 0 /\ HasFit(n)
    <3>1. FirstFit(n) \in Blocks /\ Fits(FirstFit(n), n)
      BY <2>1, <2>3, FirstFitFits
    <3>2. Granted(FirstFit(n), n)
      BY <1>2, <2>3, <3>1 DEF malloc, heap_malloc, OutOfMemory, Granted
    <3>. QED
      BY <2>1, <3>1, <3>2
  <2>4. CASE n > 0 /\ ~HasFit(n)
    BY <1>2, <2>4 DEF malloc, heap_malloc, Idle
  <2>. QED
    BY <2>1, <2>2, <2>3, <2>4
<1>3. ASSUME NEW bytes \in Requests, zalloc(bytes)
      PROVE  (\E f \in Blocks, n \in Nat : Granted(f, n)) \/ Claimed \/ Idle
  <2>. DEFINE n == required_blocks(bytes)
  <2>1. n \in Nat
    BY RequiredType
  <2>2. CASE n = 0
    BY <1>3, <2>2 DEF zalloc, heap_malloc, Claimed
  <2>3. CASE n > 0 /\ HasFit(n)
    <3>1. FirstFit(n) \in Blocks /\ Fits(FirstFit(n), n)
      BY <2>1, <2>3, FirstFitFits
    <3>2. Granted(FirstFit(n), n)
      BY <1>3, <2>3, <3>1 DEF zalloc, heap_malloc, OutOfMemory, Granted
    <3>. QED
      BY <2>1, <3>1, <3>2
  <2>4. CASE n > 0 /\ ~HasFit(n)
    BY <1>3, <2>4 DEF zalloc, heap_malloc, Idle
  <2>. QED
    BY <2>1, <2>2, <2>3, <2>4
<1>4. ASSUME NEW b \in Blocks, memcpy(b) PROVE Filled(b)
  BY <1>4 DEF memcpy, Filled, LiveBlocks, RangeHeld
<1>5. ASSUME NEW address \in Addresses, free(address)
      PROVE  (\E s \in Blocks : Freed(s)) \/ Idle
  <2>1. CASE heap_free(address)
    <3>1. BlockOf(address) \in Blocks
      BY <2>1, BlockOfType DEF heap_free
    <3>2. Freed(BlockOf(address))
      BY <2>1 DEF heap_free, Freed
    <3>. QED
      BY <3>1, <3>2
  <2>2. CASE heap_free_panics(address)
    BY <2>2 DEF heap_free_panics, Idle
  <2>3. CASE heap_free_behind(address)
    BY <2>3 DEF heap_free_behind, Idle
  <2>. QED
    BY <1>5, <2>1, <2>2, <2>3 DEF free
<1>6. CASE UNCHANGED vars
  BY <1>6 DEF vars, Idle
<1>. QED
  BY <1>1, <1>2, <1>3, <1>4, <1>5, <1>6 DEF Next

-----------------------------------------------------------------------------
(***************************************************************************)
(* The five shapes and held ranges.                                        *)
(***************************************************************************)

(* Before memory_init nothing is held; after a panic nothing changes. *)
LEMMA OtherSteps ==
  ASSUME IInv, mode # "run", [Next]_vars
  PROVE  /\ held' = held
         /\ mode = "boot" => \A s \in Blocks : held[s] = 0
         /\ mode # "boot" => UNCHANGED vars
<1>1. CASE memory_init
  BY <1>1 DEF memory_init, IInv
<1>2. CASE UNCHANGED vars
  BY <1>2 DEF vars, IInv
<1>3. ~(\E bytes \in Requests : malloc(bytes) \/ zalloc(bytes))
      /\ ~(\E b \in Blocks : memcpy(b))
      /\ ~(\E address \in Addresses : free(address))
  BY DEF malloc, zalloc, memcpy, free
<1>. QED
  BY <1>1, <1>2, <1>3 DEF Next

(* Blocks and lengths are numbers. *)
LEMMA Numbers ==
  ASSUME IInv
  PROVE  /\ Total \in Nat
         /\ \A s \in Blocks : s \in Nat /\ s < Total /\ held[s] \in Nat
         /\ DOMAIN held = Blocks
  BY TotalType DEF IInv, TypeOK, Blocks

(* The blocks of a grant are fresh, and no other entry changes. *)
LEMMA GrantedIsFresh ==
  ASSUME IInv, NEW f \in Blocks, NEW n \in Nat, Granted(f, n)
  PROVE  /\ held[f] = 0 /\ held'[f] = n
         /\ f .. (f + n - 1) \subseteq Blocks
         /\ \A s \in Blocks \ {f} : held'[s] = held[s]
         /\ \A b \in f .. (f + n - 1) : /\ heap_entry_is_free(entries[b])
                                        /\ heap_entry_is_taken(entries'[b])
         /\ \A b \in Blocks : b \notin f .. (f + n - 1) => entries'[b] = entries[b]
<1>1. n > 0 /\ Fits(f, n) /\ entries' = Mark(f, f + n - 1)
      /\ held' = [held EXCEPT ![f] = n]
  BY DEF Granted
<1>2. held[f] = 0
  BY <1>1, FreeRunIsUnheld
<1>3. f .. (f + n - 1) \subseteq Blocks
  BY <1>1, Numbers DEF Fits, Blocks
<1>4. \A s \in Blocks \ {f} : held'[s] = held[s]
  BY <1>1, Numbers
<1>5. held'[f] = n
  BY <1>1, Numbers
<1>6. \A b \in f .. (f + n - 1) :
        heap_entry_is_free(entries[b]) /\ heap_entry_is_taken(entries'[b])
  BY <1>1, <1>3, Numbers DEF Fits, Mark, EntryFor, heap_entry_is_taken, Blocks
<1>7. \A b \in Blocks : b \notin f .. (f + n - 1) => entries'[b] = entries[b]
  BY <1>1, Numbers DEF Mark, Blocks
<1>. QED
  BY <1>2, <1>3, <1>4, <1>5, <1>6, <1>7

(* A request that rounds to 0 bytes changes at most the entry of block 0, *)
(* and not even that one when block 0 is held.                            *)
LEMMA ClaimedIsBlockZero ==
  ASSUME IInv, mode = "run", Claimed
  PROVE  /\ \A b \in Blocks \ {0} : entries'[b] = entries[b]
         /\ heap_entry_is_taken(entries'[0])
         /\ \A s \in Blocks : \A b \in RangeHeld(s) : entries'[b] = entries[b]
<1>1. Total > 0
  BY DEF IInv
<1>2. entries'[0] = {HEAP_ENTRY_TAKEN, HEAP_IS_FIRST}
      /\ \A b \in Blocks \ {0} : entries'[b] = entries[b]
  BY <1>1, Numbers DEF Claimed, Mark, EntryFor, Blocks
<1>3. ASSUME NEW s \in Blocks, NEW b \in RangeHeld(s), b = 0
      PROVE  entries'[b] = entries[b]
  <2>1. held[s] # 0 /\ s = 0
    BY <1>3, HeldIsTaken, Numbers DEF RangeHeld
  <2>2. entries[0] = EntryFor(0, 0, 0 + held[0] - 1)
    BY <1>3, <2>1 DEF IInv, HeldRangeIntact
  <2>. QED
    BY <1>2, <1>3, <2>2 DEF EntryFor
<1>4. ASSUME NEW s \in Blocks, NEW b \in RangeHeld(s)
      PROVE  entries'[b] = entries[b]
  BY <1>2, <1>3, HeldIsTaken
<1>. QED
  BY <1>2, <1>4 DEF heap_entry_is_taken

(* What heap_free clears, and what it leaves. *)
LEMMA FreedChanges ==
  ASSUME IInv, mode = "run", NEW s \in Blocks, Freed(s)
  PROVE  /\ held'[s] = 0
         /\ \A t \in Blocks \ {s} : held'[t] = held[t]
         /\ \A b \in Blocks :
              IF b = s \/ (s < b /\ b < s + held[s] - 1)
                THEN entries'[b] = HEAP_ENTRY_FREE
                ELSE entries'[b] = entries[b]
<1>1. held' = [held EXCEPT ![s] = 0]
  BY DEF Freed
<1>2. \A b \in Blocks : b \in FreedBy(s) <=> b = s \/ (s < b /\ b < s + held[s] - 1)
  BY FreedWithin DEF Freed
<1>3. \A b \in Blocks :
        entries'[b] = IF b \in FreedBy(s) THEN HEAP_ENTRY_FREE ELSE entries[b]
  BY Numbers DEF Freed, Blocks
<1>4. held'[s] = 0 /\ \A t \in Blocks \ {s} : held'[t] = held[t]
  BY <1>1, Numbers
<1>. QED
  BY <1>2, <1>3, <1>4

-----------------------------------------------------------------------------
(***************************************************************************)
(* Action properties.                                                      *)
(***************************************************************************)
HolderStep ==
  \A s \in Blocks :
    held[s] # 0 /\ held'[s] = held[s] =>
      \A b \in RangeHeld(s) : entries'[b] = entries[b]

LEMMA HolderStepHolds == IInv /\ [Next]_vars => HolderStep
<1>. SUFFICES ASSUME IInv, [Next]_vars,
                     NEW s \in Blocks, held[s] # 0, held'[s] = held[s],
                     NEW b \in RangeHeld(s)
              PROVE  entries'[b] = entries[b]
  BY DEF HolderStep
<1>1. b \in Blocks /\ heap_entry_is_taken(entries[b])
  BY HeldIsTaken
<1>2. CASE mode # "run"
  BY <1>2, OtherSteps DEF vars
<1>3. CASE mode = "run"
  <2>1. ASSUME NEW f \in Blocks, NEW n \in Nat, Granted(f, n)
        PROVE  entries'[b] = entries[b]
    <3>1. b \notin f .. (f + n - 1)
      BY <1>1, <2>1, GrantedIsFresh DEF heap_entry_is_free
    <3>. QED
      BY <1>1, <2>1, <3>1, GrantedIsFresh
  <2>2. CASE Claimed
    BY <1>3, <2>2, ClaimedIsBlockZero
  <2>3. ASSUME NEW r \in Blocks, Freed(r) PROVE entries'[b] = entries[b]
    <3>1. r # s /\ heap_entry_is_first(entries[r])
      BY <1>3, <2>3, FreedChanges DEF Freed
    <3>2. b \notin FreedBy(r)
      BY <1>3, <3>1, FreedApart
    <3>. QED
      BY <1>1, <2>3, <3>2, Numbers DEF Freed, Blocks
  <2>4. CASE Idle \/ \E c \in Blocks : Filled(c)
    BY <2>4 DEF Idle, Filled
  <2>. QED
    BY <1>3, <2>1, <2>2, <2>3, <2>4, StepShapes
<1>. QED
  BY <1>2, <1>3

(***************************************************************************)
(* No step of anyone, for any heap, changes a table entry of a range that  *)
(* stays held: neither a first fit, nor a malloc of 0 bytes, nor the walk  *)
(* of heap_free along HAS_NEXT.                                            *)
(***************************************************************************)
THEOREM HeldEntriesStay == Spec => HolderUndisturbed
<1>1. IInv /\ [Next]_vars => HolderStep
  BY HolderStepHolds
<1>. QED
  BY <1>1, HeapInvariant, PTL DEF Spec, HolderUndisturbed, HolderStep

TailStep ==
  \A s \in Blocks :
    held[s] # 0 /\ held'[s] = 0 =>
      {b \in RangeHeld(s) : heap_entry_is_taken(entries'[b])}
        = IF held[s] = 1 THEN {} ELSE {s + held[s] - 1}

LEMMA TailStepHolds == IInv /\ [Next]_vars => TailStep
<1>. SUFFICES ASSUME IInv, [Next]_vars,
                     NEW s \in Blocks, held[s] # 0, held'[s] = 0
              PROVE  {b \in RangeHeld(s) : heap_entry_is_taken(entries'[b])}
                       = IF held[s] = 1 THEN {} ELSE {s + held[s] - 1}
  BY DEF TailStep
<1>1. mode = "run"
  BY OtherSteps
<1>2. Freed(s)
  <2>1. ASSUME NEW f \in Blocks, NEW n \in Nat, Granted(f, n) PROVE FALSE
    BY <2>1, GrantedIsFresh DEF Granted
  <2>2. ASSUME NEW r \in Blocks, Freed(r) PROVE r = s
    BY <1>1, <2>2, FreedChanges
  <2>. QED
    BY <1>1, <2>1, <2>2, StepShapes DEF Claimed, Filled, Idle
<1>3. s \in Nat /\ held[s] \in Nat
  BY Numbers
<1>4. ASSUME NEW b \in RangeHeld(s)
      PROVE  heap_entry_is_taken(entries'[b]) <=> held[s] # 1 /\ b = s + held[s] - 1
  <2>1. b \in Blocks /\ b \in Nat /\ s <= b /\ b < s + held[s]
        /\ heap_entry_is_taken(entries[b])
    BY <1>3, HeldIsTaken, Numbers DEF RangeHeld
  <2>2. CASE b = s \/ (s < b /\ b < s + held[s] - 1)
    <3>1. entries'[b] = HEAP_ENTRY_FREE
      BY <1>1, <1>2, <2>1, <2>2, FreedChanges
    <3>. QED
      BY <1>3, <2>1, <2>2, <3>1 DEF HEAP_ENTRY_FREE, heap_entry_is_taken
  <2>3. CASE ~(b = s \/ (s < b /\ b < s + held[s] - 1))
    <3>1. entries'[b] = entries[b]
      BY <1>1, <1>2, <2>1, <2>3, FreedChanges
    <3>2. held[s] # 1 /\ b = s + held[s] - 1
      BY <1>3, <2>1, <2>3
    <3>. QED
      BY <2>1, <3>1, <3>2
  <2>. QED
    BY <2>2, <2>3
<1>5. s + held[s] - 1 \in RangeHeld(s)
  BY <1>3 DEF RangeHeld
<1>. QED
  BY <1>4, <1>5

(***************************************************************************)
(* For every heap, free keeps back exactly the last block of a range of    *)
(* two or more blocks, and nothing of a range of one.                      *)
(***************************************************************************)
THEOREM FreeKeepsLastBlock == Spec => FreeKeepsTheTail
<1>1. IInv /\ [Next]_vars => TailStep
  BY TailStepHolds
<1>. QED
  BY <1>1, HeapInvariant, PTL DEF Spec, FreeKeepsTheTail, TailStep

LeakStep ==
  mode = "run" =>
    \A b \in Blocks \ {0} :
      heap_entry_is_taken(entries[b]) /\ b \notin LiveBlocks =>
        heap_entry_is_taken(entries'[b]) /\ b \notin LiveBlocks'

LEMMA LeakStepHolds == IInv /\ [Next]_vars => LeakStep
<1>. SUFFICES ASSUME IInv, [Next]_vars, mode = "run",
                     NEW b \in Blocks \ {0},
                     heap_entry_is_taken(entries[b]), b \notin LiveBlocks
              PROVE  heap_entry_is_taken(entries'[b]) /\ b \notin LiveBlocks'
  BY DEF LeakStep
<1>1. \A s \in Blocks : b \notin RangeHeld(s)
  BY DEF LiveBlocks
<1>2. ASSUME NEW f \in Blocks, NEW n \in Nat, Granted(f, n)
      PROVE  heap_entry_is_taken(entries'[b]) /\ b \notin LiveBlocks'
  <2>1. b \notin f .. (f + n - 1)
    BY <1>2, GrantedIsFresh DEF heap_entry_is_free
  <2>2. entries'[b] = entries[b]
    BY <1>2, <2>1, GrantedIsFresh
  <2>3. ASSUME NEW s \in Blocks PROVE b \notin s .. (s + held'[s] - 1)
    BY <1>1, <1>2, <2>1, GrantedIsFresh DEF RangeHeld
  <2>. QED
    BY <2>2, <2>3 DEF LiveBlocks, RangeHeld
<1>3. CASE Claimed
  BY <1>1, <1>3, ClaimedIsBlockZero DEF Claimed, LiveBlocks, RangeHeld
<1>4. ASSUME NEW r \in Blocks, Freed(r)
      PROVE  heap_entry_is_taken(entries'[b]) /\ b \notin LiveBlocks'
  <2>1. r \in Nat /\ held[r] \in Nat /\ b \in Nat /\ b # 0
    BY Numbers
  <2>2. ~(r < b /\ b < r + held[r] - 1)
    BY <1>1, <2>1 DEF RangeHeld
  <2>3. b # r
    <3>1. SUFFICES ASSUME b = r PROVE FALSE
      OBVIOUS
    <3>2. held[b] # 0
      BY <1>4, <2>1, <3>1 DEF Freed, IInv, NoStrayFlags
    <3>. QED
      BY <1>1, <2>1, <3>1, <3>2 DEF RangeHeld
  <2>4. entries'[b] = entries[b]
    BY <1>4, <2>2, <2>3, FreedChanges
  <2>5. ASSUME NEW s \in Blocks PROVE b \notin s .. (s + held'[s] - 1)
    <3>1. CASE s = r
      BY <1>4, <2>1, <3>1, FreedChanges
    <3>2. CASE s # r
      BY <1>1, <1>4, <3>2, FreedChanges DEF RangeHeld
    <3>. QED
      BY <3>1, <3>2
  <2>. QED
    BY <2>4, <2>5 DEF LiveBlocks, RangeHeld
<1>5. CASE Idle \/ \E c \in Blocks : Filled(c)
  BY <1>1, <1>5 DEF Idle, Filled, LiveBlocks, RangeHeld
<1>. QED
  BY <1>2, <1>3, <1>4, <1>5, StepShapes

(***************************************************************************)
(* For every heap: a block that is marked taken while nobody holds it, but *)
(* block 0, stays so for ever.                                             *)
(***************************************************************************)
THEOREM LeaksAreForGood == Spec => LeakIsPermanent
<1>1. IInv /\ [Next]_vars => LeakStep
  BY LeakStepHolds
<1>. QED
  BY <1>1, HeapInvariant, PTL DEF Spec, LeakIsPermanent, LeakStep

ResidueStep ==
  mode = "run" =>
    \A b \in Blocks :
      Residue(b)' /\ ~Residue(b) => b \in LiveBlocks /\ held[b] = 0

LEMMA ResidueStepHolds == IInv /\ [Next]_vars => ResidueStep
<1>. SUFFICES ASSUME IInv, [Next]_vars, mode = "run",
                     NEW b \in Blocks, Residue(b)', ~Residue(b)
              PROVE  b \in LiveBlocks /\ held[b] = 0
  BY DEF ResidueStep
<1>1. heap_entry_is_free(entries'[b]) /\ b \in dirty'
  BY DEF Residue, heap_entry_is_free, heap_entry_is_taken
<1>2. ASSUME NEW f \in Blocks, NEW n \in Nat, Granted(f, n) PROVE FALSE
  <2>1. b \notin f .. (f + n - 1)
    BY <1>1, <1>2, GrantedIsFresh DEF heap_entry_is_free
  <2>2. entries'[b] = entries[b] /\ b \in dirty
    BY <1>1, <1>2, <2>1, GrantedIsFresh DEF Granted
  <2>. QED
    BY <1>1, <2>2 DEF Residue
<1>3. CASE Claimed
  <2>1. b # 0 /\ b \in dirty
    BY <1>1, <1>3, ClaimedIsBlockZero DEF Claimed, heap_entry_is_free
  <2>2. entries'[b] = entries[b]
    BY <1>3, <2>1, ClaimedIsBlockZero
  <2>. QED
    BY <1>1, <2>1, <2>2 DEF Residue
<1>4. ASSUME NEW r \in Blocks, Freed(r)
      PROVE  b \in LiveBlocks /\ held[b] = 0
  <2>1. b # r /\ b \in dirty
    BY <1>1, <1>4 DEF Freed
  <2>2. entries'[b] # entries[b]
    BY <1>1, <2>1 DEF Residue
  <2>3. r < b /\ b < r + held[r] - 1
    BY <1>4, <2>1, <2>2, FreedChanges
  <2>4. r \in Nat /\ held[r] \in Nat /\ b \in Nat
    BY Numbers
  <2>5. b \in RangeHeld(r) /\ held[r] # 0
    BY <2>3, <2>4 DEF RangeHeld
  <2>6. held[b] # 0 => r + held[r] <= b
    BY <2>3, <2>5 DEF IInv, HeldRangeIntact
  <2>. QED
    BY <2>3, <2>4, <2>5, <2>6 DEF LiveBlocks
<1>5. ASSUME NEW c \in Blocks, Filled(c) PROVE FALSE
  <2>1. PICK s \in Blocks : c \in RangeHeld(s)
    BY <1>5 DEF Filled, LiveBlocks
  <2>2. heap_entry_is_taken(entries[c])
    BY <2>1, HeldIsTaken
  <2>3. b # c /\ b \in dirty /\ heap_entry_is_free(entries[b])
    BY <1>1, <1>5, <2>2 DEF Filled, heap_entry_is_free
  <2>. QED
    BY <2>3 DEF Residue
<1>6. CASE Idle
  BY <1>1, <1>6 DEF Idle, Residue
<1>. QED
  BY <1>2, <1>3, <1>4, <1>5, <1>6, StepShapes

(***************************************************************************)
(* For every heap: a free block comes to hold old bytes only by being an   *)
(* inner block of a range that was freed.                                  *)
(***************************************************************************)
THEOREM ResidueFromInnerBlocks == Spec => ResidueOnlyInside
<1>1. IInv /\ [Next]_vars => ResidueStep
  BY ResidueStepHolds
<1>. QED
  BY <1>1, HeapInvariant, PTL DEF Spec, ResidueOnlyInside, ResidueStep

-----------------------------------------------------------------------------
(***************************************************************************)
(* Refinement: the heap as the allocator its callers rely on.              *)
(***************************************************************************)
LEMMA InitRefines == Init => Promise!Init
  BY DEF Init, Promise!Init, Blocks

LEMMA StepRefines == IInv /\ [Next]_vars => [Promise!Next]_Promise!vars
<1>. SUFFICES ASSUME IInv, [Next]_vars PROVE [Promise!Next]_Promise!vars
  OBVIOUS
<1>. USE DEF Promise!vars
<1>1. CASE mode # "run"
  <2>1. CASE memory_init /\ mode' = "run"
    <3>1. Promise!Start
      BY <1>1, <2>1, OtherSteps DEF memory_init, Promise!Start, Blocks
    <3>. QED
      BY <3>1 DEF Promise!Next
  <2>2. CASE mode' # "run"
    BY <1>1, <2>2, OtherSteps
  <2>3. memory_init \/ UNCHANGED vars
    BY <1>1 DEF Next, malloc, zalloc, memcpy, free
  <2>. QED
    BY <1>1, <2>1, <2>2, <2>3 DEF vars
<1>2. CASE mode = "run"
  <2>1. ASSUME NEW f \in Blocks, NEW n \in Nat, Granted(f, n)
        PROVE  Promise!Next
    <3>1. f .. (f + n - 1) \subseteq Blocks
      BY <2>1, GrantedIsFresh
    <3>2. n \in 1 .. Total
      <4>1. n > 0 /\ f + n <= Total
        BY <2>1 DEF Granted, Fits
      <4>. QED
        BY <4>1, Numbers
    <3>3. ASSUME NEW t \in Blocks
          PROVE  (f .. (f + n - 1)) \cap RangeHeld(t) = {}
      BY <2>1, GrantedIsFresh, HeldIsTaken DEF heap_entry_is_free
    <3>4. Promise!Grant(f, n)
      BY <1>2, <2>1, <3>1, <3>3
         DEF Granted, Promise!Grant, Promise!Range, RangeHeld, Blocks
    <3>. QED
      BY <3>2, <3>4 DEF Promise!Next, Blocks
  <2>2. ASSUME NEW r \in Blocks, Freed(r)
        PROVE  Promise!Next \/ UNCHANGED Promise!vars
    <3>1. CASE held[r] # 0
      <4>1. Promise!GiveBack(r)
        BY <1>2, <2>2, <3>1 DEF Freed, Promise!GiveBack
      <4>. QED
        BY <4>1 DEF Promise!Next, Blocks
    <3>2. CASE held[r] = 0
      BY <2>2, <3>2 DEF Freed, IInv, TypeOK
    <3>. QED
      BY <3>1, <3>2
  <2>3. CASE held' = held
    <3>1. CASE mode' = "run"
      BY <1>2, <2>3, <3>1
    <3>2. CASE mode' # "run"
      <4>1. Promise!Stop
        BY <2>3, <3>2 DEF Promise!Stop
      <4>. QED
        BY <4>1 DEF Promise!Next
    <3>. QED
      BY <3>1, <3>2
  <2>. QED
    BY <1>2, <2>1, <2>2, <2>3, StepShapes DEF Claimed, Filled, Idle
<1>. QED
  BY <1>1, <1>2

(***************************************************************************)
(* The heap, of any size, implements module Allocator: every malloc that   *)
(* returns memory is a grant of fresh blocks, every free gives back a held *)
(* range or nothing, and no other step is visible to the holders.          *)
(***************************************************************************)
THEOREM HeapImplementsAllocator == Spec => ImplementsAllocator
<1>1. Init => Promise!Init
  BY InitRefines
<1>2. IInv /\ [Next]_vars => [Promise!Next]_Promise!vars
  BY StepRefines
<1>. QED
  BY <1>1, <1>2, HeapInvariant, PTL
     DEF Spec, ImplementsAllocator, Promise!Spec
=============================================================================
