-------------------------------- MODULE Heap --------------------------------
(***************************************************************************)
(* The kernel heap: the block table of src/src/lib/memory/heap.c and the   *)
(* global malloc, zalloc and free of src/src/lib/memory/memory.c.  No      *)
(* interrupt handler allocates, so each call is one atomic step.           *)
(***************************************************************************)
EXTENDS Integers

CONSTANTS
  AvailableBytes,   \* KERNEL_MAX_HEAP_MEMORY, the bytes behind the table
  StartAddress,     \* MEMORY_HEAP_START_ADDRESS
  BlockSize,        \* KERNEL_HEAP_BLOCK_SIZE
  SizeMod,          \* the number of values of HEAP_SIZE_TYPE (2^32)
  Requests          \* the byte counts that callers ask for

ASSUME HeapAssumption ==
  /\ BlockSize \in Nat \ {0}
  /\ AvailableBytes \in Nat
  /\ StartAddress \in Nat
  /\ SizeMod \in Nat \ {0}
  /\ SizeMod % BlockSize = 0
  /\ Requests \subseteq 0 .. (SizeMod - 1)

VARIABLES
  mode,      \* "boot" before memory_init, "run", "panic" in panic()'s loop,
             \* "wild" once a memset has run over address 0
             \* or over what lies behind the heap
  entries,   \* Heap_Table.entries, and at index Total the word behind it
  held,      \* observation: held[s] blocks are held by a caller from block s on
  dirty      \* the blocks that may hold a byte other than 0

vars == <<mode, entries, held, dirty>>

-----------------------------------------------------------------------------
(***************************************************************************)
(* Table entries, as the set of their flag bits.                           *)
(***************************************************************************)
HEAP_ENTRY_TAKEN == "TAKEN"
HEAP_IS_FIRST    == "IS_FIRST"
HEAP_HAS_NEXT    == "HAS_NEXT"

HEAP_ENTRY_FREE == {}
HEAP_ENTRY      == SUBSET {HEAP_ENTRY_TAKEN, HEAP_IS_FIRST, HEAP_HAS_NEXT}

heap_entry_is_taken(entry) == HEAP_ENTRY_TAKEN \in entry
heap_entry_is_free(entry)  == ~heap_entry_is_taken(entry)
heap_entry_has_next(entry) == HEAP_HAS_NEXT \in entry
heap_entry_is_first(entry) == HEAP_IS_FIRST \in entry

(* heap_create_table's total, and the indexes of its entries. *)
Total  == AvailableBytes \div BlockSize
Blocks == 0 .. (Total - 1)

(***************************************************************************)
(* Addresses a caller can name: NULL, everything up to the heap's end, and *)
(* the first one behind it, for all that lie there.                        *)
(***************************************************************************)
EndAddress == StartAddress + Total * BlockSize
Addresses  == 0 .. EndAddress
InHeap(address) == StartAddress <= address /\ address < EndAddress

heap_validate_alignment(address) == address % BlockSize = 0

(* The block that heap_free computes from an address inside the heap. *)
BlockOf(address) == (address - StartAddress) \div BlockSize

(***************************************************************************)
(* Rounding a request up to whole blocks in unsigned arithmetic: the last  *)
(* BlockSize - 1 byte counts wrap round to 0.                              *)
(***************************************************************************)
heap_align_amount_of_bytes_requested(bytes) ==
  IF bytes % BlockSize = 0
    THEN bytes
    ELSE (bytes - (bytes % BlockSize) + BlockSize) % SizeMod

(* Whole blocks, so it is 0 exactly when the rounded byte count is 0. *)
required_blocks(bytes) ==
  heap_align_amount_of_bytes_requested(bytes) \div BlockSize

-----------------------------------------------------------------------------
(* Mutants of Fits: the taken-entry branch does not reset block_count, and *)
(* the loop runs to i <= total.                                            *)
Fits_CountNotReset(s, n) ==
  s + n <= Total /\ heap_entry_is_free(entries[s])

Fits_PastTheEnd(s, n) ==
  /\ s + n <= Total + 1
  /\ \A b \in s .. (s + n - 1) : heap_entry_is_free(entries[b])

(***************************************************************************)
(* heap_request_memory: the lowest run of n free blocks.                   *)
(***************************************************************************)
Fits(s, n) ==
  /\ s + n <= Total
  /\ \A b \in s .. (s + n - 1) : heap_entry_is_free(entries[b])

HasFit(n) == \E s \in Blocks : Fits(s, n)

FirstFit(n) ==
  CHOOSE s \in Blocks : Fits(s, n) /\ \A t \in Blocks : Fits(t, n) => s <= t

(* Mutant of EntryFor: every block behind the first gets HAS_NEXT. *)
EntryFor_LastHasNext(b, s, e) ==
  {HEAP_ENTRY_TAKEN} \cup (IF b = s THEN {HEAP_IS_FIRST} ELSE {HEAP_HAS_NEXT})

(***************************************************************************)
(* The entries that heap_malloc writes for blocks s .. e.  The first block *)
(* never gets HAS_NEXT, because the two flags share one if / else if, and  *)
(* the last block gets neither.                                            *)
(***************************************************************************)
EntryFor(b, s, e) ==
  {HEAP_ENTRY_TAKEN}
    \cup (IF b = s THEN {HEAP_IS_FIRST}
          ELSE IF b # e THEN {HEAP_HAS_NEXT} ELSE {})

Mark(s, e) == [b \in 0 .. Total |-> IF b \in s .. e THEN EntryFor(b, s, e)
                                                    ELSE entries[b]]

(* Mutant of FreedBy: the loop clears an entry before it looks at its flag. *)
FreedBy_OneTooMany(s) ==
  {b \in s .. Total : \A c \in (s + 1) .. (b - 1) : heap_entry_has_next(entries[c])}

(***************************************************************************)
(* The entries that heap_free's do-while clears from block s on: s itself, *)
(* then every following entry as long as each has HAS_NEXT.  Nothing stops *)
(* it at the end of the table.                                             *)
(***************************************************************************)
FreedBy(s) ==
  {s} \cup {b \in (s + 1) .. Total :
              \A c \in (s + 1) .. b : heap_entry_has_next(entries[c])}

-----------------------------------------------------------------------------
Init ==
  /\ mode = "boot"
  /\ entries \in [0 .. Total -> {HEAP_ENTRY_FREE, {HEAP_HAS_NEXT}}]
  /\ held = [s \in Blocks |-> 0]
  /\ dirty \in SUBSET Blocks

(***************************************************************************)
(* memory_init: heap_create_table, then heap_create, which clears the      *)
(* table but not the word behind it.                                       *)
(***************************************************************************)
memory_init ==
  /\ mode = "boot"
  /\ IF /\ AvailableBytes >= BlockSize
        /\ heap_validate_alignment(StartAddress)
        /\ heap_validate_alignment(StartAddress + Total * BlockSize)
       THEN /\ mode' = "run"
            /\ entries' = [b \in 0 .. Total |->
                             IF b \in Blocks THEN HEAP_ENTRY_FREE
                                             ELSE entries[b]]
       ELSE /\ mode' = "panic"
            /\ UNCHANGED entries
  /\ UNCHANGED <<held, dirty>>

(***************************************************************************)
(* heap_malloc.  A request that rounds to 0 bytes gets NULL, with start    *)
(* and end block 0, and the marking loop then claims block 0 all the same. *)
(***************************************************************************)
heap_malloc(bytes) ==
  LET n == required_blocks(bytes)
  IN  \/ /\ n = 0
         /\ entries' = Mark(0, 0)
         /\ UNCHANGED held
      \/ /\ n > 0
         /\ HasFit(n)
         /\ entries' = Mark(FirstFit(n), FirstFit(n) + n - 1)
         /\ held' = [held EXCEPT ![FirstFit(n)] = n]
      \/ /\ n > 0
         /\ ~HasFit(n)
         /\ UNCHANGED <<entries, held>>

OutOfMemory(bytes) == required_blocks(bytes) > 0 /\ ~HasFit(required_blocks(bytes))

malloc(bytes) ==
  /\ mode = "run"
  /\ heap_malloc(bytes)
  /\ mode' = IF OutOfMemory(bytes) THEN "panic" ELSE "run"
  /\ UNCHANGED dirty

(***************************************************************************)
(* zalloc: malloc, then memset over the bytes asked for.  A block that is  *)
(* only partly covered may keep old bytes behind them.  The memset also    *)
(* runs when malloc returned NULL: over nothing for a request of 0 bytes,  *)
(* over low memory for a request that wrapped round.                       *)
(***************************************************************************)
zalloc(bytes) ==
  LET n == required_blocks(bytes)
      whole == bytes \div BlockSize
  IN  /\ mode = "run"
      /\ heap_malloc(bytes)
      /\ mode' = IF OutOfMemory(bytes) THEN "panic"
                 ELSE IF n = 0 /\ bytes > 0 THEN "wild" ELSE "run"
      /\ dirty' = IF n > 0 /\ HasFit(n)
                    THEN dirty \ (FirstFit(n) .. (FirstFit(n) + whole - 1))
                    ELSE dirty

(* A caller stores into a block it holds (memcpy, or any store). *)
memcpy(b) ==
  /\ mode = "run"
  /\ \E s \in Blocks : b \in s .. (s + held[s] - 1)
  /\ dirty' = dirty \cup {b}
  /\ UNCHANGED <<mode, entries, held>>

(* Mutants of heap_free: without the IS_FIRST check, without the memset. *)
heap_free_AnyBlock(address) ==
  LET s == BlockOf(address)
  IN  /\ InHeap(address)
      /\ entries' = [b \in 0 .. Total |-> IF b \in FreedBy(s)
                                            THEN HEAP_ENTRY_FREE
                                            ELSE entries[b]]
      /\ held' = [held EXCEPT ![s] = 0]
      /\ dirty' = dirty \ {s}
      /\ UNCHANGED mode

heap_free_NoMemset(address) ==
  LET s == BlockOf(address)
  IN  /\ InHeap(address)
      /\ heap_entry_is_first(entries[s])
      /\ entries' = [b \in 0 .. Total |-> IF b \in FreedBy(s)
                                            THEN HEAP_ENTRY_FREE
                                            ELSE entries[b]]
      /\ held' = [held EXCEPT ![s] = 0]
      /\ UNCHANGED <<mode, dirty>>

(***************************************************************************)
(* heap_free.  The memset inside the loop always clears the first block,   *)
(* whichever entry the loop is at.                                         *)
(***************************************************************************)
heap_free(address) ==
  LET s == BlockOf(address)
  IN  /\ InHeap(address)
      /\ heap_entry_is_first(entries[s])
      /\ entries' = [b \in 0 .. Total |-> IF b \in FreedBy(s)
                                            THEN HEAP_ENTRY_FREE
                                            ELSE entries[b]]
      /\ held' = [held EXCEPT ![s] = 0]
      /\ dirty' = dirty \ {s}
      /\ UNCHANGED mode

(***************************************************************************)
(* heap_free's two panics: an address below the heap, and an entry without *)
(* IS_FIRST.  For an address behind the heap the entry is one behind the   *)
(* table, and may be anything.                                             *)
(***************************************************************************)
heap_free_panics(address) ==
  /\ InHeap(address) => ~heap_entry_is_first(entries[BlockOf(address)])
  /\ mode' = "panic"
  /\ UNCHANGED <<entries, held, dirty>>

(* It passes for one with IS_FIRST: memory behind the heap is cleared. *)
heap_free_behind(address) ==
  /\ address >= EndAddress
  /\ mode' = "wild"
  /\ UNCHANGED <<entries, held, dirty>>

free(address) ==
  /\ mode = "run"
  /\ heap_free(address) \/ heap_free_panics(address) \/ heap_free_behind(address)

Next ==
  \/ memory_init
  \/ \E bytes \in Requests : malloc(bytes)
  \/ \E bytes \in Requests : zalloc(bytes)
  \/ \E b \in Blocks : memcpy(b)
  \/ \E address \in Addresses : free(address)

Spec == Init /\ [][Next]_vars

-----------------------------------------------------------------------------
(* Type correctness of the table and of the observation variables. *)
TypeOK ==
  /\ mode \in {"boot", "run", "panic", "wild"}
  /\ entries \in [0 .. Total -> HEAP_ENTRY]
  /\ held \in [Blocks -> 0 .. Total]
  /\ dirty \subseteq Blocks

RangeHeld(s) == s .. (s + held[s] - 1)
LiveBlocks   == UNION {RangeHeld(s) : s \in Blocks}

(***************************************************************************)
(* Two calls of malloc or zalloc never share memory: what callers hold     *)
(* lies inside the heap, is marked taken block for block, and no two held  *)
(* ranges overlap, whatever was freed, refused or leaked before.           *)
(***************************************************************************)
Isolation ==
  \A s \in Blocks :
    /\ RangeHeld(s) \subseteq Blocks
    /\ \A b \in RangeHeld(s) : heap_entry_is_taken(entries[b])
    /\ \A t \in Blocks \ {s} : RangeHeld(s) \cap RangeHeld(t) = {}

(***************************************************************************)
(* No call, be it someone else's malloc, a malloc of 0 bytes or a free     *)
(* that walks the table by its HAS_NEXT flags, changes a table entry of a  *)
(* range that stays held across the call.                                  *)
(***************************************************************************)
HolderUndisturbed ==
  [][\A s \in Blocks :
       held[s] # 0 /\ held'[s] = held[s] =>
         \A b \in RangeHeld(s) : entries'[b] = entries[b]]_vars

(***************************************************************************)
(* How marking and freeing really fit together: freeing a range of one     *)
(* block returns it, and freeing a longer one returns all of it except its *)
(* last block, which heap_malloc marked with neither IS_FIRST nor HAS_NEXT *)
(* and at which heap_free's loop therefore stops.                          *)
(***************************************************************************)
FreeKeepsTheTail ==
  [][\A s \in Blocks :
       held[s] # 0 /\ held'[s] = 0 =>
         {b \in RangeHeld(s) : heap_entry_is_taken(entries'[b])}
           = IF held[s] = 1 THEN {} ELSE {s + held[s] - 1}]_vars

(***************************************************************************)
(* A block that is marked taken but that nobody holds is gone for good: no *)
(* later sequence of calls ever frees it or hands it out.  The exception   *)
(* is block 0, which a malloc of 0 bytes claims with IS_FIRST set.         *)
(***************************************************************************)
LeakIsPermanent ==
  [][mode = "run" =>
       \A b \in Blocks \ {0} :
         heap_entry_is_taken(entries[b]) /\ b \notin LiveBlocks =>
           heap_entry_is_taken(entries'[b]) /\ b \notin LiveBlocks']_vars

(* A free block with old bytes in it. *)
Residue(b) == heap_entry_is_free(entries[b]) /\ b \in dirty

(***************************************************************************)
(* free clears what it returns, first block only: a block that becomes     *)
(* free while it still holds old bytes lay inside a longer range, behind   *)
(* its first block.  Callers whose requests fit in one block never leave   *)
(* old bytes to the next caller.                                           *)
(***************************************************************************)
ResidueOnlyInside ==
  [][mode = "run" =>
       \A b \in Blocks :
         Residue(b)' /\ ~Residue(b) => b \in LiveBlocks /\ held[b] = 0]_vars

-----------------------------------------------------------------------------
(***************************************************************************)
(* The strengthening of Isolation that is inductive: the flags of a held   *)
(* range are exactly those heap_malloc wrote, held ranges are ordered, and *)
(* outside held ranges no entry has HAS_NEXT and none but block 0 has      *)
(* IS_FIRST, so that heap_free's walk cannot leave the range it frees.     *)
(***************************************************************************)
HeldRangeIntact(s) ==
  held[s] # 0 =>
    /\ s + held[s] <= Total
    /\ \A b \in RangeHeld(s) : entries[b] = EntryFor(b, s, s + held[s] - 1)
    /\ \A t \in Blocks : s < t /\ held[t] # 0 => s + held[s] <= t

NoStrayFlags(b) ==
  /\ heap_entry_is_free(entries[b]) => entries[b] = HEAP_ENTRY_FREE
  /\ heap_entry_is_first(entries[b]) => b = 0 \/ held[b] # 0
  /\ heap_entry_has_next(entries[b]) =>
       \E s \in Blocks : s < b /\ b < s + held[s] - 1

IInv ==
  /\ TypeOK
  /\ mode = "boot" => \A s \in Blocks : held[s] = 0
  /\ mode = "run" => Total > 0
  /\ \A s \in Blocks : HeldRangeIntact(s)
  /\ mode = "run" => \A b \in Blocks : NoStrayFlags(b)

(***************************************************************************)
(* The heap does what its callers rely on (module Allocator).              *)
(***************************************************************************)
Promise == INSTANCE Allocator WITH Size <- Total, serving <- (mode = "run")

ImplementsAllocator == Promise!Spec
=============================================================================
