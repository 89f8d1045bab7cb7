------------------------------- MODULE Paging -------------------------------
(***************************************************************************)
(* src/src/lib/memory/paging.c with paging.asm, and the processor that     *)
(* uses the tables.  Memory is counted in words of four bytes: a page has  *)
(* as many as a table has entries.  The code takes physical addresses, out *)
(* of the directory and from malloc, for virtual ones, and never reloads   *)
(* cr3 after a change; the processor keeps translations as it likes.       *)
(***************************************************************************)
EXTENDS Integers, FiniteSets, Functions

CONSTANTS
  Entries,         \* PAGING_PAGE_ENTRIES
  DirectoryFrame,  \* the frame that malloc gives the directory
  TableFrames,     \* the frames that malloc gives the tables
  KernelPages,     \* the pages with the kernel's code and stack
  NewEntries,      \* what callers pass to paging_set: whole entries
  Junk,            \* a word that nobody wrote as an entry
  TlbSize,         \* bound: translations the processor keeps at a time
  MaxSets          \* bound: calls of paging_set

Indexes == 0 .. (Entries - 1)
Frames  == 0 .. (Entries * Entries - 1)
Words   == 0 .. (Entries * Entries * Entries - 1)
Entry   == [frame : Frames, present : BOOLEAN]

ASSUME PagingAssumption ==
  /\ Entries \in Nat \ {0}
  (* malloc gives blocks that do not overlap, and the heap is not at 0. *)
  /\ DirectoryFrame \in Frames \ {0}
  /\ TableFrames \in [Indexes -> Frames \ {0, DirectoryFrame}]
  /\ \A i, j \in Indexes : TableFrames[i] = TableFrames[j] => i = j
  /\ KernelPages \subseteq Frames /\ KernelPages # {} /\ NewEntries \subseteq Entry
  /\ Junk \notin Entry
  /\ TlbSize \in Nat /\ MaxSets \in Nat

VARIABLES
  mode,      \* "boot", "run" or, after a fault, "wild"
  mem,       \* physical memory
  cr3,       \* the frame of the directory
  paging,    \* the bit in cr0
  tlb,       \* page -> entry, for the pages whose translation is kept
  result,    \* what the last paging_set returned
  sets,      \* calls of paging_set
  given,     \* observation: what each page was last given
  recent,    \* observation: what each page was given since cr3 was loaded
  moved      \* observation: the page of the directory or of a table was given
             \* another frame, or none

hardwareVars == <<cr3, paging, tlb>>
observations == <<sets, given, recent, moved>>
vars == <<mode, mem, hardwareVars, result, observations>>

TableFrame(i)  == TableFrames[i]
TableAt(frame) == CHOOSE i \in Indexes : TableFrame(i) = frame
Structures     == {DirectoryFrame} \cup {TableFrame(i) : i \in Indexes}

Present(frame) == [frame |-> frame, present |-> TRUE]
Missing        == [frame |-> 0, present |-> FALSE]
WordOf(frame, index) == frame * Entries + index

-----------------------------------------------------------------------------
(***************************************************************************)
(* The processor.                                                          *)
(***************************************************************************)
Load(frame, index) ==
  LET word == mem[WordOf(frame, index)] IN IF word = Junk THEN Missing ELSE word

Walk(page) ==
  LET table == Load(cr3, page \div Entries)
  IN  IF table.present THEN Load(table.frame, page % Entries) ELSE Missing

Translate(page) ==
  IF ~paging THEN Present(page)
  ELSE IF page \in DOMAIN tlb THEN tlb[page] ELSE Walk(page)

(* It keeps translations, and drops them, whenever it likes. *)
Keep(page) ==
  /\ mode = "run" /\ paging
  /\ page \notin DOMAIN tlb /\ Walk(page).present
  /\ Cardinality(DOMAIN tlb) < TlbSize
  /\ tlb' = [p \in DOMAIN tlb \cup {page} |-> IF p = page THEN Walk(page) ELSE tlb[p]]
  /\ UNCHANGED <<mode, mem, cr3, paging, result, observations>>

Drop(page) ==
  /\ mode = "run" /\ page \in DOMAIN tlb
  /\ tlb' = Restrict(tlb, DOMAIN tlb \ {page})
  /\ UNCHANGED <<mode, mem, cr3, paging, result, observations>>

(* The next instruction, or its stack, is not where it was. *)
KernelIsGone ==
  /\ mode = "run"
  /\ \E page \in KernelPages : Translate(page) # Present(page)
  /\ mode' = "wild"
  /\ UNCHANGED <<mem, hardwareVars, result, observations>>

-----------------------------------------------------------------------------
Init ==
  /\ mode = "boot"
  /\ mem = [w \in Words |-> Junk]
  /\ cr3 = 0 /\ paging = FALSE /\ tlb = <<>>
  /\ result = "OK"
  /\ sets = 0
  /\ given = [page \in Frames |-> Present(page)]
  /\ recent = [page \in Frames |-> {Present(page)}]
  /\ moved = FALSE

(***************************************************************************)
(* paging_create_chunk, with the flags of init_kernel_paging: entry j of   *)
(* table i is page i * Entries + j.  The words of the Paging_Chunk are not *)
(* modelled.                                                               *)
(***************************************************************************)
paging_create_chunk ==
  /\ mode = "boot"
  /\ mode' = "run"
  /\ mem' = [w \in Words |->
       LET frame == w \div Entries
           index == w % Entries
       IN  IF frame = DirectoryFrame THEN Present(TableFrame(index))
           ELSE IF frame \in Structures
             THEN Present(TableAt(frame) * Entries + index)
           ELSE mem[w]]
  /\ UNCHANGED <<hardwareVars, result, observations>>

(* Mutant of Flushed: the directory is remembered, and cr3 not loaded. *)
Flushed_Not == tlb

(* Loading cr3 drops what the processor keeps. *)
Flushed == <<>>

(* paging_switch_directory; also the only way to make changes count. *)
paging_switch_directory ==
  /\ mode = "run"
  /\ cr3' = DirectoryFrame
  /\ tlb' = Flushed
  /\ recent' = [page \in Frames |-> {given[page]}]
  /\ UNCHANGED <<mode, mem, paging, result, sets, given, moved>>

paging_enable_paging ==
  /\ mode = "run"
  /\ paging' = TRUE
  /\ mode' = IF \E page \in KernelPages : Walk(page) # Present(page) THEN "wild" ELSE mode
  /\ UNCHANGED <<mem, cr3, tlb, result, observations>>

-----------------------------------------------------------------------------
paging_is_aligned(address) == address % Entries = 0

(* Mutant: the address is not reduced to its part of the directory. *)
paging_get_indexes_NoRemainder(address) ==
  [directory |-> address \div (Entries * Entries), table |-> address \div Entries]

paging_get_indexes(address) ==
  [directory |-> address \div (Entries * Entries),
   table     |-> (address % (Entries * Entries)) \div Entries]

(***************************************************************************)
(* paging_set.  It reads the directory and writes the table at the         *)
(* addresses that the processor makes of them.  flags is the whole entry,  *)
(* and takes the place of the page's address too.                          *)
(***************************************************************************)
SetWord(address, flags) ==
  LET info  == paging_get_indexes(address)
      read  == Translate(DirectoryFrame)
      entry == Load(read.frame, info.directory)
      write == Translate(entry.frame)
      page  == address \div Entries
  IN  IF read.present /\ write.present
        THEN /\ mem' = [mem EXCEPT ![WordOf(write.frame, info.table)] = flags]
             /\ result' = "OK"
             /\ given' = [given EXCEPT ![page] = flags]
             /\ recent' = [recent EXCEPT ![page] = @ \cup {flags}]
             /\ moved' = (moved \/ (page \in Structures /\ flags # Present(page)))
             /\ UNCHANGED mode
        ELSE /\ mode' = "wild"
             /\ UNCHANGED <<mem, result, given, recent, moved>>

paging_set(address, flags) ==
  /\ mode = "run"
  /\ sets < MaxSets
  /\ sets' = sets + 1
  /\ IF paging_is_aligned(address)
       THEN SetWord(address, flags)
       ELSE /\ result' = "PAGING_MEMORY_NOT_ALIGNED"
            /\ UNCHANGED <<mode, mem, given, recent, moved>>
  /\ UNCHANGED hardwareVars

Next ==
  \/ paging_create_chunk
  \/ paging_switch_directory
  \/ paging_enable_paging
  \/ \E address \in Words, flags \in NewEntries : paging_set(address, flags)
  \/ \E page \in Frames : Keep(page) \/ Drop(page)
  \/ KernelIsGone

Spec == Init /\ [][Next]_vars

-----------------------------------------------------------------------------
(***************************************************************************)
(* The tables say of every page what paging_set was last told about it,    *)
(* and map to itself every page it was not told about: no call changes the *)
(* word of another page, although each finds the table through addresses   *)
(* that earlier calls may have changed.  A call that moves the page of the *)
(* directory or of a table ends that, for good.                            *)
(***************************************************************************)
WalkGivesWhatWasSet ==
  mode = "run" /\ cr3 = DirectoryFrame /\ ~moved =>
    \A page \in Frames : Walk(page) = given[page]

(***************************************************************************)
(* What the processor uses for a page is what the page was last given, or  *)
(* something it was given since the directory was last switched to: calls  *)
(* need not take effect, but a switch makes all of them count.             *)
(***************************************************************************)
ProcessorUsesRecentEntries ==
  mode = "run" /\ paging /\ ~moved =>
    \A page \in Frames : Translate(page) \in recent[page]
=============================================================================
