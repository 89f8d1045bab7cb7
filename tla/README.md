# koko-os in TLA+

koko-os is a 32-bit teaching kernel: a boot sector, a kernel that sets up a heap,
a FAT16 file system on an ATA disk, paging and interrupts, and a `kernel_main`
that reads one file, writes another and tries to read it back. This directory
holds TLA+ modules translated from its C code, TLC configurations that check
them on small instances, and TLAPS proofs. Paths below are relative to
`src/src/`, line numbers are those of the sources.

## Inventory

| Part | State | Operations | Talks to |
| --- | --- | --- | --- |
| Heap, `lib/memory/heap.c`, `memory.c` | one flag word per 4096-byte block | `memory_init`, `malloc`, `zalloc`, `free`, `memcpy`, `memset` | called by everything; panics |
| FAT16 driver, `lib/fs/fat16/fat16.c` | the disk; the cached root directory; item and position of each open file; three disk streams | `fat16_resolve`, `open`, `read`, `write`, `seek`, `stat`, `close` | called through the `File_System` function table; uses disk streams, heap, strings |
| File layer, `lib/fs/file.c` | table of file systems, table of descriptors | `fs_insert_filesystem`, `fs_resolve`, `fs_open`, `fs_read`, `fs_write`, `fs_seek`, `fs_stat`, `fs_close` | path parser, `disk_get`, the file system |
| Disk stream, `lib/fs/disk_stream.c` | a position | `new`, `seek`, `seek_by_sector`, `read`, `write`, `reset`, `close` | `disk_read_block`, `disk_write_block`, heap |
| ATA access, `lib/io/disk.c`, `io.asm` | the controller | `disk_init`, `disk_get`, block reads and writes by polling | ports; `fs_resolve` |
| Path parser, `lib/fs/path_parser.c` | a linked list under construction | `path_parser_parse_path` | heap, strings |
| Strings, `lib/string.c` | none | `itoa`, `atoi`, `str_cmp`, `str_icmp`, `str_slice`, ... | heap |
| Paging, `lib/memory/paging.c`, `paging.asm` | page directory and tables | `paging_create_chunk`, `paging_set`, `paging_get_indexes` | heap; CR3 and CR0 |
| Interrupts, `idt/` | gate table | `idt_init`, null, zero and keyboard handlers | terminal, PIC |
| Terminal, `lib/terminal.c` | cursor and video memory | `print`, `println`, `print_number` | strings |
| Start-up, `kernel.asm`, `kernel.c`, `boot/boot.asm` | none | the order in which all of the above is set up | everything |

Three things run side by side: the foreground, the interrupt handlers, which only
print and acknowledge, and the disk controller, which goes on after the driver has
returned. The hard behaviours of this code are long sequences of legal calls (heap
fragmentation, reuse of slots and clusters), state cached at mount time, a power
failure between two sectors of a write, limits of tables and narrow integers, values
used after a free, errors that are dropped on the way up, interrupts in the middle of
a print or a copy, polling loops that have no way out, and a processor that keeps
translations. `PROJECT.json` lists each one at its line.

What makes each part correct:

- Heap: what is handed out never overlaps; freeing returns what was taken.
- FAT16: the root directory on the disk stays readable and no item is lost,
  whatever is written and whenever the power fails; what open finds in the
  cached directory is on the disk; a read delivers the sectors of the file.
- File layer: an index stands for one open file from `fs_open` to `fs_close`, and
  no open file is lost.
- Disk stream: exactly the requested bytes are transferred.
- Path parser: the list is the path's segments, finite, and made of live strings;
  a lookup ignores case and nothing else.
- ATA access: `OK` means that the sectors are where they belong; a call ends.
- Interrupts and terminal: what is printed stays on the screen, whoever prints; a
  handler gives back what it interrupted; no line waits for ever.
- Paging: an entry changes the page it was meant for, and the processor uses it.
- All together: `kernel_main` uses only indexes that stand for its files, and memory
  that is taken is given back.

## Modules

| Module | Models | Notes |
| --- | --- | --- |
| `Allocator` | what callers of `malloc` and `free` rely on | the abstract specification that `Heap` implements |
| `Heap` | `heap.c`, `memory.c` | one action per call |
| `HeapProofs` | | the inductive invariant of `Heap`, what its steps keep, its refinement of `Allocator`, for TLAPS |
| `Fat16`, `MCFat16` | `fat16.c` | sectors as units, a disk that survives power failures |
| `Fat16Proofs` | | items, cache, data, created files and reads of `Fat16`, for TLAPS |
| `FileTable`, `MCFileTable` | `file.c`, `disk_init`, `disk_get` | the file system beneath is a set of handles |
| `FileTableProofs` | | theorems about `FileTable`, for TLAPS |
| `DiskStream`, `MCDiskStream` | `disk_stream.c`, sector loops of `disk.c` | byte by byte |
| `DiskStreamProofs` | | the types and three action properties of `DiskStream`, for TLAPS |
| `PathParser`, `MCPathParser` | `path_parser.c`, `str_slice`, `str_index_of`, `str_icmp` | one action per iteration |
| `PathParserProofs` | | all properties of `PathParser`, for paths of any length, for TLAPS |
| `FileSystem`, `MCFileSystem` | `file.c` over `fat16.c`, heap use, `kernel_main` | extends `Fat16`; shown to implement `FileTable` |
| `FileSystemProofs` | | its refinement of `FileTable`, indexes, costs, `OK` of a write, `kernel_main`, for TLAPS |
| `Cpu` | program counter, interrupt flag, `ecx`, pending requests | what the next three share |
| `Terminal` | `terminal.c` | `terminal_write_char` in pieces |
| `Interrupts` | `idt.c`, `idt.asm`, the PICs | extends `Terminal`: handlers print |
| `AtaDisk` | `disk.c`, `io.asm`, the controller | one action per port access |
| `Machine` | the three together | statements of the foreground, fairness |
| `MachineProofs` | | all properties of `Machine` but liveness, for TLAPS |
| `Paging`, `MCPaging` | `paging.c`, `paging.asm`, the processor | memory in words |
| `PagingProofs` | | the two invariants of `Paging`, for TLAPS |

### Heap

`entries` is `heap_table.entries`, with the flags of an entry as a set, and one
more word: `heap_free`'s loop looks at the entry behind the last one, and
`memory_init` does not clear it, so `Init` lets it be anything the loop can tell
apart. `held` is an observation: which ranges callers hold. `dirty` is the set of
blocks that may hold old bytes. Each call is one action, since no interrupt
handler allocates. `FirstFit`, `EntryFor` and `FreedBy` say what the three loops
compute; `free` takes any address a caller can name, `malloc` any size in
`Requests`, with the sizes whose rounding wraps to 0. `mode` becomes `"panic"`
where the code calls `panic` (an endless loop) and `"wild"` where `zalloc` clears
memory from address 0 on, or `free` what lies behind the heap; both are final. For an
address behind the heap `heap_free` looks at an entry behind the table, which may be
anything: `heap_free_panics` and `heap_free_behind` are its two outcomes.

What the model shows of the code: freeing a range of two or more blocks keeps its
last block for good (`FreeKeepsTheTail`, `LeakIsPermanent`), and hands its inner
blocks on without clearing them (`ResidueOnlyInside`). Both are how `heap_malloc`
and `heap_free` fit together; isolation of what is held is not affected.

### Fat16

The disk is a function from sectors, counted from the root directory, to their
contents; a sector holds one item or one piece of data. With the boot sector's
geometry (`boot/boot.asm`) the root directory is followed directly by cluster 2,
in the model as on the disk. `words` holds what `fat16_get_fat_entry` finds: because line
354 multiplies where it should add, these words lie in the reserved area for
clusters 3 to 255, and nothing writes them. `cache` and `desc` are volatile, `disk`
is not: `PowerFails` and `PowerFailsInWrite` lose the former and leave the latter
with any prefix of the sectors that `fat16_write` stores, item first.
`fat16_read` only matters for the controller's state: a walk that ran into an
invalid word asks for a sector far off the disk, and `mode` becomes `"hung"`.
Closing a directory frees a pointer made of its name, `mode` `"wild"`.

`fat16_find_item_in_directory` looks at the cached copy up to the number that the scan
counted. The copy has `root_dir_entries` items (`RootSectors`); the scan knows no such end, and
with a full root directory it goes on into the data of cluster 2. The lookup then runs on
behind the copy: through the rest of its heap block (`BlockItems`), whose bytes are 0, so that
its slots spell the name `Empty` with cluster 0 (`Blank`), and from there into other heap
data, where it may come back with any of `Strays` or with nothing. The operator is therefore a
set. `OpenFindsItemsOfTheDisk` says when a lookup is still true to the disk, and the run
`fat16_behind` shows the loop behind the directory.

Words are bounded to the clusters of the modelled disk (`FatAssumption`), where the code
would find any 16-bit value and walk on with it. `fat16_get_free_cluster`'s return of
`SYSTEM_FAIL` is left out: it needs a word of 0 found behind the last cluster, and on the
image that is built the search ends before.

`ImageAssumption` says which disks the machine starts from: items without gaps,
as a `vfat` mount leaves them. Where no probed word is 0, `fat16_get_free_cluster`
never returns (`SearchEnds`, `SearchHangs`), and `mode` becomes `"hung"` before anything
is written; one of the sets of words in `MCFat16` has no 0.

### FileTable

`file_descriptors` and `file_systems` are the two tables; `live` is what the file
system beneath keeps open, and grows and shrinks by what the code calls;
`opened` is an observation of what `fs_open` returned to the caller. Handles are
addresses, so one that was closed can come back. Reads and writes leave this
module's state alone and return `OK` whatever the file system says. `fs_close` may be refused
by the file system, and then returns `SYSTEM_FAIL` with everything as it was; the one driver
there is never refuses.

The path `0:/` is an ordinary path here, as in the code: the comment at `file.c:99` excludes it, but the
parser's one part has the empty string for its name, not `NULL`, so the test behind the comment
passes, and in write mode such an open creates a descriptor.

### DiskStream

Bytes of a small disk, and the position of each stream. A transfer goes through a buffer
on the heap, as in the code: `Filled` is what `disk_read_block` brings, whole sectors, with
`Junk` behind those that the count, after its way through a `uint8_t`
(`TransferredSectors`), leaves out; `CopiedOut` and `CopiedIn` are the copy loops, with the
offset of the position in its sector; `Stored` puts whole sectors of the buffer on the disk, whatever
they hold, and `WrittenBack` is the sequence of the three for a write. A power failure stores
fewer of the sectors. That bytes around the request come back as they were is thus a result
(`NeighboursUndisturbed`): it fails when a sector is stored that was not read. `overrun` remembers that a copy loop left the heap blocks of its buffer.
`last` observes the last transfer.

### PathParser

`parts` is the list in the order of allocation, with `next` as the number of a
node. `rest_freed` and `borrowed` keep track of the string the loop frees and of
the node whose name is `rest_of_path` itself. `heap_free` clears the first block
of what it frees (`FreedString`), on which line 80 depends.

Names are looked up with `str_icmp`, whose `str_to_lower` has a test that can never
hold (`string.c:117`): it moves digits and punctuation up by 32 too. `Code` gives each
character its signed 8-bit code, `Char` narrows, and `NamesCompareWithoutCase` says that
no two names become the same by it.

### FileSystem

Extends `Fat16` with the tables of `file.c` and the heap as a count of `blocks`. Every
`fs_` call is one action that runs the checks of `file.c`, the driver's operator from
`Fat16`, and what comes back; `answer` is what the caller sees. `Table` is `FileTable`
instantiated over this state: its handles are descriptors, its `live` set is what the
driver has not closed, a panic, hang or wild store ends both. `ImplementsFileTable` is
`Table!Spec` as a property, checked here and proved in `FileSystemProofs`: whatever `FileTable` was proved or checked to keep holds over
this driver too.

What a call costs: a parsed path 2 or 3 blocks, never freed; an open 3 blocks in
the driver, 2 more for each further match (`OpenBlocks` is a set, since how many matches lie behind
the cached directory is the heap's affair), and 1 for the `File_Descriptor`; a close
gives 4 back; a mount keeps 5 or, when the signature is wrong, leaks 3 streams;
a transfer that needs a buffer of two or more blocks leaves the last one (`TailBlocks`,
which is `FreeKeepsTheTail` of `Heap`); `print_number` 1 for every code but 0, the string that
`itoa` allocates and nobody frees. These costs are counted by hand from the calls of `malloc`.
`OutOfMemory` may strike once fewer than `Transient` blocks are left, which over-approximates where
inside a call `malloc` panics; no call takes more than that (`TransientAssumption`), so
there is no state in which a call can neither go on nor panic.

`program` is either `kernel_main`, statement by statement with its own `fd`, `fd2`, `fd3`,
or `"any"`, a program that makes any call with any index. Where `main.txt` is a directory,
`fs_stat` does not set `stat.size`, and `kernel_main` goes on with what its stack holds: `Sizes` is
then any number, and `WantsAnything` lets the `zalloc` of that many bytes panic. The controller does not
fail in this module (`Machine` has that), so `OkFromWriteIsReadBack` is about lengths,
clusters and item types only.

### Cpu, Terminal, Interrupts, AtaDisk, Machine

The foreground is at `pc`; between any two of its steps an interrupt may be taken or
the controller may move. `Cpu` holds what all share. `ecx` stands for the one register
the wrappers lose: `idt.asm` loads the handler's address into it before `pushad`. In the
unoptimised 32-bit code the Makefile asks for, `terminal_write_char` keeps the colour in `ecx`
between `ComputeIndex` and `StoreCharacter`, and the copy loops of `disk_stream.c` keep a
pointer in it (`LoadPointer`, `CopyByte`). A colour lost that way makes an odd cell, a
pointer a wild store.

`Terminal` cuts `terminal_write_char` where it reads or writes the cursor; a handler runs with
interrupts off (all gates are interrupt gates, `type_attr` 0xee) and so prints in one step,
`println`. `typed` observes what was printed since column 0.

`Interrupts` has the two PICs as `irr` (in `Cpu`) and `isr`. `kernel_remap_master_pic` masks
nothing; `idt_acknowledge_interrupt` clears the first bit of the first PIC only. All gates
lead to wrappers, except the keyboard's, which points at the C function: it comes back
by `ret`, with the flags left on the stack and interrupts off. That takes the foreground
into mode `"wild"` everywhere but in the final `jmp $`, which needs no stack. Nobody
reads port 0x60, so the keyboard controller requests one interrupt and no more.
`DivideError` prints and comes back to the division.

`AtaDisk` sets the registers one `outb` at a time, writes the command, and polls before each
sector. The controller is taken as QEMU's, which the Makefile runs: it ignores
registers and commands while a command is under way, may fail on any sector, and stores
the last sector of a write after the driver has returned. `overlapped` and `after` in `call`
observe that something was ignored, and what came before. The digit of the address that
goes to the drive register is the same in every call and is left out.

`Machine` composes them: any sequence of `MaxStatements` characters, disk calls, copies,
a division by zero, the enabling of interrupts and the final loop.

What it shows of the code. `ScreenShowsWhatWasPrinted` holds, although
`terminal_write_char` is not protected: the only handler that prints is the keyboard's, and
it never lets the foreground go on. Pointed at its wrapper, as it looks meant, it would
print into the middle of `terminal_write_char`, and the property fails: the two faults hide
each other. `OkMeansTransferred` says how little `OK` from a write promises about the last
sector. `OnlyWritesOverlap` and `CallsComeToAnEnd` together say when a call polls for ever: after an
error, or when the write before it was still being stored.

### Paging

Memory is words; a page has as many words as a table has entries, so that the
proportion of directory, tables and pages is the real one. `DirectoryFrame` and `TableFrames` are
the frames that `malloc` gives, which need only differ and not be frame 0. The processor
(`Load`, `Walk`, `Translate`) is external: it may keep a translation (`Keep`) and drop it (`Drop`)
whenever it likes, and a load of `cr3` drops all. `paging_set` reads the directory and writes
the table through `Translate`, since it runs with paging on and takes physical addresses
for virtual ones; its argument `flags` is the whole entry. `given`, `recent` and `moved`
are observations. `KernelIsGone` ends the run once a page of the kernel is mapped elsewhere.

## Runs

All runs check deadlock off: after a panic, a hang or a finished parse the system
stops, and a stopped machine is a legal end here.

| Run | Instance | Shows |
| --- | --- | --- |
| `heap` | five blocks of two bytes, requests of 0, 1, 4, 5, 8 and 15 (wraps) bytes | isolation, the inductive invariant with the types, four action properties, refinement of `Allocator` |
| `fat16` | three root entries, six items to the cache's heap block, three clusters of two sectors, eight-bit count wrapping at 4, writes up to 5 sectors, two open files, four images, three sets of words, two stray items | five invariants, two action properties |
| `fat16_created` | the same | counterexample: a written file cannot be opened (`kernel.c:70`) |
| `fat16_behind` | the same | counterexample: a lookup runs behind the cached directory (`fat16.c:552`) |
| `file_table` | three descriptors, two file systems, five handles | two invariants and two action properties besides types |
| `file_table_last` | the same | counterexample: the last index is not found (`file.c:58`) |
| `disk_stream` | three sectors of two bytes, heap blocks of two sectors, seven buffers of 0 to 9 bytes, count wrapping at 4 | neighbours, completeness, overrun |
| `disk_stream_crossing` | the same | counterexample: a store behind the buffer (`disk_stream.c:97`) |
| `path_parser` | all paths of up to six characters over four letters and `/`, behind four prefixes | the list and its shape for every path, lookups of its names |
| `machine` | a screen of 2 by 2, three sectors, counts modulo 3, three statements | the screen, what `OK` means, which calls overlap; with liveness: calls end, a key ends interrupts |
| `file_system` | three descriptors in the table and four in the driver, 40 heap blocks, three items to the cache's block, four images, two sets of words, one stray item, one boot | refinement of `FileTable`, costs of opens, what `OK` of a write means, indexes, `kernel_main` |
| `paging` | three entries to a table: nine pages of three words, the directory in page 3, its tables in pages 5, 7 and 8; entries that unmap, or map to page 0 or 5; one kept translation, three calls of `paging_set` | the tables after each call, and what the processor uses |

Why the bounds are enough to be interesting. Five blocks hold two ranges of two
blocks and one of one, and every way their flags can meet; a request larger than
the heap, one that rounds to 0 and one that wraps are among `Requests`. Three
root entries give an empty, a used and a last slot, and one image has a full
directory, behind which data is written until a later mount counts more items than the heap
block of the cache holds. A cluster of two sectors and a count modulo 4 keep the proportion of
the real disk (128 sectors, modulo 256): a write can reach into the next cluster,
and just not beyond. Five sectors in a write is one more than the wrapped count.
Five handles for three descriptors let handles be lost and addresses be reused.
Six characters are enough for four segments and for empty ones at both ends and inside;
the four letters are one in both cases, one that `str_to_lower` turns into the other's code
and one whose code it wraps. Three statements are a write, a call that
overlaps it, and one behind that; or a print at the right border; a call moves one or two
sectors, or is refused. In `file_system`, 40 blocks are used up by any program
(`MaxUnreturned` keeps the other program from leaking more than 14 blocks before its last call, so that the state stays small)
and are enough for `kernel_main` to come to its end; a fourth descriptor in the driver is one more
than the table has room for. In `paging`, three calls are one that changes a table's
page, one that goes through the change, and one more; a single kept translation is
enough to be stale, and can be dropped at any time.

`SYMMETRY` permutes descriptors, handles or streams, which no definition orders;
`VIEW` leaves out a return code, or the record of the last transfer, that no
action and no state property of that run reads (action properties see the whole step).

Fairness is assumed in `machine` only. The processor goes on with the function it is in
(`WF` of `Step`), the controller with its command (`WF` of `Controller`), and a request that
can be served is (`WF` of `TakeSome`). Statements, ticks and keys are not fair: a program need
not call, nobody need press a key. The keyboard's request is served although the timer
comes before it (`SF`): the timer's handler is a few instructions in 55 ms, so there is
time for a key between two ticks; the line's gate is not enabled all along, because each
tick puts it behind. That `path_parser_parse_path` terminates is shown by a measure instead
(`IterationsShrinkThePath`), and hangs of the driver are states of their own (`"hung"`).

`DiskStream`, `PathParser` and `Machine` state their type invariants without a run of
their own for it: the other invariants would not evaluate on ill-typed states.

## Proofs

`HeapProofs` proves, for every heap size, block size, start address and set of
requests that satisfy `HeapAssumption`:

- `HeapInvariant`: `IInv` is an invariant;
- `TypeCorrect`: `TypeOK`, a part of `IInv`, is an invariant;
- `HeapIsolation`: `Isolation` is an invariant.

The inductive invariant is `IInv`. `Isolation` alone is not inductive: to know that a
`free` leaves other ranges alone one has to know where its walk along `HAS_NEXT`
stops. `HeldRangeIntact` says that the entries of a held range are exactly what
`heap_malloc` wrote and that ranges are ordered; `NoStrayFlags` says that outside held
ranges no entry has `HAS_NEXT`, none but block 0 has `IS_FIRST`, and a free entry has
no flag at all. The steps of the argument:

- `FirstFitFits`: the run of blocks that is granted is free (uses the least
  element of a non-empty set of numbers).
- `FreeRunIsUnheld`, `HeldIsTaken`: free blocks lie in no held range.
- `FreedWithin`: the walk of `heap_free` from the first block of a held range, or
  from a leaked block 0, never leaves that range.
- `GrantKeepsTable`, `NullKeepsTable`, `FreeKeepsTable`: the three ways the table changes.
- `NextIInv`: one case per action of `Next`.

Its second part proves the four action properties of the run `heap` and the
refinement, from `IInv`, for the same instances:

- `HeldEntriesStay`: `HolderUndisturbed` holds of every step;
- `FreeKeepsLastBlock`: `FreeKeepsTheTail`, what `free` does not give back;
- `LeaksAreForGood`: `LeakIsPermanent`, that nothing gives it back later;
- `ResidueFromInnerBlocks`: `ResidueOnlyInside`, which free blocks hold old bytes;
- `HeapImplementsAllocator`: `Spec` implements `Allocator` (`ImplementsAllocator`).

The argument first reduces `Next` to five shapes of a step (`StepShapes`): a range is
granted, the odd first entry is claimed, a range is freed, memory is filled, or
nothing that these properties read changes. Each theorem then has one case per
shape. For the refinement, a granted range is a `Grant`, a freed one that was held a
`GiveBack`, a panic a `Stop`, and what is left a stutter.

`FileTableProofs` proves, for tables of every size and all file systems, handles
and paths that satisfy `FileAssumption`:

- `FileTypes`, `NothingDangles`, `IndexesKeepTheirFiles`: the invariants
  `TypeOK`, `NoDanglingDescriptor` and `DescriptorKeepsItsFile`;
- `LossesComeFromAFullTable`: the action property `HandlesAreLostOnlyWhenFull`;
- `LastIndexStays`: the action property `LastIndexIsStuck`.

Here the inductive invariant `FileInv` is the conjunction of the three invariants:
that an installed handle is in no other slot follows from `fs_open` getting one that
is not live, which needs that whatever is in a slot is live; and that `fs_close`
takes back the right index needs that indexes and slots agree. `NewDescriptor` and
`FoundSlot` say what the two searches of `file.c` return, and `StepShapes` again
reduces the steps to four.

`Fat16Proofs` proves, for every geometry, set of images and of words, and any number of
descriptors and names that `FatAssumption`, `ImageAssumption` and `GeometryAssumption` allow:

- `FatTypes`: the type invariant;
- `ItemsStay`, `NoGaps`: `ItemsAreNeverOverwritten` and `ItemsWithoutGaps`. Both rest on
  `TotalItems`: the number of items that the scan counts is the number of
  the first 0 sector, so the new item goes where no item is (`NothingOverwritten`).
  `WriteShape` and `CutShape` say what a write, finished or cut short, puts on the disk;
- `CacheIsTrue`: `OpenFindsItemsOfTheDisk`, from `CacheInv`: cached items are on the disk in the same
  slots, what is not 0 in the root directory stays (`ItemsStay`), and a total beyond the root entries
  comes from a directory without a 0 (`FullAtTheMount`). `FoundOnDisk` goes through the places a
  lookup may come back from: a cached slot, a blank one of the same heap block, a stray item. For what lies behind the heap block it can say nothing;
- `DataIsNamed`: `DataLiesUnderAnItem`, from `DescInv`: the item of an open file that has a
  cluster is on the disk, unless the root directory is full. Here alone
  `GeometryAssumption` counts: an eight-bit count is at most two
  clusters (`TwoClusters`), as 256 is of 128 sectors;
- `OneClusterForAll`: `CreatedFilesShareACluster`, of `Spec /\ OwnFiles`. `OwnFiles` is about the
  initial disk only: files this driver created there have the cluster that its probe finds.
  That holds of a disk without such files, which all images of the runs are, and of one left by
  earlier boots; it does not follow for an arbitrary disk, since a name like that of a created file could be
  on it with any cluster. The items of open descriptors belong to the induction (`OwnDescriptors`);
- `ReadsFollowTheChain`: `ReadFollowsChain`. `Walk` and `fat16_read_internal` are recursive
  functions on numbers. That such a definition satisfies its own equation is shown
  by the least number where it would not (`Recurs`, `Solves`, `FixedPoint`); the two loop
  iterations that the property is about are then unrolled.

`FileSystemProofs` proves, for tables, disks, heaps and programs of every size:

- `DriverImplementsFileTable`: `FsSpec` implements `FileTable` (`ImplementsFileTable`), so
  that the theorems of `FileTableProofs` speak of this driver too. Each call of `file.c` is
  simulated by the call of the same name (`OpenRefines`, `TransferRefines`,
  `AskRefines`, `SeekRefines`, `CloseRefines`); a hang, a panic and the wild store of a
  closed directory are stutters. `KernelSteps` says that a statement of `kernel_main` is a call
  that any program could make. All that the simulation needs of the state is types
  (`FsTypes`), to know that a call which changes a descriptor leaves it in use;
- `IndexesServe`: `IndexServesItsFile`. The inductive invariant `ServesInv` adds that no two slots
  share a descriptor (`NotShared`): else closing one index would take away what
  another serves. Steps come in three shapes (`StepShapes`): the tables stay and
  items keep their names, an open installs, a close frees;
- `OkIsRead`: `OkFromWriteIsReadBack`. A write that comes back has stored its sectors in the
  item's cluster, and a read of up to a cluster asks for those sectors, with no step along the chain;
- `OpensCostForGood`: `EveryOpenCosts`. What every call adds to `blocks` is compared with what the
  slots in use and the lost descriptors will give back, counted as cardinalities;
- `KernelUses`: `KernelUsesOpenIndexes`, with `KernelInv`, which says for each statement of
  `kernel_main` which slots are in use: `main.txt` has index 1 or is not open, `KOKO.TXT` has the next.
  It needs that an open takes the lowest free slot (`OpenTakesLowest`), and more than two
  descriptors in the table (`FileSystemAssumption`; there are 1024): with two, index 2 would be the last,
  which `fs_find_file_descriptor` does not find.

`PathParserProofs` proves, for paths of any length (below 2^16, since `strlen` counts in a
`uint16_t`) over any characters with signed 8-bit codes, as `PathAssumption` says:

- `EndlessLists` (`ListIsEndlessExactlyFor`), `NoFreedName` (`NoNameIsFreed`) and `LoopEnds`
  (`IterationsShrinkThePath`), all from the inductive `ListInv`. In the loop (`InLoop`) the rest is what
  lies behind a cut of the argument, right behind a separator, and there are no more nodes than
  separators before it; each node points to the next and the
  last one back to the one before it (`Chain`). Behind the loop
  (`BehindLoop`) a rest of length 0 under more than one node is what makes the list endless, and a
  freed rest is empty (`Freed`). `BeginKeeps`, `IterateKeeps` and `FinishKeeps` are the steps;
- `PathsAreSplit`: `WellFormedPathIsSplit`, from `ListInv` and `SplitInv`: there are places in the
  argument where it was cut (`Cuts`), and each name spells what lies between two of them (`Spells`,
  `Reaches`). The joined names of the property are a recursive function again (`JoinedIs`);
- `NamesCompare`: `NamesCompareWithoutCase`. `LowerIs` says what `str_to_lower` with its odd test does to
  each of the 256 codes, and that no two characters but the cases of a letter meet; `Comparing`
  is the loop of `str_icmp`;
- `PathTypes`: the type invariant, with `PointersOK`.

`DiskStreamProofs` proves, for every sector size, heap block size, count width and buffer
that `StreamAssumption` allows (heap blocks are whole sectors): `StreamTypes`, and the three
action properties `OthersUndisturbed` (`NeighboursUndisturbed`), `OkIsCompleteIfItFits`
(`FittingTransfersAreComplete`) and `OverrunsStartInASector` (`OverrunNeedsAnOffset`).
`StepShapes` reduces the steps. `FilledFacts` and `ReadChangeWrite` follow a byte into the buffer and
back: what is stored outside the request is what was read from the same place, because no
more sectors are stored than were read. `ReadEnds` and `WriteEnds` are the converse of completeness, for
the last byte of a transfer that does not fit. The rest is arithmetic on sectors: `SectorsCover` (the
sectors a length asks for cover it), `TransferFacts` (what the narrowed count still
covers) and `RoomBehind` (a copy that leaves its heap blocks starts inside a sector, with
a buffer that fills them).

`MachineProofs` proves, for every screen, disk, count width and schedule:

- `WritesOverlapOnly`: `OnlyWritesOverlap`. The inductive `DiskInv` consists of types, of
  `Progress` (how far a call is for each place of the driver), `Agreement` (controller and
  driver are in the same command and count the same sectors, unless the call overlapped)
  and `Blame` (what came before a busy controller outside a call). Whose command is
  under way at the first `outb` of a call depends on where the call before left both;
- `DiskServedOnce`: `DiskInterruptsOnce`, from `OnlyTheDiskStaysInService`, which is inductive;
- `OkTransfers`: `OkMeansTransferred`, from `DiskInv` and `DataInv`: what the driver has received
  (`Reads`) and what lies on the platter or in the controller's buffer (`Writes`), after each sector and for each
  place of the two (`Answers`, `AddressSet`). `AtaAssumption` says that the address counter does not
  wrap round within the disk (28 bits on a disk of 20 MB);
- `ScreenShows`: `ScreenShowsWhatWasPrinted`, from `ScreenInv`: where the foreground is in
  `terminal_write_char` the cursor is still where its cell was computed (`AtCharacter`), since in mode
  `"run"` a handler prints only behind the last statement or in the trap of a division, never inside
  a character. A handler's whole `print` is a fold over its message; `OnePrinted` does it
  for the two messages that there are, `ServedKeeps` for all requests. `TerminalAssumption` keeps the cells
  of `terminal_clear` apart from characters, and `StatementAssumption` gives the foreground a letter
  of its own to print.

`PagingProofs` proves, for tables of every size and any memory that `PagingAssumption` allows:
`TablesSayWhatWasSet` (`WalkGivesWhatWasSet`) and `ProcessorIsAtMostASwitchBehind`
(`ProcessorUsesRecentEntries`). `PagingInv` adds to the types what holds before
`paging_create_chunk` (`Booting`) and, until a call moves the tables, after it (`Running`):
`TablesAgree`, that directory and tables lie where they were allocated, in any frames that differ,
and hold what was given, and that kept translations stem from since the last switch. `AddressFacts` is the
arithmetic of `paging_get_indexes`: directory and table entries that belong to a page.

What stays with TLC: the two liveness properties of `Machine`, `CallsComeToAnEnd` and
`KeyEndsInterrupts`, because liveness under fairness and ENABLED are out of the reach of TLAPS; and the
counterexamples of the four runs that expect one. Every other property of a passing run is stated
by a theorem. Where the argument is an induction over data (a chain of clusters, the
names of a path), the library's induction theorems cannot be used; the proofs take the least
number at which the claim fails instead (`LeastOf`).

## Not modelled, and what the plan has left

- Lookups below the root directory, and the loading of a subdirectory: `path_parser` leaves
  the separator in every name but the last (`WellFormedPathIsSplit`), so none can succeed.
- `path_parser_free_root`, `path_parser_free_part` and `atoi`: nobody calls them.
- The digits that `itoa` makes; what `print_number` takes from the heap for them is in `FileSystem`.
- What reads beyond the second cluster deliver, and entries that `paging_set` stores in other words after
  a call has moved a table: both are modelled, and no property is about them. The place of a table entry
  on the disk (`fat16.c:354`) is not modelled beyond what `words` says.
- Exceptions other than the division, whose gates lead to the null handler: nothing
  modelled raises one before `mode` is `"wild"`.
- A second paging chunk: the kernel makes one. The text of what the kernel reads and prints.
- The boot sector, the linker scripts and the Makefile: no behaviour of their own
  beyond the layout taken from them.

Left for later: `PowerFailsInWrite` for the calls of `FileSystem` (only `Fat16` has it now), and the
refinement of `disk_stream.c`'s sectors by the port accesses of `AtaDisk`, which would put `DiskStream`
on top of a controller that fails.
