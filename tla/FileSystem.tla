----------------------------- MODULE FileSystem -----------------------------
(***************************************************************************)
(* The file system as a program sees it: the fs_ calls of file.c over the  *)
(* driver of fat16.c, and the heap both take their structures from, as a   *)
(* count of blocks.  The program is either kernel_main or any other, which *)
(* calls what it likes.  A run is one boot: what a power failure leaves on *)
(* the disk is the business of Fat16.                                      *)
(***************************************************************************)
EXTENDS Fat16

CONSTANTS
  MaxDescriptors,    \* KERNEL_MAX_FILE_DESCRIPTORS
  Paths, Unparsable, RootPath,
  MainTxt, KokoTxt,  \* the two paths of kernel_main
  FAT16,             \* the one file system that fs_init inserts
  SectorsPerBlock,   \* sectors of a disk that fit in a block of the heap
  Capacity,          \* blocks of the heap
  MaxUnreturned,     \* bound: blocks another program leaks before its last call
  Transient          \* blocks that one call may take, for good or until it returns

VARIABLES
  file_systems, disk_fs, file_descriptors, opened,   \* as in FileTable
  answer,   \* what the last fs_ call returned
  blocks,   \* the blocks of the heap that are taken
  program   \* where kernel_main is, "any" for another program; its variables

tableVars == <<file_systems, disk_fs, file_descriptors, opened>>
fsVars    == <<vars, tableVars, answer, blocks>>
allVars   == <<fsVars, program>>

(***************************************************************************)
(* The file layer's own module, over this driver: the handles it keeps     *)
(* open are the descriptors in use.                                        *)
(***************************************************************************)
Table == INSTANCE FileTable WITH
  MaxFileSystems <- 1, FileSystems <- {FAT16}, Handles <- Descriptors, NULL <- None,
  mode   <- IF mode = "off" THEN "boot" ELSE "run",
  live   <- {d \in Descriptors : desc[d] # None},
  result <- answer

ASSUME FileSystemAssumption ==
  /\ SectorsPerBlock \in Nat \ {0} /\ Capacity \in Nat /\ Transient \in Nat
  /\ {MainTxt, KokoTxt} \subseteq Paths /\ Unparsable \notin Paths
  /\ MaxDescriptors \in Nat /\ MaxDescriptors > 2               \* it is 1024
  /\ IsFiniteSet(Descriptors)
  /\ FAT16 # None /\ None \notin Descriptors \cup Nat
  /\ None \notin [item : Items, pos : 0 .. (SizeMod - 1)]    \* no descriptor in use
  /\ None \notin [handle : Descriptors, path : Paths]

Fds  == Table!Fds
Used == DOMAIN file_descriptors \ Table!FreeSlots

-----------------------------------------------------------------------------
(***************************************************************************)
(* What the heap has given for good when a call returns.                   *)
(***************************************************************************)
Spend(n) == blocks + n <= Capacity /\ blocks' = blocks + n

(* Mutant of PathBlocks: fs_open frees the path. *)
PathBlocks_Freed(path) == 0

(* The parsed path: root, part and name.  "0:/" has no name of its own. *)
PathBlocks(path) ==
  IF path = Unparsable THEN 0 ELSE IF path = RootPath THEN 2 ELSE 3

(* Fat_Private, three streams and the root directory, or the streams alone. *)
MountBlocks(answered) == IF answered = "OK" THEN 5 ELSE 3

(***************************************************************************)
(* Descriptor, item and the item's copy.  fat16_find_item_in_directory     *)
(* makes item and copy for each match, in the block of the cache and       *)
(* behind it, and keeps those of the last one.                             *)
(***************************************************************************)
OpenBlocks(name) ==
  LET found == Cardinality(Matches(name))
      behind == IF cache.total > BlockItems THEN cache.total - BlockItems ELSE 0
  IN  {3 + 2 * (IF n = 0 THEN 0 ELSE n - 1) : n \in found .. (found + behind)}

(* A buffer of two or more blocks keeps its last one, see Heap. *)
TailBlocks(sectors) == IF sectors > SectorsPerBlock THEN 1 ELSE 0

WriteBlocks(size) == TailBlocks(size)

(* A read has one buffer for each cluster. *)
ReadBlocks(size) ==
  (size \div SectorsPerCluster) * TailBlocks(SectorsPerCluster)
    + TailBlocks(size % SectorsPerCluster)

(* No call takes more than Transient blocks, so one that cannot go on panics. *)
ASSUME TransientAssumption ==
  /\ Transient >= 5 + 2 * Cardinality(Sectors)                  \* the costliest open
  /\ \A size \in 0 .. (MaxSize + SizeMod) : ReadBlocks(size) <= Transient

(* What kernel_main asks for after an fs_stat that left stat.size alone. *)
WantsAnything ==
  /\ program.at = "read"
  /\ desc[Table!fs_find_file_descriptor(program.fd)].item.dir

(* malloc panics; an item may have been stored before. *)
OutOfMemory ==
  /\ mode = "run"
  /\ blocks + Transient > Capacity \/ WantsAnything
  /\ mode' = "panic"
  /\ disk' \in {disk} \cup
       {AfterItem(d) : d \in {e \in Descriptors : IsOpen(e) /\ ~desc[e].item.dir
                                                    /\ ScanEnds /\ SearchEnds}}
  /\ UNCHANGED <<words, cache, desc, result, tableVars, answer, blocks>>

-----------------------------------------------------------------------------
(* A program before its first call: the variables of kernel_main are not set. *)
Fresh(place) == [at |-> place, fd |-> 0, fd2 |-> 0, fd3 |-> 0]

FsInit ==
  /\ Init
  /\ Table!Init
  /\ blocks = 0
  /\ program \in {Fresh("open main"), Fresh("any")}

(* fs_init. *)
fs_init ==
  /\ mode = "off"
  /\ file_systems[0] = None
  /\ file_systems' = [file_systems EXCEPT ![0] = FAT16]
  /\ UNCHANGED <<vars, disk_fs, file_descriptors, opened, answer, blocks>>

(* disk_init, which mounts the disk if the driver knows it. *)
disk_init ==
  /\ file_systems[0] = FAT16
  /\ fat16_resolve
  /\ disk_fs' = Table!fs_resolve(IF result' = "OK" THEN {FAT16} ELSE {})
  /\ Spend(MountBlocks(result'))
  /\ UNCHANGED <<file_systems, file_descriptors, opened, answer>>

-----------------------------------------------------------------------------
(* A call that does not get as far as the driver. *)
Refuse(value) == answer' = value /\ UNCHANGED <<vars, tableVars>>

fs_open(path, file_mode) ==
  /\ mode = "run"
  /\ \/ /\ ~Table!Reachable(path)
        /\ Refuse(Table!Fd(0))
        /\ Spend(PathBlocks(path))
     \/ /\ Table!Reachable(path)
        /\ \E d \in Descriptors :
             /\ fat16_open(d, path.name, file_mode)
             /\ IF result' = "OK"
                  THEN /\ Table!Install(d, path)
                       /\ \E taken \in OpenBlocks(path.name) :
                            Spend(PathBlocks(path) + taken
                                    + IF Table!FreeSlots = {} THEN 0 ELSE 1)
                  ELSE /\ answer' = Table!Fd(0)
                       /\ Spend(PathBlocks(path))
                       /\ UNCHANGED <<file_descriptors, opened>>
        /\ UNCHANGED <<file_systems, disk_fs>>

(* The call finds a descriptor and asks the driver about what it stands for. *)
Finds(fd, d) == Table!fs_find_file_descriptor(fd) = d /\ d # None

RefusesFd(fd) ==
  /\ mode = "run"
  /\ Table!fs_find_file_descriptor(fd) = None
  /\ Refuse(Table!Code("FS_INVALID_FILE_DESCRIPTOR"))
  /\ UNCHANGED blocks

(***************************************************************************)
(* fs_read and fs_write drop what the driver says, once it comes back.     *)
(***************************************************************************)
RefusesTransfer(fd, size) ==
  /\ mode = "run"
  /\ size = 0 \/ fd <= 0
  /\ Refuse(Table!Code("INVALID_ARGUMENT"))
  /\ UNCHANGED blocks

Dropped ==
  /\ answer' = IF mode' = "run" THEN Table!Code("OK") ELSE answer
  /\ UNCHANGED tableVars

fs_read(fd, size) ==
  \/ RefusesTransfer(fd, size)
  \/ size > 0 /\ fd > 0 /\ RefusesFd(fd)
  \/ /\ size > 0
     /\ \E d \in Descriptors :
          /\ Finds(fd, d)
          /\ fat16_read(d, size, 1)
          /\ Spend(IF desc[d].item.dir THEN 0 ELSE ReadBlocks(size))
     /\ Dropped

fs_write(fd, value, size) ==
  \/ RefusesTransfer(fd, size)
  \/ size > 0 /\ fd > 0 /\ RefusesFd(fd)
  \/ /\ size > 0
     /\ \E d \in Descriptors :
          /\ Finds(fd, d)
          /\ fat16_write(d, value, size)
          /\ Spend(IF desc[d].item.dir THEN 0 ELSE WriteBlocks(size))
     /\ Dropped

(* fs_seek and fs_stat pass it on. *)
PassedOn == answer' = Table!Code(result') /\ UNCHANGED <<tableVars, blocks>>

fs_seek(fd, offset, seek_mode) ==
  \/ RefusesFd(fd)
  \/ \E d \in Descriptors : Finds(fd, d) /\ fat16_seek(d, offset, seek_mode) /\ PassedOn

fs_stat(fd) ==
  \/ RefusesFd(fd)
  \/ \E d \in Descriptors : Finds(fd, d) /\ fat16_stat(d) /\ PassedOn

(* Mutant of fs_free_file_descriptor: the slot of a closed file stays taken. *)
fs_free_file_descriptor_Kept(fd) == file_descriptors

fs_free_file_descriptor(fd) == Table!fs_free_file_descriptor(fd)

(***************************************************************************)
(* fs_close: descriptor, item, copy and File_Descriptor are freed.  The    *)
(* driver does not come back from closing a directory.                     *)
(***************************************************************************)
fs_close(fd) ==
  \/ RefusesFd(fd)
  \/ \E d \in Descriptors :
       /\ Finds(fd, d)
       /\ IsOpen(d)
       /\ \/ /\ desc[d].item.dir
             /\ mode' = "wild"
             /\ UNCHANGED <<disk, words, cache, desc, result, tableVars, answer, blocks>>
          \/ /\ ~desc[d].item.dir
             /\ fat16_close(d)
             /\ file_descriptors' = fs_free_file_descriptor(fd)
             /\ opened' = [opened EXCEPT ![fd] = None]
             /\ answer' = Table!Code("OK")
             /\ blocks' = blocks - 4
             /\ UNCHANGED <<file_systems, disk_fs>>

-----------------------------------------------------------------------------
(***************************************************************************)
(* kernel_main, from its first fs_open on.                                 *)
(***************************************************************************)
GoOn(next) == program' = [program EXCEPT !.at = IF mode' = "run" THEN next ELSE @]

(* An fs_open whose index is kept, and tested before it is used. *)
OpenInto(variable, path, file_mode, then, otherwise) ==
  /\ fs_open(path, file_mode)
  /\ program' = [program EXCEPT ![variable] = answer'.fd,
                                !.at = IF answer'.fd = 0 THEN otherwise ELSE then]

(* stat.size after fs_stat, which does not set it for a directory. *)
Sizes(fd) ==
  LET item == desc[Table!fs_find_file_descriptor(fd)].item
  IN  IF item.dir THEN 0 .. (SizeMod - 1) ELSE {item.size}

(* A buffer of size + 1 bytes, allocated and freed. *)
free_buffer ==
  /\ mode = "run"
  /\ \E size \in Sizes(program.fd) : Spend(TailBlocks(size + 1))
  /\ UNCHANGED <<vars, tableVars, answer>>

(* print_number drops the string that itoa allocates for all codes but 0. *)
print_number ==
  /\ mode = "run"
  /\ Spend(IF answer = Table!Code("OK") THEN 0 ELSE 1)
  /\ UNCHANGED <<vars, tableVars, answer>>

kernel_main ==
  LET Do(action, next) == action /\ GoOn(next)
  IN  CASE program.at = "open main" ->
             OpenInto("fd", MainTxt, "READ", "stat", "open koko")
        [] program.at = "stat"        -> Do(fs_stat(program.fd), "print")
        [] program.at = "print"       -> Do(print_number, "read")
        [] program.at = "read"        ->
             \E size \in Sizes(program.fd) : Do(fs_read(program.fd, size), "free")
        [] program.at = "free"        -> Do(free_buffer, "stat again")
        [] program.at = "stat again"  -> Do(fs_stat(program.fd), "print again")
        [] program.at = "print again" -> Do(print_number, "open koko")
        [] program.at = "open koko"   ->
             OpenInto("fd2", KokoTxt, "WRITE", "write", "open again")
        [] program.at = "write"       ->
             \E value \in Data : Do(fs_write(program.fd2, value, 1), "close")
        [] program.at = "close"       -> Do(fs_close(program.fd2), "open again")
        [] program.at = "open again"  ->
             OpenInto("fd3", KokoTxt, "READ", "read again", "end")
        [] program.at = "read again"  -> Do(fs_read(program.fd, 1), "close again")
        [] program.at = "close again" -> Do(fs_close(program.fd3), "end")
        [] OTHER -> FALSE

(* What is taken, apart from what open files will give back or have lost. *)
Unreturned == blocks - 4 * Cardinality(Used) - 3 * Cardinality(Table!Lost)

AnyCall ==
  \/ \E path \in Paths \cup {Unparsable}, file_mode \in {"READ", "WRITE", "APPEND"} :
       fs_open(path, file_mode)
  \/ \E fd \in Table!AnyFd, size \in 0 .. MaxSize :
       fs_read(fd, size) \/ \E value \in Data : fs_write(fd, value, size)
  \/ \E fd \in Table!AnyFd, offset \in 0 .. (SizeMod - 1), seek_mode \in {"SET", "CUR", "END"} :
       fs_seek(fd, offset, seek_mode)
  \/ \E fd \in Table!AnyFd : fs_stat(fd) \/ fs_close(fd)

FsNext ==
  \/ (fs_init \/ disk_init \/ OutOfMemory) /\ UNCHANGED program
  \/ kernel_main
  \/ program.at = "any" /\ Unreturned <= MaxUnreturned /\ AnyCall /\ UNCHANGED program

FsSpec == FsInit /\ [][FsNext]_allVars

-----------------------------------------------------------------------------
(***************************************************************************)
(* file.c over this driver does what file.c promises over any driver:      *)
(* with the descriptors that fat16_open returned and nobody closed as its  *)
(* handles, through failed opens, directories, hangs and a full heap.      *)
(***************************************************************************)
ImplementsFileTable == Table!Spec

(***************************************************************************)
(* No balance of opens and closes gets back what the opens took.  Apart    *)
(* from four blocks for each index in use and three for each lost          *)
(* descriptor, the taken blocks only grow: with each path that parses, by  *)
(* two or three, whether the open succeeds or not, and with each transfer  *)
(* of more than a block.  Any program that goes on opening files runs into *)
(* the panic of malloc.                                                    *)
(***************************************************************************)
EveryOpenCosts ==
  [][/\ Unreturned' >= Unreturned
     /\ answer' \in [fd : {0} \cup Fds] =>
          \A path \in Paths, file_mode \in {"READ", "WRITE"} :
            fs_open(path, file_mode) => Unreturned' >= Unreturned + 2]_fsVars

(***************************************************************************)
(* An index serves the file that was asked for under it: its descriptor is *)
(* one the driver has not closed, and holds the item of that name or, for  *)
(* one opened to be written, the item of a new file, whose name is always  *)
(* the same one.                                                           *)
(***************************************************************************)
IndexServesItsFile ==
  \A fd \in Used :
    LET d == file_descriptors[fd]
    IN  /\ desc[d] # None
        /\ opened[fd + 1] # None
        /\ desc[d].item.name \in {opened[fd + 1].path.name, Created}

(***************************************************************************)
(* fs_write returns OK whatever the driver answers.  What OK still means:  *)
(* the file begins with what was written, as far as a cluster goes.  It    *)
(* means nothing for a directory, and nothing for 256 sectors or more.     *)
(***************************************************************************)
OkFromWriteIsReadBack ==
  [][\A fd \in Fds, value \in Data, size \in 1 .. (CountMod - 1) :
       mode' = "run" /\ answer' = Table!Code("OK") /\ fs_write(fd, value, size) =>
         LET item   == desc[file_descriptors[fd - 1]].item'
             length == IF size > SectorsPerCluster THEN SectorsPerCluster ELSE size
             read   == fat16_read_internal(item.cluster, 0, length)
         IN  item.dir \/ \A i \in 1 .. length : disk'[read[i]] = value]_fsVars

(***************************************************************************)
(* kernel_main uses its indexes in time.  The last read takes fd where fd3 *)
(* was opened: fd is then still open, and reads main.txt, or is 0, which   *)
(* fs_read refuses.  At the end only fd is left open.                      *)
(***************************************************************************)
StandsFor(fd, path) == fd - 1 \in Used /\ opened[fd].path = path

KernelUsesOpenIndexes ==
  mode = "run" =>
    /\ program.at \in {"stat", "print", "read", "free", "stat again", "print again"} =>
         StandsFor(program.fd, MainTxt)
    /\ program.at \in {"write", "close"} => StandsFor(program.fd2, KokoTxt)
    /\ program.at \in {"read again", "close again"} =>
         /\ StandsFor(program.fd3, KokoTxt)
         /\ program.fd = 0 \/ StandsFor(program.fd, MainTxt)
    /\ program.at = "end" => Used = {program.fd - 1} \ {-1}
=============================================================================
