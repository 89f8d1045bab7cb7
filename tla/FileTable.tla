----------------------------- MODULE FileTable ------------------------------
(***************************************************************************)
(* The file layer, src/src/lib/fs/file.c: the table of file systems, the   *)
(* table of file descriptors and the fs_ calls, with disk_init and         *)
(* disk_get of src/src/lib/io/disk.c.  A file system is seen through the   *)
(* functions of its File_System: whether open and resolve succeed is up to *)
(* it.  What open returns is a handle, which lives until close.            *)
(***************************************************************************)
EXTENDS Integers, FiniteSets, Functions

CONSTANTS
  MaxDescriptors,   \* KERNEL_MAX_FILE_DESCRIPTORS
  MaxFileSystems,   \* KERNEL_MAX_FILESYSTEMS
  FileSystems,      \* File_System structures that can be inserted
  Handles,          \* addresses of what a file system's open returns
  Paths,            \* parsed paths: records with drive and name
  Unparsable,       \* a path that path_parser_parse_path refuses
  NULL

ASSUME FileAssumption ==
  /\ MaxDescriptors \in Nat \ {0}
  /\ MaxFileSystems \in Nat \ {0}
  /\ NULL \notin Handles \cup FileSystems
  /\ NULL \notin Nat                               \* no slot number
  /\ NULL \notin [handle : Handles, path : Paths]
  /\ Unparsable \notin Paths
  /\ \A path \in Paths : path.drive \in 0 .. 9

VARIABLES
  mode,               \* "boot", "run", or "panic"
  file_systems,       \* the table of inserted file systems
  disk_fs,            \* primary_disk.fs
  file_descriptors,   \* the handle in each descriptor, NULL in a free slot
  live,               \* the handles that their file system keeps open
  opened,             \* observation: fd -> what fs_open opened under it
  result              \* what the last call returned

vars == <<mode, file_systems, disk_fs, file_descriptors, live, opened, result>>

Slots == 0 .. (MaxDescriptors - 1)
Fds   == 1 .. MaxDescriptors
NULL_FILE_DESCRIPTOR == 0

(* FD_INDEX values that callers pass: every index, 0 and one too large. *)
AnyFd == 0 .. (MaxDescriptors + 1)

-----------------------------------------------------------------------------
(* Mutant: the slot number is taken for the index. *)
IndexOf_SlotNumber(slot) == slot

(* Mutant: the index is incremented twice. *)
IndexOf_CountsTwice(slot) == slot + 2

(* fd->index: descriptors count from 1. *)
IndexOf(slot) == slot + 1

FreeSlots == {i \in Slots : file_descriptors[i] = NULL}

(* Mutant of fs_new_file_descriptor: the search leaves out the last slot. *)
fs_new_file_descriptor_AllButLast ==
  LET free == FreeSlots \ {MaxDescriptors - 1}
  IN  IF free = {} THEN NULL ELSE CHOOSE i \in free : \A j \in free : i <= j

(* The first free slot, NULL when there is none. *)
fs_new_file_descriptor ==
  IF FreeSlots = {} THEN NULL
  ELSE CHOOSE i \in FreeSlots : \A j \in FreeSlots : i <= j

(* Mutant of fs_find_file_descriptor: the upper test is not off by one. *)
fs_find_file_descriptor_Inclusive(fd) ==
  IF fd <= 0 \/ fd > MaxDescriptors THEN NULL ELSE file_descriptors[fd - 1]

(* The upper test leaves out the last index that fs_open hands out. *)
fs_find_file_descriptor(fd) ==
  IF fd <= 0 \/ fd >= MaxDescriptors THEN NULL ELSE file_descriptors[fd - 1]

(* disk_get: there is one disk, number 0. *)
disk_get(drive) == drive = 0

-----------------------------------------------------------------------------
Init ==
  /\ mode = "boot"
  /\ file_systems = [i \in 0 .. (MaxFileSystems - 1) |-> NULL]
  /\ disk_fs = NULL
  /\ file_descriptors = [i \in Slots |-> NULL]
  /\ live = {}
  /\ opened = [fd \in Fds |-> NULL]
  /\ result = NULL

FreeFileSystemSlots == {i \in DOMAIN file_systems : file_systems[i] = NULL}

(* fs_insert_filesystem with fs_get_free_file_system. *)
fs_insert_filesystem(fs) ==
  /\ mode = "boot"
  /\ \/ /\ fs = NULL \/ FreeFileSystemSlots = {}
        /\ mode' = "panic"
        /\ UNCHANGED file_systems
     \/ /\ fs # NULL /\ FreeFileSystemSlots # {}
        /\ file_systems' = [file_systems EXCEPT
             ![CHOOSE i \in FreeFileSystemSlots :
                 \A j \in FreeFileSystemSlots : i <= j] = fs]
        /\ UNCHANGED mode
  /\ UNCHANGED <<disk_fs, file_descriptors, live, opened, result>>

(* disk_init with fs_resolve: the first file system that knows the disk. *)
fs_resolve(knows) ==
  LET fit == {i \in DOMAIN file_systems : file_systems[i] \in knows}
  IN  IF fit = {} THEN NULL
      ELSE file_systems[CHOOSE i \in fit : \A j \in fit : i <= j]

disk_init(knows) ==
  /\ mode = "boot"
  /\ mode' = "run"
  /\ disk_fs' = fs_resolve(knows)
  /\ UNCHANGED <<file_systems, file_descriptors, live, opened, result>>

-----------------------------------------------------------------------------
(* What a call returns: a code, or an index. *)
Code(code) == [code |-> code]
Fd(index)  == [fd |-> index]

Answer(value) ==
  /\ result' = value
  /\ UNCHANGED <<mode, file_systems, disk_fs, file_descriptors, live, opened>>

(***************************************************************************)
(* fs_open.  For FILE_MODE_WRITE the file system makes a file it does not  *)
(* have, FILE_MODE_APPEND it refuses.  When the table is full, the handle  *)
(* is neither stored nor closed.                                           *)
(***************************************************************************)
FsOpenMayFail(file_mode)    == file_mode # "WRITE"
FsOpenMaySucceed(file_mode) == file_mode # "APPEND"

Install(handle, path) ==
  LET slot == fs_new_file_descriptor
  IN  \/ /\ slot = NULL
         /\ result' = Fd(NULL_FILE_DESCRIPTOR)
         /\ UNCHANGED <<file_descriptors, opened>>
      \/ /\ slot # NULL
         /\ file_descriptors' = [file_descriptors EXCEPT ![slot] = handle]
         /\ opened' = [opened EXCEPT ![IndexOf(slot)] =
                         [handle |-> handle, path |-> path]]
         /\ result' = Fd(IndexOf(slot))

(* The path parses, its drive is the disk, and the disk has a file system. *)
Reachable(path) == path # Unparsable /\ disk_get(path.drive) /\ disk_fs # NULL

fs_open(path, file_mode) ==
  /\ mode = "run"
  /\ \/ /\ Reachable(path) => FsOpenMayFail(file_mode)
        /\ Answer(Fd(NULL_FILE_DESCRIPTOR))
     \/ /\ Reachable(path)
        /\ FsOpenMaySucceed(file_mode)
        /\ \E handle \in Handles \ live :
             /\ live' = live \cup {handle}
             /\ Install(handle, path)
        /\ UNCHANGED <<mode, file_systems, disk_fs>>

(***************************************************************************)
(* fs_read and fs_write: the answer of the file system is not looked at.   *)
(***************************************************************************)
fs_transfer(fd, size) ==
  /\ mode = "run"
  /\ Answer(Code(IF size = 0 \/ fd <= 0 THEN "INVALID_ARGUMENT"
                 ELSE IF fs_find_file_descriptor(fd) = NULL
                        THEN "FS_INVALID_FILE_DESCRIPTOR" ELSE "OK"))

(* What a file system may say to seek and stat. *)
FsAnswers == {"OK", "SYSTEM_FAIL", "INVALID_ARGUMENT", "NOT_IMPLEMENTED"}

(* fs_seek and fs_stat pass the answer of the file system on. *)
fs_ask(fd) ==
  /\ mode = "run"
  /\ IF fs_find_file_descriptor(fd) = NULL
       THEN Answer(Code("FS_INVALID_FILE_DESCRIPTOR"))
       ELSE \E code \in FsAnswers : Answer(Code(code))

(* Mutant of fs_free_file_descriptor: the slot keeps its pointer. *)
fs_free_file_descriptor_KeepsSlot(fd) == file_descriptors

(* fs_free_file_descriptor, for an index that fs_close has checked. *)
fs_free_file_descriptor(fd) == [file_descriptors EXCEPT ![fd - 1] = NULL]

(* A file system that refuses to close keeps its handle open. *)
fs_close(fd) ==
  LET handle == fs_find_file_descriptor(fd)
  IN  /\ mode = "run"
      /\ \/ /\ handle = NULL
            /\ Answer(Code("FS_INVALID_FILE_DESCRIPTOR"))
         \/ /\ handle # NULL
            /\ Answer(Code("SYSTEM_FAIL"))
         \/ /\ handle # NULL
            /\ live' = live \ {handle}
            /\ file_descriptors' = fs_free_file_descriptor(fd)
            /\ opened' = [opened EXCEPT ![fd] = NULL]
            /\ result' = Code("OK")
            /\ UNCHANGED <<mode, file_systems, disk_fs>>

Next ==
  \/ \E fs \in FileSystems \cup {NULL} : fs_insert_filesystem(fs)
  \/ \E knows \in SUBSET FileSystems : disk_init(knows)
  \/ \E path \in Paths \cup {Unparsable}, file_mode \in {"READ", "WRITE", "APPEND"} :
       fs_open(path, file_mode)
  \/ \E fd \in AnyFd, size \in 0 .. 1 : fs_transfer(fd, size)
  \/ \E fd \in AnyFd : fs_ask(fd)
  \/ \E fd \in AnyFd : fs_close(fd)

Spec == Init /\ [][Next]_vars

-----------------------------------------------------------------------------
(* Type correctness of the tables and of the answers. *)
Codes == FsAnswers \cup {"FS_INVALID_FILE_DESCRIPTOR"}

TypeOK ==
  /\ mode \in {"boot", "run", "panic"}
  /\ file_systems \in [0 .. (MaxFileSystems - 1) -> FileSystems \cup {NULL}]
  /\ disk_fs \in FileSystems \cup {NULL}
  /\ file_descriptors \in [Slots -> Handles \cup {NULL}]
  /\ live \subseteq Handles
  /\ opened \in [Fds -> {NULL} \cup [handle : Handles, path : Paths]]
  /\ result \in {NULL} \cup [code : Codes] \cup [fd : {NULL_FILE_DESCRIPTOR} \cup Fds]

(***************************************************************************)
(* Descriptors and what they name: a slot never points to a handle that    *)
(* its file system has closed, and no two slots share one, through every   *)
(* reuse of slots and of handle addresses.                                 *)
(***************************************************************************)
NoDanglingDescriptor ==
  \A i, j \in Slots :
    file_descriptors[i] # NULL =>
      /\ file_descriptors[i] \in live
      /\ file_descriptors[i] = file_descriptors[j] => i = j

(***************************************************************************)
(* Until someone closes it, an index stands for the handle fs_open put     *)
(* under it; no later fs_open takes it over.                               *)
(***************************************************************************)
DescriptorKeepsItsFile ==
  \A fd \in Fds :
    /\ opened[fd] = NULL <=> file_descriptors[fd - 1] = NULL
    /\ opened[fd] # NULL => file_descriptors[fd - 1] = opened[fd].handle

(***************************************************************************)
(* A handle is lost, open in its file system and in no descriptor, only    *)
(* when fs_open met a full table; a lost handle is never closed again.     *)
(***************************************************************************)
Lost == live \ Range(file_descriptors)

HandlesAreLostOnlyWhenFull ==
  [][Lost \subseteq Lost' /\ (Lost' # Lost => FreeSlots = {})]_vars

(***************************************************************************)
(* The last index is handed out once and never comes back: fs_close does   *)
(* not find it.  Every other index that is open can be closed.             *)
(***************************************************************************)
LastIndexIsStuck ==
  [][/\ opened[MaxDescriptors] # NULL => opened'[MaxDescriptors] # NULL
     /\ \A fd \in Fds \ {MaxDescriptors} :
          opened[fd] # NULL /\ mode = "run" => fs_find_file_descriptor(fd) # NULL]_vars

(***************************************************************************)
(* file.c:29, "we always start from 1 instead of 0": indexes are 1 up to   *)
(* KERNEL_MAX_FILE_DESCRIPTORS, and whatever index fs_open returned, the   *)
(* other calls find its descriptor.                                        *)
(***************************************************************************)
EveryIndexIsFound ==
  \A fd \in Fds : opened[fd] # NULL => fs_find_file_descriptor(fd) # NULL
=============================================================================
