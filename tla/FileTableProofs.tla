--------------------------- MODULE FileTableProofs --------------------------
(***************************************************************************)
(* Proofs about module FileTable, for tables of every size and every set   *)
(* of file systems, handles and paths that FileAssumption allows.          *)
(***************************************************************************)
EXTENDS FileTable, WellFoundedInduction, TLAPS

(* The table and the indexes that callers were given, together. *)
FileInv ==
  /\ TypeOK
  /\ NoDanglingDescriptor
  /\ DescriptorKeepsItsFile

(* A set of numbers that is not empty has a least element. *)
LEMMA LeastOf ==
  ASSUME NEW T, T \subseteq Nat, T # {}
  PROVE  \E s \in T : \A t \in T : s <= t
<1>1. PICK s \in T : \A t \in T : ~(<<t, s>> \in OpToRel(<, Nat))
  BY WFMin, NatLessThanWellFounded
<1>2. \A x, y \in Nat : x < y => <<x, y>> \in OpToRel(<, Nat)
  BY Zenon DEF OpToRel
<1>3. \A t \in T : ~(t < s)
  BY <1>1, <1>2, Zenon
<1>. QED
  BY <1>3

(* fs_new_file_descriptor takes a free slot whenever there is one. *)
LEMMA NewDescriptor ==
  /\ FreeSlots = {} => fs_new_file_descriptor = NULL
  /\ FreeSlots # {} => /\ fs_new_file_descriptor \in FreeSlots
                       /\ fs_new_file_descriptor # NULL
<1>1. Slots \subseteq Nat /\ FreeSlots \subseteq Slots /\ NULL \notin Nat
  BY FileAssumption DEF Slots, FreeSlots
<1>2. CASE FreeSlots # {}
  <2>1. \E i \in FreeSlots : \A j \in FreeSlots : i <= j
    BY <1>1, <1>2, LeastOf
  <2>2. fs_new_file_descriptor \in FreeSlots
    BY <1>2, <2>1 DEF fs_new_file_descriptor
  <2>. QED
    BY <1>1, <1>2, <2>2
<1>. QED
  BY <1>2 DEF fs_new_file_descriptor

(* The index that an open file has, and the slot it stands for. *)
LEMMA FoundSlot ==
  ASSUME NEW fd \in AnyFd, fs_find_file_descriptor(fd) # NULL
  PROVE  /\ fd \in Fds /\ fd # MaxDescriptors
         /\ fd - 1 \in Slots
         /\ fs_find_file_descriptor(fd) = file_descriptors[fd - 1]
<1>1. fd \in Int /\ ~(fd <= 0) /\ ~(fd >= MaxDescriptors) /\ MaxDescriptors \in Nat
  BY FileAssumption DEF fs_find_file_descriptor, AnyFd
<1>2. fs_find_file_descriptor(fd) = file_descriptors[fd - 1]
  BY <1>1 DEF fs_find_file_descriptor
<1>. QED
  BY <1>1, <1>2 DEF Fds, Slots

-----------------------------------------------------------------------------
LEMMA InitFileInv == Init => FileInv
<1>. SUFFICES ASSUME Init PROVE FileInv
  OBVIOUS
<1>1. TypeOK
  BY DEF Init, TypeOK
<1>2. NoDanglingDescriptor
  BY DEF Init, NoDanglingDescriptor
<1>3. DescriptorKeepsItsFile
  BY FileAssumption DEF Init, DescriptorKeepsItsFile, Fds, Slots
<1>. QED
  BY <1>1, <1>2, <1>3 DEF FileInv

(* fs_resolve answers one of the inserted file systems, or NULL. *)
LEMMA Resolved ==
  ASSUME TypeOK, NEW knows \in SUBSET FileSystems
  PROVE  fs_resolve(knows) \in FileSystems \cup {NULL}
<1>. DEFINE fit == {i \in DOMAIN file_systems : file_systems[i] \in knows}
<1>1. DOMAIN file_systems \subseteq Nat
  BY FileAssumption DEF TypeOK
<1>2. CASE fit # {}
  <2>1. fit \subseteq Nat
    BY <1>1
  <2>2. \E i \in fit : \A j \in fit : i <= j
    BY <2>1, <1>2, LeastOf
  <2>. DEFINE first == CHOOSE i \in fit : \A j \in fit : i <= j
  <2>3. first \in fit
    BY <2>2
  <2>4. fs_resolve(knows) = file_systems[first]
    BY <1>2 DEF fs_resolve
  <2>. QED
    BY <2>3, <2>4
<1>. QED
  BY <1>2 DEF fs_resolve

(* The tables and the observation are what they were. *)
Untouched == UNCHANGED <<file_descriptors, live, opened>>

(* The slots and the file of an open index: the invariant for both tables. *)
LEMMA InsertKeeps ==
  ASSUME FileInv, NEW fs \in FileSystems \cup {NULL}, fs_insert_filesystem(fs)
  PROVE  FileInv'
<1>1. Untouched /\ UNCHANGED <<disk_fs, result>>
  BY DEF fs_insert_filesystem, Untouched
<1>2. file_systems' \in [0 .. (MaxFileSystems - 1) -> FileSystems \cup {NULL}]
  BY DEF fs_insert_filesystem, FileInv, TypeOK
<1>3. mode' \in {"boot", "run", "panic"}
  BY DEF fs_insert_filesystem, FileInv, TypeOK
<1>4. TypeOK'
  BY <1>1, <1>2, <1>3 DEF FileInv, TypeOK, Untouched
<1>5. NoDanglingDescriptor' /\ DescriptorKeepsItsFile'
  BY <1>1 DEF FileInv, NoDanglingDescriptor, DescriptorKeepsItsFile, Untouched
<1>. QED
  BY <1>4, <1>5 DEF FileInv

LEMMA InitDiskKeeps ==
  ASSUME FileInv, NEW knows \in SUBSET FileSystems, disk_init(knows)
  PROVE  FileInv'
<1>1. Untouched /\ UNCHANGED <<file_systems, result>> /\ mode' = "run"
  BY DEF disk_init, Untouched
<1>2. disk_fs' \in FileSystems \cup {NULL}
  BY Resolved DEF disk_init, FileInv
<1>3. TypeOK'
  BY <1>1, <1>2 DEF FileInv, TypeOK, Untouched
<1>4. NoDanglingDescriptor' /\ DescriptorKeepsItsFile'
  BY <1>1 DEF FileInv, NoDanglingDescriptor, DescriptorKeepsItsFile, Untouched
<1>. QED
  BY <1>3, <1>4 DEF FileInv

(* A call that only answers keeps everything but its answer. *)
LEMMA AnswerKeeps ==
  ASSUME FileInv, NEW value, Answer(value),
         value \in [code : Codes] \cup [fd : {NULL_FILE_DESCRIPTOR} \cup Fds]
  PROVE  FileInv'
<1>1. TypeOK'
  BY DEF Answer, FileInv, TypeOK
<1>2. NoDanglingDescriptor' /\ DescriptorKeepsItsFile'
  BY DEF Answer, FileInv, NoDanglingDescriptor, DescriptorKeepsItsFile
<1>. QED
  BY <1>1, <1>2 DEF FileInv

LEMMA TransferKeeps ==
  ASSUME FileInv, NEW fd, NEW size, fs_transfer(fd, size)
  PROVE  FileInv'
<1>1. PICK value \in {Code("INVALID_ARGUMENT"), Code("FS_INVALID_FILE_DESCRIPTOR"), Code("OK")} :
        Answer(value)
  BY DEF fs_transfer
<1>2. value \in [code : Codes]
  BY <1>1 DEF Code, Codes, FsAnswers
<1>. QED
  BY <1>1, <1>2, AnswerKeeps

LEMMA AskKeeps ==
  ASSUME FileInv, NEW fd, fs_ask(fd)
  PROVE  FileInv'
<1>1. PICK said \in Codes : Answer(Code(said))
  BY DEF fs_ask, Codes
<1>2. Code(said) \in [code : Codes]
  BY <1>1 DEF Code
<1>. QED
  BY <1>1, <1>2, AnswerKeeps

(***************************************************************************)
(* A successful fs_open, split: the handle is lost, or it gets a free slot *)
(* whose index no caller holds.                                            *)
(***************************************************************************)
Dropped(handle) ==
  /\ FreeSlots = {}
  /\ live' = live \cup {handle}
  /\ result' = Fd(NULL_FILE_DESCRIPTOR)
  /\ UNCHANGED <<mode, file_systems, disk_fs, file_descriptors, opened>>

Placed(handle, path, slot) ==
  /\ live' = live \cup {handle}
  /\ file_descriptors' = [file_descriptors EXCEPT ![slot] = handle]
  /\ opened' = [opened EXCEPT ![slot + 1] = [handle |-> handle, path |-> path]]
  /\ result' = Fd(slot + 1)
  /\ UNCHANGED <<mode, file_systems, disk_fs>>

LEMMA OpenShapes ==
  ASSUME NEW path \in Paths \cup {Unparsable}, NEW file_mode, fs_open(path, file_mode)
  PROVE  \/ Answer(Fd(NULL_FILE_DESCRIPTOR))
         \/ /\ path \in Paths
            /\ \E handle \in Handles \ live :
                 \/ Dropped(handle)
                 \/ \E slot \in FreeSlots : Placed(handle, path, slot)
<1>1. CASE Answer(Fd(NULL_FILE_DESCRIPTOR))
  BY <1>1
<1>2. CASE /\ Reachable(path)
           /\ \E handle \in Handles \ live :
                /\ live' = live \cup {handle}
                /\ Install(handle, path)
           /\ UNCHANGED <<mode, file_systems, disk_fs>>
  <2>1. path \in Paths
    BY <1>2 DEF Reachable
  <2>2. PICK handle \in Handles \ live : live' = live \cup {handle} /\ Install(handle, path)
    BY <1>2
  <2>3. CASE fs_new_file_descriptor = NULL
    <3>1. FreeSlots = {}
      BY <2>3, NewDescriptor
    <3>2. Dropped(handle)
      BY <1>2, <2>2, <2>3, <3>1 DEF Install, Dropped
    <3>. QED
      BY <2>1, <2>2, <3>2
  <2>4. CASE fs_new_file_descriptor # NULL
    <3>1. fs_new_file_descriptor \in FreeSlots
      BY <2>4, NewDescriptor
    <3>2. Placed(handle, path, fs_new_file_descriptor)
      BY <1>2, <2>2, <2>4 DEF Install, Placed, IndexOf
    <3>. QED
      BY <2>1, <2>2, <3>1, <3>2
  <2>. QED
    BY <2>3, <2>4
<1>. QED
  BY <1>1, <1>2 DEF fs_open

LEMMA DroppedKeeps ==
  ASSUME FileInv, NEW handle \in Handles \ live, Dropped(handle)
  PROVE  FileInv'
<1>1. TypeOK'
  BY DEF Dropped, Fd, FileInv, TypeOK
<1>2. NoDanglingDescriptor' /\ DescriptorKeepsItsFile'
  BY DEF Dropped, FileInv, NoDanglingDescriptor, DescriptorKeepsItsFile
<1>. QED
  BY <1>1, <1>2 DEF FileInv

LEMMA PlacedKeeps ==
  ASSUME FileInv, NEW path \in Paths, NEW handle \in Handles \ live,
         NEW slot \in FreeSlots, Placed(handle, path, slot)
  PROVE  FileInv'
<1>. DEFINE file == [handle |-> handle, path |-> path]
<1>1. /\ slot \in Slots /\ file_descriptors[slot] = NULL /\ slot + 1 \in Fds
      /\ Slots \subseteq Nat /\ Fds \subseteq Nat
  BY FileAssumption DEF FreeSlots, Slots, Fds
<1>2. file \in [handle : Handles, path : Paths] /\ file # NULL /\ handle # NULL
  BY FileAssumption
<1>3. /\ \A i \in Slots : file_descriptors'[i] = IF i = slot THEN handle ELSE file_descriptors[i]
      /\ \A fd \in Fds : opened'[fd] = IF fd = slot + 1 THEN file ELSE opened[fd]
      /\ live' = live \cup {handle}
  BY <1>1 DEF Placed, FileInv, TypeOK
<1>4. TypeOK'
  <2>1. file_descriptors' \in [Slots -> Handles \cup {NULL}]
    BY DEF Placed, FileInv, TypeOK
  <2>2. opened' \in [Fds -> {NULL} \cup [handle : Handles, path : Paths]]
    BY <1>2 DEF Placed, FileInv, TypeOK
  <2>3. live' \subseteq Handles /\ result' \in [fd : {NULL_FILE_DESCRIPTOR} \cup Fds]
    BY <1>1 DEF Placed, Fd, FileInv, TypeOK
  <2>. QED
    BY <2>1, <2>2, <2>3 DEF Placed, FileInv, TypeOK
<1>5. NoDanglingDescriptor'
  BY <1>2, <1>3 DEF FileInv, NoDanglingDescriptor
<1>6. DescriptorKeepsItsFile'
  <2>. SUFFICES ASSUME NEW fd \in Fds
                PROVE  /\ opened'[fd] = NULL <=> file_descriptors'[fd - 1] = NULL
                       /\ opened'[fd] # NULL => file_descriptors'[fd - 1] = opened'[fd].handle
    BY DEF DescriptorKeepsItsFile
  <2>1. fd - 1 \in Slots /\ (fd - 1 = slot <=> fd = slot + 1)
    BY <1>1, FileAssumption DEF Fds, Slots
  <2>2. /\ opened[fd] = NULL <=> file_descriptors[fd - 1] = NULL
        /\ opened[fd] # NULL => file_descriptors[fd - 1] = opened[fd].handle
    BY DEF FileInv, DescriptorKeepsItsFile
  <2>. QED
    BY <1>2, <1>3, <2>1, <2>2
<1>. QED
  BY <1>4, <1>5, <1>6 DEF FileInv

(***************************************************************************)
(* A successful fs_close: an open index other than the last, its slot and  *)
(* its handle.                                                             *)
(***************************************************************************)
Closed(fd) ==
  /\ fd \in Fds /\ fd # MaxDescriptors /\ fd - 1 \in Slots
  /\ file_descriptors[fd - 1] # NULL
  /\ live' = live \ {file_descriptors[fd - 1]}
  /\ file_descriptors' = [file_descriptors EXCEPT ![fd - 1] = NULL]
  /\ opened' = [opened EXCEPT ![fd] = NULL]
  /\ result' = Code("OK")
  /\ UNCHANGED <<mode, file_systems, disk_fs>>

LEMMA CloseShapes ==
  ASSUME NEW fd \in AnyFd, fs_close(fd)
  PROVE  (\E code \in Codes : Answer(Code(code))) \/ Closed(fd)
<1>1. CASE fs_find_file_descriptor(fd) = NULL
  BY <1>1 DEF fs_close, Codes
<1>2. CASE fs_find_file_descriptor(fd) # NULL
  <2>1. /\ fd \in Fds /\ fd # MaxDescriptors /\ fd - 1 \in Slots
        /\ fs_find_file_descriptor(fd) = file_descriptors[fd - 1]
    BY <1>2, FoundSlot
  <2>. QED
    BY <1>2, <2>1 DEF fs_close, Closed, fs_free_file_descriptor, Codes, FsAnswers
<1>. QED
  BY <1>1, <1>2

LEMMA ClosedKeeps ==
  ASSUME FileInv, NEW fd, Closed(fd)
  PROVE  FileInv'
<1>1. Slots \subseteq Nat /\ Fds \subseteq Nat
  BY FileAssumption DEF Slots, Fds
<1>2. /\ \A i \in Slots : file_descriptors'[i] = IF i = fd - 1 THEN NULL ELSE file_descriptors[i]
      /\ \A f \in Fds : opened'[f] = IF f = fd THEN NULL ELSE opened[f]
      /\ live' = live \ {file_descriptors[fd - 1]}
      /\ fd \in Fds /\ fd - 1 \in Slots /\ file_descriptors[fd - 1] # NULL
  BY DEF Closed, FileInv, TypeOK
<1>3. TypeOK'
  <2>1. file_descriptors' \in [Slots -> Handles \cup {NULL}]
    BY DEF Closed, FileInv, TypeOK
  <2>2. opened' \in [Fds -> {NULL} \cup [handle : Handles, path : Paths]]
    BY DEF Closed, FileInv, TypeOK
  <2>3. live' \subseteq Handles /\ result' \in [code : Codes]
    BY DEF Closed, Code, Codes, FsAnswers, FileInv, TypeOK
  <2>. QED
    BY <2>1, <2>2, <2>3 DEF Closed, FileInv, TypeOK
<1>4. NoDanglingDescriptor'
  BY <1>2 DEF FileInv, NoDanglingDescriptor
<1>5. DescriptorKeepsItsFile'
  <2>. SUFFICES ASSUME NEW f \in Fds
                PROVE  /\ opened'[f] = NULL <=> file_descriptors'[f - 1] = NULL
                       /\ opened'[f] # NULL => file_descriptors'[f - 1] = opened'[f].handle
    BY DEF DescriptorKeepsItsFile
  <2>1. f - 1 \in Slots /\ (f - 1 = fd - 1 <=> f = fd)
    BY <1>1, <1>2, FileAssumption DEF Fds, Slots
  <2>2. /\ opened[f] = NULL <=> file_descriptors[f - 1] = NULL
        /\ opened[f] # NULL => file_descriptors[f - 1] = opened[f].handle
    BY DEF FileInv, DescriptorKeepsItsFile
  <2>. QED
    BY <1>2, <2>1, <2>2
<1>. QED
  BY <1>3, <1>4, <1>5 DEF FileInv

(***************************************************************************)
(* Every step of the file layer is one of these: a step that leaves both   *)
(* tables, a lost handle, an installed one, a closed one.                  *)
(***************************************************************************)
LEMMA StepShapes ==
  ASSUME [Next]_vars
  PROVE  \/ Untouched
         \/ \E handle \in Handles \ live : Dropped(handle)
         \/ \E path \in Paths, handle \in Handles \ live, slot \in FreeSlots :
              Placed(handle, path, slot)
         \/ \E fd \in Fds : Closed(fd)
<1>1. ASSUME NEW value, Answer(value)
      PROVE  Untouched
  BY <1>1 DEF Answer, Untouched
<1>2. ASSUME NEW fs \in FileSystems \cup {NULL}, fs_insert_filesystem(fs)
      PROVE  Untouched
  BY <1>2 DEF fs_insert_filesystem, Untouched
<1>3. ASSUME NEW knows \in SUBSET FileSystems, disk_init(knows)
      PROVE  Untouched
  BY <1>3 DEF disk_init, Untouched
<1>4. ASSUME NEW fd \in AnyFd, NEW size \in 0 .. 1, fs_transfer(fd, size) \/ fs_ask(fd)
      PROVE  Untouched
  BY <1>1, <1>4 DEF fs_transfer, fs_ask
<1>5. ASSUME NEW fd \in AnyFd, fs_close(fd)
      PROVE  Untouched \/ (fd \in Fds /\ Closed(fd))
  BY <1>1, <1>5, CloseShapes DEF Closed
<1>6. CASE UNCHANGED vars
  BY <1>6 DEF vars, Untouched
<1>. QED
  BY <1>1, <1>2, <1>3, <1>4, <1>5, <1>6, OpenShapes DEF Next

LEMMA NextFileInv == FileInv /\ [Next]_vars => FileInv'
<1>. SUFFICES ASSUME FileInv, [Next]_vars PROVE FileInv'
  OBVIOUS
<1>1. ASSUME NEW fs \in FileSystems \cup {NULL}, fs_insert_filesystem(fs)
      PROVE  FileInv'
  BY <1>1, InsertKeeps
<1>2. ASSUME NEW knows \in SUBSET FileSystems, disk_init(knows)
      PROVE  FileInv'
  BY <1>2, InitDiskKeeps
<1>3. ASSUME NEW path \in Paths \cup {Unparsable}, NEW file_mode, fs_open(path, file_mode)
      PROVE  FileInv'
  <2>1. Fd(NULL_FILE_DESCRIPTOR) \in [fd : {NULL_FILE_DESCRIPTOR} \cup Fds]
    BY DEF Fd
  <2>. QED
    BY <1>3, <2>1, OpenShapes, AnswerKeeps, DroppedKeeps, PlacedKeeps
<1>4. ASSUME NEW fd \in AnyFd, NEW size \in 0 .. 1, fs_transfer(fd, size)
      PROVE  FileInv'
  BY <1>4, TransferKeeps
<1>5. ASSUME NEW fd \in AnyFd, fs_ask(fd)
      PROVE  FileInv'
  BY <1>5, AskKeeps
<1>6. ASSUME NEW fd \in AnyFd, fs_close(fd)
      PROVE  FileInv'
  <2>1. \A code \in Codes : Code(code) \in [code : Codes]
    BY DEF Code
  <2>. QED
    BY <1>6, <2>1, CloseShapes, AnswerKeeps, ClosedKeeps
<1>7. CASE UNCHANGED vars
  <2>1. TypeOK'
    BY <1>7 DEF vars, FileInv, TypeOK
  <2>2. NoDanglingDescriptor' /\ DescriptorKeepsItsFile'
    BY <1>7 DEF vars, FileInv, NoDanglingDescriptor, DescriptorKeepsItsFile
  <2>. QED
    BY <2>1, <2>2 DEF FileInv
<1>. QED
  BY <1>1, <1>2, <1>3, <1>4, <1>5, <1>6, <1>7 DEF Next

-----------------------------------------------------------------------------
(* The three parts hold in every state that the file layer reaches. *)
THEOREM FileInvariant == Spec => []FileInv
<1>. QED
  BY InitFileInv, NextFileInv, PTL DEF Spec

(* The tables and what the calls answer keep their types. *)
THEOREM FileTypes == Spec => []TypeOK
<1>1. FileInv => TypeOK
  BY DEF FileInv
<1>. QED
  BY <1>1, FileInvariant, PTL

(***************************************************************************)
(* fs_open and fs_close between them never leave a slot that points to a   *)
(* closed handle, nor two slots with one handle.                           *)
(***************************************************************************)
THEOREM NothingDangles == Spec => []NoDanglingDescriptor
<1>1. FileInv => NoDanglingDescriptor
  BY DEF FileInv
<1>. QED
  BY <1>1, FileInvariant, PTL

(* An index stands for what fs_open put under it until fs_close takes it. *)
THEOREM IndexesKeepTheirFiles == Spec => []DescriptorKeepsItsFile
<1>1. FileInv => DescriptorKeepsItsFile
  BY DEF FileInv
<1>. QED
  BY <1>1, FileInvariant, PTL

-----------------------------------------------------------------------------
(* What is in the table, slot by slot. *)
LEMMA InTable ==
  ASSUME TypeOK, NEW x
  PROVE  x \in Range(file_descriptors) <=> \E i \in Slots : file_descriptors[i] = x
BY DEF Range, TypeOK

(***************************************************************************)
(* A lost handle stays lost, and handles are lost by fs_open alone, when   *)
(* the table has no free slot.                                             *)
(***************************************************************************)
LostStep == Lost \subseteq Lost' /\ (Lost' # Lost => FreeSlots = {})

LEMMA StepLoses == FileInv /\ FileInv' /\ [Next]_vars => LostStep
<1>. SUFFICES ASSUME FileInv, FileInv', [Next]_vars PROVE LostStep
  OBVIOUS
<1>0. /\ \A x : x \in Range(file_descriptors) <=> \E i \in Slots : file_descriptors[i] = x
      /\ \A x : x \in Range(file_descriptors') <=> \E i \in Slots : file_descriptors'[i] = x
  <2>1. DOMAIN file_descriptors = Slots /\ DOMAIN file_descriptors' = Slots
    BY DEF FileInv, TypeOK
  <2>. QED
    BY <2>1 DEF Range
<1>1. CASE Untouched
  BY <1>1 DEF Untouched, LostStep, Lost
<1>2. ASSUME NEW handle \in Handles \ live, Dropped(handle)
      PROVE  LostStep
  BY <1>2 DEF Dropped, LostStep, Lost
<1>3. ASSUME NEW path \in Paths, NEW handle \in Handles \ live, NEW slot \in FreeSlots,
             Placed(handle, path, slot)
      PROVE  LostStep
  <2>1. /\ \A i \in Slots : file_descriptors'[i] = IF i = slot THEN handle ELSE file_descriptors[i]
        /\ live' = live \cup {handle}
        /\ slot \in Slots /\ file_descriptors[slot] = NULL
    BY <1>3 DEF Placed, FileInv, TypeOK, FreeSlots
  <2>2. \A x \in live : x # handle /\ x # NULL
    BY FileAssumption DEF FileInv, TypeOK
  <2>3. Lost' = Lost
    BY <1>0, <2>1, <2>2 DEF Lost
  <2>. QED
    BY <2>3 DEF LostStep
<1>4. ASSUME NEW fd \in Fds, Closed(fd)
      PROVE  LostStep
  <2>1. /\ \A i \in Slots : file_descriptors'[i] = IF i = fd - 1 THEN NULL ELSE file_descriptors[i]
        /\ live' = live \ {file_descriptors[fd - 1]}
        /\ fd - 1 \in Slots
    BY <1>4 DEF Closed, FileInv, TypeOK
  <2>2. \A x \in live : x # NULL
    BY FileAssumption DEF FileInv, TypeOK
  <2>3. \A i \in Slots : i # fd - 1 /\ file_descriptors[i] # NULL =>
          file_descriptors[i] # file_descriptors[fd - 1]
    BY <2>1 DEF FileInv, NoDanglingDescriptor
  <2>4. Lost' = Lost
    BY <1>0, <2>1, <2>2, <2>3 DEF Lost
  <2>. QED
    BY <2>4 DEF LostStep
<1>. QED
  BY <1>1, <1>2, <1>3, <1>4, StepShapes

(***************************************************************************)
(* A handle ends up open and without a descriptor only when fs_open found  *)
(* every slot taken, and no later call can close it.                       *)
(***************************************************************************)
THEOREM LossesComeFromAFullTable == Spec => HandlesAreLostOnlyWhenFull
<1>1. FileInv /\ FileInv' /\ [Next]_vars => [LostStep]_vars
  BY StepLoses
<1>2. [][LostStep]_vars => HandlesAreLostOnlyWhenFull
  BY PTL DEF HandlesAreLostOnlyWhenFull, LostStep
<1>. QED
  BY <1>1, <1>2, FileInvariant, PTL DEF Spec

StuckStep ==
  /\ opened[MaxDescriptors] # NULL => opened'[MaxDescriptors] # NULL
  /\ \A fd \in Fds \ {MaxDescriptors} :
       opened[fd] # NULL /\ mode = "run" => fs_find_file_descriptor(fd) # NULL

LEMMA StepSticks == FileInv /\ [Next]_vars => StuckStep
<1>. SUFFICES ASSUME FileInv, [Next]_vars PROVE StuckStep
  OBVIOUS
<1>1. MaxDescriptors \in Fds /\ Fds \subseteq Nat
  BY FileAssumption DEF Fds
<1>2. ASSUME NEW fd \in Fds \ {MaxDescriptors}, opened[fd] # NULL
      PROVE  fs_find_file_descriptor(fd) # NULL
  <2>1. file_descriptors[fd - 1] # NULL
    BY <1>2 DEF FileInv, DescriptorKeepsItsFile
  <2>2. ~(fd <= 0 \/ fd >= MaxDescriptors)
    BY <1>2, FileAssumption DEF Fds
  <2>. QED
    BY <2>1, <2>2 DEF fs_find_file_descriptor
<1>3. ASSUME opened[MaxDescriptors] # NULL
      PROVE  opened'[MaxDescriptors] # NULL
  <2>1. ASSUME NEW path \in Paths, NEW handle \in Handles \ live, NEW slot \in FreeSlots,
               Placed(handle, path, slot)
        PROVE  opened'[MaxDescriptors] # NULL
    <3>1. [handle |-> handle, path |-> path] # NULL
      BY FileAssumption
    <3>. QED
      BY <1>1, <1>3, <2>1, <3>1 DEF Placed, FileInv, TypeOK
  <2>2. ASSUME NEW fd \in Fds, Closed(fd)
        PROVE  opened'[MaxDescriptors] # NULL
    BY <1>1, <1>3, <2>2 DEF Closed, FileInv, TypeOK
  <2>. QED
    BY <1>3, <2>1, <2>2, StepShapes DEF Untouched, Dropped
<1>. QED
  BY <1>2, <1>3 DEF StuckStep

(***************************************************************************)
(* Once fs_open has handed out the last index no call takes it back, for   *)
(* tables of every size; every other open index can be looked up.          *)
(***************************************************************************)
THEOREM LastIndexStays == Spec => LastIndexIsStuck
<1>1. FileInv /\ [Next]_vars => [StuckStep]_vars
  BY StepSticks
<1>2. [][StuckStep]_vars => LastIndexIsStuck
  BY PTL DEF LastIndexIsStuck, StuckStep
<1>. QED
  BY <1>1, <1>2, FileInvariant, PTL DEF Spec
=============================================================================
