--------------------------- MODULE FileSystemProofs ---------------------------
(***************************************************************************)
(* Theorems about FileSystem, for every disk, size of the tables and of    *)
(* the heap: file.c over this driver implements FileTable, what its        *)
(* indexes serve, what OK of a write means, what opens take from the heap, *)
(* and that kernel_main uses its indexes in time.                          *)
(***************************************************************************)
EXTENDS FileSystem, Fat16Proofs

Indexes == {0} \cup Fds

Places ==
  {"open main", "stat", "print", "read", "free", "stat again", "print again", "open koko",
   "write", "close", "open again", "read again", "close again", "end", "any"}

Programs == [at : Places, fd : Indexes, fd2 : Indexes, fd3 : Indexes]

(* Types, in all states that another step can follow. *)
FsTypes ==
  /\ mode = "panic" \/ TypeOK
  /\ file_systems \in [{0} -> {FAT16, None}]
  /\ program \in Programs

Live == {d \in Descriptors : desc[d] # None}

FileModes == {"READ", "WRITE", "APPEND"}

-----------------------------------------------------------------------------
(***************************************************************************)
(* What the calls of the driver do to the set of open descriptors.         *)
(***************************************************************************)
InUse == [item : Items, pos : 0 .. (SizeMod - 1)]

LEMMA InUseIsNotNone ==
  /\ None \notin InUse
  /\ TypeOK => desc \in [Descriptors -> {None} \cup InUse]
  BY FileSystemAssumption DEF InUse, TypeOK

LEMMA OpenLive ==
  ASSUME TypeOK, NEW d \in Descriptors, desc[d] = None, NEW item \in Items, Open(d, item)
  PROVE  Live' = Live \cup {d}
<1>1. [item |-> item, pos |-> 0] \in InUse
  BY FatAssumption DEF InUse
<1>2. desc' = [desc EXCEPT ![d] = [item |-> item, pos |-> 0]]
  BY DEF Open
<1> QED
  BY <1>1, <1>2, InUseIsNotNone DEF Live

LEMMA ChangeLive ==
  ASSUME TypeOK, NEW d \in Descriptors, desc[d] # None,
         \/ \E item \in Items : desc' = [desc EXCEPT ![d].item = item]
         \/ \E pos \in 0 .. (SizeMod - 1) : desc' = [desc EXCEPT ![d].pos = pos]
  PROVE  Live' = Live
<1>1. desc \in [Descriptors -> {None} \cup InUse] /\ desc[d] \in InUse
  BY InUseIsNotNone
<1>2. ASSUME NEW item \in Items, desc' = [desc EXCEPT ![d].item = item]
      PROVE  desc'[d] \in InUse /\ \A e \in Descriptors : e # d => desc'[e] = desc[e]
  <2>1. desc'[d] = [desc[d] EXCEPT !.item = item]
    BY <1>1, <1>2
  <2> QED
    BY <1>1, <1>2, <2>1 DEF InUse
<1>3. ASSUME NEW pos \in 0 .. (SizeMod - 1), desc' = [desc EXCEPT ![d].pos = pos]
      PROVE  desc'[d] \in InUse /\ \A e \in Descriptors : e # d => desc'[e] = desc[e]
  <2>1. desc'[d] = [desc[d] EXCEPT !.pos = pos]
    BY <1>1, <1>3
  <2> QED
    BY <1>1, <1>3, <2>1 DEF InUse
<1>4. desc'[d] \in InUse /\ \A e \in Descriptors : e # d => desc'[e] = desc[e]
  BY <1>2, <1>3
<1> QED
  BY <1>4, InUseIsNotNone DEF Live

LEMMA WriteLive ==
  ASSUME TypeOK, NEW d \in Descriptors, NEW value \in Data, NEW size \in Nat,
         fat16_write(d, value, size)
  PROVE  Live' = Live /\ mode = "run" /\ mode' \in {"run", "hung"}
<1>1. IsOpen(d)
  BY DEF fat16_write, RefusesDirectory, SearchHangs
<1>2. mode = "run" /\ desc[d] # None
  BY <1>1 DEF IsOpen, Mounted
<1>3. CASE UNCHANGED <<disk, words, cache, desc>> /\ mode' \in {mode, "hung"}
  BY <1>2, <1>3 DEF Live
<1>4. CASE /\ Writing(d)
           /\ desc' = [desc EXCEPT ![d].item = ItemToWrite(d)]
           /\ UNCHANGED mode
  BY <1>2, <1>4, ItemFacts, ChangeLive
<1> QED
  BY <1>3, <1>4, WriteShape

LEMMA SeekLive ==
  ASSUME TypeOK, NEW d \in Descriptors, NEW offset \in 0 .. (SizeMod - 1), NEW seek_mode,
         fat16_seek(d, offset, seek_mode)
  PROVE  Live' = Live /\ mode = "run" /\ mode' = "run" /\ result' \in Table!FsAnswers
<1>1. IsOpen(d) /\ UNCHANGED mode
  BY DEF fat16_seek, RefusesDirectory, Return, MoveTo
<1>2. mode = "run" /\ desc[d] # None
  BY <1>1 DEF IsOpen, Mounted
<1>3. Sum(d, offset) \in 0 .. (SizeMod - 1)
  BY <1>2, FatAssumption DEF Sum, TypeOK
<1>4. UNCHANGED desc \/ \E pos \in 0 .. (SizeMod - 1) : MoveTo(d, pos)
  BY <1>3 DEF fat16_seek, RefusesDirectory, Return
<1>5. Live' = Live
  BY <1>2, <1>4, ChangeLive DEF MoveTo, Live
<1>6. result' \in Table!FsAnswers
  BY DEF fat16_seek, RefusesDirectory, Return, MoveTo, Table!FsAnswers
<1> QED
  BY <1>1, <1>2, <1>5, <1>6

-----------------------------------------------------------------------------
(***************************************************************************)
(* The calls of file.c, each a step of FileTable or a stutter.             *)
(***************************************************************************)
LEMMA Stutter ==
  ASSUME Live' = Live, UNCHANGED <<tableVars, answer>>,
         mode' = mode \/ (mode = "run" /\ mode' # "off")
  PROVE  UNCHANGED Table!vars
  BY DEF Table!vars, tableVars, Live

LEMMA AnswerOnly ==
  ASSUME Live' = Live, UNCHANGED tableVars, mode = "run", mode' = "run", NEW value,
         answer' = value
  PROVE  Table!Answer(value)
  BY DEF Table!Answer, tableVars, Live

LEMMA InitRefines == FsInit => Table!Init /\ FsTypes
<1> SUFFICES ASSUME FsInit PROVE Table!Init /\ FsTypes
  OBVIOUS
<1>1. Table!Init
  BY DEF FsInit
<1>2. file_systems \in [{0} -> {FAT16, None}]
  <2>1. file_systems = [i \in 0 .. (1 - 1) |-> None]
    BY <1>1 DEF Table!Init
  <2>2. 0 .. (1 - 1) = {0}
    OBVIOUS
  <2> QED
    BY <2>1, <2>2
<1>3. TypeOK
  BY InitTypeOK DEF FsInit
<1>4. program \in Programs
  <2>1. program \in {Fresh("open main"), Fresh("any")}
    BY DEF FsInit
  <2>2. \A place \in Places : Fresh(place) \in Programs
    BY DEF Fresh, Programs, Indexes
  <2>3. "open main" \in Places /\ "any" \in Places
    BY DEF Places
  <2> QED
    BY <2>1, <2>2, <2>3
<1> QED
  BY <1>1, <1>2, <1>3, <1>4 DEF FsTypes

LEMMA InsertRefines ==
  ASSUME FsTypes, fs_init
  PROVE  Table!fs_insert_filesystem(FAT16) /\ TypeOK' /\ file_systems' \in [{0} -> {FAT16, None}]
<1>1. /\ mode = "off" /\ file_systems[0] = None /\ DOMAIN file_systems = {0}
      /\ file_systems' = [file_systems EXCEPT ![0] = FAT16]
      /\ UNCHANGED <<vars, disk_fs, file_descriptors, opened, answer>>
  BY DEF fs_init, FsTypes
<1>2. Table!FreeFileSystemSlots = {0}
  BY <1>1 DEF Table!FreeFileSystemSlots
<1>3. (CHOOSE i \in {0} : \A j \in {0} : i <= j) = 0
  OBVIOUS
<1>4. Table!fs_insert_filesystem(FAT16)
  BY <1>1, <1>2, <1>3, FileSystemAssumption DEF Table!fs_insert_filesystem, vars
<1>5. TypeOK'
  BY <1>1 DEF vars, FsTypes, TypeOK
<1> QED
  BY <1>1, <1>4, <1>5 DEF FsTypes

LEMMA DiskInitRefines ==
  ASSUME FsTypes, disk_init
  PROVE  \E knows \in SUBSET {FAT16} : Table!disk_init(knows)
<1>1. /\ mode = "off" /\ mode' = "run" /\ UNCHANGED desc
      /\ \E knows \in SUBSET {FAT16} : disk_fs' = Table!fs_resolve(knows)
      /\ UNCHANGED <<file_systems, file_descriptors, opened, answer>>
  BY DEF disk_init, fat16_resolve
<1> QED
  BY <1>1 DEF Table!disk_init

(* An index that fs_open may return. *)
LEMMA NewIndex ==
  /\ Table!fs_new_file_descriptor # None =>
       /\ Table!fs_new_file_descriptor \in Table!FreeSlots
       /\ Table!IndexOf(Table!fs_new_file_descriptor) \in Fds
  /\ Table!FreeSlots \subseteq Table!Slots
<1>1. Table!FreeSlots \subseteq Table!Slots /\ Table!Slots \subseteq Nat
  BY FileSystemAssumption DEF Table!FreeSlots, Table!Slots
<1>2. CASE Table!FreeSlots # {}
  <2>1. \E i \in Table!FreeSlots : \A j \in Table!FreeSlots : i <= j
    BY <1>1, <1>2, LeastOf
  <2>2. Table!fs_new_file_descriptor \in Table!FreeSlots
    BY <1>2, <2>1 DEF Table!fs_new_file_descriptor
  <2>3. Table!fs_new_file_descriptor \in 0 .. (MaxDescriptors - 1)
    BY <1>1, <2>2 DEF Table!Slots
  <2> QED
    BY <1>1, <2>2, <2>3, FileSystemAssumption DEF Table!IndexOf, Fds, Table!Fds
<1> QED
  BY <1>1, <1>2 DEF Table!fs_new_file_descriptor

LEMMA OpenRefines ==
  ASSUME FsTypes, NEW path \in Paths \cup {Unparsable}, NEW file_mode \in FileModes,
         fs_open(path, file_mode)
  PROVE  /\ Table!fs_open(path, file_mode)
         /\ TypeOK' /\ mode' = "run" /\ UNCHANGED file_systems
         /\ answer'.fd \in Indexes
<1>1. mode = "run" /\ TypeOK
  BY DEF fs_open, FsTypes
<1>2. CASE ~Table!Reachable(path) /\ Refuse(Table!Fd(0))
  <2>1. UNCHANGED <<vars, tableVars>> /\ answer' = Table!Fd(0)
    BY <1>2 DEF Refuse
  <2>2. Table!Answer(Table!Fd(0))
    BY <1>1, <2>1, AnswerOnly DEF vars, Live
  <2>3. TypeOK' /\ mode' = "run" /\ UNCHANGED file_systems
    BY <1>1, <2>1 DEF TypeOK, vars, tableVars
  <2>4. answer'.fd \in Indexes
    BY <2>1 DEF Table!Fd, Indexes
  <2> QED
    BY <1>1, <1>2, <2>2, <2>3, <2>4 DEF Table!fs_open, Table!NULL_FILE_DESCRIPTOR
<1>3. ASSUME NEW d \in Descriptors, Table!Reachable(path),
             fat16_open(d, path.name, file_mode),
             UNCHANGED <<file_systems, disk_fs>>,
             IF result' = "OK" THEN Table!Install(d, path)
             ELSE answer' = Table!Fd(0) /\ UNCHANGED <<file_descriptors, opened>>
      PROVE  /\ Table!fs_open(path, file_mode)
             /\ TypeOK' /\ mode' = "run" /\ UNCHANGED file_systems
             /\ answer'.fd \in Indexes
  <2>1. TypeOK' /\ UNCHANGED mode /\ desc[d] = None
    BY <1>1, <1>3, OpenKeepsTypes, OpenShape DEF fat16_open
  <2>2. CASE result' # "OK"
    <3>1. UNCHANGED desc
      BY <1>1, <1>3, <2>2, OpenShape
    <3>2. Table!Answer(Table!Fd(0))
      BY <1>1, <1>3, <2>1, <2>2, <3>1, AnswerOnly DEF tableVars, Live
    <3>3. file_mode # "WRITE"
      BY <1>3, <2>2 DEF fat16_open, fat16_open_for_write
    <3>4. answer'.fd \in Indexes
      BY <1>3, <2>2 DEF Table!Fd, Indexes
    <3> QED
      BY <1>1, <1>3, <2>1, <3>2, <3>3, <3>4
         DEF Table!fs_open, Table!FsOpenMayFail, Table!NULL_FILE_DESCRIPTOR
  <2>3. CASE result' = "OK"
    <3>1. PICK item \in Items : Open(d, item)
      BY <1>1, <1>3, <2>3, OpenShape
    <3>2. Live' = Live \cup {d} /\ d \notin Live
      BY <1>1, <2>1, <3>1, OpenLive DEF Live
    <3>3. file_mode # "APPEND"
      BY <1>3, <2>3 DEF fat16_open
    <3>4. Table!Install(d, path)
      BY <1>3, <2>3
    <3>5. Table!fs_open(path, file_mode)
      BY <1>1, <1>3, <2>1, <3>2, <3>3, <3>4
         DEF Table!fs_open, Table!FsOpenMaySucceed, Live
    <3>6. answer'.fd \in Indexes
      BY <3>4, NewIndex DEF Table!Install, Table!Fd, Table!NULL_FILE_DESCRIPTOR, Indexes
    <3> QED
      BY <1>1, <1>3, <2>1, <3>5, <3>6
  <2> QED
    BY <2>2, <2>3
<1> QED
  BY <1>2, <1>3 DEF fs_open

LEMMA NotFoundRefines ==
  ASSUME FsTypes, NEW fd, RefusesFd(fd)
  PROVE  /\ Table!fs_ask(fd) /\ Table!fs_close(fd)
         /\ mode = "run" /\ UNCHANGED <<vars, tableVars>>
         /\ answer' = Table!Code("FS_INVALID_FILE_DESCRIPTOR")
<1>1. /\ mode = "run" /\ UNCHANGED <<vars, tableVars>>
      /\ Table!fs_find_file_descriptor(fd) = None
      /\ answer' = Table!Code("FS_INVALID_FILE_DESCRIPTOR")
  BY DEF RefusesFd, Refuse
<1>2. Table!Answer(Table!Code("FS_INVALID_FILE_DESCRIPTOR"))
  BY <1>1, AnswerOnly DEF vars, Live
<1> QED
  BY <1>1, <1>2 DEF Table!fs_ask, Table!fs_close

(***************************************************************************)
(* fs_read and fs_write: what is refused, not found, or asked of the       *)
(* driver, which may hang in it.                                           *)
(***************************************************************************)
Once(size) == IF size = 0 THEN 0 ELSE 1

LEMMA TransferRefines ==
  ASSUME FsTypes, NEW fd \in Table!AnyFd, NEW size,
         \/ RefusesTransfer(fd, size)
         \/ fd > 0 /\ RefusesFd(fd)
         \/ /\ mode = "run" /\ mode' \in {"run", "hung"} /\ Live' = Live
            /\ size # 0 /\ Table!fs_find_file_descriptor(fd) # None
            /\ Dropped
  PROVE  \E n \in 0 .. 1 : [Table!fs_transfer(fd, n)]_Table!vars
<1>1. CASE RefusesTransfer(fd, size)
  <2>1. /\ mode = "run" /\ UNCHANGED <<vars, tableVars>>
        /\ size = 0 \/ fd <= 0
        /\ answer' = Table!Code("INVALID_ARGUMENT")
    BY <1>1 DEF RefusesTransfer, Refuse
  <2>2. Table!Answer(Table!Code("INVALID_ARGUMENT"))
    BY <2>1, AnswerOnly DEF vars, Live
  <2>3. Table!fs_transfer(fd, Once(size))
    BY <2>1, <2>2 DEF Table!fs_transfer, Once
  <2> QED
    BY <2>3 DEF Once
<1>2. CASE fd > 0 /\ RefusesFd(fd)
  <2>1. Table!Answer(Table!Code("FS_INVALID_FILE_DESCRIPTOR")) /\ mode = "run"
    BY <1>2, NotFoundRefines, AnswerOnly DEF vars, Live
  <2>2. Table!fs_find_file_descriptor(fd) = None /\ ~(fd <= 0)
    BY <1>2, FileSystemAssumption DEF RefusesFd, Table!AnyFd
  <2>3. Table!fs_transfer(fd, 1)
    BY <2>1, <2>2 DEF Table!fs_transfer
  <2> QED
    BY <2>3
<1>3. CASE /\ mode = "run" /\ mode' \in {"run", "hung"} /\ Live' = Live
           /\ size # 0 /\ Table!fs_find_file_descriptor(fd) # None
           /\ Dropped
  <2>1. ~(fd <= 0)
    BY <1>3 DEF Table!fs_find_file_descriptor
  <2>2. CASE mode' = "run"
    <3>1. Table!Answer(Table!Code("OK"))
      BY <1>3, <2>2, AnswerOnly DEF Dropped
    <3>2. Table!fs_transfer(fd, 1)
      BY <1>3, <2>1, <3>1 DEF Table!fs_transfer
    <3> QED
      BY <3>2
  <2>3. CASE mode' = "hung"
    <3>1. UNCHANGED Table!vars
      BY <1>3, <2>3, Stutter DEF Dropped
    <3> QED
      BY <3>1
  <2> QED
    BY <1>3, <2>2, <2>3
<1> QED
  BY <1>1, <1>2, <1>3

Transfers(fd) == \E n \in 0 .. 1 : [Table!fs_transfer(fd, n)]_Table!vars

LEMMA ReadRefines ==
  ASSUME FsTypes, NEW fd \in Table!AnyFd, NEW size, fs_read(fd, size)
  PROVE  Transfers(fd) /\ TypeOK' /\ UNCHANGED file_systems
<1>1. CASE RefusesTransfer(fd, size) \/ (fd > 0 /\ RefusesFd(fd))
  <2>1. mode = "run" /\ UNCHANGED <<vars, tableVars>>
    BY <1>1 DEF RefusesTransfer, RefusesFd, Refuse
  <2>2. TypeOK' /\ UNCHANGED file_systems
    BY <2>1 DEF FsTypes, TypeOK, vars, tableVars
  <2> QED
    BY <1>1, <2>2, TransferRefines DEF Transfers
<1>2. ASSUME NEW d \in Descriptors, Finds(fd, d), fat16_read(d, size, 1), size > 0, Dropped
      PROVE  Transfers(fd) /\ TypeOK' /\ UNCHANGED file_systems
  <2>1. mode = "run" /\ mode' \in {"run", "hung"} /\ UNCHANGED <<disk, words, cache, desc>>
    BY <1>2 DEF fat16_read, RefusesDirectory, IsOpen, Mounted
  <2>2. TypeOK' /\ UNCHANGED file_systems
    BY <1>2, <2>1 DEF FsTypes, TypeOK, Dropped, tableVars
  <2>3. Live' = Live /\ Table!fs_find_file_descriptor(fd) # None
    BY <1>2, <2>1 DEF Live, Finds
  <2>4. size # 0
    BY <1>2
  <2> QED
    BY <1>2, <2>1, <2>2, <2>3, <2>4, TransferRefines DEF Transfers
<1>3. \/ RefusesTransfer(fd, size)
      \/ fd > 0 /\ RefusesFd(fd)
      \/ \E d \in Descriptors : Finds(fd, d) /\ fat16_read(d, size, 1) /\ size > 0 /\ Dropped
  BY Zenon DEF fs_read
<1> QED
  BY <1>1, <1>2, <1>3, Zenon

LEMMA WriteRefines ==
  ASSUME FsTypes, NEW fd \in Table!AnyFd, NEW value \in Data, NEW size \in Nat,
         fs_write(fd, value, size)
  PROVE  Transfers(fd) /\ TypeOK' /\ UNCHANGED file_systems
<1>1. CASE RefusesTransfer(fd, size) \/ (fd > 0 /\ RefusesFd(fd))
  <2>1. mode = "run" /\ UNCHANGED <<vars, tableVars>>
    BY <1>1 DEF RefusesTransfer, RefusesFd, Refuse
  <2>2. TypeOK' /\ UNCHANGED file_systems
    BY <2>1 DEF FsTypes, TypeOK, vars, tableVars
  <2> QED
    BY <1>1, <2>2, TransferRefines DEF Transfers
<1>2. ASSUME NEW d \in Descriptors, Finds(fd, d), fat16_write(d, value, size), size > 0, Dropped
      PROVE  Transfers(fd) /\ TypeOK' /\ UNCHANGED file_systems
  <2>1. mode = "run" /\ TypeOK
    BY <1>2 DEF fat16_write, RefusesDirectory, SearchHangs, IsOpen, Mounted, FsTypes
  <2>2. Live' = Live /\ mode' \in {"run", "hung"}
    BY <1>2, <2>1, WriteLive
  <2>3. TypeOK' /\ UNCHANGED file_systems
    BY <1>2, <2>1, WriteKeepsTypes DEF Dropped, tableVars
  <2>4. size # 0 /\ Table!fs_find_file_descriptor(fd) # None
    BY <1>2 DEF Finds
  <2> QED
    BY <1>2, <2>1, <2>2, <2>3, <2>4, TransferRefines DEF Transfers
<1>3. \/ RefusesTransfer(fd, size)
      \/ fd > 0 /\ RefusesFd(fd)
      \/ \E d \in Descriptors : Finds(fd, d) /\ fat16_write(d, value, size) /\ size > 0 /\ Dropped
  BY Zenon DEF fs_write
<1> QED
  BY <1>1, <1>2, <1>3, Zenon

LEMMA AskRefines ==
  ASSUME FsTypes, NEW fd \in Table!AnyFd, fs_stat(fd)
  PROVE  Table!fs_ask(fd) /\ TypeOK' /\ UNCHANGED file_systems
<1>1. CASE RefusesFd(fd)
  BY <1>1, NotFoundRefines DEF FsTypes, TypeOK, vars, tableVars
<1>2. ASSUME NEW d \in Descriptors, Finds(fd, d), fat16_stat(d), PassedOn
      PROVE  Table!fs_ask(fd) /\ TypeOK' /\ UNCHANGED file_systems
  <2>1. mode = "run" /\ UNCHANGED <<mode, disk, words, cache, desc>>
        /\ result' \in Table!FsAnswers
    BY <1>2 DEF fat16_stat, RefusesDirectory, IsOpen, Mounted, Return, Table!FsAnswers
  <2>2. Table!Answer(Table!Code(result'))
    BY <1>2, <2>1, AnswerOnly DEF PassedOn, Live
  <2>3. Table!fs_ask(fd)
    BY <1>2, <2>1, <2>2 DEF Table!fs_ask, Finds
  <2>4. TypeOK' /\ UNCHANGED file_systems
    BY <1>2, <2>1 DEF FsTypes, TypeOK, PassedOn, tableVars
  <2> QED
    BY <2>3, <2>4
<1> QED
  BY <1>1, <1>2 DEF fs_stat

LEMMA SeekRefines ==
  ASSUME FsTypes, NEW fd \in Table!AnyFd, NEW offset \in 0 .. (SizeMod - 1), NEW seek_mode,
         fs_seek(fd, offset, seek_mode)
  PROVE  Table!fs_ask(fd) /\ TypeOK' /\ UNCHANGED file_systems
<1>1. CASE RefusesFd(fd)
  BY <1>1, NotFoundRefines DEF FsTypes, TypeOK, vars, tableVars
<1>2. ASSUME NEW d \in Descriptors, Finds(fd, d), fat16_seek(d, offset, seek_mode), PassedOn
      PROVE  Table!fs_ask(fd) /\ TypeOK' /\ UNCHANGED file_systems
  <2>1. mode = "run" /\ TypeOK
    BY <1>2 DEF fat16_seek, RefusesDirectory, IsOpen, Mounted, FsTypes
  <2>2. Live' = Live /\ mode' = "run" /\ result' \in Table!FsAnswers
    BY <1>2, <2>1, SeekLive
  <2>3. Table!Answer(Table!Code(result'))
    BY <1>2, <2>1, <2>2, AnswerOnly DEF PassedOn
  <2>4. Table!fs_ask(fd)
    BY <1>2, <2>1, <2>2, <2>3 DEF Table!fs_ask, Finds
  <2>5. TypeOK' /\ UNCHANGED file_systems
    BY <1>2, <2>1, SeekKeepsTypes DEF PassedOn, tableVars
  <2> QED
    BY <2>4, <2>5
<1> QED
  BY <1>1, <1>2 DEF fs_seek

LEMMA CloseRefines ==
  ASSUME FsTypes, NEW fd \in Table!AnyFd, fs_close(fd)
  PROVE  [Table!fs_close(fd)]_Table!vars /\ TypeOK' /\ UNCHANGED file_systems
<1>1. CASE RefusesFd(fd)
  BY <1>1, NotFoundRefines DEF FsTypes, TypeOK, vars, tableVars
<1>2. ASSUME NEW d \in Descriptors, IsOpen(d), mode' = "wild",
             UNCHANGED <<disk, words, cache, desc, tableVars, answer>>
      PROVE  [Table!fs_close(fd)]_Table!vars /\ TypeOK' /\ UNCHANGED file_systems
  <2>1. mode = "run"
    BY <1>2 DEF IsOpen, Mounted
  <2>2. UNCHANGED Table!vars
    BY <1>2, <2>1, Stutter DEF Live
  <2> QED
    BY <1>2, <2>1, <2>2 DEF FsTypes, TypeOK, tableVars
<1>3. ASSUME NEW d \in Descriptors, Finds(fd, d), ~desc[d].item.dir, fat16_close(d),
             file_descriptors' = fs_free_file_descriptor(fd),
             opened' = [opened EXCEPT ![fd] = None],
             answer' = Table!Code("OK"),
             UNCHANGED <<file_systems, disk_fs>>
      PROVE  [Table!fs_close(fd)]_Table!vars /\ TypeOK' /\ UNCHANGED file_systems
  <2>1. mode = "run" /\ mode' = "run" /\ TypeOK
    BY <1>3 DEF fat16_close, IsOpen, Mounted, FsTypes
  <2>2. desc' = [desc EXCEPT ![d] = None] /\ UNCHANGED <<disk, words, cache>>
    BY <1>3 DEF fat16_close
  <2>3. TypeOK'
    BY <2>1, <2>2 DEF TypeOK
  <2>4. Live' = Live \ {d}
    BY <2>1, <2>2 DEF Live, TypeOK
  <2>5. Table!fs_close(fd)
    BY <1>3, <2>1, <2>4 DEF Table!fs_close, Finds, fs_free_file_descriptor, Live
  <2> QED
    BY <1>3, <2>3, <2>5
<1> QED
  BY <1>1, <1>2, <1>3 DEF fs_close

-----------------------------------------------------------------------------
(***************************************************************************)
(* Programs: kernel_main takes the calls of any program, in its order.     *)
(***************************************************************************)
FileStep == [Table!Next]_Table!vars

Kept == (mode' = "panic" \/ TypeOK') /\ file_systems' \in [{0} -> {FAT16, None}]

LEMMA IndexIsCallable == Indexes \subseteq Table!AnyFd
  BY FileSystemAssumption DEF Indexes, Fds, Table!Fds, Table!AnyFd

LEMMA CallsRefine ==
  ASSUME FsTypes
  PROVE  /\ \A path \in Paths \cup {Unparsable}, file_mode \in FileModes :
              fs_open(path, file_mode) => FileStep /\ Kept
         /\ \A fd \in Table!AnyFd : \A size :
              fs_read(fd, size) => FileStep /\ Kept
         /\ \A fd \in Table!AnyFd, size \in Nat, value \in Data :
              fs_write(fd, value, size) => FileStep /\ Kept
         /\ \A fd \in Table!AnyFd, offset \in 0 .. (SizeMod - 1) : \A seek_mode :
              fs_seek(fd, offset, seek_mode) => FileStep /\ Kept
         /\ \A fd \in Table!AnyFd :
              fs_stat(fd) \/ fs_close(fd) => FileStep /\ Kept
<1>1. ASSUME TypeOK', UNCHANGED file_systems PROVE Kept
  BY <1>1 DEF Kept, FsTypes
<1>2. \A fd \in Table!AnyFd : Transfers(fd) => FileStep
  BY DEF Transfers, FileStep, Table!Next
<1>3. ASSUME NEW path \in Paths \cup {Unparsable}, NEW file_mode \in FileModes,
             fs_open(path, file_mode)
      PROVE  FileStep /\ Kept
  BY <1>1, <1>3, OpenRefines DEF FileStep, FileModes, Table!Next
<1>4. ASSUME NEW fd \in Table!AnyFd, NEW size, fs_read(fd, size)
      PROVE  FileStep /\ Kept
  BY <1>1, <1>2, <1>4, ReadRefines
<1>5. ASSUME NEW fd \in Table!AnyFd, NEW size \in Nat, NEW value \in Data,
             fs_write(fd, value, size)
      PROVE  FileStep /\ Kept
  BY <1>1, <1>2, <1>5, WriteRefines
<1>6. ASSUME NEW fd \in Table!AnyFd, NEW offset \in 0 .. (SizeMod - 1), NEW seek_mode,
             fs_seek(fd, offset, seek_mode)
      PROVE  FileStep /\ Kept
  BY <1>1, <1>6, SeekRefines DEF FileStep, Table!Next
<1>7. ASSUME NEW fd \in Table!AnyFd, fs_stat(fd) \/ fs_close(fd)
      PROVE  FileStep /\ Kept
  <2>1. CASE fs_stat(fd)
    BY <1>1, <2>1, AskRefines DEF FileStep, Table!Next
  <2>2. CASE fs_close(fd)
    BY <1>1, <2>2, CloseRefines DEF FileStep, Table!Next
  <2> QED
    BY <1>7, <2>1, <2>2
<1> QED
  BY <1>3, <1>4, <1>5, <1>6, <1>7

LEMMA AnyCallRefines ==
  ASSUME FsTypes, AnyCall
  PROVE  FileStep /\ Kept
<1>1. 0 .. MaxSize \subseteq Nat
  BY FatAssumption
<1> QED
  BY <1>1, CallsRefine DEF AnyCall, FileModes

(* What a statement of kernel_main is, whatever the statement. *)
KernelCall(fd) ==
  \/ fs_stat(fd) \/ fs_close(fd)
  \/ \E size \in {1} \cup Sizes(fd) : fs_read(fd, size)
  \/ \E value \in Data : fs_write(fd, value, 1)

(* And the steps that only the heap sees. *)
HeapOnly == free_buffer \/ print_number

Variables == {"fd", "fd2", "fd3"}

LEMMA KernelSteps ==
  ASSUME FsTypes, kernel_main
  PROVE  \/ \E variable \in Variables, path \in Paths, file_mode \in FileModes,
               then \in Places, otherwise \in Places :
              OpenInto(variable, path, file_mode, then, otherwise)
         \/ \E fd \in Indexes, next \in Places : KernelCall(fd) /\ GoOn(next)
         \/ \E next \in Places : HeapOnly /\ GoOn(next)
<1>1. {program.fd, program.fd2, program.fd3} \subseteq Indexes
  BY DEF FsTypes, Programs
<1>2. MainTxt \in Paths /\ KokoTxt \in Paths
  BY FileSystemAssumption
<1>3. /\ {"stat", "print", "read", "free", "stat again", "print again", "open koko",
          "write", "close", "open again", "read again", "close again", "end"} \subseteq Places
      /\ {"READ", "WRITE"} \subseteq FileModes
      /\ {"fd", "fd2", "fd3"} \subseteq Variables
  BY DEF Places, FileModes, Variables
<1>4. program.at \in {"open main", "stat", "print", "read", "free", "stat again",
                      "print again", "open koko", "write", "close", "open again",
                      "read again", "close again"}
  BY DEF kernel_main
<1>5. CASE program.at = "open main"
  BY <1>2, <1>3, <1>5 DEF kernel_main
<1>6. CASE program.at = "stat"
  BY <1>1, <1>3, <1>6 DEF kernel_main, KernelCall
<1>7. CASE program.at = "read"
  BY <1>1, <1>3, <1>7 DEF kernel_main, KernelCall
<1>8. CASE program.at \in {"free", "print", "print again"}
  BY <1>1, <1>3, <1>8 DEF kernel_main, HeapOnly
<1>9. CASE program.at = "stat again"
  BY <1>1, <1>3, <1>9 DEF kernel_main, KernelCall
<1>10. CASE program.at = "open koko"
  BY <1>2, <1>3, <1>10 DEF kernel_main
<1>11. CASE program.at = "write"
  BY <1>1, <1>3, <1>11 DEF kernel_main, KernelCall
<1>12. CASE program.at = "close"
  BY <1>1, <1>3, <1>12 DEF kernel_main, KernelCall
<1>13. CASE program.at = "open again"
  BY <1>2, <1>3, <1>13 DEF kernel_main
<1>14. CASE program.at = "read again"
  BY <1>1, <1>3, <1>14 DEF kernel_main, KernelCall
<1>15. CASE program.at = "close again"
  BY <1>1, <1>3, <1>15 DEF kernel_main, KernelCall
<1> QED
  BY <1>4, <1>5, <1>6, <1>7, <1>8, <1>9, <1>10, <1>11, <1>12, <1>13, <1>14, <1>15

LEMMA KernelRefines ==
  ASSUME FsTypes, kernel_main
  PROVE  FileStep /\ Kept /\ program' \in Programs
<1>1. program \in Programs
  BY DEF FsTypes
<1>2. \A next \in Places : GoOn(next) => program' \in Programs
  BY <1>1 DEF GoOn, Programs
<1>3. ASSUME NEW variable \in Variables, NEW path \in Paths, NEW file_mode \in FileModes,
             NEW then \in Places, NEW otherwise \in Places,
             OpenInto(variable, path, file_mode, then, otherwise)
      PROVE  FileStep /\ Kept /\ program' \in Programs
  <2>1. FileStep /\ Kept
    BY <1>3, CallsRefine DEF OpenInto
  <2>2. answer'.fd \in Indexes
    BY <1>3, OpenRefines DEF OpenInto
  <2> DEFINE place == IF answer'.fd = 0 THEN otherwise ELSE then
  <2>3. program' = [program EXCEPT ![variable] = answer'.fd, !.at = place]
    BY <1>3 DEF OpenInto
  <2>4. place \in Places
    OBVIOUS
  <2> HIDE DEF place
  <2>5. program' \in Programs
    BY <1>1, <2>2, <2>3, <2>4 DEF Programs, Variables
  <2> QED
    BY <2>1, <2>5
<1>4. ASSUME NEW fd \in Indexes, KernelCall(fd)
      PROVE  FileStep /\ Kept
  <2>1. fd \in Table!AnyFd /\ 1 \in Nat
    BY IndexIsCallable
  <2> QED
    BY <1>4, <2>1, CallsRefine DEF KernelCall
<1>5. ASSUME HeapOnly
      PROVE  FileStep /\ Kept
  <2>1. UNCHANGED <<vars, tableVars, answer>> /\ mode = "run"
    BY <1>5 DEF HeapOnly, free_buffer, print_number
  <2>2. UNCHANGED Table!vars
    BY <2>1, Stutter DEF vars, Live
  <2>3. Kept
    BY <2>1 DEF Kept, FsTypes, TypeOK, vars, tableVars
  <2> QED
    BY <2>2, <2>3 DEF FileStep
<1> QED
  BY <1>2, <1>3, <1>4, <1>5, KernelSteps

LEMMA NextRefines ==
  FsTypes /\ [FsNext]_allVars => FileStep /\ FsTypes'
<1> SUFFICES ASSUME FsTypes, [FsNext]_allVars PROVE FileStep /\ FsTypes'
  OBVIOUS
<1>1. ASSUME Kept, program' \in Programs PROVE FsTypes'
  BY <1>1 DEF Kept, FsTypes
<1>2. program \in Programs
  BY DEF FsTypes
<1>3. CASE fs_init /\ UNCHANGED program
  <2>1. FileStep
    BY <1>3, InsertRefines DEF FileStep, Table!Next
  <2> QED
    BY <1>1, <1>2, <1>3, <2>1, InsertRefines DEF Kept
<1>4. CASE disk_init /\ UNCHANGED program
  <2>1. FileStep
    BY <1>4, DiskInitRefines DEF FileStep, Table!Next
  <2>2. fat16_resolve /\ UNCHANGED file_systems /\ mode = "off"
    BY <1>4 DEF disk_init, fat16_resolve
  <2>3. Kept
    BY <2>2, ResolveKeepsTypes DEF Kept, FsTypes
  <2> QED
    BY <1>1, <1>2, <1>4, <2>1, <2>3
<1>5. CASE OutOfMemory /\ UNCHANGED program
  <2>1. mode = "run" /\ mode' = "panic" /\ UNCHANGED <<desc, tableVars, answer>>
    BY <1>5 DEF OutOfMemory
  <2>2. UNCHANGED Table!vars
    BY <2>1, Stutter DEF Live
  <2>3. Kept
    BY <2>1 DEF Kept, FsTypes, tableVars
  <2> QED
    BY <1>1, <1>2, <1>5, <2>2, <2>3 DEF FileStep
<1>6. CASE kernel_main
  BY <1>1, <1>6, KernelRefines
<1>7. CASE AnyCall /\ UNCHANGED program
  BY <1>1, <1>2, <1>7, AnyCallRefines
<1>8. CASE UNCHANGED allVars
  <2>1. UNCHANGED <<vars, tableVars, answer, program>>
    BY <1>8 DEF allVars, fsVars
  <2>2. UNCHANGED Table!vars
    BY <2>1, Stutter DEF vars, Live
  <2>3. Kept
    BY <2>1 DEF Kept, FsTypes, TypeOK, vars, tableVars
  <2> QED
    BY <1>1, <1>2, <2>1, <2>2, <2>3 DEF FileStep
<1> QED
  BY <1>3, <1>4, <1>5, <1>6, <1>7, <1>8 DEF FsNext

(***************************************************************************)
(* The file layer over this driver implements the file layer over any      *)
(* driver: each call of each program is a step of FileTable or a stutter,  *)
(* for tables, disks and heaps of every size.                              *)
(***************************************************************************)
THEOREM DriverImplementsFileTable == FsSpec => ImplementsFileTable
<1>1. FsInit => Table!Init /\ FsTypes
  BY InitRefines
<1>2. FsTypes /\ [FsNext]_allVars => [Table!Next]_Table!vars /\ FsTypes'
  BY NextRefines DEF FileStep
<1> QED
  BY <1>1, <1>2, PTL DEF FsSpec, ImplementsFileTable, Table!Spec

-----------------------------------------------------------------------------
(***************************************************************************)
(* What an index serves.  Steps come in three shapes: those that leave the *)
(* tables alone, an open that succeeds, and a close of a file.             *)
(***************************************************************************)
NamesKept ==
  \A d \in Descriptors :
    desc[d] # None => desc'[d] # None /\ desc'[d].item.name = desc[d].item.name

Quiet == NamesKept /\ UNCHANGED <<file_descriptors, opened>>

Installs(d, path) ==
  /\ mode = "run" /\ desc[d] = None
  /\ \E item \in Items : Open(d, item) /\ item.name \in {path.name, Created}
  /\ Table!Install(d, path)

Closes(fd, d) ==
  /\ mode = "run" /\ Finds(fd, d)
  /\ desc' = [desc EXCEPT ![d] = None]
  /\ file_descriptors' = Table!fs_free_file_descriptor(fd)
  /\ opened' = [opened EXCEPT ![fd] = None]

Shaped ==
  \/ Quiet
  \/ \E d \in Descriptors, path \in Paths : Installs(d, path)
  \/ \E d \in Descriptors, fd \in Table!AnyFd : Closes(fd, d)

LEMMA SameDescIsQuiet ==
  ASSUME UNCHANGED <<desc, file_descriptors, opened>>
  PROVE  Shaped
  BY DEF Shaped, Quiet, NamesKept

(* A change of an open descriptor that keeps the name of its item. *)
LEMMA ChangeKeepsNames ==
  ASSUME TypeOK, NEW d \in Descriptors, desc[d] # None,
         \/ \E item \in Items : /\ desc' = [desc EXCEPT ![d].item = item]
                              /\ item.name = desc[d].item.name
         \/ \E pos \in 0 .. (SizeMod - 1) : desc' = [desc EXCEPT ![d].pos = pos]
  PROVE  NamesKept
<1>1. Live' = Live
  BY ChangeLive
<1>2. desc \in [Descriptors -> {None} \cup InUse] /\ desc[d] \in InUse
  BY InUseIsNotNone
<1>3. desc'[d].item.name = desc[d].item.name
  BY <1>2 DEF InUse
<1>4. \A e \in Descriptors : e # d => desc'[e] = desc[e]
  BY <1>2
<1> QED
  BY <1>1, <1>3, <1>4 DEF NamesKept, Live

LEMMA OpenShaped ==
  ASSUME FsTypes, NEW path \in Paths \cup {Unparsable}, NEW file_mode,
         fs_open(path, file_mode)
  PROVE  Shaped
<1>1. TypeOK
  BY DEF fs_open, FsTypes
<1>2. CASE ~Table!Reachable(path) /\ Refuse(Table!Fd(0))
  BY <1>2, SameDescIsQuiet DEF Refuse, vars, tableVars
<1>3. ASSUME NEW d \in Descriptors, Table!Reachable(path),
             fat16_open(d, path.name, file_mode),
             IF result' = "OK" THEN Table!Install(d, path)
             ELSE UNCHANGED <<file_descriptors, opened>>
      PROVE  Shaped
  <2>1. CASE result' # "OK"
    <3>1. UNCHANGED desc
      BY <1>1, <1>3, <2>1, OpenShape
    <3> QED
      BY <1>3, <2>1, <3>1, SameDescIsQuiet
  <2>2. CASE result' = "OK"
    <3>1. \E item \in Items : Open(d, item) /\ item.name \in {path.name, Created}
      BY <1>1, <1>3, <2>2, OpenShape
    <3>2. mode = "run" /\ desc[d] = None /\ path \in Paths
      BY <1>3 DEF fat16_open, Mounted, Table!Reachable
    <3> QED
      BY <1>3, <2>2, <3>1, <3>2 DEF Shaped, Installs
  <2> QED
    BY <2>1, <2>2
<1> QED
  BY <1>2, <1>3 DEF fs_open

LEMMA WriteShaped ==
  ASSUME FsTypes, NEW fd, NEW value \in Data, NEW size \in Nat, fs_write(fd, value, size)
  PROVE  Shaped
<1>1. CASE RefusesTransfer(fd, size) \/ RefusesFd(fd)
  BY <1>1, SameDescIsQuiet DEF RefusesTransfer, RefusesFd, Refuse, vars, tableVars
<1>2. ASSUME NEW d \in Descriptors, fat16_write(d, value, size), Dropped
      PROVE  Shaped
  <2>1. UNCHANGED <<file_descriptors, opened>>
    BY <1>2 DEF Dropped, tableVars
  <2>2. TypeOK /\ desc[d] # None
    BY <1>2 DEF fat16_write, RefusesDirectory, SearchHangs, IsOpen, Mounted, FsTypes
  <2>3. CASE UNCHANGED desc
    BY <2>1, <2>3, SameDescIsQuiet
  <2>4. CASE Writing(d) /\ desc' = [desc EXCEPT ![d].item = ItemToWrite(d)]
    <3>1. ItemToWrite(d) \in Items /\ ItemToWrite(d).name = desc[d].item.name
      BY <2>2, <2>4, ItemFacts DEF ItemToWrite, Items
    <3>2. NamesKept
      BY <2>2, <2>4, <3>1, ChangeKeepsNames
    <3> QED
      BY <2>1, <3>2 DEF Shaped, Quiet
  <2> QED
    BY <1>2, <2>3, <2>4, WriteShape
<1>3. \/ RefusesTransfer(fd, size) \/ RefusesFd(fd)
      \/ \E d \in Descriptors : fat16_write(d, value, size) /\ Dropped
  BY Zenon DEF fs_write
<1> QED
  BY <1>1, <1>2, <1>3, Zenon

LEMMA SeekShaped ==
  ASSUME FsTypes, NEW fd, NEW offset \in 0 .. (SizeMod - 1), NEW seek_mode,
         fs_seek(fd, offset, seek_mode)
  PROVE  Shaped
<1>1. CASE RefusesFd(fd)
  BY <1>1, SameDescIsQuiet DEF RefusesFd, Refuse, vars, tableVars
<1>2. ASSUME NEW d \in Descriptors, fat16_seek(d, offset, seek_mode), PassedOn
      PROVE  Shaped
  <2>1. TypeOK /\ desc[d] # None
    BY <1>2 DEF fat16_seek, RefusesDirectory, IsOpen, Mounted, FsTypes
  <2>2. Sum(d, offset) \in 0 .. (SizeMod - 1)
    BY <2>1, FatAssumption DEF Sum, TypeOK
  <2>3. UNCHANGED desc \/ \E pos \in 0 .. (SizeMod - 1) : MoveTo(d, pos)
    BY <1>2, <2>2 DEF fat16_seek, RefusesDirectory, Return
  <2>4. NamesKept
    BY <2>1, <2>3, ChangeKeepsNames DEF MoveTo, NamesKept
  <2> QED
    BY <1>2, <2>4 DEF Shaped, Quiet, PassedOn, tableVars
<1> QED
  BY <1>1, <1>2 DEF fs_seek

LEMMA CloseShaped ==
  ASSUME FsTypes, NEW fd \in Table!AnyFd, fs_close(fd)
  PROVE  Shaped
<1>1. CASE RefusesFd(fd)
  BY <1>1, SameDescIsQuiet DEF RefusesFd, Refuse, vars, tableVars
<1>2. CASE UNCHANGED <<desc, tableVars>>
  BY <1>2, SameDescIsQuiet DEF tableVars
<1>3. ASSUME NEW d \in Descriptors, Finds(fd, d), fat16_close(d),
             file_descriptors' = fs_free_file_descriptor(fd),
             opened' = [opened EXCEPT ![fd] = None]
      PROVE  Shaped
  BY <1>3 DEF Shaped, Closes, fat16_close, IsOpen, Mounted, fs_free_file_descriptor
<1> QED
  BY <1>1, <1>2, <1>3 DEF fs_close

LEMMA QuietCalls ==
  ASSUME FsTypes, NEW fd, NEW size, fs_read(fd, size) \/ fs_stat(fd) \/ HeapOnly
  PROVE  Shaped
<1>1. UNCHANGED <<desc, tableVars>>
  BY DEF fs_read, fs_stat, HeapOnly, free_buffer, print_number, RefusesTransfer, RefusesFd, Refuse, fat16_read,
         fat16_stat, RefusesDirectory, Return, Dropped, PassedOn, vars
<1> QED
  BY <1>1, SameDescIsQuiet DEF tableVars

LEMMA StepShapes ==
  ASSUME FsTypes, [FsNext]_allVars
  PROVE  Shaped
<1>1. CASE fs_init \/ disk_init \/ OutOfMemory \/ UNCHANGED allVars
  BY <1>1, SameDescIsQuiet DEF fs_init, disk_init, OutOfMemory, fat16_resolve, vars,
     allVars, fsVars, tableVars
<1>2. CASE AnyCall
  <2>1. 0 .. MaxSize \subseteq Nat
    BY FatAssumption
  <2> QED
    BY <1>2, <2>1, OpenShaped, WriteShaped, SeekShaped, CloseShaped, QuietCalls DEF AnyCall
<1>3. CASE kernel_main
  <2>1. ASSUME NEW fd \in Indexes, KernelCall(fd)
        PROVE  Shaped
    <3>1. fd \in Table!AnyFd /\ 1 \in Nat
      BY IndexIsCallable
    <3> QED
      BY <2>1, <3>1, WriteShaped, CloseShaped, QuietCalls DEF KernelCall
  <2>2. ASSUME NEW variable, NEW path \in Paths, NEW file_mode, NEW then, NEW otherwise,
               OpenInto(variable, path, file_mode, then, otherwise)
        PROVE  Shaped
    BY <2>2, OpenShaped DEF OpenInto
  <2> QED
    BY <1>3, <2>1, <2>2, KernelSteps, QuietCalls
<1> QED
  BY <1>1, <1>2, <1>3 DEF FsNext

-----------------------------------------------------------------------------
(***************************************************************************)
(* The inductive invariant: slots are what indexes stand for, no two share *)
(* a descriptor, and each serves its file.                                 *)
(***************************************************************************)
Slots == Table!Slots

SlotTypes ==
  /\ file_descriptors \in [Slots -> {None} \cup Descriptors]
  /\ opened \in [Fds -> {None} \cup [handle : Descriptors, path : Paths]]

NotShared ==
  \A i, j \in Slots :
    file_descriptors[i] # None /\ file_descriptors[i] = file_descriptors[j] => i = j

Serves(slot) ==
  /\ desc[file_descriptors[slot]] # None
  /\ opened[slot + 1] # None
  /\ desc[file_descriptors[slot]].item.name \in {opened[slot + 1].path.name, Created}

ServesInv ==
  /\ SlotTypes
  /\ NotShared
  /\ \A i \in Slots : file_descriptors[i] # None => Serves(i)

LEMMA SlotFacts ==
  /\ Slots \subseteq Nat
  /\ \A i \in Slots : i + 1 \in Fds
  /\ \A i, j \in Slots : i + 1 = j + 1 => i = j
  BY FileSystemAssumption DEF Slots, Table!Slots, Fds, Table!Fds

LEMMA FoundSlot ==
  ASSUME NEW fd \in Table!AnyFd, NEW d, Finds(fd, d)
  PROVE  fd - 1 \in Slots /\ fd \in Fds /\ file_descriptors[fd - 1] = d /\ d # None
<1>1. fd \in Int /\ ~(fd <= 0) /\ ~(fd >= MaxDescriptors) /\ MaxDescriptors \in Nat
  BY FileSystemAssumption DEF Finds, Table!fs_find_file_descriptor, Table!AnyFd
<1>2. Table!fs_find_file_descriptor(fd) = file_descriptors[fd - 1]
  BY <1>1 DEF Table!fs_find_file_descriptor
<1> QED
  BY <1>1, <1>2 DEF Finds, Slots, Table!Slots, Fds, Table!Fds

LEMMA InitServes == FsInit => ServesInv
<1> SUFFICES ASSUME FsInit PROVE ServesInv
  OBVIOUS
<1>1. /\ file_descriptors = [i \in Slots |-> None]
      /\ opened = [fd \in Fds |-> None]
  BY DEF FsInit, Table!Init, Slots, Fds
<1> QED
  BY <1>1 DEF ServesInv, SlotTypes, NotShared

LEMMA QuietServes ==
  ASSUME ServesInv, Quiet
  PROVE  ServesInv'
  BY DEF ServesInv, Quiet, NamesKept, SlotTypes, NotShared, Serves

LEMMA InstallServes ==
  ASSUME FsTypes, TypeOK, ServesInv, NEW d \in Descriptors, NEW path \in Paths, Installs(d, path)
  PROVE  ServesInv'
<1>1. PICK item \in Items : Open(d, item) /\ item.name \in {path.name, Created}
  BY DEF Installs
<1>2. desc \in [Descriptors -> {None} \cup InUse] /\ desc[d] = None
  BY InUseIsNotNone DEF Installs
<1>3. /\ desc' = [desc EXCEPT ![d] = [item |-> item, pos |-> 0]]
      /\ [item |-> item, pos |-> 0] \in InUse
  BY <1>1, FatAssumption DEF Open, InUse
<1>4. desc'[d] # None /\ desc'[d].item.name = item.name
  BY <1>2, <1>3, InUseIsNotNone
<1>5. \A e \in Descriptors : e # d => desc'[e] = desc[e]
  BY <1>2, <1>3
<1>6. NamesKept
  BY <1>2, <1>5 DEF NamesKept
<1>7. CASE UNCHANGED <<file_descriptors, opened>>
  BY <1>6, <1>7, QuietServes DEF Quiet
<1>8. ASSUME NEW slot \in Slots, file_descriptors[slot] = None,
             file_descriptors' = [file_descriptors EXCEPT ![slot] = d],
             opened' = [opened EXCEPT ![slot + 1] = [handle |-> d, path |-> path]]
      PROVE  ServesInv'
  <2>1. slot + 1 \in Fds
    BY SlotFacts
  <2>2. [handle |-> d, path |-> path] \in [handle : Descriptors, path : Paths]
    OBVIOUS
  <2>3. SlotTypes'
    BY <1>8, <2>1, <2>2 DEF ServesInv, SlotTypes
  <2>4. /\ file_descriptors'[slot] = d
        /\ \A i \in Slots : i # slot => file_descriptors'[i] = file_descriptors[i]
        /\ opened'[slot + 1] = [handle |-> d, path |-> path]
        /\ \A i \in Slots : i # slot => opened'[i + 1] = opened[i + 1]
    BY <1>8, <2>1, SlotFacts DEF ServesInv, SlotTypes
  <2>5. \A i \in Slots : file_descriptors[i] # None =>
          file_descriptors[i] # d /\ i # slot /\ file_descriptors[i] \in Descriptors
    BY <1>2, <1>8 DEF ServesInv, Serves, SlotTypes
  <2>6. NotShared'
    BY <2>4, <2>5 DEF ServesInv, NotShared
  <2>7. Serves(slot)'
    <3>1. opened'[slot + 1] # None
      BY <2>2, <2>4, FileSystemAssumption
    <3> QED
      BY <1>1, <1>4, <2>4, <3>1 DEF Serves
  <2>8. ASSUME NEW i \in Slots, i # slot, file_descriptors'[i] # None
        PROVE  Serves(i)'
    <3>1. file_descriptors'[i] = file_descriptors[i] /\ opened'[i + 1] = opened[i + 1]
      BY <2>4, <2>8
    <3>2. desc'[file_descriptors[i]] = desc[file_descriptors[i]]
      BY <1>5, <2>5, <2>8, <3>1
    <3>3. Serves(i)
      BY <2>8, <3>1 DEF ServesInv
    <3> QED
      BY <3>1, <3>2, <3>3 DEF Serves
  <2> QED
    BY <2>3, <2>6, <2>7, <2>8 DEF ServesInv
<1>9. CASE Table!fs_new_file_descriptor # None
  <2>1. /\ Table!fs_new_file_descriptor \in Slots
        /\ file_descriptors[Table!fs_new_file_descriptor] = None
    BY <1>9, NewIndex DEF Slots, Table!FreeSlots
  <2> QED
    BY <1>8, <1>9, <2>1 DEF Installs, Table!Install, Table!IndexOf
<1> QED
  BY <1>7, <1>9 DEF Installs, Table!Install

LEMMA CloseServes ==
  ASSUME TypeOK, ServesInv, NEW d \in Descriptors, NEW fd \in Table!AnyFd, Closes(fd, d)
  PROVE  ServesInv'
<1> DEFINE slot == fd - 1
<1>1. slot \in Slots /\ fd \in Fds /\ file_descriptors[slot] = d /\ d # None /\ fd = slot + 1
  <2>1. fd \in Int
    BY FileSystemAssumption DEF Table!AnyFd
  <2> QED
    BY <2>1, FoundSlot DEF Closes
<1>2. /\ desc' = [desc EXCEPT ![d] = None]
      /\ file_descriptors' = [file_descriptors EXCEPT ![slot] = None]
      /\ opened' = [opened EXCEPT ![fd] = None]
  BY DEF Closes, Table!fs_free_file_descriptor
<1> HIDE DEF slot
<1>3. SlotTypes'
  BY <1>1, <1>2 DEF ServesInv, SlotTypes
<1>4. /\ file_descriptors'[slot] = None
      /\ \A i \in Slots : i # slot => file_descriptors'[i] = file_descriptors[i]
  BY <1>1, <1>2 DEF ServesInv, SlotTypes
<1>5. NotShared'
  BY <1>4 DEF ServesInv, NotShared
<1>6. ASSUME NEW i \in Slots, file_descriptors'[i] # None
      PROVE  Serves(i)'
  <2>1. i # slot /\ file_descriptors'[i] = file_descriptors[i] /\ Serves(i)
    BY <1>4, <1>6 DEF ServesInv
  <2>2. file_descriptors[i] # d /\ file_descriptors[i] \in Descriptors
    BY <1>1, <1>6, <2>1 DEF ServesInv, NotShared, SlotTypes
  <2>3. desc'[file_descriptors[i]] = desc[file_descriptors[i]]
    BY <1>2, <2>2 DEF TypeOK
  <2>4. opened'[i + 1] = opened[i + 1]
    BY <1>1, <1>2, <2>1, SlotFacts DEF ServesInv, SlotTypes
  <2> QED
    BY <2>1, <2>3, <2>4 DEF Serves
<1> QED
  BY <1>3, <1>5, <1>6 DEF ServesInv

LEMMA NextServes == FsTypes /\ ServesInv /\ [FsNext]_allVars => ServesInv'
<1> SUFFICES ASSUME FsTypes, ServesInv, [FsNext]_allVars PROVE ServesInv'
  OBVIOUS
<1>1. mode = "run" => TypeOK
  BY DEF FsTypes
<1>2. (\E d \in Descriptors, path \in Paths : Installs(d, path)) => ServesInv'
  BY <1>1, InstallServes DEF Installs
<1>3. (\E d \in Descriptors, fd \in Table!AnyFd : Closes(fd, d)) => ServesInv'
  BY <1>1, CloseServes DEF Closes
<1> QED
  BY <1>2, <1>3, StepShapes, QuietServes DEF Shaped

(***************************************************************************)
(* An index serves the file that was asked for under it, for tables, disks *)
(* and programs of every size, up to the name that new files have.         *)
(***************************************************************************)
THEOREM IndexesServe == FsSpec => []IndexServesItsFile
<1>1. FsInit => FsTypes /\ ServesInv
  BY InitRefines, InitServes
<1>2. FsTypes /\ ServesInv /\ [FsNext]_allVars => FsTypes' /\ ServesInv'
  BY NextRefines, NextServes
<1>3. FsTypes /\ ServesInv => IndexServesItsFile
  BY DEF ServesInv, SlotTypes, Serves, IndexServesItsFile, Used, Table!FreeSlots, Slots
<1> QED
  BY <1>1, <1>2, <1>3, PTL DEF FsSpec

-----------------------------------------------------------------------------
(***************************************************************************)
(* What OK from fs_write means.                                            *)
(***************************************************************************)
Length(size) == IF size > SectorsPerCluster THEN SectorsPerCluster ELSE size

(* A read of at most a cluster from the start of a file with a cluster. *)
LEMMA ReadFromStart ==
  ASSUME TypeOK, NEW c \in Clusters, NEW length \in 0 .. SectorsPerCluster,
         NEW i \in 1 .. length
  PROVE  fat16_read_internal(c, 0, length)[i] = fat16_cluster_to_sector(c) + (i - 1)
<1>1. words \in [Entries -> Entries]
  BY FatAssumption DEF TypeOK, Entries
<1>2. c \in Entries /\ c # SYSTEM_FAIL
  BY FatAssumption DEF Clusters, Entries, SYSTEM_FAIL
<1>3. 0 \div SectorsPerCluster = 0 /\ 0 % SectorsPerCluster = 0
  BY FatAssumption
<1>4. Walk[0][c] = c
  BY <1>1, <1>2, WalkNone
<1>5. fat16_read_internal(c, 0, length) = SectorsOf(c, 0, length)
  BY <1>1, <1>2, <1>3, <1>4, ShortRead
<1>6. SectorsOf(c, 0, length)[i] = (fat16_cluster_to_sector(c) + 0) + i - 1
  BY <1>3 DEF SectorsOf
<1>7. fat16_cluster_to_sector(c) \in Nat
  BY ClusterIsData
<1> QED
  BY <1>5, <1>6, <1>7

LEMMA WriteStores ==
  ASSUME TypeOK, NEW d \in Descriptors, NEW value \in Data, NEW size \in 1 .. (CountMod - 1),
         fat16_write(d, value, size), mode' = "run"
  PROVE  \/ desc'[d].item.dir
         \/ /\ desc'[d].item.cluster \in Clusters
            /\ \A k \in 0 .. (size - 1) :
                 disk'[fat16_cluster_to_sector(desc'[d].item.cluster) + k] = value
<1>1. SectorCount(size) = size /\ size > 0
  BY FatAssumption DEF SectorCount
<1>2. CASE RefusesDirectory(d)
  BY <1>2 DEF RefusesDirectory
<1>3. ~SearchHangs(d)
  BY DEF SearchHangs
<1>4. CASE /\ Writing(d) /\ DataEnds(d, size)
           /\ desc' = [desc EXCEPT ![d].item = ItemToWrite(d)]
           /\ disk' = WithData(AfterItem(d), d, value, size)
  <2> DEFINE c     == ItemToWrite(d).cluster
             start == fat16_cluster_to_sector(c)
  <2>1. c \in Clusters /\ desc'[d].item = ItemToWrite(d)
    BY <1>4, ItemFacts DEF TypeOK
  <2>2. start \in Nat /\ start + size - 1 \in Sectors
    BY <1>4, <2>1, ClusterIsData DEF DataEnds
  <2>3. disk' = [s \in Sectors |-> IF s \in start .. (start + size - 1) THEN value
                                                                        ELSE AfterItem(d)[s]]
    BY <1>4 DEF WithData
  <2> HIDE DEF start
  <2>4. ASSUME NEW k \in 0 .. (size - 1)
        PROVE  disk'[start + k] = value
    <3>1. start + k \in start .. (start + size - 1) /\ start + k \in 0 .. (start + size - 1)
      BY <2>2, FatAssumption
    <3>2. start + k \in Sectors
      BY <2>2, <3>1, SectorFacts
    <3> QED
      BY <2>3, <3>1, <3>2
  <2> QED
    BY <2>1, <2>4 DEF start
<1> QED
  BY <1>1, <1>2, <1>3, <1>4 DEF fat16_write, Writing

LEMMA OkIsReadBack ==
  ASSUME FsTypes, NEW fd \in Fds, NEW value \in Data, NEW size \in 1 .. (CountMod - 1),
         mode' = "run", answer' = Table!Code("OK"), fs_write(fd, value, size)
  PROVE  LET item == desc'[file_descriptors'[fd - 1]].item
             read == fat16_read_internal(item.cluster, 0, Length(size))
         IN  item.dir \/ \A i \in 1 .. Length(size) : disk'[read[i]] = value
<1>1. size # 0 /\ ~(fd <= 0) /\ size \in Nat
  BY FatAssumption, FileSystemAssumption DEF Fds, Table!Fds
<1>2. ~RefusesTransfer(fd, size)
  BY <1>1 DEF RefusesTransfer
<1>3. ~RefusesFd(fd)
  BY DEF RefusesFd, Refuse, Table!Code
<1>4. PICK d \in Descriptors : Finds(fd, d) /\ fat16_write(d, value, size) /\ Dropped
  BY <1>2, <1>3, Zenon DEF fs_write
<1>5. file_descriptors'[fd - 1] = d
  <2>1. file_descriptors[fd - 1] = d
    BY <1>4, FoundSlot, FileSystemAssumption DEF Fds, Table!Fds, Table!AnyFd
  <2> QED
    BY <1>4, <2>1 DEF Dropped, tableVars
<1>6. TypeOK
  BY <1>4 DEF fat16_write, RefusesDirectory, SearchHangs, IsOpen, Mounted, FsTypes
<1>7. CASE desc'[d].item.dir
  BY <1>5, <1>7
<1>8. CASE /\ desc'[d].item.cluster \in Clusters
           /\ \A k \in 0 .. (size - 1) :
                disk'[fat16_cluster_to_sector(desc'[d].item.cluster) + k] = value
  <2>1. PICK c \in Clusters : c = desc'[d].item.cluster
    BY <1>8
  <2>2. Length(size) \in 0 .. SectorsPerCluster /\ Length(size) <= size
    BY <1>1, FatAssumption DEF Length
  <2>3. ASSUME NEW i \in 1 .. Length(size)
        PROVE  disk'[fat16_read_internal(c, 0, Length(size))[i]] = value
    <3>1. i - 1 \in 0 .. (size - 1)
      BY <1>1, <2>2, FatAssumption
    <3> QED
      BY <1>6, <1>8, <2>1, <2>2, <3>1, ReadFromStart
  <2> QED
    BY <1>5, <2>1, <2>3
<1> QED
  BY <1>4, <1>6, <1>7, <1>8, WriteStores

(***************************************************************************)
(* When fs_write returns OK for fewer than 256 sectors to a file, a read   *)
(* from its start gives back what was written, as far as a cluster goes,   *)
(* for every disk, chain of words and program.                             *)
(***************************************************************************)
THEOREM OkIsRead == FsSpec => OkFromWriteIsReadBack
<1>1. FsInit => FsTypes
  BY InitRefines
<1>2. FsTypes /\ [FsNext]_allVars => FsTypes'
  BY NextRefines
<1>3. FsTypes =>
        [\A fd \in Fds, value \in Data, size \in 1 .. (CountMod - 1) :
           mode' = "run" /\ answer' = Table!Code("OK") /\ fs_write(fd, value, size) =>
             LET item   == desc[file_descriptors[fd - 1]].item'
                 length == IF size > SectorsPerCluster THEN SectorsPerCluster ELSE size
                 read   == fat16_read_internal(item.cluster, 0, length)
             IN  item.dir \/ \A i \in 1 .. length : disk'[read[i]] = value]_fsVars
  BY OkIsReadBack DEF Length
<1> QED
  BY <1>1, <1>2, <1>3, PTL DEF FsSpec, OkFromWriteIsReadBack

-----------------------------------------------------------------------------
(***************************************************************************)
(* What steps do to the tables and to the heap, exactly.                   *)
(***************************************************************************)
Blocks == blocks \in Int

(* No descriptor comes or goes, and nothing is given back. *)
Still(least) ==
  /\ Live' = Live
  /\ UNCHANGED <<file_descriptors, opened>>
  /\ blocks' \in Int /\ blocks' >= blocks + least

Opens(d, path) ==
  /\ d \notin Live /\ Live' = Live \cup {d}
  /\ Table!Install(d, path)
  /\ blocks' \in Int
  /\ blocks' >= blocks + IF Table!FreeSlots = {} THEN 5 ELSE 6

GivesBack(fd, d) ==
  /\ Closes(fd, d)
  /\ Live' = Live \ {d}
  /\ blocks' = blocks - 4

LEMMA SpendKeeps ==
  ASSUME Blocks, NEW n \in Nat, Spend(n), Live' = Live, UNCHANGED <<file_descriptors, opened>>
  PROVE  Still(n) /\ Still(0)
  BY DEF Blocks, Spend, Still

LEMMA IdleKeeps ==
  ASSUME Blocks, Live' = Live, UNCHANGED <<file_descriptors, opened, blocks>>
  PROVE  Still(0)
  BY DEF Blocks, Still

LEMMA BlockCounts ==
  /\ \A n : TailBlocks(n) \in Nat
  /\ \A n \in Nat : ReadBlocks(n) \in Nat
  /\ \A path \in Paths : PathBlocks(path) \in Nat /\ PathBlocks(path) >= 2
<1>1. \A n : TailBlocks(n) \in Nat
  BY DEF TailBlocks
<1>2. ASSUME NEW n \in Nat PROVE ReadBlocks(n) \in Nat
  <2>1. n \div SectorsPerCluster \in Nat
    BY FatAssumption, DivisionFacts
  <2>2. \A a, b \in Nat : a * b \in Nat
    OBVIOUS
  <2> QED
    BY <1>1, <2>1, <2>2 DEF ReadBlocks
<1>3. \A path \in Paths : PathBlocks(path) \in Nat /\ PathBlocks(path) >= 2
  BY FileSystemAssumption DEF PathBlocks
<1> QED
  BY <1>1, <1>2, <1>3

LEMMA OpenBlocksFacts ==
  ASSUME NEW name
  PROVE  \A taken \in OpenBlocks(name) : taken \in Nat /\ taken >= 3
<1>1. IsFiniteSet(Matches(name))
  <2>1. Matches(name) \subseteq 0 .. (BlockItems - 1)
    BY DEF Matches
  <2>2. IsFiniteSet(0 .. (BlockItems - 1))
    BY FatAssumption, FS_Interval
  <2> QED
    BY <2>1, <2>2, FS_Subset
<1>2. Cardinality(Matches(name)) \in Nat
  BY <1>1, FS_CardinalityType
<1>3. \A found \in Nat : \A n \in found .. (found + (IF cache.total > BlockItems
                                                  THEN cache.total - BlockItems ELSE 0)) :
        n \in Nat
  OBVIOUS
<1>4. \A n \in Nat : /\ 3 + 2 * (IF n = 0 THEN 0 ELSE n - 1) \in Nat
                    /\ 3 + 2 * (IF n = 0 THEN 0 ELSE n - 1) >= 3
  OBVIOUS
<1> QED
  BY <1>2, <1>3, <1>4 DEF OpenBlocks

LEMMA OpenSpends ==
  ASSUME FsTypes, Blocks, NEW path \in Paths \cup {Unparsable}, NEW file_mode,
         fs_open(path, file_mode)
  PROVE  \/ Still(0) /\ (path \in Paths => Still(2))
         \/ path \in Paths /\ \E d \in Descriptors : Installs(d, path) /\ Opens(d, path)
<1>1. TypeOK
  BY DEF fs_open, FsTypes
<1>2. ASSUME Spend(PathBlocks(path)), Live' = Live, UNCHANGED <<file_descriptors, opened>>
      PROVE  Still(0) /\ (path \in Paths => Still(2))
  <2>1. CASE path \in Paths
    BY <1>2, <2>1, BlockCounts DEF Blocks, Spend, Still
  <2>2. CASE path \notin Paths
    BY <1>2, <2>2 DEF PathBlocks, Blocks, Spend, Still
  <2> QED
    BY <2>1, <2>2
<1>3. CASE ~Table!Reachable(path) /\ Refuse(Table!Fd(0)) /\ Spend(PathBlocks(path))
  BY <1>2, <1>3 DEF Refuse, vars, tableVars, Live
<1>4. ASSUME NEW d \in Descriptors, Table!Reachable(path),
             fat16_open(d, path.name, file_mode),
             IF result' = "OK"
               THEN /\ Table!Install(d, path)
                    /\ \E taken \in OpenBlocks(path.name) :
                         Spend(PathBlocks(path) + taken
                                 + IF Table!FreeSlots = {} THEN 0 ELSE 1)
               ELSE Spend(PathBlocks(path)) /\ UNCHANGED <<file_descriptors, opened>>
      PROVE  \/ Still(0) /\ (path \in Paths => Still(2))
             \/ path \in Paths /\ \E e \in Descriptors : Installs(e, path) /\ Opens(e, path)
  <2>1. path \in Paths /\ mode = "run" /\ desc[d] = None
    BY <1>4 DEF Table!Reachable, fat16_open, Mounted
  <2>2. CASE result' # "OK"
    <3>1. UNCHANGED desc
      BY <1>1, <1>4, <2>2, OpenShape
    <3> QED
      BY <1>2, <1>4, <2>2, <3>1 DEF Live
  <2>3. CASE result' = "OK"
    <3>1. PICK item \in Items : Open(d, item) /\ item.name \in {path.name, Created}
      BY <1>1, <1>4, <2>3, OpenShape
    <3>2. Live' = Live \cup {d} /\ d \notin Live
      BY <1>1, <2>1, <3>1, OpenLive DEF Live
    <3>3. PathBlocks(path) \in Nat /\ PathBlocks(path) >= 2
      BY <2>1, BlockCounts
    <3>4. PICK taken \in OpenBlocks(path.name) :
            /\ Spend(PathBlocks(path) + taken + IF Table!FreeSlots = {} THEN 0 ELSE 1)
            /\ taken \in Nat /\ taken >= 3
      BY <1>4, <2>3, OpenBlocksFacts
    <3>5. Opens(d, path)
      BY <1>4, <2>3, <3>2, <3>3, <3>4 DEF Opens, Spend, Blocks
    <3> QED
      BY <1>4, <2>1, <2>3, <3>1, <3>5 DEF Installs
  <2> QED
    BY <2>2, <2>3
<1> QED
  BY <1>3, <1>4 DEF fs_open

LEMMA ReadSpends ==
  ASSUME Blocks, NEW fd, NEW size,
         mode = "run" /\ Table!fs_find_file_descriptor(fd) # None => size \in Nat,
         fs_read(fd, size)
  PROVE  Still(0)
<1>1. CASE RefusesTransfer(fd, size) \/ RefusesFd(fd)
  BY <1>1, IdleKeeps DEF RefusesTransfer, RefusesFd, Refuse, vars, tableVars, Live
<1>2. ASSUME NEW d \in Descriptors, Finds(fd, d), fat16_read(d, size, 1), Dropped,
             Spend(IF desc[d].item.dir THEN 0 ELSE ReadBlocks(size))
      PROVE  Still(0)
  <2>1. size \in Nat
    BY <1>2 DEF Finds, fat16_read, RefusesDirectory, IsOpen, Mounted
  <2>2. (IF desc[d].item.dir THEN 0 ELSE ReadBlocks(size)) \in Nat
    BY <2>1, BlockCounts
  <2>3. Live' = Live /\ UNCHANGED <<file_descriptors, opened>>
    BY <1>2 DEF fat16_read, RefusesDirectory, Dropped, tableVars, Live
  <2> QED
    BY <1>2, <2>2, <2>3, SpendKeeps
<1>3. \/ RefusesTransfer(fd, size) \/ RefusesFd(fd)
      \/ \E d \in Descriptors :
           /\ Finds(fd, d) /\ fat16_read(d, size, 1) /\ Dropped
           /\ Spend(IF desc[d].item.dir THEN 0 ELSE ReadBlocks(size))
  BY Zenon DEF fs_read
<1> QED
  BY <1>1, <1>2, <1>3, Zenon

LEMMA WriteSpends ==
  ASSUME FsTypes, Blocks, NEW fd, NEW value \in Data, NEW size \in Nat,
         fs_write(fd, value, size)
  PROVE  Still(0)
<1>1. CASE RefusesTransfer(fd, size) \/ RefusesFd(fd)
  BY <1>1, IdleKeeps DEF RefusesTransfer, RefusesFd, Refuse, vars, tableVars, Live
<1>2. ASSUME NEW d \in Descriptors, fat16_write(d, value, size), Dropped,
             Spend(IF desc[d].item.dir THEN 0 ELSE WriteBlocks(size))
      PROVE  Still(0)
  <2>1. TypeOK
    BY <1>2 DEF fat16_write, RefusesDirectory, SearchHangs, IsOpen, Mounted, FsTypes
  <2>2. (IF desc[d].item.dir THEN 0 ELSE WriteBlocks(size)) \in Nat
    BY BlockCounts DEF WriteBlocks
  <2>3. Live' = Live /\ UNCHANGED <<file_descriptors, opened>>
    BY <1>2, <2>1, WriteLive DEF Dropped, tableVars
  <2> QED
    BY <1>2, <2>2, <2>3, SpendKeeps
<1>3. \/ RefusesTransfer(fd, size) \/ RefusesFd(fd)
      \/ \E d \in Descriptors :
           /\ fat16_write(d, value, size) /\ Dropped
           /\ Spend(IF desc[d].item.dir THEN 0 ELSE WriteBlocks(size))
  BY Zenon DEF fs_write
<1> QED
  BY <1>1, <1>2, <1>3, Zenon

LEMMA AskSpends ==
  ASSUME FsTypes, Blocks, NEW fd,
         \/ fs_stat(fd)
         \/ \E offset \in 0 .. (SizeMod - 1) : \E seek_mode : fs_seek(fd, offset, seek_mode)
  PROVE  Still(0)
<1>1. CASE RefusesFd(fd)
  BY <1>1, IdleKeeps DEF RefusesFd, Refuse, vars, tableVars, Live
<1>2. ASSUME NEW d \in Descriptors, fat16_stat(d), PassedOn
      PROVE  Still(0)
  BY <1>2, IdleKeeps DEF fat16_stat, RefusesDirectory, Return, PassedOn, tableVars, Live
<1>3. ASSUME NEW d \in Descriptors, NEW offset \in 0 .. (SizeMod - 1), NEW seek_mode,
             fat16_seek(d, offset, seek_mode), PassedOn
      PROVE  Still(0)
  <2>1. TypeOK
    BY <1>3 DEF fat16_seek, RefusesDirectory, IsOpen, Mounted, FsTypes
  <2> QED
    BY <1>3, <2>1, SeekLive, IdleKeeps DEF PassedOn, tableVars
<1> QED
  BY <1>1, <1>2, <1>3 DEF fs_stat, fs_seek

LEMMA CloseSpends ==
  ASSUME FsTypes, Blocks, NEW fd \in Table!AnyFd, fs_close(fd)
  PROVE  Still(0) \/ \E d \in Descriptors : GivesBack(fd, d)
<1>1. CASE RefusesFd(fd)
  BY <1>1, IdleKeeps DEF RefusesFd, Refuse, vars, tableVars, Live
<1>2. CASE UNCHANGED <<desc, tableVars, blocks>>
  BY <1>2, IdleKeeps DEF tableVars, Live
<1>3. ASSUME NEW d \in Descriptors, Finds(fd, d), fat16_close(d),
             file_descriptors' = fs_free_file_descriptor(fd),
             opened' = [opened EXCEPT ![fd] = None], blocks' = blocks - 4
      PROVE  GivesBack(fd, d)
  <2>1. mode = "run" /\ TypeOK /\ desc' = [desc EXCEPT ![d] = None]
    BY <1>3 DEF fat16_close, IsOpen, Mounted, FsTypes
  <2>2. Live' = Live \ {d}
    BY <2>1 DEF Live, TypeOK
  <2> QED
    BY <1>3, <2>1, <2>2 DEF GivesBack, Closes, fs_free_file_descriptor
<1> QED
  BY <1>1, <1>2, <1>3 DEF fs_close

LEMMA OtherStepsSpend ==
  ASSUME Blocks,
         \/ fs_init \/ disk_init \/ OutOfMemory \/ UNCHANGED allVars
         \/ HeapOnly
  PROVE  Still(0)
<1>1. CASE fs_init \/ OutOfMemory \/ UNCHANGED allVars
  BY <1>1, IdleKeeps DEF fs_init, OutOfMemory, allVars, fsVars, vars, tableVars, Live
<1>2. CASE disk_init
  <2>1. MountBlocks(result') \in Nat
    BY DEF MountBlocks
  <2> QED
    BY <1>2, <2>1, SpendKeeps DEF disk_init, fat16_resolve, Live
<1>3. CASE HeapOnly
  <2>1. Live' = Live /\ UNCHANGED <<file_descriptors, opened>>
    BY <1>3 DEF HeapOnly, free_buffer, print_number, vars, tableVars, Live
  <2>2. \E n \in Nat : Spend(n)
    BY <1>3, BlockCounts DEF HeapOnly, free_buffer, print_number
  <2> QED
    BY <2>1, <2>2, SpendKeeps
<1> QED
  BY <1>1, <1>2, <1>3

(* The sizes that kernel_main may read of an open file. *)
LEMMA SizeIsNat ==
  ASSUME TypeOK, ServesInv, NEW fd \in Table!AnyFd, Table!fs_find_file_descriptor(fd) # None
  PROVE  Sizes(fd) \subseteq Nat
<1> DEFINE d == Table!fs_find_file_descriptor(fd)
<1>1. fd - 1 \in Slots /\ d = file_descriptors[fd - 1]
  <2>1. fd \in Int /\ ~(fd <= 0) /\ ~(fd >= MaxDescriptors)
    BY FileSystemAssumption DEF Table!fs_find_file_descriptor, Table!AnyFd
  <2> QED
    BY <2>1, FileSystemAssumption DEF Slots, Table!Slots, Table!fs_find_file_descriptor
<1>2. d \in Descriptors /\ desc[d] # None
  BY <1>1 DEF ServesInv, SlotTypes, Serves
<1> HIDE DEF d
<1>3. desc[d] \in InUse
  BY <1>2, InUseIsNotNone
<1>4. desc[d].item.size \in 0 .. (SizeMod - 1)
  BY <1>3 DEF InUse, Items
<1> QED
  BY <1>4, FatAssumption DEF Sizes, d

LEMMA StepsSpend ==
  ASSUME FsTypes, ServesInv, Blocks, [FsNext]_allVars
  PROVE  \/ Still(0)
         \/ \E d \in Descriptors, path \in Paths : Installs(d, path) /\ Opens(d, path)
         \/ \E fd \in Table!AnyFd, d \in Descriptors : GivesBack(fd, d)
<1>1. CASE fs_init \/ disk_init \/ OutOfMemory \/ UNCHANGED allVars
  BY <1>1, OtherStepsSpend
<1>2. 0 .. MaxSize \subseteq Nat
  BY FatAssumption
<1>3. CASE AnyCall
  BY <1>2, <1>3, OpenSpends, ReadSpends, WriteSpends, AskSpends, CloseSpends DEF AnyCall
<1>4. CASE kernel_main
  <2>1. ASSUME NEW fd \in Indexes, KernelCall(fd)
        PROVE  Still(0) \/ \E d \in Descriptors : GivesBack(fd, d)
    <3>1. fd \in Table!AnyFd /\ 1 \in Nat
      BY IndexIsCallable
    <3>2. mode = "run" /\ Table!fs_find_file_descriptor(fd) # None => Sizes(fd) \subseteq Nat
      BY <3>1, SizeIsNat DEF FsTypes
    <3> QED
      BY <2>1, <3>1, <3>2, ReadSpends, WriteSpends, AskSpends, CloseSpends DEF KernelCall
  <2>2. ASSUME NEW variable, NEW path \in Paths, NEW file_mode, NEW then, NEW otherwise,
               OpenInto(variable, path, file_mode, then, otherwise)
        PROVE  Still(0) \/ \E d \in Descriptors : Installs(d, path) /\ Opens(d, path)
    BY <2>2, OpenSpends DEF OpenInto
  <2>3. \A fd \in Indexes : fd \in Table!AnyFd
    BY IndexIsCallable
  <2> QED
    BY <1>4, <2>1, <2>2, <2>3, KernelSteps, OtherStepsSpend
<1> QED
  BY <1>1, <1>3, <1>4 DEF FsNext

-----------------------------------------------------------------------------
(***************************************************************************)
(* The indexes in use and the lost descriptors, and how many they are.     *)
(***************************************************************************)
Held == {d \in Descriptors : \E i \in Slots : file_descriptors[i] = d}

Tally ==
  /\ Used = {i \in Slots : file_descriptors[i] # None}
  /\ Table!FreeSlots = {i \in Slots : file_descriptors[i] = None}
  /\ Table!Lost = Live \ Held
  /\ IsFiniteSet(Used) /\ IsFiniteSet(Table!Lost)
  /\ Cardinality(Used) \in Nat /\ Cardinality(Table!Lost) \in Nat

LEMMA UsedAndLost == SlotTypes => Tally
<1> SUFFICES ASSUME SlotTypes PROVE Tally
  OBVIOUS
<1>1. Table!FreeSlots = {i \in Slots : file_descriptors[i] = None} /\ DOMAIN file_descriptors = Slots
  BY DEF SlotTypes, Table!FreeSlots, Slots
<1>2. Used = {i \in Slots : file_descriptors[i] # None}
  BY <1>1 DEF Used
<1>3. Table!Lost = Live \ Held
  BY <1>1 DEF Table!Lost, Table!Range, Live, Held
<1>4. IsFiniteSet(Slots)
  BY FileSystemAssumption, FS_Interval DEF Slots, Table!Slots
<1>5. IsFiniteSet(Used) /\ IsFiniteSet(Table!Lost)
  <2>1. Used \subseteq Slots /\ Table!Lost \subseteq Descriptors
    BY <1>2, <1>3 DEF Live
  <2> QED
    BY <1>4, <2>1, FileSystemAssumption, FS_Subset
<1> QED
  BY <1>1, <1>2, <1>3, <1>5, FS_CardinalityType DEF Tally

LEMMA UsedAndLostNext == SlotTypes' => Tally'
  BY UsedAndLost, PTL

LEMMA TallyIsNat ==
  Tally => Cardinality(Used) \in Nat /\ Cardinality(Table!Lost) \in Nat
  BY DEF Tally

LEMMA StillCounts ==
  ASSUME SlotTypes, Blocks, NEW least \in Nat, Still(least)
  PROVE  Unreturned' >= Unreturned + least
<1>1. Tally /\ Tally'
  <2>1. SlotTypes'
    BY DEF SlotTypes, Still
  <2> QED
    BY <2>1, UsedAndLost, UsedAndLostNext
<1>2. Used' = Used /\ (Table!Lost)' = Table!Lost
  <2>1. Held' = Held
    BY DEF Held, Still
  <2> QED
    BY <1>1, <2>1 DEF Tally, Still
<1> QED
  BY <1>1, <1>2, TallyIsNat DEF Still, Blocks, Unreturned

LEMMA OpenCounts ==
  ASSUME SlotTypes, ServesInv, Blocks, SlotTypes',
         NEW d \in Descriptors, NEW path, Opens(d, path)
  PROVE  Unreturned' >= Unreturned + 2
<1>0. Tally /\ Tally'
  BY UsedAndLost, UsedAndLostNext
<1>1. d \notin Live /\ Live' = Live \cup {d} /\ d # None
  BY FileSystemAssumption DEF Opens
<1>2. \A i \in Slots : file_descriptors[i] # None => file_descriptors[i] \in Live
  BY DEF ServesInv, Serves, SlotTypes, Live
<1>3. None \notin Nat /\ Slots \subseteq Nat
  BY FileSystemAssumption, SlotFacts
<1>4. CASE Table!FreeSlots = {}
  <2>1. UNCHANGED file_descriptors
    BY <1>3, <1>4 DEF Opens, Table!Install, Table!fs_new_file_descriptor
  <2>2. Used' = Used /\ (Table!Lost)' = Table!Lost \cup {d} /\ d \notin Table!Lost
    <3>1. Held' = Held /\ d \notin Held
      BY <1>1, <1>2, <2>1 DEF Held
    <3> QED
      BY <1>0, <1>1, <2>1, <3>1 DEF Tally
  <2>3. Cardinality((Table!Lost)') = Cardinality(Table!Lost) + 1
    BY <1>0, <2>2, FS_AddElement DEF Tally
  <2> QED
    BY <1>0, <1>4, <2>2, <2>3, TallyIsNat DEF Opens, Blocks, Unreturned
<1>5. CASE Table!FreeSlots # {}
  <2>1. PICK slot \in Slots : /\ file_descriptors[slot] = None
                             /\ file_descriptors' = [file_descriptors EXCEPT ![slot] = d]
    <3>1. /\ Table!fs_new_file_descriptor = CHOOSE i \in Table!FreeSlots :
                                              \A j \in Table!FreeSlots : i <= j
          /\ Table!FreeSlots \subseteq Nat
      BY <1>0, <1>3, <1>5 DEF Tally, Table!fs_new_file_descriptor
    <3>2. \E i \in Table!FreeSlots : \A j \in Table!FreeSlots : i <= j
      BY <1>5, <3>1, LeastOf
    <3>3. Table!fs_new_file_descriptor \in Table!FreeSlots
      BY <3>1, <3>2
    <3>4. /\ Table!fs_new_file_descriptor \in Slots
          /\ file_descriptors[Table!fs_new_file_descriptor] = None
          /\ Table!fs_new_file_descriptor # None
      BY <1>0, <1>3, <3>3 DEF Tally
    <3> QED
      BY <3>4 DEF Opens, Table!Install
  <2>2. /\ file_descriptors'[slot] = d
        /\ \A i \in Slots : i # slot => file_descriptors'[i] = file_descriptors[i]
    BY <2>1 DEF SlotTypes
  <2>3. Used' = Used \cup {slot} /\ slot \notin Used
    BY <1>0, <1>1, <2>1, <2>2 DEF Tally
  <2>4. (Table!Lost)' = Table!Lost
    <3>1. Held' = Held \cup {d} /\ d \notin Held
      <4>1. \A e \in Descriptors : e \in Held' => e \in Held \/ e = d
        BY <2>2 DEF Held
      <4>2. \A e \in Descriptors : e \in Held => e \in Held'
        BY <2>1, <2>2, FileSystemAssumption DEF Held
      <4>3. d \in Held' /\ d \notin Held
        BY <1>1, <1>2, <2>2 DEF Held
      <4> QED
        BY <4>1, <4>2, <4>3 DEF Held
    <3> QED
      BY <1>0, <1>1, <3>1 DEF Tally
  <2>5. Cardinality(Used') = Cardinality(Used) + 1
    BY <1>0, <2>3, FS_AddElement DEF Tally
  <2> QED
    BY <1>0, <1>5, <2>4, <2>5, TallyIsNat DEF Opens, Blocks, Unreturned
<1> QED
  BY <1>4, <1>5

LEMMA CloseCounts ==
  ASSUME ServesInv, Blocks, SlotTypes', NEW fd \in Table!AnyFd, NEW d \in Descriptors,
         GivesBack(fd, d)
  PROVE  Unreturned' = Unreturned
<1> DEFINE slot == fd - 1
<1>0. Tally /\ Tally'
  BY UsedAndLost, UsedAndLostNext DEF ServesInv
<1>1. slot \in Slots /\ file_descriptors[slot] = d /\ d # None
  BY FoundSlot DEF GivesBack, Closes
<1>2. /\ file_descriptors' = [file_descriptors EXCEPT ![slot] = None]
      /\ Live' = Live \ {d}
  BY DEF GivesBack, Closes, Table!fs_free_file_descriptor
<1> HIDE DEF slot
<1>3. /\ file_descriptors'[slot] = None
      /\ \A i \in Slots : i # slot => file_descriptors'[i] = file_descriptors[i]
  BY <1>1, <1>2 DEF ServesInv, SlotTypes
<1>4. SlotTypes
  BY DEF ServesInv
<1>5. Used' = Used \ {slot} /\ slot \in Used
  BY <1>0, <1>1, <1>3, <1>4 DEF Tally
<1>6. (Table!Lost)' = Table!Lost
  <2>1. d \in Held
    BY <1>1 DEF Held
  <2>2. \A e \in Descriptors : e # d => (e \in Held' <=> e \in Held)
    BY <1>1, <1>3, FileSystemAssumption DEF Held
  <2> QED
    BY <1>0, <1>2, <1>4, <2>1, <2>2 DEF Tally, Live
<1>7. Cardinality(Used') = Cardinality(Used) - 1
  <2>1. IsFiniteSet(Used)
    BY <1>0 DEF Tally
  <2> QED
    BY <1>5, <2>1, FS_RemoveElement
<1>8. blocks' = blocks - 4 /\ blocks \in Int
  BY DEF GivesBack, Blocks
<1> QED
  BY <1>0, <1>6, <1>7, <1>8, TallyIsNat DEF Unreturned

LEMMA InitBlocks == FsInit => Blocks
<1>1. FsInit => blocks = 0
  BY DEF FsInit
<1> QED
  BY <1>1 DEF Blocks

LEMMA NextBlocks ==
  ASSUME FsTypes, ServesInv, Blocks, [FsNext]_allVars
  PROVE  Blocks' /\ Unreturned' >= Unreturned
<1>1. ServesInv' /\ SlotTypes /\ SlotTypes'
  BY NextServes DEF ServesInv
<1>2. Unreturned \in Int
  BY <1>1, UsedAndLost DEF Tally, Blocks, Unreturned
<1>3. CASE Still(0)
  BY <1>1, <1>2, <1>3, StillCounts DEF Still, Blocks
<1>4. ASSUME NEW d \in Descriptors, NEW path, Opens(d, path)
      PROVE  Blocks' /\ Unreturned' >= Unreturned
  <2>1. Blocks'
    BY <1>4 DEF Opens, Blocks
  <2>2. Unreturned' >= Unreturned + 2 /\ Unreturned' \in Int
    <3>1. Tally'
      BY <1>1, UsedAndLostNext
    <3> QED
      BY <1>1, <1>4, <2>1, <3>1, OpenCounts DEF Tally, Blocks, Unreturned
  <2> QED
    BY <1>2, <2>1, <2>2
<1>5. ASSUME NEW fd \in Table!AnyFd, NEW d \in Descriptors, GivesBack(fd, d)
      PROVE  Blocks' /\ Unreturned' >= Unreturned
  BY <1>1, <1>2, <1>5, CloseCounts DEF GivesBack, Blocks
<1> QED
  BY <1>3, <1>4, <1>5, StepsSpend

LEMMA OpensCost ==
  ASSUME FsTypes, ServesInv, Blocks, [FsNext]_allVars, NEW path \in Paths,
         NEW file_mode \in {"READ", "WRITE"}, fs_open(path, file_mode)
  PROVE  Unreturned' >= Unreturned + 2
<1>1. SlotTypes /\ SlotTypes'
  BY NextServes DEF ServesInv
<1> QED
  BY <1>1, OpenSpends, OpenCounts, StillCounts

(***************************************************************************)
(* No balance of opens and closes gets back what the opens took: for every *)
(* disk, heap and program, each step leaves at least as many blocks taken, *)
(* beyond what open files will give back, and each open of a path that     *)
(* parses at least two more.                                               *)
(***************************************************************************)
THEOREM OpensCostForGood == FsSpec => EveryOpenCosts
<1>1. FsInit => FsTypes /\ ServesInv /\ Blocks
  BY InitRefines, InitServes, InitBlocks
<1>2. FsTypes /\ ServesInv /\ Blocks /\ [FsNext]_allVars => FsTypes' /\ ServesInv' /\ Blocks'
  BY NextRefines, NextServes, NextBlocks
<1>3. FsTypes /\ ServesInv /\ Blocks /\ [FsNext]_allVars =>
        [/\ Unreturned' >= Unreturned
         /\ answer' \in [fd : {0} \cup Fds] =>
              \A path \in Paths, file_mode \in {"READ", "WRITE"} :
                fs_open(path, file_mode) => Unreturned' >= Unreturned + 2]_fsVars
  BY NextBlocks, OpensCost
<1> QED
  BY <1>1, <1>2, <1>3, PTL DEF FsSpec, EveryOpenCosts

-----------------------------------------------------------------------------
(***************************************************************************)
(* kernel_main.  Where it is tells which of its indexes are open, and that *)
(* they are the lowest ones: main.txt has index 1 or is not open, and      *)
(* KOKO.TXT has the next one.                                              *)
(***************************************************************************)
MainPart == program.fd \in {0, 1} /\ (program.fd = 1 => StandsFor(1, MainTxt))

UsedBeside(others) == Used = ({program.fd - 1} \ {-1}) \cup others

KokoPart(fd) ==
  fd = program.fd + 1 /\ StandsFor(fd, KokoTxt) /\ UsedBeside({fd - 1})

HoldsAt(place) ==
  /\ place = "open main" => Used = {}
  /\ place \in {"stat", "print", "read", "free", "stat again", "print again"} =>
       program.fd = 1
  /\ place \in {"stat", "print", "read", "free", "stat again", "print again", "open koko",
                "open again", "end"} =>
       MainPart /\ UsedBeside({})
  /\ place \in {"write", "close"} => MainPart /\ KokoPart(program.fd2)
  /\ place \in {"read again", "close again"} => MainPart /\ KokoPart(program.fd3)

KernelInv ==
  \A place \in Places : mode \in {"off", "run"} /\ program.at = place => HoldsAt(place)

(* The statements that leave the tables alone, and the place behind each. *)
Follows(place, next) ==
  \/ place = "stat" /\ next = "print"
  \/ place = "print" /\ next = "read"
  \/ place = "read" /\ next = "free"
  \/ place = "free" /\ next = "stat again"
  \/ place = "stat again" /\ next = "print again"
  \/ place = "print again" /\ next = "open koko"
  \/ place = "write" /\ next = "close"
  \/ place = "read again" /\ next = "close again"

LEMMA KernelMoves ==
  ASSUME FsTypes, ServesInv, Blocks, kernel_main
  PROVE  /\ mode = "run"
         /\ \/ \E next \in Places :
                 /\ Follows(program.at, next)
                 /\ UNCHANGED <<file_descriptors, opened>> /\ GoOn(next)
            \/ /\ program.at = "open main"
               /\ OpenInto("fd", MainTxt, "READ", "stat", "open koko")
            \/ /\ program.at = "open koko"
               /\ OpenInto("fd2", KokoTxt, "WRITE", "write", "open again")
            \/ /\ program.at = "open again"
               /\ OpenInto("fd3", KokoTxt, "READ", "read again", "end")
            \/ program.at = "close" /\ fs_close(program.fd2) /\ GoOn("open again")
            \/ program.at = "close again" /\ fs_close(program.fd3) /\ GoOn("end")
<1>1. /\ program.fd \in Table!AnyFd /\ program.fd2 \in Table!AnyFd
      /\ program.fd3 \in Table!AnyFd
  BY IndexIsCallable DEF FsTypes, Programs
<1>2. {"print", "read", "free", "stat again", "print again", "open koko", "close",
       "close again"} \subseteq Places
  BY DEF Places
<1>3. \A fd : fs_stat(fd) => mode = "run" /\ UNCHANGED <<file_descriptors, opened>>
  BY DEF fs_stat, RefusesFd, Refuse, fat16_stat, RefusesDirectory, Return, IsOpen, Mounted,
         PassedOn, tableVars
<1>4. \A fd, size : fs_read(fd, size) => mode = "run" /\ UNCHANGED <<file_descriptors, opened>>
  BY DEF fs_read, RefusesTransfer, RefusesFd, Refuse, fat16_read, RefusesDirectory, IsOpen,
         Mounted, Dropped, tableVars
<1>5. \A fd, value, size :
        fs_write(fd, value, size) => mode = "run" /\ UNCHANGED <<file_descriptors, opened>>
  BY DEF fs_write, RefusesTransfer, RefusesFd, Refuse, fat16_write, RefusesDirectory,
         SearchHangs, IsOpen, Mounted, Dropped, tableVars
<1>6. HeapOnly => mode = "run" /\ UNCHANGED <<file_descriptors, opened>>
  BY DEF HeapOnly, free_buffer, print_number, tableVars
<1>7. \A path, file_mode : fs_open(path, file_mode) => mode = "run"
  BY DEF fs_open
<1>8. \A fd : fs_close(fd) => mode = "run"
  BY DEF fs_close, RefusesFd, IsOpen, Mounted
<1>9. program.at \in {"open main", "stat", "print", "read", "free", "stat again",
                      "print again", "open koko", "write", "close", "open again",
                      "read again", "close again"}
  BY DEF kernel_main
<1>10. CASE program.at = "open main"
  BY <1>7, <1>10 DEF kernel_main, OpenInto
<1>11. CASE program.at = "stat"
  BY <1>2, <1>3, <1>11 DEF kernel_main, Follows
<1>12. CASE program.at = "read"
  BY <1>2, <1>4, <1>12 DEF kernel_main, Follows
<1>13. CASE program.at \in {"free", "print", "print again"}
  BY <1>2, <1>6, <1>13 DEF kernel_main, Follows, HeapOnly
<1>14. CASE program.at = "stat again"
  BY <1>2, <1>3, <1>14 DEF kernel_main, Follows
<1>15. CASE program.at = "open koko"
  BY <1>7, <1>15 DEF kernel_main, OpenInto
<1>16. CASE program.at = "write"
  BY <1>2, <1>5, <1>16 DEF kernel_main, Follows
<1>17. CASE program.at = "close"
  BY <1>8, <1>17 DEF kernel_main
<1>18. CASE program.at = "open again"
  BY <1>7, <1>18 DEF kernel_main, OpenInto
<1>19. CASE program.at = "read again"
  BY <1>2, <1>4, <1>19 DEF kernel_main, Follows
<1>20. CASE program.at = "close again"
  BY <1>8, <1>20 DEF kernel_main
<1> QED
  BY <1>9, <1>10, <1>11, <1>12, <1>13, <1>14, <1>15, <1>16, <1>17, <1>18, <1>19, <1>20

(* An open that finds a free slot takes the lowest one. *)
LEMMA OpenTakesLowest ==
  ASSUME FsTypes, SlotTypes, NEW path \in Paths, NEW file_mode \in FileModes,
         fs_open(path, file_mode)
  PROVE  /\ mode' = "run"
         /\ \/ answer'.fd = 0 /\ UNCHANGED <<file_descriptors, opened>>
            \/ \E slot \in Slots, d \in Descriptors :
                 /\ slot \notin Used /\ \A i \in Slots : i < slot => i \in Used
                 /\ answer'.fd = slot + 1
                 /\ file_descriptors' = [file_descriptors EXCEPT ![slot] = d]
                 /\ opened' = [opened EXCEPT ![slot + 1] = [handle |-> d, path |-> path]]
<1>1. mode' = "run"
  BY OpenRefines
<1>2. CASE answer' = Table!Fd(0) /\ UNCHANGED <<file_descriptors, opened>>
  BY <1>1, <1>2 DEF Table!Fd
<1>3. ASSUME NEW d \in Descriptors, Table!Install(d, path), Table!fs_new_file_descriptor # None
      PROVE  \E slot \in Slots :
               /\ slot \notin Used /\ \A i \in Slots : i < slot => i \in Used
               /\ answer'.fd = slot + 1
               /\ file_descriptors' = [file_descriptors EXCEPT ![slot] = d]
               /\ opened' = [opened EXCEPT ![slot + 1] = [handle |-> d, path |-> path]]
  <2> DEFINE free == Table!FreeSlots
             slot == Table!fs_new_file_descriptor
  <2>1. /\ Used = {i \in Slots : file_descriptors[i] # None}
        /\ free = {i \in Slots : file_descriptors[i] = None}
        /\ free \subseteq Nat
    BY UsedAndLost, SlotFacts DEF Tally
  <2>2. free # {} /\ slot = CHOOSE i \in free : \A j \in free : i <= j
    BY <1>3 DEF Table!fs_new_file_descriptor
  <2>3. \E i \in free : \A j \in free : i <= j
    BY <2>1, <2>2, LeastOf
  <2>4. slot \in free /\ \A j \in free : slot <= j
    BY <2>2, <2>3
  <2>5. slot \in Slots /\ slot \notin Used /\ \A i \in Slots : i < slot => i \in Used
    BY <2>1, <2>4, SlotFacts
  <2>6. /\ answer' = Table!Fd(slot + 1)
        /\ file_descriptors' = [file_descriptors EXCEPT ![slot] = d]
        /\ opened' = [opened EXCEPT ![slot + 1] = [handle |-> d, path |-> path]]
    BY <1>3 DEF Table!Install, Table!IndexOf
  <2> QED
    BY <2>5, <2>6 DEF Table!Fd
<1>4. ASSUME NEW d \in Descriptors, Table!Install(d, path)
      PROVE  \/ answer' = Table!Fd(0) /\ UNCHANGED <<file_descriptors, opened>>
             \/ Table!fs_new_file_descriptor # None
  BY <1>4 DEF Table!Install, Table!NULL_FILE_DESCRIPTOR
<1>5. \/ answer' = Table!Fd(0) /\ UNCHANGED <<file_descriptors, opened>>
      \/ \E d \in Descriptors : Table!Install(d, path)
  BY DEF fs_open, Refuse, tableVars
<1> QED
  BY <1>1, <1>2, <1>3, <1>4, <1>5

-----------------------------------------------------------------------------
LEMMA LowestIs ==
  ASSUME FsTypes, SlotTypes, NEW path \in Paths, NEW file_mode \in FileModes,
         fs_open(path, file_mode), NEW n \in {0, 1}, Used = {n - 1} \ {-1}
  PROVE  \/ answer'.fd = 0 /\ UNCHANGED <<file_descriptors, opened>>
         \/ /\ answer'.fd = n + 1
            /\ Used' = Used \cup {n}
            /\ opened'[n + 1].path = path
            /\ n = 1 => opened'[1] = opened[1]
<1>1. ASSUME NEW slot \in Slots, NEW d \in Descriptors, slot \notin Used,
             \A i \in Slots : i < slot => i \in Used,
             file_descriptors' = [file_descriptors EXCEPT ![slot] = d],
             opened' = [opened EXCEPT ![slot + 1] = [handle |-> d, path |-> path]]
      PROVE  /\ slot = n
             /\ Used' = Used \cup {n}
             /\ opened'[n + 1].path = path
             /\ n = 1 => opened'[1] = opened[1]
  <2>1. 0 \in Slots /\ 1 \in Slots /\ slot \in Nat
    BY SlotFacts, FileSystemAssumption DEF Slots, Table!Slots
  <2>2. slot = n
    BY <1>1, <2>1
  <2>3. n \in Slots /\ n + 1 \in Fds
    BY <2>1, SlotFacts
  <2>4. /\ file_descriptors' = [file_descriptors EXCEPT ![n] = d]
        /\ opened' = [opened EXCEPT ![n + 1] = [handle |-> d, path |-> path]]
    BY <1>1, <2>2
  <2>5. Tally /\ Tally'
    <3>1. SlotTypes'
      BY <2>4 DEF SlotTypes
    <3> QED
      BY <3>1, UsedAndLost, UsedAndLostNext
  <2>6. /\ file_descriptors'[n] = d /\ d # None
        /\ \A i \in Slots : i # n => file_descriptors'[i] = file_descriptors[i]
    BY <2>3, <2>4, FileSystemAssumption DEF SlotTypes
  <2>7. Used' = Used \cup {n}
    BY <2>3, <2>5, <2>6 DEF Tally
  <2>8. opened'[n + 1] = [handle |-> d, path |-> path] /\ (n = 1 => opened'[1] = opened[1])
    BY <2>3, <2>4 DEF SlotTypes
  <2> QED
    BY <2>2, <2>7, <2>8
<1> QED
  BY <1>1, OpenTakesLowest

(* The open index of a file is found and given up, and main.txt stays open. *)
LEMMA CloseKoko ==
  ASSUME FsTypes, SlotTypes, MainPart, NEW fd, KokoPart(fd), fs_close(fd)
  PROVE  \/ mode' = "wild"
         \/ /\ Used' = {program.fd - 1} \ {-1}
            /\ program.fd = 1 => opened'[1] = opened[1]
<1>1. /\ program.fd \in {0, 1} /\ fd = program.fd + 1 /\ fd - 1 = program.fd
      /\ fd - 1 \in Used /\ Used = ({program.fd - 1} \ {-1}) \cup {fd - 1}
  BY DEF MainPart, KokoPart, UsedBeside, StandsFor
<1>2. Tally /\ fd - 1 \in Slots
  BY <1>1, UsedAndLost DEF Tally
<1>3. Table!fs_find_file_descriptor(fd) # None
  BY <1>1, <1>2, FileSystemAssumption DEF Table!fs_find_file_descriptor, Tally
<1>4. ~RefusesFd(fd)
  BY <1>3 DEF RefusesFd
<1>5. ASSUME file_descriptors' = fs_free_file_descriptor(fd),
             opened' = [opened EXCEPT ![fd] = None]
      PROVE  /\ Used' = {program.fd - 1} \ {-1}
             /\ program.fd = 1 => opened'[1] = opened[1]
  <2>1. file_descriptors' = [file_descriptors EXCEPT ![fd - 1] = None]
    BY <1>5 DEF fs_free_file_descriptor, Table!fs_free_file_descriptor
  <2>2. Tally'
    <3>1. SlotTypes'
      BY <1>5, <2>1 DEF SlotTypes
    <3> QED
      BY <3>1, UsedAndLostNext
  <2>3. /\ file_descriptors'[fd - 1] = None
        /\ \A i \in Slots : i # fd - 1 => file_descriptors'[i] = file_descriptors[i]
    BY <1>2, <2>1 DEF SlotTypes
  <2>4. Used' = Used \ {fd - 1}
    BY <1>2, <2>2, <2>3 DEF Tally
  <2>5. Used' = {program.fd - 1} \ {-1}
    BY <1>1, <2>4
  <2>6. program.fd = 1 => opened'[1] = opened[1]
    BY <1>1, <1>5, SlotFacts, <1>2 DEF SlotTypes
  <2> QED
    BY <2>5, <2>6
<1> QED
  BY <1>4, <1>5 DEF fs_close

-----------------------------------------------------------------------------
LEMMA InitKernel == FsInit => KernelInv
<1> SUFFICES ASSUME FsInit PROVE KernelInv
  OBVIOUS
<1>1. Used = {}
  <2>1. file_descriptors = [i \in Slots |-> None]
    BY DEF FsInit, Table!Init, Slots
  <2> QED
    BY <2>1 DEF Used, Table!FreeSlots, Slots
<1>2. program.at \in {"open main", "any"}
  <2>1. program = Fresh("open main") \/ program = Fresh("any")
    BY DEF FsInit
  <2>2. \A place : Fresh(place).at = place
    BY DEF Fresh
  <2> QED
    BY <2>1, <2>2
<1> QED
  BY <1>1, <1>2 DEF KernelInv, HoldsAt

(* Where the tables and the indexes stay, what holds goes on to hold. *)
LEMMA KeepsHolding ==
  ASSUME UNCHANGED <<file_descriptors, opened>>, program'.fd = program.fd,
         program'.fd2 = program.fd2, program'.fd3 = program.fd3, NEW place, HoldsAt(place)
  PROVE  HoldsAt(place)'
<1>1. Used' = Used
  BY DEF Used, Table!FreeSlots
<1> QED
  BY <1>1 DEF HoldsAt, MainPart, KokoPart, UsedBeside, StandsFor

LEMMA FollowsHolds ==
  ASSUME NEW place, NEW next, Follows(place, next), HoldsAt(place)
  PROVE  HoldsAt(next)
  BY DEF Follows, HoldsAt

LEMMA GoesOn ==
  ASSUME program \in Programs, NEW next \in Places, GoOn(next)
  PROVE  /\ program'.at = IF mode' = "run" THEN next ELSE program.at
         /\ program'.fd = program.fd /\ program'.fd2 = program.fd2
         /\ program'.fd3 = program.fd3
  BY DEF GoOn, Programs

LEMMA KernelStepHolds ==
  ASSUME FsTypes, ServesInv, Blocks, KernelInv, kernel_main
  PROVE  KernelInv'
<1> DEFINE at == program.at
<1>1. /\ program \in Programs /\ at \in Places /\ mode = "run" /\ HoldsAt(at) /\ SlotTypes
      /\ MainTxt \in Paths /\ KokoTxt \in Paths /\ {"READ", "WRITE"} \subseteq FileModes
  BY KernelMoves, FileSystemAssumption DEF FsTypes, Programs, KernelInv, ServesInv, FileModes
<1>2. ASSUME NEW next \in Places, Follows(at, next),
             UNCHANGED <<file_descriptors, opened>>, GoOn(next)
      PROVE  KernelInv'
  <2>1. HoldsAt(next)
    BY <1>1, <1>2, FollowsHolds
  <2>2. \A place \in Places : HoldsAt(place) => HoldsAt(place)'
    BY <1>1, <1>2, GoesOn, KeepsHolding
  <2>3. program'.at \in {next, at}
    BY <1>1, <1>2, GoesOn
  <2> QED
    BY <1>1, <2>1, <2>2, <2>3 DEF KernelInv
<1>3. ASSUME at = "open main", OpenInto("fd", MainTxt, "READ", "stat", "open koko")
      PROVE  KernelInv'
  <2>0. Used = {}
    BY <1>1, <1>3 DEF HoldsAt
  <2>1. Used = {0 - 1} \ {-1}
    BY <2>0
  <2>2. program'.fd = answer'.fd
        /\ program'.at = IF answer'.fd = 0 THEN "open koko" ELSE "stat"
    BY <1>1, <1>3 DEF OpenInto, Programs
  <2>3. \/ answer'.fd = 0 /\ Used' = {}
        \/ answer'.fd = 1 /\ Used' = {0} /\ opened'[1].path = MainTxt
    <3>1. \/ answer'.fd = 0 /\ UNCHANGED <<file_descriptors, opened>>
          \/ answer'.fd = 0 + 1 /\ Used' = Used \cup {0} /\ opened'[0 + 1].path = MainTxt
      BY <1>1, <1>3, <2>1, LowestIs DEF OpenInto
    <3> QED
      BY <2>1, <3>1 DEF Used, Table!FreeSlots
  <2>4. CASE answer'.fd = 0 /\ Used' = {}
    <3>1. Used' = ({0 - 1} \ {-1}) \cup {}
      BY <2>4
    <3>2. program'.fd = 0 /\ program'.at = "open koko"
      BY <2>2, <2>4
    <3>3. MainPart' /\ UsedBeside({})'
      <4>1. MainPart'
        <5>1. program'.fd = 0
          BY <3>2
        <5>2. program'.fd \in {0, 1}
          BY <5>1
        <5>3. program'.fd # 1
          BY <5>1
        <5> QED
          BY <5>2, <5>3, Zenon DEF MainPart
      <4>2. UsedBeside({})'
        BY <3>1, <3>2 DEF UsedBeside
      <4> QED
        BY <4>1, <4>2
    <3> QED
      BY <3>2, <3>3 DEF KernelInv, HoldsAt
  <2>5. CASE answer'.fd = 1 /\ Used' = {0} /\ opened'[1].path = MainTxt
    <3>1. Used' = ({1 - 1} \ {-1}) \cup {} /\ 1 - 1 \in Used'
      BY <2>5
    <3>2. program'.fd = 1 /\ program'.at = "stat"
      BY <2>2, <2>5
    <3>3. MainPart' /\ UsedBeside({})'
      BY <2>5, <3>1, <3>2 DEF MainPart, UsedBeside, StandsFor
    <3> QED
      BY <3>2, <3>3 DEF KernelInv, HoldsAt
  <2> QED
    BY <2>3, <2>4, <2>5
<1>4. ASSUME at \in {"open koko", "open again"}, NEW variable \in {"fd2", "fd3"},
             NEW file_mode \in FileModes, NEW then \in Places, NEW otherwise \in Places,
             OpenInto(variable, KokoTxt, file_mode, then, otherwise)
      PROVE  /\ program'.fd = program.fd /\ program'[variable] = answer'.fd
             /\ program'.at = (IF answer'.fd = 0 THEN otherwise ELSE then)
             /\ MainPart'
             /\ \/ answer'.fd = 0 /\ UsedBeside({})'
                \/ answer'.fd # 0 /\ KokoPart(answer.fd)'
  <2>1. MainPart /\ UsedBeside({}) /\ program.fd \in {0, 1}
    BY <1>1, <1>4 DEF HoldsAt, MainPart
  <2>2. Used = {program.fd - 1} \ {-1}
    BY <2>1 DEF UsedBeside
  <2>3. /\ program'.fd = program.fd /\ program'[variable] = answer'.fd
        /\ program'.at = (IF answer'.fd = 0 THEN otherwise ELSE then)
    BY <1>1, <1>4 DEF OpenInto, Programs
  <2>4. \/ answer'.fd = 0 /\ UNCHANGED <<file_descriptors, opened>>
        \/ /\ answer'.fd = program.fd + 1
           /\ Used' = Used \cup {program.fd}
           /\ opened'[program.fd + 1].path = KokoTxt
           /\ program.fd = 1 => opened'[1] = opened[1]
    BY <1>1, <1>4, <2>1, <2>2, LowestIs DEF OpenInto
  <2>5. CASE answer'.fd = 0 /\ UNCHANGED <<file_descriptors, opened>>
    <3>1. Used' = Used
      BY <2>5 DEF Used, Table!FreeSlots
    <3> QED
      BY <2>1, <2>3, <2>5, <3>1 DEF MainPart, UsedBeside, StandsFor
  <2>6. CASE /\ answer'.fd = program.fd + 1
             /\ Used' = Used \cup {program.fd}
             /\ opened'[program.fd + 1].path = KokoTxt
             /\ program.fd = 1 => opened'[1] = opened[1]
    BY <2>1, <2>2, <2>3, <2>6 DEF MainPart, KokoPart, UsedBeside, StandsFor
  <2> QED
    BY <2>3, <2>4, <2>5, <2>6
<1>5. ASSUME NEW fd \in {program.fd2, program.fd3}, MainPart, KokoPart(fd), fs_close(fd),
             NEW next \in Places, GoOn(next), mode' # "wild"
      PROVE  MainPart' /\ UsedBeside({})'
  <2>1. Used' = {program.fd - 1} \ {-1} /\ (program.fd = 1 => opened'[1] = opened[1])
    BY <1>1, <1>5, CloseKoko
  <2>2. program'.fd = program.fd
    BY <1>1, <1>5, GoesOn
  <2> QED
    BY <1>5, <2>1, <2>2 DEF MainPart, UsedBeside, StandsFor
<1>6. {"write", "open again", "read again", "end"} \subseteq Places
  BY DEF Places
<1>7. CASE at = "open koko" /\ OpenInto("fd2", KokoTxt, "WRITE", "write", "open again")
  <2>1. /\ program'.fd2 = answer'.fd
        /\ program'.at = (IF answer'.fd = 0 THEN "open again" ELSE "write")
        /\ MainPart'
        /\ \/ answer'.fd = 0 /\ UsedBeside({})'
           \/ answer'.fd # 0 /\ KokoPart(answer.fd)'
    BY <1>1, <1>4, <1>6, <1>7
  <2> QED
    BY <2>1 DEF KernelInv, HoldsAt
<1>8. CASE at = "open again" /\ OpenInto("fd3", KokoTxt, "READ", "read again", "end")
  <2>1. /\ program'.fd3 = answer'.fd
        /\ program'.at = (IF answer'.fd = 0 THEN "end" ELSE "read again")
        /\ MainPart'
        /\ \/ answer'.fd = 0 /\ UsedBeside({})'
           \/ answer'.fd # 0 /\ KokoPart(answer.fd)'
    BY <1>1, <1>4, <1>6, <1>8
  <2> QED
    BY <2>1 DEF KernelInv, HoldsAt
<1>9. CASE at = "close" /\ fs_close(program.fd2) /\ GoOn("open again")
  <2>1. MainPart /\ KokoPart(program.fd2)
    BY <1>1, <1>9 DEF HoldsAt
  <2>2. mode' \in {"run", "wild"} /\ (mode' = "run" => program'.at = "open again")
    BY <1>1, <1>6, <1>9, GoesOn
       DEF fs_close, RefusesFd, Refuse, fat16_close, vars
  <2> QED
    BY <1>5, <1>6, <1>9, <2>1, <2>2 DEF KernelInv, HoldsAt
<1>10. CASE at = "close again" /\ fs_close(program.fd3) /\ GoOn("end")
  <2>1. MainPart /\ KokoPart(program.fd3)
    BY <1>1, <1>10 DEF HoldsAt
  <2>2. mode' \in {"run", "wild"} /\ (mode' = "run" => program'.at = "end")
    BY <1>1, <1>6, <1>10, GoesOn
       DEF fs_close, RefusesFd, Refuse, fat16_close, vars
  <2> QED
    BY <1>5, <1>6, <1>10, <2>1, <2>2 DEF KernelInv, HoldsAt
<1> HIDE DEF at
<1>11. \/ \E next \in Places :
            /\ Follows(at, next)
            /\ UNCHANGED <<file_descriptors, opened>> /\ GoOn(next)
       \/ at = "open main" /\ OpenInto("fd", MainTxt, "READ", "stat", "open koko")
       \/ at = "open koko" /\ OpenInto("fd2", KokoTxt, "WRITE", "write", "open again")
       \/ at = "open again" /\ OpenInto("fd3", KokoTxt, "READ", "read again", "end")
       \/ at = "close" /\ fs_close(program.fd2) /\ GoOn("open again")
       \/ at = "close again" /\ fs_close(program.fd3) /\ GoOn("end")
  BY KernelMoves DEF at
<1> QED
  BY <1>2, <1>3, <1>7, <1>8, <1>9, <1>10, <1>11

LEMMA NextKernel ==
  ASSUME FsTypes, ServesInv, Blocks, KernelInv, [FsNext]_allVars
  PROVE  KernelInv'
<1>1. CASE kernel_main
  BY <1>1, KernelStepHolds
<1>2. CASE program.at = "any" /\ UNCHANGED program
  BY <1>2 DEF KernelInv, HoldsAt
<1>3. CASE OutOfMemory
  BY <1>3 DEF OutOfMemory, KernelInv
<1>4. CASE (fs_init \/ disk_init) /\ UNCHANGED program
  <2>1. UNCHANGED <<file_descriptors, opened>> /\ mode = "off"
    BY <1>4 DEF fs_init, disk_init, fat16_resolve
  <2> QED
    BY <1>4, <2>1, KeepsHolding DEF KernelInv
<1>5. CASE UNCHANGED allVars
  <2>1. UNCHANGED <<file_descriptors, opened, mode, program>>
    BY <1>5 DEF allVars, fsVars, tableVars, vars
  <2> QED
    BY <2>1, KeepsHolding DEF KernelInv
<1> QED
  BY <1>1, <1>2, <1>3, <1>4, <1>5 DEF FsNext

(***************************************************************************)
(* kernel_main uses its indexes in time, on every disk and with every size *)
(* of the table and of the heap: fd, fd2 and fd3 stand for the files they  *)
(* were opened for where they are used, and at the end only fd is open.    *)
(***************************************************************************)
THEOREM KernelUses == FsSpec => []KernelUsesOpenIndexes
<1>1. FsInit => FsTypes /\ ServesInv /\ Blocks /\ KernelInv
  BY InitRefines, InitServes, InitBlocks, InitKernel
<1>2. FsTypes /\ ServesInv /\ Blocks /\ KernelInv /\ [FsNext]_allVars =>
        FsTypes' /\ ServesInv' /\ Blocks' /\ KernelInv'
  BY NextRefines, NextServes, NextBlocks, NextKernel
<1>3. FsTypes /\ KernelInv => KernelUsesOpenIndexes
  <2> SUFFICES ASSUME FsTypes, KernelInv, mode = "run"
               PROVE  KernelUsesOpenIndexes
    BY DEF KernelUsesOpenIndexes
  <2>1. HoldsAt(program.at)
    BY DEF FsTypes, Programs, KernelInv
  <2> QED
    BY <2>1 DEF HoldsAt, MainPart, KokoPart, UsedBeside, StandsFor, KernelUsesOpenIndexes
<1> QED
  BY <1>1, <1>2, <1>3, PTL DEF FsSpec
=============================================================================
