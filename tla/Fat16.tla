------------------------------- MODULE Fat16 --------------------------------
(***************************************************************************)
(* The FAT16 driver, src/src/lib/fs/fat16/fat16.c: the directory and the   *)
(* clusters on the disk, the root directory that fat16_resolve caches when *)
(* the disk is mounted, and the descriptors that fat16_open hands out.     *)
(*                                                                         *)
(* The disk is counted in sectors from the start of the root directory,    *)
(* and a sector holds one directory item or one piece of file data: the    *)
(* scan for the end of a directory, the place of a new item and the first  *)
(* sector of cluster 2 right behind the root directory are related as they *)
(* are on the disk.  Positions inside a sector are the business of         *)
(* disk_stream.c.  Each call runs to its end, because no interrupt handler *)
(* enters the driver, but the power may fail between two sectors.          *)
(***************************************************************************)
EXTENDS Integers, Sequences, FiniteSets

CONSTANTS
  RootEntries,        \* root_dir_entries
  SectorsPerCluster,
  LastCluster,        \* the data area holds clusters 2 .. LastCluster
  CountMod,           \* disk.c passes the sector count on as a uint8_t
  SizeMod,            \* the number of values of a uint32_t
  Descriptors,        \* the addresses of Fat_File_Descriptors
  Names,              \* names that callers ask for
  Created,            \* "KOKO.TXT", the name fat16_new_file_item writes
  Deleted,            \* a name that begins with 0xe5
  Empty,              \* the name that an item of 0 bytes spells
  Data,               \* what callers write: one value per sector
  Zero,               \* a sector, or an item, that begins with a 0 byte
  None,               \* no descriptor, or no cached directory
  Images,             \* root directory and clusters when the machine starts
  ReservedWords,      \* what fat16_get_fat_entry finds at its positions
  BlockItems,         \* items that fit in the heap block of the cache
  Strays,             \* items that the heap behind that block may spell
  MaxSize             \* bound: the longest read or write, in sectors

VARIABLES
  mode,     \* "off", "run", "hung" in a loop without end, or "wild"
  disk,     \* the sectors, from the root directory on
  words,    \* words[c]: the word that fat16_get_fat_entry reads for cluster c
  cache,    \* private->root_directory, None while nothing is mounted
  desc,     \* the open Fat_File_Descriptors
  result    \* what the last call returned

vars == <<mode, disk, words, cache, desc, result>>

Clusters    == 2 .. LastCluster
RootSectors == 0 .. (RootEntries - 1)
Sectors     == 0 .. (RootEntries + (LastCluster - 1) * SectorsPerCluster - 1)
DataSectors == Sectors \ RootSectors

(* Fat_Directory_Item, without the fields that nothing reads. *)
Items == [name    : Names \cup {Created, Deleted, Empty},
          cluster : {0} \cup Clusters,
          size    : 0 .. (SizeMod - 1),
          dir     : BOOLEAN]

IsItem(content) == content # Zero /\ content \notin Data

ASSUME FatAssumption ==
  /\ RootEntries \in Nat \ {0}
  /\ SectorsPerCluster \in Nat \ {0}
  /\ LastCluster \in Nat /\ LastCluster >= 3
  /\ CountMod \in Nat \ {0}
  /\ SizeMod \in Nat \ {0}
  /\ MaxSize \in Nat
  /\ Deleted \notin Names /\ Created # Deleted /\ Created # Empty
  /\ BlockItems \in Nat /\ BlockItems >= RootEntries
  /\ Strays \subseteq Items
  /\ Zero \notin Data \cup Items /\ None \notin Items
  /\ Data \cap Items = {}
  /\ Images \subseteq [Sectors -> {Zero} \cup Data \cup Items]
  (* Bound: the code finds any 16-bit value there, here clusters of the disk. *)
  /\ ReservedWords \subseteq [0 .. LastCluster -> 0 .. LastCluster]

(***************************************************************************)
(* Disk images as mtools or a vfat mount leaves them: items are stored     *)
(* without gaps, and data follows behind the root directory.               *)
(***************************************************************************)
ASSUME ImageAssumption ==
  \A image \in Images :
    /\ \A s \in RootSectors : image[s] \notin Data
    /\ \A s \in DataSectors : ~IsItem(image[s])
    /\ \A s \in RootSectors : IsItem(image[s]) => image[s].name # Empty
    /\ \A s, t \in RootSectors : s < t /\ image[t] # Zero => image[s] # Zero

(* The boot sector's clusters of 128 sectors against a uint8_t. *)
ASSUME GeometryAssumption == CountMod <= 2 * SectorsPerCluster

-----------------------------------------------------------------------------
(***************************************************************************)
(* Clusters and the file allocation table.                                 *)
(***************************************************************************)

(* Any of the marks that fat16_is_entry_invalid knows besides 0. *)
EndMark == 1

(* Where SYSTEM_FAIL, taken for a cluster number, leads: off the disk. *)
SYSTEM_FAIL == -49

fat16_is_entry_invalid(entry) == entry \in {0, EndMark}
fat16_is_entry_free(entry)    == entry = 0

fat16_cluster_to_sector(cluster) ==
  RootEntries + (cluster - 2) * SectorsPerCluster

ClusterSectors(cluster) ==
  fat16_cluster_to_sector(cluster)
    .. (fat16_cluster_to_sector(cluster) + SectorsPerCluster - 1)

(***************************************************************************)
(* fat16_get_fat_entry multiplies the first FAT sector with the byte       *)
(* offset of the entry, where it should add; with 200 reserved sectors the *)
(* words of clusters 3 .. 255 lie in the reserved area, which no call      *)
(* writes.  They are whatever the kernel image holds there.                *)
(***************************************************************************)
fat16_get_fat_entry(cluster) == words[cluster]

(* fat16_get_cluster_for_offset: ahead steps along the probed words. *)
Walk[ahead \in Nat] ==
  [cluster \in 0 .. LastCluster |->
     IF ahead = 0 THEN cluster
     ELSE LET entry == fat16_get_fat_entry(cluster)
          IN  IF fat16_is_entry_invalid(entry) THEN SYSTEM_FAIL ELSE Walk[ahead - 1][entry]]

(* Mutant of fat16_get_cluster_for_offset: one step too many. *)
fat16_get_cluster_for_offset_OneMore(cluster, offset) ==
  Walk[(offset + SectorsPerCluster - 1) \div SectorsPerCluster][cluster]

(* The cluster that holds the sector at this offset of the file. *)
fat16_get_cluster_for_offset(cluster, offset) ==
  Walk[offset \div SectorsPerCluster][cluster]

(***************************************************************************)
(* fat16_read_internal_from_stream: the sectors it delivers.  A negative   *)
(* cluster is never noticed, because it is held in an unsigned variable.   *)
(* The rest behind the first piece starts from the cluster already walked  *)
(* to, and yet with the full offset.                                       *)
(***************************************************************************)
Pieces[total \in Nat] ==
  [cluster \in 0 .. LastCluster |-> [offset \in Nat |->
     LET at    == fat16_get_cluster_for_offset(cluster, offset)
         start == fat16_cluster_to_sector(at) + (offset % SectorsPerCluster)
         piece == IF total > SectorsPerCluster THEN SectorsPerCluster ELSE total
     IN  IF at = SYSTEM_FAIL THEN <<SYSTEM_FAIL>>
         ELSE [i \in 1 .. piece |-> start + i - 1]
                \o IF total > piece THEN Pieces[total - piece][at][offset + piece]
                                    ELSE <<>>]]

fat16_read_internal(cluster, offset, total) == Pieces[total][cluster][offset]

(* Mutant of fat16_get_free_cluster: it returns the cluster behind the free one. *)
fat16_get_free_cluster_Behind ==
  CHOOSE c \in 4 .. (LastCluster + 1) :
    /\ fat16_is_entry_free(fat16_get_fat_entry(c - 1))
    /\ \A b \in 3 .. (c - 2) : ~fat16_is_entry_free(fat16_get_fat_entry(b))

(* Mutant of fat16_get_free_cluster: it goes on behind the last one it gave. *)
fat16_get_free_cluster_Resumes ==
  CHOOSE c \in 3 .. LastCluster :
    \/ /\ fat16_is_entry_free(fat16_get_fat_entry(c))
       /\ \A s \in Sectors : IsItem(disk[s]) => disk[s].cluster # c
    \/ c = LastCluster

(***************************************************************************)
(* fat16_get_free_cluster: the first cluster from 3 on whose word is 0.    *)
(* Nothing marks it as used, and where there is none the search goes on    *)
(* to words that do not exist.  The SYSTEM_FAIL for a word of 0 behind the *)
(* last cluster is left out: on the image that is built, the kernel does   *)
(* not fill the reserved sectors, and the search ends before.              *)
(***************************************************************************)
SearchEnds ==
  \E c \in 3 .. LastCluster : fat16_is_entry_free(fat16_get_fat_entry(c))

fat16_get_free_cluster ==
  CHOOSE c \in 3 .. LastCluster :
    /\ fat16_is_entry_free(fat16_get_fat_entry(c))
    /\ \A b \in 3 .. (c - 1) : ~fat16_is_entry_free(fat16_get_fat_entry(b))

-----------------------------------------------------------------------------
(***************************************************************************)
(* Directories.                                                            *)
(***************************************************************************)

(* Mutant: while the machine runs, the cached number is taken. *)
fat16_get_total_items_for_directory_Cached(start) ==
  IF mode = "run" THEN cache.total
  ELSE Cardinality({s \in Sectors : \A t \in 0 .. s : disk[t] # Zero})

(***************************************************************************)
(* fat16_get_total_items_for_directory: the items before the first 0 byte. *)
(* Deleted items count, because a char never equals 0xe5.  The scan knows  *)
(* no end of the root directory.                                           *)
(***************************************************************************)
fat16_get_total_items_for_directory(start) ==
  Cardinality({s \in Sectors : /\ s >= start
                               /\ \A t \in start .. s : disk[t] # Zero})

(* Bound: the scan comes to a 0 byte before the modelled sectors end. *)
ScanEnds == \E s \in Sectors : disk[s] = Zero

(* Mutant of fat16_get_root_directory: every slot counts as an item. *)
fat16_get_root_directory_AllSlots ==
  [item |-> [i \in RootSectors |-> disk[i]], total |-> RootEntries]

(* fat16_get_root_directory: what the mount keeps in memory. *)
fat16_get_root_directory ==
  [item  |-> [i \in RootSectors |-> disk[i]],
   total |-> fat16_get_total_items_for_directory(0)]

(***************************************************************************)
(* fat16_find_item_in_directory looks at the cached copy, up to the number *)
(* that the scan counted.  The copy ends after root_dir_entries items, and *)
(* the scan does not: for a full root directory the loop goes on, through  *)
(* the rest of the copy's heap block, which is 0, into other heap data.    *)
(***************************************************************************)
Blank == [name |-> Empty, cluster |-> 0, size |-> 0, dir |-> FALSE]

ItemAt(i) == IF i \in RootSectors /\ cache.item[i] # Zero THEN cache.item[i] ELSE Blank

Matches(name) ==
  {i \in 0 .. (BlockItems - 1) : /\ i < cache.total
                                 /\ IsItem(ItemAt(i))
                                 /\ ItemAt(i).name = name}

StrayMatches(name) ==
  {item \in Strays : cache.total > BlockItems /\ item.name = name}

(* The last match in the block.  The loop goes on after a match. *)
LastMatch(name) ==
  IF Matches(name) = {} THEN None
  ELSE ItemAt(CHOOSE i \in Matches(name) : \A j \in Matches(name) : j <= i)

(* What the loop may come back with. *)
fat16_find_item_in_directory(name) == {LastMatch(name)} \cup StrayMatches(name)

(* fat16_new_file_item: its name is not the one in the path. *)
fat16_new_file_item == [name |-> Created, cluster |-> 0, size |-> 0, dir |-> FALSE]

-----------------------------------------------------------------------------
Init ==
  /\ mode = "off"
  /\ disk \in Images
  /\ words \in ReservedWords
  /\ cache = None
  /\ desc = [d \in Descriptors |-> None]
  /\ result = "OK"

(***************************************************************************)
(* Boot and fat16_resolve, when the signature is the one it looks for and  *)
(* when it is not.                                                         *)
(***************************************************************************)
fat16_resolve ==
  /\ mode = "off"
  /\ ScanEnds
  /\ mode' = "run"
  /\ \/ cache' = fat16_get_root_directory /\ result' = "OK"
     \/ cache' = None /\ result' = "WRONG_FILESYSTEM"
  /\ UNCHANGED <<disk, words, desc>>

Mounted == mode = "run" /\ cache # None

Open(d, item) == desc' = [desc EXCEPT ![d] = [item |-> item, pos |-> 0]]

fat16_open_for_read(d, name) ==
  \E item \in fat16_find_item_in_directory(name) :
    \/ /\ item # None
       /\ Open(d, item)
       /\ result' = "OK"
    \/ /\ item = None
       /\ result' = "FS_CANNOT_GET_FILE"
       /\ UNCHANGED desc

fat16_open_for_write(d, name) ==
  \E item \in fat16_find_item_in_directory(name) :
    /\ Open(d, IF item = None THEN fat16_new_file_item ELSE item)
    /\ result' = "OK"

fat16_open(d, name, file_mode) ==
  /\ Mounted
  /\ desc[d] = None
  /\ \/ file_mode = "READ" /\ fat16_open_for_read(d, name)
     \/ file_mode = "WRITE" /\ fat16_open_for_write(d, name)
     \/ /\ file_mode = "APPEND"
        /\ result' = "INVALID_ARGUMENT"
        /\ UNCHANGED desc
  /\ UNCHANGED <<mode, disk, words, cache>>

(* A call on an open descriptor; each begins with the check of item->type. *)
IsOpen(d) == Mounted /\ desc[d] # None

RefusesDirectory(d) ==
  /\ IsOpen(d)
  /\ desc[d].item.dir
  /\ result' = "INVALID_ARGUMENT"
  /\ UNCHANGED <<mode, disk, words, cache, desc>>

(***************************************************************************)
(* fat16_read: nmemb pieces of the given size, from pos on, whatever the   *)
(* file size.  A walk that ran into an invalid word asks the controller    *)
(* for a sector that does not exist, and disk_read_sector polls forever.   *)
(***************************************************************************)
Delivered(d, size, member) ==
  fat16_read_internal(desc[d].item.cluster, desc[d].pos + member * size, size)

ReadHangs(d, size, nmemb) ==
  \E m \in 0 .. (nmemb - 1) :
    LET sectors == Delivered(d, size, m)
    IN  \E i \in DOMAIN sectors : sectors[i] = SYSTEM_FAIL

fat16_read(d, size, nmemb) ==
  \/ RefusesDirectory(d)
  \/ /\ IsOpen(d)
     /\ ~desc[d].item.dir
     /\ mode' = IF ReadHangs(d, size, nmemb) THEN "hung" ELSE mode
     /\ result' = "OK"
     /\ UNCHANGED <<disk, words, cache, desc>>

-----------------------------------------------------------------------------
(***************************************************************************)
(* fat16_write.  The first write to an item without a cluster picks one    *)
(* and stores the item behind the last one of the root directory.          *)
(***************************************************************************)
FirstWrite(d) == desc[d].item.cluster = 0

SearchHangs(d) ==
  /\ IsOpen(d)
  /\ ~desc[d].item.dir
  /\ FirstWrite(d) /\ ~SearchEnds
  /\ mode' = "hung"
  /\ result' = "OK"
  /\ UNCHANGED <<disk, words, cache, desc>>

ItemToWrite(d) ==
  IF FirstWrite(d) THEN [desc[d].item EXCEPT !.cluster = fat16_get_free_cluster]
                   ELSE desc[d].item

(* Mutant of fat16_get_next_item_position: one item is left out. *)
fat16_get_next_item_position_OneMore == fat16_get_total_items_for_directory(0) + 1

(* The place behind the last item, counted in items. *)
fat16_get_next_item_position == fat16_get_total_items_for_directory(0)

(* An item of the empty name leaves a sector that begins with a 0 byte. *)
AfterItem(d) ==
  IF FirstWrite(d) /\ desc[d].item.name # Empty
    THEN [disk EXCEPT ![fat16_get_next_item_position] = ItemToWrite(d)]
    ELSE disk

(* Data in the first count sectors from the start of the cluster on. *)
WithData(sectors, d, value, count) ==
  LET start == fat16_cluster_to_sector(ItemToWrite(d).cluster)
  IN  [s \in Sectors |-> IF s \in start .. (start + count - 1) THEN value
                                                               ELSE sectors[s]]

(* Mutant of SectorCount: the last sector, only begun, is not counted. *)
SectorCount_OneLess(size) == (size - 1) % CountMod

(* Mutant of SectorCount: the count is not narrowed to eight bits. *)
SectorCount_Wide(size) == size

(* disk_write_block's parameter is a uint8_t. *)
SectorCount(size) == size % CountMod

(* Mutant of CutShort: the data goes to the disk before the item. *)
CutShort_DataFirst(d, value, count) ==
  {disk} \cup {WithData(disk, d, value, n) : n \in 1 .. count}

(* What is on the disk when the power fails inside fat16_write. *)
CutShort(d, value, count) ==
  {disk, AfterItem(d)} \cup {WithData(AfterItem(d), d, value, n) : n \in 1 .. (count - 1)}

(* Bound: the data ends inside the modelled sectors. *)
DataEnds(d, count) ==
  fat16_cluster_to_sector(ItemToWrite(d).cluster) + count - 1 \in Sectors

fat16_write(d, value, size) ==
  LET count == SectorCount(size)
  IN  \/ RefusesDirectory(d)
      \/ SearchHangs(d)
      \/ /\ IsOpen(d)
         /\ ~desc[d].item.dir
         /\ FirstWrite(d) => SearchEnds
         /\ ScanEnds
         /\ DataEnds(d, count)
         /\ desc' = [desc EXCEPT ![d].item = ItemToWrite(d)]
         /\ \/ /\ count = 0
               /\ disk' = AfterItem(d)
               /\ result' = "DISK_FAIL_TO_WRITE_STREAM"
            \/ /\ count > 0
               /\ disk' = WithData(AfterItem(d), d, value, count)
               /\ result' = "OK"
         /\ UNCHANGED <<mode, words, cache>>

Forget ==
  /\ mode' = "off"
  /\ cache' = None
  /\ desc' = [d \in Descriptors |-> None]
  /\ result' = "OK"

(* The power fails between two sectors that fat16_write writes. *)
PowerFailsInWrite(d, value, size) ==
  /\ IsOpen(d)
  /\ ~desc[d].item.dir
  /\ FirstWrite(d) => SearchEnds
  /\ ScanEnds
  /\ DataEnds(d, SectorCount(size))
  /\ disk' \in CutShort(d, value, SectorCount(size))
  /\ Forget
  /\ UNCHANGED words

(* The power fails, or the machine is reset, between two calls. *)
PowerFails ==
  /\ mode # "off"
  /\ Forget
  /\ UNCHANGED <<disk, words>>

-----------------------------------------------------------------------------
Sum(d, offset) == (desc[d].pos + offset) % SizeMod

MoveTo(d, pos) ==
  /\ desc' = [desc EXCEPT ![d].pos = pos]
  /\ result' = "OK"
  /\ UNCHANGED <<mode, disk, words, cache>>

Return(code) ==
  /\ result' = code
  /\ UNCHANGED <<mode, disk, words, cache, desc>>

fat16_seek(d, offset, seek_mode) ==
  \/ RefusesDirectory(d)
  \/ /\ IsOpen(d)
     /\ ~desc[d].item.dir
     /\ \/ offset >= desc[d].item.size /\ Return("SYSTEM_FAIL")
        \/ /\ offset < desc[d].item.size
           /\ \/ seek_mode = "SET" /\ MoveTo(d, offset)
              \/ seek_mode = "END" /\ Return("NOT_IMPLEMENTED")
              \/ /\ seek_mode = "CUR"
                 /\ IF Sum(d, offset) >= desc[d].item.size
                      THEN Return("SYSTEM_FAIL")
                      ELSE MoveTo(d, Sum(d, offset))

fat16_stat(d) ==
  \/ RefusesDirectory(d)
  \/ /\ IsOpen(d)
     /\ ~desc[d].item.dir
     /\ Return("OK")

(***************************************************************************)
(* fat16_close.  For a directory, fat16_free_item takes the copy of the    *)
(* item for a Fat_Directory and frees the address that the first letters   *)
(* of its name spell.                                                      *)
(***************************************************************************)
fat16_close(d) ==
  /\ IsOpen(d)
  /\ desc' = [desc EXCEPT ![d] = None]
  /\ mode' = IF desc[d].item.dir THEN "wild" ELSE mode
  /\ result' = "OK"
  /\ UNCHANGED <<disk, words, cache>>

Next ==
  \/ fat16_resolve
  \/ \E d \in Descriptors, name \in Names, file_mode \in {"READ", "WRITE", "APPEND"} :
       fat16_open(d, name, file_mode)
  \/ \E d \in Descriptors, size \in 1 .. MaxSize, nmemb \in 1 .. 2 :
       fat16_read(d, size, nmemb)
  \/ \E d \in Descriptors, value \in Data, size \in 1 .. MaxSize :
       fat16_write(d, value, size) \/ PowerFailsInWrite(d, value, size)
  \/ \E d \in Descriptors, offset \in 0 .. (SizeMod - 1),
       seek_mode \in {"SET", "CUR", "END"} : fat16_seek(d, offset, seek_mode)
  \/ \E d \in Descriptors : fat16_stat(d)
  \/ \E d \in Descriptors : fat16_close(d)
  \/ PowerFails

Spec == Init /\ [][Next]_vars

-----------------------------------------------------------------------------
(* Type correctness of the disk, the cache and the descriptors. *)
TypeOK ==
  /\ mode \in {"off", "run", "hung", "wild"}
  /\ disk \in [Sectors -> {Zero} \cup Data \cup Items]
  /\ words \in ReservedWords
  /\ cache = None \/ cache \in [item  : [RootSectors -> {Zero} \cup Data \cup Items],
                                total : 0 .. Cardinality(Sectors)]
  /\ desc \in [Descriptors -> {None} \cup [item : Items, pos : 0 .. (SizeMod - 1)]]

RootFull == \A s \in RootSectors : disk[s] # Zero

(***************************************************************************)
(* No write, finished or cut short, changes or loses an item of the root   *)
(* directory: not by a new item put in the wrong place, although the       *)
(* driver counts items while it scans slots, and not by file data.         *)
(***************************************************************************)
ItemsAreNeverOverwritten ==
  [][\A s \in RootSectors : disk[s] # Zero => disk'[s] = disk[s]]_vars

(***************************************************************************)
(* Items leave no gap, so the scan that stops at the first 0 byte, at the  *)
(* next mount or for the next new file, comes past every one of them; and  *)
(* an item ends up behind the root directory, in the data of cluster 2,    *)
(* only when the root directory is full.                                   *)
(***************************************************************************)
ItemsWithoutGaps ==
  /\ \A s, t \in RootSectors : s < t /\ disk[t] # Zero => disk[s] # Zero
  /\ (\E s \in DataSectors : IsItem(disk[s])) => RootFull

(***************************************************************************)
(* The cached root directory is never refreshed, and still every item that *)
(* open finds is an item that the disk holds now, whatever was created     *)
(* since the mount.  The exceptions are those of a root directory that was *)
(* full at the mount, with something behind it that the scan took for more *)
(* items: the empty name is then found where the disk has no such item,    *)
(* and any name once the scan counted more than the heap block holds.      *)
(***************************************************************************)
OpenFindsItemsOfTheDisk ==
  cache # None =>
    \A name \in Names : \A item \in fat16_find_item_in_directory(name) \ {None} :
      \/ \E s \in RootSectors : disk[s] = item
      \/ cache.total > RootEntries /\ name = Empty
      \/ cache.total > BlockItems

(***************************************************************************)
(* Data that a write puts on the disk, finished or cut short, lies in a    *)
(* cluster that an item on the disk names as its first, or in the cluster  *)
(* right behind it: the item is stored before the data, and the eight-bit  *)
(* sector count keeps a write of more than one cluster from reaching any   *)
(* further.                                                                *)
(***************************************************************************)
DataLiesUnderAnItem ==
  [][~RootFull =>
       \A s \in DataSectors :
         disk'[s] \in Data /\ disk'[s] # disk[s] =>
           \E t \in RootSectors :
             /\ IsItem(disk'[t])
             /\ disk'[t].cluster # 0
             /\ s \in ClusterSectors(disk'[t].cluster)
                        \cup ClusterSectors(disk'[t].cluster + 1)]_vars

(***************************************************************************)
(* Every file this driver creates gets the same first cluster, because the *)
(* cluster it finds free is never marked as used: of two created files,    *)
(* the one written last is what both hold.                                 *)
(***************************************************************************)
CreatedFilesShareACluster ==
  \A s, t \in RootSectors :
    /\ IsItem(disk[s]) /\ disk[s].name = Created
    /\ IsItem(disk[t]) /\ disk[t].name = Created
    => disk[s].cluster = disk[t].cluster

(***************************************************************************)
(* What a read delivers, against sector p of the file as the chain of      *)
(* words gives it.  They agree for a read inside one cluster and for one   *)
(* that starts at 0 and ends in the second cluster; not for others.        *)
(***************************************************************************)
ChainSector(cluster, p) ==
  LET walked == Walk[p \div SectorsPerCluster][cluster]
  IN  IF walked = SYSTEM_FAIL THEN SYSTEM_FAIL
      ELSE fat16_cluster_to_sector(walked) + (p % SectorsPerCluster)

ReadFollowsChain ==
  \A d \in Descriptors : desc[d] # None =>
    \A size \in 1 .. MaxSize :
      LET pos     == desc[d].pos
          sectors == Delivered(d, size, 0)
      IN  \/ (pos % SectorsPerCluster) + size <= SectorsPerCluster
          \/ pos = 0 /\ size <= 2 * SectorsPerCluster
          => \A i \in DOMAIN sectors :
               sectors[i] = ChainSector(desc[d].item.cluster, pos + i - 1)

(***************************************************************************)
(* What kernel.c:68-77 tries: a file that was written can be opened for    *)
(* reading while the kernel keeps running.                                 *)
(***************************************************************************)
WrittenFileCanBeRead ==
  cache # None =>
    \A s \in RootSectors :
      IsItem(disk[s]) => None \notin fat16_find_item_in_directory(disk[s].name)

(***************************************************************************)
(* fat16.c:552, "loop through directory items": what open loops through    *)
(* are items of the directory.                                             *)
(***************************************************************************)
LoopsThroughDirectoryItems ==
  cache # None => 0 .. (cache.total - 1) \subseteq RootSectors
=============================================================================
