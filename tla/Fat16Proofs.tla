----------------------------- MODULE Fat16Proofs ------------------------------
(***************************************************************************)
(* Theorems about Fat16, for every geometry of the disk, all images that   *)
(* ImageAssumption allows and any number of descriptors: items, cache and  *)
(* data on the disk, created files, and the sectors that a read asks for.  *)
(***************************************************************************)
EXTENDS Fat16, FiniteSetTheorems, WellFoundedInduction, TLAPS

Contents == {Zero} \cup Data \cup Items

(* A set of numbers that is not empty has a least element. *)
LEMMA LeastOf ==
  ASSUME NEW T, T \subseteq Nat, T # {}
  PROVE  \E s \in T : \A t \in T : s <= t
<1>1. PICK s \in T : \A t \in T : ~(<<t, s>> \in OpToRel(<, Nat))
  BY WFMin, NatLessThanWellFounded
<1>2. \A x, y \in Nat : x < y => <<x, y>> \in OpToRel(<, Nat)
  BY Zenon DEF OpToRel
<1>3. \A t \in T : ~(t < s)
  BY <1>1, <1>2, Zenon
<1> QED
  BY <1>3

(* And one that lies below a bound has a greatest element. *)
LEMMA GreatestOf ==
  ASSUME NEW T, NEW n \in Nat, T \subseteq 0 .. n, T # {}
  PROVE  \E s \in T : \A t \in T : t <= s
<1> DEFINE S == {n - t : t \in T}
<1>1. S \subseteq Nat /\ S # {}
  <2>1. \A t \in T : t \in 0 .. n
    OBVIOUS
  <2>2. \A t \in 0 .. n : n - t \in Nat
    OBVIOUS
  <2> QED
    BY <2>1, <2>2
<1>2. PICK m \in S : \A k \in S : m <= k
  BY <1>1, LeastOf
<1>3. PICK s \in T : m = n - s
  OBVIOUS
<1>4. ASSUME NEW t \in T
      PROVE  t <= s
  <2>1. n - t \in S
    OBVIOUS
  <2>2. m <= n - t /\ s \in Int /\ t \in Int
    BY <1>2, <2>1
  <2> HIDE DEF S
  <2> QED
    BY <1>3, <2>2
<1> QED
  BY <1>4

-----------------------------------------------------------------------------
(***************************************************************************)
(* Sectors and clusters.                                                   *)
(***************************************************************************)
LEMMA SectorFacts ==
  /\ RootSectors \subseteq Sectors /\ Sectors \subseteq Nat
  /\ \A s \in DataSectors : s \in Sectors /\ s \notin RootSectors
  /\ \A s \in Sectors : \A t \in 0 .. s : t \in Sectors
  /\ IsFiniteSet(Sectors)
<1> DEFINE n == RootEntries + (LastCluster - 1) * SectorsPerCluster - 1
<1>1. (LastCluster - 1) * SectorsPerCluster \in Nat /\ RootEntries \in Nat \ {0}
  <2>1. LastCluster - 1 \in Nat /\ SectorsPerCluster \in Nat
    BY FatAssumption
  <2>2. \A a, b \in Nat : a * b \in Nat
    OBVIOUS
  <2> QED
    BY <2>1, <2>2, FatAssumption
<1>2. n \in Nat /\ RootEntries - 1 <= n
  BY <1>1
<1>3. Sectors = 0 .. n
  BY DEF Sectors
<1> HIDE DEF n
<1>4. IsFiniteSet(Sectors)
  BY <1>2, <1>3, FS_Interval
<1> QED
  BY <1>1, <1>2, <1>3, <1>4 DEF RootSectors, DataSectors

(* Cluster c is behind the root directory. *)
LEMMA ClusterIsData ==
  ASSUME NEW c \in Clusters
  PROVE  fat16_cluster_to_sector(c) \in Nat /\ fat16_cluster_to_sector(c) >= RootEntries
<1>1. c - 2 \in Nat /\ SectorsPerCluster \in Nat /\ RootEntries \in Nat
  BY FatAssumption DEF Clusters
<1>2. \A a, b \in Nat : a * b \in Nat
  OBVIOUS
<1>3. (c - 2) * SectorsPerCluster \in Nat
  BY <1>1, <1>2
<1> QED
  BY <1>1, <1>3 DEF fat16_cluster_to_sector

LEMMA FreeClusterIsOne ==
  ASSUME words \in ReservedWords, SearchEnds
  PROVE  fat16_get_free_cluster \in Clusters
<1> DEFINE T == {c \in 3 .. LastCluster : fat16_is_entry_free(fat16_get_fat_entry(c))}
<1>1. T \subseteq Nat /\ T # {}
  BY FatAssumption DEF SearchEnds
<1>2. PICK c \in T : \A b \in T : c <= b
  BY <1>1, LeastOf
<1>3. \A b \in 3 .. (c - 1) : ~fat16_is_entry_free(fat16_get_fat_entry(b))
  BY <1>2, FatAssumption
<1>4. \E e \in 3 .. LastCluster :
        /\ fat16_is_entry_free(fat16_get_fat_entry(e))
        /\ \A b \in 3 .. (e - 1) : ~fat16_is_entry_free(fat16_get_fat_entry(b))
  BY <1>2, <1>3
<1>5. fat16_get_free_cluster \in 3 .. LastCluster
  BY <1>4 DEF fat16_get_free_cluster
<1> QED
  BY <1>5, FatAssumption DEF Clusters

(***************************************************************************)
(* fat16_get_total_items_for_directory, from the start of the root         *)
(* directory, is the first sector that begins with a 0 byte.               *)
(***************************************************************************)
LEMMA TotalItems ==
  ASSUME ScanEnds
  PROVE  LET total == fat16_get_total_items_for_directory(0)
         IN  /\ total \in Sectors
             /\ disk[total] = Zero
             /\ \A t \in Sectors : t < total => disk[t] # Zero
<1> DEFINE T == {s \in Sectors : disk[s] = Zero}
           total == fat16_get_total_items_for_directory(0)
<1>1. T \subseteq Nat /\ T # {}
  BY SectorFacts DEF ScanEnds
<1>2. PICK n \in T : \A t \in T : n <= t
  BY <1>1, LeastOf
<1>3. n \in Sectors /\ n \in Nat /\ disk[n] = Zero
  BY <1>1
<1>4. \A t \in Sectors : t < n => disk[t] # Zero
  BY <1>2, SectorFacts
<1> HIDE DEF T
<1>5. {s \in Sectors : s >= 0 /\ \A t \in 0 .. s : disk[t] # Zero} = 0 .. (n - 1)
  <2>1. ASSUME NEW s \in 0 .. (n - 1)
        PROVE  s \in Sectors /\ s >= 0 /\ \A t \in 0 .. s : disk[t] # Zero
    <3>1. \A t \in 0 .. s : t \in 0 .. n /\ t < n
      BY <1>3
    <3>2. s \in 0 .. n
      BY <1>3
    <3> QED
      BY <1>3, <1>4, <3>1, <3>2, SectorFacts
  <2>2. ASSUME NEW s \in Sectors, \A t \in 0 .. s : disk[t] # Zero
        PROVE  s \in 0 .. (n - 1)
    <3>1. s \in Nat /\ n \notin 0 .. s
      BY <1>3, <2>2, SectorFacts
    <3> QED
      BY <1>3, <3>1
  <2> QED
    BY <2>1, <2>2
<1>6. Cardinality(0 .. (n - 1)) = n
  BY <1>3, FS_Interval
<1>7. total = n
  BY <1>5, <1>6 DEF fat16_get_total_items_for_directory
<1> QED
  BY <1>3, <1>4, <1>7

(* What open finds, in the cache, behind it or behind its heap block. *)
LEMMA FoundItem ==
  ASSUME NEW name, NEW item \in fat16_find_item_in_directory(name), item # None
  PROVE  \/ item \in Strays /\ item.name = name /\ cache.total > BlockItems
         \/ \E i \in Matches(name) : item = ItemAt(i)
<1>1. CASE item \in StrayMatches(name)
  BY <1>1 DEF StrayMatches
<1>2. CASE item = LastMatch(name)
  <2>1. Matches(name) # {} /\ Matches(name) \subseteq 0 .. BlockItems
    BY <1>2, FatAssumption DEF LastMatch, Matches
  <2>2. \E i \in Matches(name) : \A j \in Matches(name) : j <= i
    BY <2>1, GreatestOf, FatAssumption
  <2> QED
    BY <1>2, <2>1, <2>2 DEF LastMatch
<1> QED
  BY <1>1, <1>2 DEF fat16_find_item_in_directory

LEMMA FoundType ==
  ASSUME TypeOK, cache # None, NEW name, NEW item \in fat16_find_item_in_directory(name),
         item # None
  PROVE  item \in Items /\ item.name = name
<1>1. CASE item \in Strays /\ item.name = name
  BY <1>1, FatAssumption
<1>2. ASSUME NEW i \in Matches(name), item = ItemAt(i)
      PROVE  item \in Items /\ item.name = name
  <2>1. IsItem(item) /\ item.name = name
    BY <1>2 DEF Matches
  <2>2. Blank \in Items
    BY FatAssumption DEF Blank, Items
  <2>3. i \in RootSectors => cache.item[i] \in Contents
    BY DEF TypeOK, Contents
  <2> QED
    BY <1>2, <2>1, <2>2, <2>3 DEF ItemAt, IsItem, Contents
<1> QED
  BY <1>1, <1>2, FoundItem

-----------------------------------------------------------------------------
(***************************************************************************)
(* What fat16_write may put on the disk, all of it or up to a power        *)
(* failure.                                                                *)
(***************************************************************************)
Stores(d, value) ==
  {AfterItem(d)} \cup {WithData(AfterItem(d), d, value, n) : n \in 0 .. (CountMod - 1)}

Writes(d, value) == {disk} \cup Stores(d, value)

Writing(d) ==
  /\ IsOpen(d)
  /\ FirstWrite(d) => SearchEnds
  /\ ScanEnds

LEMMA SectorCountFacts ==
  ASSUME NEW size \in Nat
  PROVE  SectorCount(size) \in 0 .. (CountMod - 1)
  BY FatAssumption DEF SectorCount

LEMMA WriteShape ==
  ASSUME NEW d \in Descriptors, NEW value \in Data, NEW size \in Nat,
         fat16_write(d, value, size)
  PROVE  \/ UNCHANGED <<disk, words, cache, desc>> /\ mode' \in {mode, "hung"}
         \/ /\ Writing(d)
            /\ disk' \in Stores(d, value)
            /\ desc' = [desc EXCEPT ![d].item = ItemToWrite(d)]
            /\ UNCHANGED <<mode, words, cache>>
<1>1. SectorCount(size) \in 0 .. (CountMod - 1)
  BY SectorCountFacts
<1> QED
  BY <1>1 DEF fat16_write, RefusesDirectory, SearchHangs, Writing, Stores

LEMMA CutShape ==
  ASSUME NEW d \in Descriptors, NEW value \in Data, NEW size \in 1 .. MaxSize,
         PowerFailsInWrite(d, value, size)
  PROVE  Writing(d) /\ disk' \in Writes(d, value) /\ Forget /\ UNCHANGED words
<1>1. SectorCount(size) \in 0 .. (CountMod - 1)
  BY SectorCountFacts, FatAssumption
<1>2. 1 .. (SectorCount(size) - 1) \subseteq 0 .. (CountMod - 1)
  BY <1>1, FatAssumption
<1> QED
  BY <1>2 DEF PowerFailsInWrite, CutShort, Writing, Writes, Stores

LEMMA ItemFacts ==
  ASSUME TypeOK, NEW d \in Descriptors, Writing(d)
  PROVE  /\ ItemToWrite(d) \in Items
         /\ ItemToWrite(d).cluster \in Clusters
         /\ ItemToWrite(d).name = desc[d].item.name
         /\ desc[d] \in [item : Items, pos : 0 .. (SizeMod - 1)]
<1>1. desc[d] \in [item : Items, pos : 0 .. (SizeMod - 1)]
  BY DEF TypeOK, Writing, IsOpen
<1>2. desc[d].item \in Items
  BY <1>1
<1>3. CASE FirstWrite(d)
  <2>1. fat16_get_free_cluster \in Clusters
    BY <1>3, FreeClusterIsOne DEF Writing, TypeOK
  <2>2. ItemToWrite(d) = [desc[d].item EXCEPT !.cluster = fat16_get_free_cluster]
    BY <1>3 DEF ItemToWrite
  <2> QED
    BY <1>1, <1>2, <2>1, <2>2 DEF Items
<1>4. CASE ~FirstWrite(d)
  <2>1. ItemToWrite(d) = desc[d].item /\ desc[d].item.cluster # 0
    BY <1>4 DEF ItemToWrite, FirstWrite
  <2> QED
    BY <1>1, <1>2, <2>1 DEF Items
<1> QED
  BY <1>3, <1>4

LEMMA NotZero ==
  /\ \A item \in Items : item # Zero /\ item \notin Data
  /\ \A value \in Data : value # Zero /\ ~IsItem(value)
  BY FatAssumption DEF IsItem

LEMMA AfterItemFacts ==
  ASSUME TypeOK, NEW d \in Descriptors, Writing(d)
  PROVE  /\ AfterItem(d) \in [Sectors -> Contents]
         /\ \A s \in Sectors :
              \/ AfterItem(d)[s] = disk[s]
              \/ /\ s = fat16_get_next_item_position
                 /\ FirstWrite(d)
                 /\ ItemToWrite(d).name # Empty
                 /\ AfterItem(d)[s] = ItemToWrite(d)
<1>1. disk \in [Sectors -> Contents]
  BY DEF TypeOK, Contents
<1>2. ItemToWrite(d) \in Contents /\ ItemToWrite(d).name = desc[d].item.name
  BY ItemFacts DEF Contents
<1> QED
  BY <1>1, <1>2 DEF AfterItem

LEMMA WritesFacts ==
  ASSUME TypeOK, NEW d \in Descriptors, Writing(d), NEW value \in Data,
         NEW new \in Writes(d, value)
  PROVE  /\ new \in [Sectors -> Contents]
         /\ \A s \in RootSectors :
              \/ new[s] = disk[s]
              \/ /\ s = fat16_get_next_item_position
                 /\ FirstWrite(d)
                 /\ ItemToWrite(d).name # Empty
                 /\ new[s] = ItemToWrite(d)
         /\ \A s \in DataSectors :
              IsItem(new[s]) => IsItem(disk[s]) \/ s = fat16_get_next_item_position
<1> DEFINE after == AfterItem(d)
<1>1. /\ after \in [Sectors -> Contents] /\ disk \in [Sectors -> Contents]
      /\ \A s \in Sectors :
           \/ after[s] = disk[s]
           \/ /\ s = fat16_get_next_item_position
              /\ FirstWrite(d)
              /\ ItemToWrite(d).name # Empty
              /\ after[s] = ItemToWrite(d)
  BY AfterItemFacts DEF TypeOK, Contents
<1> HIDE DEF after
<1>2. RootSectors \subseteq Sectors /\ DataSectors \subseteq Sectors
  BY SectorFacts
<1>3. CASE new \in {disk, after}
  BY <1>1, <1>2, <1>3
<1>4. ASSUME NEW n \in 0 .. (CountMod - 1), new = WithData(after, d, value, n)
      PROVE  /\ new \in [Sectors -> Contents]
             /\ \A s \in RootSectors : new[s] = after[s]
             /\ \A s \in DataSectors : IsItem(new[s]) => IsItem(after[s])
  <2> DEFINE start == fat16_cluster_to_sector(ItemToWrite(d).cluster)
  <2>1. start \in Nat /\ start >= RootEntries
    BY ItemFacts, ClusterIsData
  <2>2. new = [s \in Sectors |-> IF s \in start .. (start + n - 1) THEN value ELSE after[s]]
    BY <1>4 DEF WithData
  <2> HIDE DEF start
  <2>3. \A s \in RootSectors : s \notin start .. (start + n - 1)
    BY <2>1, FatAssumption DEF RootSectors
  <2>4. value \in Contents /\ ~IsItem(value)
    BY NotZero DEF Contents
  <2> QED
    BY <1>1, <1>2, <2>2, <2>3, <2>4
<1>5. CASE \E n \in 0 .. (CountMod - 1) : new = WithData(after, d, value, n)
  BY <1>1, <1>2, <1>4, <1>5
<1> QED
  BY <1>3, <1>5 DEF Writes, Stores, after

-----------------------------------------------------------------------------
(***************************************************************************)
(* Types.                                                                  *)
(***************************************************************************)
LEMMA InitTypeOK == Init => TypeOK
  BY FatAssumption DEF Init, TypeOK, Contents

LEMMA DescType ==
  ASSUME TypeOK, NEW d \in Descriptors, NEW item \in Items, NEW pos \in 0 .. (SizeMod - 1)
  PROVE  [desc EXCEPT ![d] = [item |-> item, pos |-> pos]]
           \in [Descriptors -> {None} \cup [item : Items, pos : 0 .. (SizeMod - 1)]]
  BY DEF TypeOK

LEMMA ResolveKeepsTypes ==
  ASSUME TypeOK, fat16_resolve
  PROVE  TypeOK'
<1> DEFINE total == fat16_get_total_items_for_directory(0)
<1>1. [i \in RootSectors |-> disk[i]] \in [RootSectors -> Contents]
  BY SectorFacts DEF TypeOK, Contents
<1>2. total \in 0 .. Cardinality(Sectors)
  <2> DEFINE T == {s \in Sectors : /\ s >= 0 /\ \A t \in 0 .. s : disk[t] # Zero}
  <2>1. T \in SUBSET Sectors
    OBVIOUS
  <2>2. total = Cardinality(T)
    BY DEF fat16_get_total_items_for_directory
  <2> HIDE DEF T
  <2>3. Cardinality(T) <= Cardinality(Sectors) /\ IsFiniteSet(T)
    BY <2>1, SectorFacts, FS_Subset
  <2>4. Cardinality(T) \in Nat /\ Cardinality(Sectors) \in Nat
    BY <2>3, SectorFacts, FS_CardinalityType
  <2> QED
    BY <2>2, <2>3, <2>4
<1> HIDE DEF total
<1>3. cache' = None \/ cache' = [item |-> [i \in RootSectors |-> disk[i]], total |-> total]
  BY DEF fat16_resolve, fat16_get_root_directory, total
<1>4. mode' = "run" /\ UNCHANGED <<disk, words, desc>>
  BY DEF fat16_resolve
<1>5. cache' = None \/ cache' \in [item  : [RootSectors -> {Zero} \cup Data \cup Items],
                                   total : 0 .. Cardinality(Sectors)]
  BY <1>1, <1>2, <1>3 DEF Contents
<1> QED
  BY <1>4, <1>5 DEF TypeOK

LEMMA OpenShape ==
  ASSUME TypeOK, NEW d \in Descriptors, NEW name, NEW file_mode,
         fat16_open(d, name, file_mode)
  PROVE  /\ UNCHANGED <<mode, disk, words, cache>>
         /\ \/ UNCHANGED desc /\ result' # "OK"
            \/ /\ result' = "OK"
               /\ \E item \in Items : Open(d, item) /\ item.name \in {name, Created}
<1>1. cache # None /\ UNCHANGED <<mode, disk, words, cache>>
  BY DEF fat16_open, Mounted
<1>2. \A item \in fat16_find_item_in_directory(name) :
        item # None => item \in Items /\ item.name = name
  BY <1>1, FoundType
<1>3. fat16_new_file_item \in Items /\ fat16_new_file_item.name = Created
  BY FatAssumption DEF fat16_new_file_item, Items
<1> QED
  BY <1>1, <1>2, <1>3 DEF fat16_open, fat16_open_for_read, fat16_open_for_write

LEMMA OpenKeepsTypes ==
  ASSUME TypeOK, NEW d \in Descriptors, NEW name, NEW file_mode,
         fat16_open(d, name, file_mode)
  PROVE  TypeOK'
<1>1. 0 \in 0 .. (SizeMod - 1)
  BY FatAssumption
<1> QED
  BY <1>1, OpenShape, DescType DEF Open, TypeOK

LEMMA WriteKeepsTypes ==
  ASSUME TypeOK, NEW d \in Descriptors, NEW value \in Data, NEW size \in Nat,
         fat16_write(d, value, size)
  PROVE  TypeOK'
<1>1. CASE UNCHANGED <<disk, words, cache, desc>> /\ mode' \in {mode, "hung"}
  BY <1>1 DEF TypeOK
<1>2. CASE /\ Writing(d) /\ disk' \in Stores(d, value)
           /\ desc' = [desc EXCEPT ![d].item = ItemToWrite(d)]
           /\ UNCHANGED <<mode, words, cache>>
  <2>1. disk' \in [Sectors -> Contents]
    BY <1>2, WritesFacts DEF Writes
  <2>2. desc' \in [Descriptors -> {None} \cup [item : Items, pos : 0 .. (SizeMod - 1)]]
    BY <1>2, ItemFacts DEF TypeOK
  <2> QED
    BY <1>2, <2>1, <2>2 DEF TypeOK, Contents
<1> QED
  BY <1>1, <1>2, WriteShape

LEMMA SeekKeepsTypes ==
  ASSUME TypeOK, NEW d \in Descriptors, NEW offset \in 0 .. (SizeMod - 1), NEW seek_mode,
         fat16_seek(d, offset, seek_mode)
  PROVE  TypeOK'
<1>1. Sum(d, offset) \in 0 .. (SizeMod - 1) \/ desc[d] = None
  BY FatAssumption DEF Sum, TypeOK
<1>2. ASSUME NEW pos \in 0 .. (SizeMod - 1), MoveTo(d, pos), desc[d] # None
      PROVE  TypeOK'
  BY <1>2 DEF MoveTo, TypeOK
<1> QED
  BY <1>1, <1>2 DEF fat16_seek, RefusesDirectory, IsOpen, Return, TypeOK

LEMMA NextTypeOK == TypeOK /\ [Next]_vars => TypeOK'
<1> SUFFICES ASSUME TypeOK, [Next]_vars PROVE TypeOK'
  OBVIOUS
<1>1. ASSUME NEW d \in Descriptors, NEW size, NEW nmemb, fat16_read(d, size, nmemb)
      PROVE  TypeOK'
  BY <1>1 DEF fat16_read, RefusesDirectory, TypeOK
<1>2. 1 .. MaxSize \subseteq Nat
  BY FatAssumption
<1>3. ASSUME NEW d \in Descriptors, NEW value \in Data, NEW size \in 1 .. MaxSize,
             PowerFailsInWrite(d, value, size)
      PROVE  TypeOK'
  <2>1. disk' \in [Sectors -> Contents] /\ Forget /\ UNCHANGED words
    BY <1>3, CutShape, WritesFacts
  <2> QED
    BY <2>1 DEF TypeOK, Forget, Contents
<1>4. ASSUME NEW d \in Descriptors, fat16_stat(d) \/ fat16_close(d)
      PROVE  TypeOK'
  BY <1>4 DEF fat16_stat, fat16_close, RefusesDirectory, Return, TypeOK
<1>5. CASE PowerFails \/ UNCHANGED vars
  BY <1>5 DEF PowerFails, Forget, vars, TypeOK
<1> QED
  BY <1>1, <1>2, <1>3, <1>4, <1>5, ResolveKeepsTypes, OpenKeepsTypes, WriteKeepsTypes,
     SeekKeepsTypes DEF Next

(***************************************************************************)
(* Type correctness of the disk, the cache and the descriptors, for every  *)
(* geometry.                                                               *)
(***************************************************************************)
THEOREM FatTypes == Spec => []TypeOK
  BY InitTypeOK, NextTypeOK, PTL DEF Spec

-----------------------------------------------------------------------------
(***************************************************************************)
(* Items: where a step changes the disk.                                   *)
(***************************************************************************)
LEMMA DiskSteps ==
  ASSUME [Next]_vars
  PROVE  \/ UNCHANGED disk
         \/ \E d \in Descriptors, value \in Data : Writing(d) /\ disk' \in Writes(d, value)
<1>1. ASSUME NEW d \in Descriptors, NEW value \in Data, NEW size \in 1 .. MaxSize,
             fat16_write(d, value, size) \/ PowerFailsInWrite(d, value, size)
      PROVE  UNCHANGED disk \/ (Writing(d) /\ disk' \in Writes(d, value))
  BY <1>1, WriteShape, CutShape DEF Writes
<1>2. ASSUME NEW d \in Descriptors,
             \/ fat16_stat(d) \/ fat16_close(d)
             \/ \E name \in Names, file_mode \in {"READ", "WRITE", "APPEND"} :
                  fat16_open(d, name, file_mode)
             \/ \E size \in 1 .. MaxSize, nmemb \in 1 .. 2 : fat16_read(d, size, nmemb)
             \/ \E offset \in 0 .. (SizeMod - 1), seek_mode \in {"SET", "CUR", "END"} :
                  fat16_seek(d, offset, seek_mode)
      PROVE  UNCHANGED disk
  BY <1>2 DEF fat16_stat, fat16_close, fat16_open, fat16_read, fat16_seek,
              RefusesDirectory, Return, MoveTo
<1>3. CASE fat16_resolve \/ PowerFails \/ UNCHANGED vars
  BY <1>3 DEF fat16_resolve, PowerFails, vars
<1> QED
  BY <1>1, <1>2, <1>3 DEF Next

(* The place of a new item is the first sector that begins with a 0 byte. *)
LEMMA NextPosition ==
  ASSUME NEW d \in Descriptors, Writing(d)
  PROVE  /\ fat16_get_next_item_position \in Sectors
         /\ disk[fat16_get_next_item_position] = Zero
         /\ \A t \in Sectors : t < fat16_get_next_item_position => disk[t] # Zero
  BY TotalItems DEF Writing, fat16_get_next_item_position

LEMMA NothingOverwritten ==
  ASSUME TypeOK, [Next]_vars, NEW s \in RootSectors, disk[s] # Zero
  PROVE  disk'[s] = disk[s]
<1>1. CASE UNCHANGED disk
  BY <1>1
<1>2. ASSUME NEW d \in Descriptors, NEW value \in Data, Writing(d), disk' \in Writes(d, value)
      PROVE  disk'[s] = disk[s]
  BY <1>2, WritesFacts, NextPosition
<1> QED
  BY <1>1, <1>2, DiskSteps

(***************************************************************************)
(* No write, finished or cut short, changes or loses an item of the root   *)
(* directory, for every geometry of the disk and every image.              *)
(***************************************************************************)
THEOREM ItemsStay == Spec => ItemsAreNeverOverwritten
<1>1. TypeOK /\ [Next]_vars =>
        [\A s \in RootSectors : disk[s] # Zero => disk'[s] = disk[s]]_vars
  BY NothingOverwritten
<1> QED
  BY <1>1, FatTypes, PTL DEF Spec, ItemsAreNeverOverwritten

LEMMA InitWithoutGaps == Init => ItemsWithoutGaps
  BY ImageAssumption DEF Init, ItemsWithoutGaps

LEMMA NextWithoutGaps ==
  ASSUME TypeOK, ItemsWithoutGaps, [Next]_vars
  PROVE  ItemsWithoutGaps'
<1>1. CASE UNCHANGED disk
  BY <1>1 DEF ItemsWithoutGaps, RootFull, IsItem
<1>2. ASSUME NEW d \in Descriptors, NEW value \in Data, Writing(d), disk' \in Writes(d, value)
      PROVE  ItemsWithoutGaps'
  <2> DEFINE p == fat16_get_next_item_position
  <2>1. /\ p \in Sectors /\ p \in Nat
        /\ \A t \in Sectors : t < p => disk[t] # Zero
    BY <1>2, NextPosition, SectorFacts
  <2>2. /\ \A s \in RootSectors : disk'[s] = disk[s] \/ s = p
        /\ \A s \in DataSectors : IsItem(disk'[s]) => IsItem(disk[s]) \/ s = p
    BY <1>2, WritesFacts
  <2> HIDE DEF p
  <2>3. ASSUME NEW s \in RootSectors, NEW t \in RootSectors, s < t, disk'[t] # Zero
        PROVE  disk'[s] # Zero
    <3>1. s \in Sectors
      BY SectorFacts
    <3>2. disk[s] # Zero
      BY <2>1, <2>2, <2>3, <3>1 DEF ItemsWithoutGaps
    <3> QED
      BY <3>2, NothingOverwritten
  <2>4. ASSUME NEW s \in DataSectors, IsItem(disk'[s])
        PROVE  RootFull'
    <3>1. RootFull
      <4>1. CASE IsItem(disk[s])
        BY <4>1 DEF ItemsWithoutGaps
      <4>2. CASE s = p
        <5>1. \A t \in RootSectors : t \in Sectors /\ t < p
          BY <2>1, <4>2, SectorFacts, FatAssumption DEF DataSectors, RootSectors
        <5> QED
          BY <2>1, <5>1 DEF RootFull
      <4> QED
        BY <2>2, <2>4, <4>1, <4>2
    <3> QED
      BY <3>1, NothingOverwritten DEF RootFull
  <2> QED
    BY <2>3, <2>4 DEF ItemsWithoutGaps, IsItem
<1> QED
  BY <1>1, <1>2, DiskSteps

(***************************************************************************)
(* Items leave no gap, and lie behind the root directory only when it is   *)
(* full, for every geometry of the disk and every image.                   *)
(***************************************************************************)
THEOREM NoGaps == Spec => []ItemsWithoutGaps
<1>1. TypeOK /\ ItemsWithoutGaps /\ [Next]_vars => ItemsWithoutGaps'
  BY NextWithoutGaps
<1> QED
  BY <1>1, InitWithoutGaps, FatTypes, PTL DEF Spec

-----------------------------------------------------------------------------
(***************************************************************************)
(* The cached directory.  That it agrees with the disk is inductive only   *)
(* together with this: what it counts as an item is one on the disk, so no *)
(* write can take its place.                                               *)
(***************************************************************************)
CacheInv ==
  cache # None =>
    \A i \in RootSectors :
      i < cache.total => cache.item[i] = disk[i] /\ disk[i] # Zero

LEMMA CacheSteps ==
  ASSUME [Next]_vars
  PROVE  \/ UNCHANGED cache \/ cache' = None
         \/ ScanEnds /\ UNCHANGED disk /\ cache' = fat16_get_root_directory
<1>1. ASSUME NEW d \in Descriptors, NEW value \in Data, NEW size \in 1 .. MaxSize,
             fat16_write(d, value, size) \/ PowerFailsInWrite(d, value, size)
      PROVE  UNCHANGED cache \/ cache' = None
  BY <1>1, WriteShape, CutShape DEF Forget
<1>2. ASSUME NEW d \in Descriptors,
             \/ fat16_stat(d) \/ fat16_close(d)
             \/ \E name \in Names, file_mode \in {"READ", "WRITE", "APPEND"} :
                  fat16_open(d, name, file_mode)
             \/ \E size \in 1 .. MaxSize, nmemb \in 1 .. 2 : fat16_read(d, size, nmemb)
             \/ \E offset \in 0 .. (SizeMod - 1), seek_mode \in {"SET", "CUR", "END"} :
                  fat16_seek(d, offset, seek_mode)
      PROVE  UNCHANGED cache
  BY <1>2 DEF fat16_stat, fat16_close, fat16_open, fat16_read, fat16_seek,
              RefusesDirectory, Return, MoveTo
<1>3. CASE fat16_resolve \/ PowerFails \/ UNCHANGED vars
  BY <1>3 DEF fat16_resolve, PowerFails, Forget, vars
<1> QED
  BY <1>1, <1>2, <1>3 DEF Next

LEMMA NextCacheInv ==
  ASSUME TypeOK, CacheInv, [Next]_vars
  PROVE  CacheInv'
<1>1. CASE UNCHANGED cache \/ cache' = None
  BY <1>1, NothingOverwritten DEF CacheInv
<1>2. CASE ScanEnds /\ UNCHANGED disk /\ cache' = fat16_get_root_directory
  <2> DEFINE total == fat16_get_total_items_for_directory(0)
  <2>1. \A i \in RootSectors : i < total => disk[i] # Zero
    BY <1>2, TotalItems, SectorFacts
  <2>2. cache' = [item |-> [i \in RootSectors |-> disk[i]], total |-> total]
    BY <1>2 DEF fat16_get_root_directory
  <2> HIDE DEF total
  <2> QED
    BY <1>2, <2>1, <2>2 DEF CacheInv
<1> QED
  BY <1>1, <1>2, CacheSteps

(* A count that goes on behind the root directory was taken of a full one. *)
LEMMA FullAtTheMount ==
  ASSUME TypeOK, CacheInv, cache # None, cache.total >= RootEntries
  PROVE  RootFull
<1>1. \A i \in RootSectors : i < cache.total
  <2>1. Cardinality(Sectors) \in Nat
    BY SectorFacts, FS_CardinalityType
  <2>2. cache.total \in Nat
    BY <2>1 DEF TypeOK
  <2> QED
    BY <2>2, FatAssumption DEF RootSectors
<1> QED
  BY <1>1 DEF CacheInv, RootFull

LEMMA FoundOnDisk ==
  ASSUME TypeOK, CacheInv, cache # None, NEW name,
         NEW item \in fat16_find_item_in_directory(name), item # None
  PROVE  \/ \E s \in RootSectors : disk[s] = item
         \/ item = Blank /\ name = Empty /\ cache.total > RootEntries
         \/ cache.total > BlockItems
<1>1. ASSUME NEW i \in Matches(name), item = ItemAt(i)
      PROVE  \/ \E s \in RootSectors : disk[s] = item
             \/ item = Blank /\ name = Empty /\ cache.total > RootEntries
  <2>1. i \in Nat /\ i < cache.total /\ item.name = name
    BY <1>1, FatAssumption DEF Matches
  <2>2. CASE i \in RootSectors
    BY <1>1, <2>1, <2>2 DEF CacheInv, ItemAt
  <2>3. CASE i \notin RootSectors
    <3>1. i >= RootEntries
      BY <2>1, <2>3, FatAssumption DEF RootSectors
    <3>2. cache.total \in Nat
      <4>1. Cardinality(Sectors) \in Nat
        BY SectorFacts, FS_CardinalityType
      <4> QED
        BY <4>1 DEF TypeOK
    <3> QED
      BY <1>1, <2>1, <2>3, <3>1, <3>2, FatAssumption DEF ItemAt, Blank
  <2> QED
    BY <2>2, <2>3
<1> QED
  BY <1>1, FoundItem

(***************************************************************************)
(* Every item that open finds is an item the disk holds, although the      *)
(* cache is never refreshed; but for what lies behind a root directory     *)
(* that was full at the mount.  For every disk, every size of the heap     *)
(* block, and whatever lies behind it.                                     *)
(***************************************************************************)
THEOREM CacheIsTrue == Spec => []OpenFindsItemsOfTheDisk
<1>1. Init => CacheInv
  BY DEF Init, CacheInv
<1>2. TypeOK /\ CacheInv /\ [Next]_vars => CacheInv'
  BY NextCacheInv
<1>3. TypeOK /\ CacheInv => OpenFindsItemsOfTheDisk
  BY FoundOnDisk DEF OpenFindsItemsOfTheDisk
<1> QED
  BY <1>1, <1>2, <1>3, FatTypes, PTL DEF Spec

(* No item of the root directory has the empty name. *)
RootNamed == \A s \in RootSectors : IsItem(disk[s]) => disk[s].name # Empty

LEMMA NextRootNamed ==
  ASSUME TypeOK, RootNamed, [Next]_vars
  PROVE  RootNamed'
<1>1. CASE UNCHANGED disk
  BY <1>1 DEF RootNamed, IsItem
<1>2. ASSUME NEW d \in Descriptors, NEW value \in Data, Writing(d), disk' \in Writes(d, value)
      PROVE  RootNamed'
  BY <1>2, WritesFacts DEF RootNamed, IsItem
<1> QED
  BY <1>1, <1>2, DiskSteps

-----------------------------------------------------------------------------
(***************************************************************************)
(* Data.  Unless the root directory is full, what an open descriptor holds *)
(* for its item is, once it has a cluster, an item on the disk; and it has *)
(* a name, so that a first write stores it.                                *)
(***************************************************************************)
OnDisk(item) == RootFull \/ \E t \in RootSectors : disk[t] = item

Remembered(item) ==
  /\ item.cluster # 0 => OnDisk(item)
  /\ item.name = Empty => RootFull

DescInv == \A d \in Descriptors : desc[d] # None => Remembered(desc[d].item)

LEMMA StaysFull ==
  ASSUME TypeOK, [Next]_vars, RootFull
  PROVE  RootFull'
  BY NothingOverwritten DEF RootFull

LEMMA StaysOnDisk ==
  ASSUME TypeOK, [Next]_vars, NEW item \in Items, OnDisk(item)
  PROVE  OnDisk(item)'
<1>1. CASE RootFull
  BY <1>1, StaysFull DEF OnDisk
<1>2. CASE \E t \in RootSectors : disk[t] = item
  BY <1>2, NothingOverwritten, NotZero DEF OnDisk
<1> QED
  BY <1>1, <1>2 DEF OnDisk

LEMMA StaysKept ==
  ASSUME TypeOK, [Next]_vars, NEW item \in Items, Remembered(item)
  PROVE  Remembered(item)'
<1>1. item.cluster # 0 => OnDisk(item)'
  BY StaysOnDisk DEF Remembered
<1>2. item.name = Empty => RootFull'
  BY StaysFull DEF Remembered
<1> QED
  BY <1>1, <1>2 DEF Remembered

LEMMA StoresFacts ==
  ASSUME TypeOK, NEW d \in Descriptors, Writing(d), NEW value \in Data,
         NEW new \in Stores(d, value), NEW s \in RootSectors
  PROVE  new[s] = AfterItem(d)[s]
<1>1. CASE new = AfterItem(d)
  BY <1>1
<1>2. ASSUME NEW n \in 0 .. (CountMod - 1), new = WithData(AfterItem(d), d, value, n)
      PROVE  new[s] = AfterItem(d)[s]
  <2> DEFINE start == fat16_cluster_to_sector(ItemToWrite(d).cluster)
  <2>1. start \in Nat /\ start >= RootEntries
    BY ItemFacts, ClusterIsData
  <2>2. new = [t \in Sectors |-> IF t \in start .. (start + n - 1) THEN value
                                                                   ELSE AfterItem(d)[t]]
    BY <1>2 DEF WithData
  <2> HIDE DEF start
  <2>3. s \notin start .. (start + n - 1) /\ s \in Sectors
    BY <2>1, SectorFacts, FatAssumption DEF RootSectors
  <2> QED
    BY <2>2, <2>3
<1> QED
  BY <1>1, <1>2 DEF Stores

LEMMA StoredItem ==
  ASSUME TypeOK, NEW d \in Descriptors, Writing(d), NEW value \in Data,
         NEW new \in Stores(d, value), FirstWrite(d), desc[d].item.name # Empty, ~RootFull
  PROVE  \E t \in RootSectors : new[t] = ItemToWrite(d)
<1> DEFINE p == fat16_get_next_item_position
<1>1. p \in Sectors /\ p \in Nat /\ \A t \in Sectors : t < p => disk[t] # Zero
  BY NextPosition, SectorFacts
<1>2. p \in RootSectors
  <2> HIDE DEF p
  <2>1. CASE p >= RootEntries
    <3>1. \A t \in RootSectors : t \in Sectors /\ t < p
      BY <1>1, <2>1, SectorFacts, FatAssumption DEF RootSectors
    <3> QED
      BY <1>1, <3>1 DEF RootFull
  <2>2. CASE p < RootEntries
    BY <1>1, <2>2, FatAssumption DEF RootSectors
  <2> QED
    BY <1>1, <2>1, <2>2, FatAssumption
<1>3. AfterItem(d)[p] = ItemToWrite(d)
  BY <1>1 DEF AfterItem, TypeOK
<1> QED
  BY <1>2, <1>3, StoresFacts

LEMMA DescSteps ==
  ASSUME TypeOK, [Next]_vars
  PROVE  \/ desc' = [e \in Descriptors |-> None]
         \/ \A e \in Descriptors :
              desc'[e] # None => desc[e] # None /\ desc'[e].item = desc[e].item
         \/ /\ cache # None
            /\ \E d \in Descriptors, item \in Items :
                 /\ Open(d, item)
                 /\ \/ item = fat16_new_file_item
                    \/ \E name \in Names : item \in fat16_find_item_in_directory(name) \ {None}
         \/ \E d \in Descriptors, value \in Data :
              /\ Writing(d) /\ disk' \in Stores(d, value)
              /\ desc' = [desc EXCEPT ![d].item = ItemToWrite(d)]
<1>1. ASSUME NEW d \in Descriptors, NEW name \in Names,
             NEW file_mode, fat16_open(d, name, file_mode)
      PROVE  \/ UNCHANGED desc
             \/ /\ cache # None
                /\ \E item \in Items :
                     /\ Open(d, item)
                     /\ \/ item = fat16_new_file_item
                        \/ item \in fat16_find_item_in_directory(name) \ {None}
  <2>1. cache # None
    BY <1>1 DEF fat16_open, Mounted
  <2>2. \A item \in fat16_find_item_in_directory(name) : item # None => item \in Items
    BY <2>1, FoundType
  <2>3. fat16_new_file_item \in Items
    BY FatAssumption DEF fat16_new_file_item, Items
  <2> QED
    BY <1>1, <2>1, <2>2, <2>3 DEF fat16_open, fat16_open_for_read, fat16_open_for_write
<1>2. ASSUME NEW d \in Descriptors, NEW value \in Data, NEW size \in 1 .. MaxSize,
             fat16_write(d, value, size)
      PROVE  \/ UNCHANGED desc
             \/ /\ Writing(d) /\ disk' \in Stores(d, value)
                /\ desc' = [desc EXCEPT ![d].item = ItemToWrite(d)]
  BY <1>2, WriteShape
<1>3. ASSUME NEW d \in Descriptors, NEW value \in Data, NEW size \in 1 .. MaxSize,
             PowerFailsInWrite(d, value, size)
      PROVE  desc' = [e \in Descriptors |-> None]
  BY <1>3 DEF PowerFailsInWrite, Forget
<1>4. ASSUME NEW d \in Descriptors,
             \/ fat16_stat(d)
             \/ \E size \in 1 .. MaxSize, nmemb \in 1 .. 2 : fat16_read(d, size, nmemb)
      PROVE  UNCHANGED desc
  BY <1>4 DEF fat16_stat, fat16_read, RefusesDirectory, Return
<1>5. ASSUME NEW d \in Descriptors, NEW offset \in 0 .. (SizeMod - 1), NEW seek_mode,
             fat16_seek(d, offset, seek_mode)
      PROVE  \A e \in Descriptors :
               desc'[e] # None => desc[e] # None /\ desc'[e].item = desc[e].item
  <2>1. ASSUME NEW pos, MoveTo(d, pos), desc[d] # None
        PROVE  \A e \in Descriptors :
                 desc'[e] # None => desc[e] # None /\ desc'[e].item = desc[e].item
    <3>1. desc[d] \in [item : Items, pos : 0 .. (SizeMod - 1)]
      BY <2>1 DEF TypeOK
    <3>2. desc' = [desc EXCEPT ![d].pos = pos]
      BY <2>1 DEF MoveTo
    <3>3. desc'[d].item = desc[d].item
      BY <3>1, <3>2 DEF TypeOK
    <3> QED
      BY <2>1, <3>2, <3>3 DEF TypeOK
  <2> QED
    BY <1>5, <2>1 DEF fat16_seek, RefusesDirectory, IsOpen, Return
<1>6. ASSUME NEW d \in Descriptors, fat16_close(d)
      PROVE  \A e \in Descriptors :
               desc'[e] # None => desc[e] # None /\ desc'[e].item = desc[e].item
  BY <1>6 DEF fat16_close, TypeOK
<1>7. CASE fat16_resolve \/ UNCHANGED vars
  BY <1>7 DEF fat16_resolve, vars
<1>8. CASE PowerFails
  BY <1>8 DEF PowerFails, Forget
<1>9. ASSUME UNCHANGED desc
      PROVE  \A e \in Descriptors :
               desc'[e] # None => desc[e] # None /\ desc'[e].item = desc[e].item
  BY <1>9
<1> QED
  BY <1>1, <1>2, <1>3, <1>4, <1>5, <1>6, <1>7, <1>8, <1>9 DEF Next

LEMMA OpenedIsKept ==
  ASSUME TypeOK, CacheInv, RootNamed, cache # None, NEW item \in Items,
         \/ item = fat16_new_file_item
         \/ \E name \in Names : item \in fat16_find_item_in_directory(name) \ {None}
  PROVE  Remembered(item)
<1>1. CASE item = fat16_new_file_item
  BY <1>1, FatAssumption DEF fat16_new_file_item, Remembered
<1>2. ASSUME NEW name \in Names, item \in fat16_find_item_in_directory(name), item # None
      PROVE  Remembered(item)
  <2>1. CASE \E s \in RootSectors : disk[s] = item
    BY <2>1, NotZero DEF RootNamed, Remembered, OnDisk, IsItem
  <2>2. CASE cache.total > RootEntries \/ cache.total > BlockItems
    <3>1. cache.total \in Nat
      <4>1. Cardinality(Sectors) \in Nat
        BY SectorFacts, FS_CardinalityType
      <4> QED
        BY <4>1 DEF TypeOK
    <3>2. RootFull
      BY <2>2, <3>1, FullAtTheMount, FatAssumption
    <3> QED
      BY <3>2 DEF Remembered, OnDisk
  <2> QED
    BY <1>2, <2>1, <2>2, FoundOnDisk
<1> QED
  BY <1>1, <1>2

LEMMA NextDescInv ==
  ASSUME TypeOK, CacheInv, RootNamed, DescInv, [Next]_vars
  PROVE  DescInv'
<1> SUFFICES ASSUME NEW e \in Descriptors, desc'[e] # None
             PROVE  \E item \in Items : item = desc'[e].item /\ Remembered(item)'
  BY DEF DescInv, Remembered, OnDisk
<1>1. ASSUME desc[e] # None, desc'[e].item = desc[e].item
      PROVE  \E item \in Items : item = desc'[e].item /\ Remembered(item)'
  <2>1. PICK item \in Items : item = desc[e].item
    BY <1>1 DEF TypeOK
  <2>2. Remembered(item)
    BY <1>1, <2>1 DEF DescInv
  <2> QED
    BY <1>1, <2>1, <2>2, StaysKept
<1>2. CASE desc' = [d \in Descriptors |-> None]
  BY <1>2
<1>3. CASE \A d \in Descriptors :
             desc'[d] # None => desc[d] # None /\ desc'[d].item = desc[d].item
  BY <1>1, <1>3
<1>4. ASSUME cache # None, NEW d \in Descriptors, NEW item \in Items, Open(d, item),
             \/ item = fat16_new_file_item
             \/ \E name \in Names : item \in fat16_find_item_in_directory(name) \ {None}
      PROVE  \E it \in Items : it = desc'[e].item /\ Remembered(it)'
  <2>1. desc'[d].item = item /\ (e # d => desc'[e] = desc[e])
    BY <1>4 DEF Open, TypeOK
  <2>2. Remembered(item)'
    BY <1>4, OpenedIsKept, StaysKept
  <2> QED
    BY <1>1, <2>1, <2>2
<1>5. ASSUME NEW d \in Descriptors, NEW value \in Data, Writing(d),
             disk' \in Stores(d, value), desc' = [desc EXCEPT ![d].item = ItemToWrite(d)]
      PROVE  \E it \in Items : it = desc'[e].item /\ Remembered(it)'
  <2>1. desc'[d].item = ItemToWrite(d) /\ (e # d => desc'[e] = desc[e])
    BY <1>5, ItemFacts DEF TypeOK
  <2>2. PICK item \in Items : item = ItemToWrite(d)
    BY <1>5, ItemFacts
  <2>3. desc[d] # None /\ item.name = desc[d].item.name /\ Remembered(desc[d].item)
    BY <1>5, <2>2, ItemFacts DEF Writing, IsOpen, DescInv
  <2>4. Remembered(item)'
    <3>1. CASE RootFull
      BY <3>1, StaysFull DEF Remembered, OnDisk
    <3>2. CASE ~FirstWrite(d)
      <4>1. item = desc[d].item
        BY <2>2, <3>2 DEF ItemToWrite
      <4> QED
        BY <2>3, <4>1, StaysKept
    <3>3. CASE FirstWrite(d) /\ ~RootFull
      <4>1. item.name # Empty
        BY <2>3, <3>3 DEF Remembered
      <4>2. \E t \in RootSectors : disk'[t] = item
        BY <1>5, <2>2, <2>3, <3>3, <4>1, StoredItem
      <4> QED
        BY <4>1, <4>2 DEF Remembered, OnDisk
    <3> QED
      BY <3>1, <3>2, <3>3
  <2> QED
    BY <1>1, <2>1, <2>2, <2>4
<1> QED
  BY <1>2, <1>3, <1>4, <1>5, DescSteps

(* A narrowed count of sectors ends in the next cluster at the latest. *)
LEMMA TwoClusters ==
  ASSUME NEW c \in Clusters, NEW n \in 0 .. (CountMod - 1),
         NEW s \in fat16_cluster_to_sector(c) .. (fat16_cluster_to_sector(c) + n - 1)
  PROVE  s \in ClusterSectors(c) \cup ClusterSectors(c + 1)
<1> DEFINE start == fat16_cluster_to_sector(c)
<1>1. c - 2 \in Nat /\ SectorsPerCluster \in Nat \ {0} /\ RootEntries \in Nat /\ start \in Nat
      /\ CountMod \in Nat /\ c \in Nat
  BY FatAssumption, ClusterIsData DEF Clusters
<1>2. fat16_cluster_to_sector(c + 1) = start + SectorsPerCluster
  <2>1. \A a, b, d \in Nat : (a + b) * d = a * d + b * d
    OBVIOUS
  <2>2. ((c - 2) + 1) * SectorsPerCluster = (c - 2) * SectorsPerCluster + 1 * SectorsPerCluster
    BY <1>1, <2>1
  <2>3. (c + 1) - 2 = (c - 2) + 1 /\ 1 * SectorsPerCluster = SectorsPerCluster
    BY <1>1
  <2>4. (c - 2) * SectorsPerCluster \in Int
    BY <1>1
  <2> QED
    BY <1>1, <2>2, <2>3, <2>4 DEF fat16_cluster_to_sector
<1> HIDE DEF start
<1>3. s \in Int /\ start <= s /\ s < start + n /\ n < 2 * SectorsPerCluster
  BY <1>1, GeometryAssumption DEF start
<1>4. \/ s \in start .. (start + SectorsPerCluster - 1)
      \/ s \in (start + SectorsPerCluster)
                 .. ((start + SectorsPerCluster) + SectorsPerCluster - 1)
  BY <1>1, <1>3
<1> QED
  BY <1>2, <1>4 DEF ClusterSectors, start

LEMMA DataWritten ==
  ASSUME TypeOK, CacheInv, DescInv, [Next]_vars, ~RootFull, NEW s \in DataSectors,
         disk'[s] \in Data, disk'[s] # disk[s]
  PROVE  \E t \in RootSectors :
           /\ IsItem(disk'[t])
           /\ disk'[t].cluster # 0
           /\ s \in ClusterSectors(disk'[t].cluster)
                      \cup ClusterSectors(disk'[t].cluster + 1)
<1>1. PICK d \in Descriptors, value \in Data : Writing(d) /\ disk' \in Writes(d, value)
  BY DiskSteps
<1>2. PICK item \in Items : item = ItemToWrite(d) /\ item.cluster \in Clusters
  BY <1>1, ItemFacts
<1>3. disk' \in Stores(d, value)
  BY <1>1 DEF Writes
<1>4. disk' # AfterItem(d)
  <2>1. AfterItem(d)[s] = disk[s] \/ AfterItem(d)[s] = item
    BY <1>1, <1>2, AfterItemFacts, SectorFacts
  <2> QED
    BY <2>1, NotZero
<1>5. PICK n \in 0 .. (CountMod - 1) : disk' = WithData(AfterItem(d), d, value, n)
  BY <1>3, <1>4 DEF Stores
<1>6. s \in fat16_cluster_to_sector(item.cluster)
              .. (fat16_cluster_to_sector(item.cluster) + n - 1)
  <2>1. AfterItem(d)[s] = disk[s] \/ AfterItem(d)[s] = item
    BY <1>1, <1>2, AfterItemFacts, SectorFacts
  <2>2. s \in Sectors
    BY SectorFacts
  <2> QED
    BY <1>2, <1>5, <2>1, <2>2, NotZero DEF WithData
<1>7. s \in ClusterSectors(item.cluster) \cup ClusterSectors(item.cluster + 1)
  BY <1>2, <1>6, TwoClusters
<1>8. \E t \in RootSectors : disk'[t] = item
  <2>1. CASE FirstWrite(d)
    <3>1. desc[d].item.name # Empty
      BY <1>1 DEF Writing, IsOpen, DescInv, Remembered
    <3> QED
      BY <1>1, <1>2, <1>3, <2>1, <3>1, StoredItem
  <2>2. CASE ~FirstWrite(d)
    <3>1. item = desc[d].item /\ desc[d] # None /\ desc[d].item.cluster # 0
      BY <1>1, <1>2, <2>2 DEF ItemToWrite, FirstWrite, Writing, IsOpen
    <3>2. PICK t \in RootSectors : disk[t] = item
      BY <3>1 DEF DescInv, Remembered, OnDisk
    <3>3. disk'[t] = item
      BY <3>2, NothingOverwritten, NotZero
    <3> QED
      BY <3>3
  <2> QED
    BY <2>1, <2>2
<1>9. IsItem(item) /\ item.cluster # 0
  BY <1>2, NotZero DEF IsItem, Clusters
<1> QED
  BY <1>7, <1>8, <1>9

(***************************************************************************)
(* Data lies under an item: wherever a write is cut short, the clusters it *)
(* stored to are named by an item that was stored before, for every        *)
(* geometry in which the count reaches two clusters at most.               *)
(***************************************************************************)
THEOREM DataIsNamed == Spec => DataLiesUnderAnItem
<1>1. Init => CacheInv /\ RootNamed /\ DescInv
  BY ImageAssumption DEF Init, CacheInv, RootNamed, DescInv
<1>2. TypeOK /\ CacheInv /\ RootNamed /\ DescInv /\ [Next]_vars =>
        CacheInv' /\ RootNamed' /\ DescInv'
  BY NextCacheInv, NextRootNamed, NextDescInv
<1>3. TypeOK /\ CacheInv /\ RootNamed /\ DescInv /\ [Next]_vars =>
        [~RootFull =>
           \A s \in DataSectors :
             disk'[s] \in Data /\ disk'[s] # disk[s] =>
               \E t \in RootSectors :
                 /\ IsItem(disk'[t])
                 /\ disk'[t].cluster # 0
                 /\ s \in ClusterSectors(disk'[t].cluster)
                            \cup ClusterSectors(disk'[t].cluster + 1)]_vars
  BY DataWritten
<1> QED
  BY <1>1, <1>2, <1>3, FatTypes, PTL DEF Spec, DataLiesUnderAnItem

-----------------------------------------------------------------------------

(***************************************************************************)
(* Recursion over Nat.  A functional H on [Nat -> R] whose value at n      *)
(* needs only the values below n has a fixed point, so a recursive         *)
(* function defined by it satisfies its equation.                          *)
(***************************************************************************)
Recurs(H, R) ==
  /\ H \in [[Nat -> R] -> [Nat -> R]]
  /\ \A g, h \in [Nat -> R] : \A n \in Nat :
       (\A m \in Nat : m < n => g[m] = h[m]) => H[g][n] = H[h][n]

(* g solves the equation g = H[g] below n. *)
Solves(g, H, n) == \A m \in Nat : m < n => g[m] = H[g][m]

LEMMA SolutionsAgree ==
  ASSUME NEW R, NEW H, Recurs(H, R), NEW g \in [Nat -> R], NEW h \in [Nat -> R],
         NEW k \in Nat, NEW n \in Nat, Solves(g, H, k), Solves(h, H, n),
         NEW x \in Nat, x < k, x < n
  PROVE  g[x] = h[x]
<1> DEFINE T == {m \in Nat : m < k /\ m < n /\ g[m] # h[m]}
<1> SUFFICES ASSUME x \in T PROVE FALSE
  OBVIOUS
<1>1. PICK m \in T : \A j \in T : m <= j
  BY LeastOf
<1>2. \A j \in Nat : j < m => g[j] = h[j]
  BY <1>1
<1>3. H[g][m] = H[h][m]
  BY <1>2 DEF Recurs
<1> QED
  BY <1>3 DEF Solves

LEMMA SolutionsExist ==
  ASSUME NEW R, R # {}, NEW H, Recurs(H, R), NEW n \in Nat
  PROVE  \E g \in [Nat -> R] : Solves(g, H, n)
<1> DEFINE T == {k \in Nat : ~\E g \in [Nat -> R] : Solves(g, H, k)}
<1> SUFFICES ASSUME T # {} PROVE FALSE
  OBVIOUS
<1>1. PICK k \in T : \A j \in T : k <= j
  BY LeastOf
<1>2. CASE k = 0
  <2>1. PICK r \in R : TRUE
    OBVIOUS
  <2>2. [x \in Nat |-> r] \in [Nat -> R] /\ \A m \in Nat : ~(m < 0)
    OBVIOUS
  <2>3. Solves([x \in Nat |-> r], H, 0)
    BY <2>2 DEF Solves
  <2> QED
    BY <1>2, <2>2, <2>3
<1>3. CASE k # 0
  <2>1. k - 1 \in Nat /\ ~(k <= k - 1)
    BY <1>3
  <2>2. PICK g \in [Nat -> R] : Solves(g, H, k - 1)
    BY <1>1, <2>1
  <2>3. H[g] \in [Nat -> R]
    BY DEF Recurs
  <2>4. ASSUME NEW m \in Nat, m < k
        PROVE  H[g][m] = H[H[g]][m]
    <3>1. \A j \in Nat : j < m => g[j] = H[g][j]
      BY <2>2, <2>4 DEF Solves
    <3> QED
      BY <2>3, <3>1 DEF Recurs
  <2> QED
    BY <2>3, <2>4 DEF Solves
<1> QED
  BY <1>2, <1>3

LEMMA FixedPoint ==
  ASSUME NEW R, R # {}, NEW H, Recurs(H, R)
  PROVE  \E f \in [Nat -> R] : f = H[f]
<1> DEFINE G(n) == CHOOSE g \in [Nat -> R] : Solves(g, H, n)
           f == [n \in Nat |-> G(n + 1)[n]]
<1>1. \A n \in Nat : G(n) \in [Nat -> R] /\ Solves(G(n), H, n)
  BY SolutionsExist
<1> HIDE DEF G
<1>2. f \in [Nat -> R]
  BY <1>1
<1>3. ASSUME NEW n \in Nat
      PROVE  f[n] = H[f][n]
  <2> DEFINE g == G(n + 1)
  <2>1. g \in [Nat -> R] /\ Solves(g, H, n + 1)
    BY <1>1
  <2>2. ASSUME NEW m \in Nat, m < n
        PROVE  f[m] = g[m]
    <3> DEFINE h == G(m + 1)
    <3>1. h \in [Nat -> R] /\ Solves(h, H, m + 1)
      BY <1>1
    <3>2. f[m] = h[m]
      OBVIOUS
    <3> HIDE DEF f, g, h
    <3>3. h[m] = g[m]
      BY <2>1, <2>2, <3>1, SolutionsAgree
    <3> QED
      BY <3>2, <3>3
  <2>3. f[n] = g[n] /\ g[n] = H[g][n]
    BY <2>1 DEF Solves
  <2> HIDE DEF f, g
  <2>4. H[f][n] = H[g][n]
    BY <1>2, <2>1, <2>2 DEF Recurs
  <2> QED
    BY <2>3, <2>4
<1> HIDE DEF f
<1>4. H[f] \in [Nat -> R]
  BY <1>2 DEF Recurs
<1> QED
  BY <1>2, <1>3, <1>4

-----------------------------------------------------------------------------
(***************************************************************************)
(* Walks and reads, for every chain of words and every length: the         *)
(* equation that each of the two recursive definitions stands for.         *)
(***************************************************************************)
Entries == 0 .. LastCluster

(* What a walk comes to. *)
Reached == Entries \cup {SYSTEM_FAIL}

(* The first step of a walk that goes on with walk. *)
WalkStep(walk, cluster, ahead) ==
  IF ahead = 0 THEN cluster
  ELSE IF fat16_is_entry_invalid(words[cluster]) THEN SYSTEM_FAIL
       ELSE walk[ahead - 1][words[cluster]]

LEMMA WalkStepType ==
  ASSUME words \in [Entries -> Entries], NEW walk \in [Nat -> [Entries -> Reached]],
         NEW ahead \in Nat, NEW cluster \in Entries
  PROVE  WalkStep(walk, cluster, ahead) \in Reached
<1>1. words[cluster] \in Entries
  OBVIOUS
<1>2. ASSUME ahead # 0
      PROVE  walk[ahead - 1][words[cluster]] \in Reached
  <2>1. walk[ahead - 1] \in [Entries -> Reached]
    BY <1>2
  <2> QED
    BY <1>1, <2>1
<1> QED
  BY <1>2 DEF WalkStep, Reached

LEMMA WalkExists ==
  ASSUME words \in [Entries -> Entries]
  PROVE  \E f \in [Nat -> [Entries -> Reached]] :
           f = [ahead \in Nat |-> [cluster \in Entries |-> WalkStep(f, cluster, ahead)]]
<1> DEFINE R == [Entries -> Reached]
           H == [f \in [Nat -> R] |->
                   [ahead \in Nat |-> [cluster \in Entries |-> WalkStep(f, cluster, ahead)]]]
<1>1. H \in [[Nat -> R] -> [Nat -> R]]
  BY WalkStepType
<1>2. ASSUME NEW g \in [Nat -> R], NEW h \in [Nat -> R], NEW n \in Nat,
             \A m \in Nat : m < n => g[m] = h[m]
      PROVE  H[g][n] = H[h][n]
  <2>1. n = 0 \/ g[n - 1] = h[n - 1]
    BY <1>2
  <2>2. \A c \in Entries : WalkStep(g, c, n) = WalkStep(h, c, n)
    BY <2>1 DEF WalkStep
  <2> QED
    BY <2>2
<1>3. Recurs(H, R)
  BY <1>1, <1>2 DEF Recurs
<1>4. R # {}
  <2>1. [cluster \in Entries |-> SYSTEM_FAIL] \in R
    BY DEF Reached
  <2> QED
    BY <2>1
<1>5. PICK f \in [Nat -> R] : f = H[f]
  <2> HIDE DEF H, R
  <2> QED
    BY <1>3, <1>4, FixedPoint
<1> QED
  BY <1>5

LEMMA WalkEquation ==
  ASSUME words \in [Entries -> Entries]
  PROVE  Walk = [ahead \in Nat |-> [cluster \in Entries |-> WalkStep(Walk, cluster, ahead)]]
  BY WalkExists DEF Walk, WalkStep, Entries, fat16_get_fat_entry

LEMMA WalkType ==
  ASSUME words \in [Entries -> Entries], NEW ahead \in Nat
  PROVE  Walk[ahead] \in [Entries -> Reached]
<1> DEFINE T == {n \in Nat : Walk[n] \notin [Entries -> Reached]}
<1> SUFFICES ASSUME ahead \in T PROVE FALSE
  OBVIOUS
<1>1. PICK n \in T : \A m \in T : n <= m
  BY LeastOf
<1>2. Walk[n] = [cluster \in Entries |-> WalkStep(Walk, cluster, n)]
  BY WalkEquation
<1>3. n = 0 \/ (n - 1 \in Nat /\ Walk[n - 1] \in [Entries -> Reached])
  BY <1>1
<1>4. \A c \in Entries : words[c] \in Entries
  OBVIOUS
<1>5. \A c \in Entries : WalkStep(Walk, c, n) \in Reached
  BY <1>3, <1>4 DEF WalkStep, Reached
<1> QED
  BY <1>2, <1>5

(* No step, and one more step. *)
LEMMA WalkNone ==
  ASSUME words \in [Entries -> Entries], NEW c \in Entries
  PROVE  Walk[0][c] = c
  BY WalkEquation DEF WalkStep

LEMMA WalkOn ==
  ASSUME words \in [Entries -> Entries], NEW c \in Entries, NEW ahead \in Nat
  PROVE  Walk[ahead + 1][c] = IF fat16_is_entry_invalid(words[c]) THEN SYSTEM_FAIL
                              ELSE Walk[ahead][words[c]]
<1>1. ahead + 1 \in Nat /\ ahead + 1 # 0 /\ (ahead + 1) - 1 = ahead
  OBVIOUS
<1> QED
  BY <1>1, WalkEquation DEF WalkStep

LEMMA DivisionFacts ==
  ASSUME NEW n \in Nat, NEW d \in Nat \ {0}
  PROVE  /\ n \div d \in Nat /\ n % d \in Nat
         /\ n % d < d
         /\ n = (n \div d) * d + (n % d)
  OBVIOUS

(* The sectors of one call, and of the calls for the rest. *)
FirstPiece(total) == IF total > SectorsPerCluster THEN SectorsPerCluster ELSE total

SectorsOf(at, offset, count) ==
  [i \in 1 .. count |->
     (fat16_cluster_to_sector(at) + (offset % SectorsPerCluster)) + i - 1]

PieceStep(pieces, total, cluster, offset) ==
  LET at == fat16_get_cluster_for_offset(cluster, offset)
  IN  IF at = SYSTEM_FAIL THEN <<SYSTEM_FAIL>>
      ELSE SectorsOf(at, offset, FirstPiece(total))
             \o IF total > FirstPiece(total)
                  THEN pieces[total - FirstPiece(total)][at][offset + FirstPiece(total)]
                  ELSE <<>>

LEMMA FirstPieceFacts ==
  ASSUME NEW total \in Nat
  PROVE  /\ FirstPiece(total) \in Nat
         /\ total > FirstPiece(total) =>
              total - FirstPiece(total) \in Nat /\ total - FirstPiece(total) < total
  BY FatAssumption DEF FirstPiece

LEMMA SectorOfCluster ==
  ASSUME NEW at \in Entries
  PROVE  fat16_cluster_to_sector(at) \in Int
<1>1. (at - 2) * SectorsPerCluster \in Int
  BY FatAssumption DEF Entries
<1> QED
  BY <1>1, FatAssumption DEF fat16_cluster_to_sector

LEMMA SectorsOfType ==
  ASSUME NEW at \in Entries, NEW offset \in Nat, NEW count \in Nat
  PROVE  SectorsOf(at, offset, count) \in Seq(Int)
<1>1. offset % SectorsPerCluster \in Nat
  BY FatAssumption, DivisionFacts
<1> QED
  BY <1>1, SectorOfCluster DEF SectorsOf

LEMMA PieceStepType ==
  ASSUME words \in [Entries -> Entries], NEW pieces \in [Nat -> [Entries -> [Nat -> Seq(Int)]]],
         NEW total \in Nat, NEW cluster \in Entries, NEW offset \in Nat
  PROVE  PieceStep(pieces, total, cluster, offset) \in Seq(Int)
<1> DEFINE at    == fat16_get_cluster_for_offset(cluster, offset)
           piece == FirstPiece(total)
           rest  == pieces[total - piece][at][offset + piece]
<1>1. at \in Reached
  <2>1. offset \div SectorsPerCluster \in Nat
    BY FatAssumption, DivisionFacts
  <2> QED
    BY <2>1, WalkType DEF fat16_get_cluster_for_offset
<1>2. CASE at = SYSTEM_FAIL
  BY <1>2 DEF PieceStep, SYSTEM_FAIL
<1>3. CASE at # SYSTEM_FAIL
  <2>1. at \in Entries
    BY <1>1, <1>3 DEF Reached
  <2>2. piece \in Nat /\ offset + piece \in Nat
    BY FirstPieceFacts
  <2>3. SectorsOf(at, offset, piece) \in Seq(Int)
    BY <2>1, <2>2, SectorsOfType
  <2>4. total > piece => rest \in Seq(Int)
    <3> SUFFICES ASSUME total > piece PROVE rest \in Seq(Int)
      OBVIOUS
    <3>1. total - piece \in Nat
      BY FirstPieceFacts
    <3> HIDE DEF at, piece
    <3>2. pieces[total - piece] \in [Entries -> [Nat -> Seq(Int)]]
      BY <3>1
    <3>3. pieces[total - piece][at] \in [Nat -> Seq(Int)]
      BY <2>1, <3>2
    <3> QED
      BY <2>2, <3>3
  <2>5. PieceStep(pieces, total, cluster, offset) =
          SectorsOf(at, offset, piece) \o IF total > piece THEN rest ELSE <<>>
    BY <1>3 DEF PieceStep
  <2>6. <<>> \in Seq(Int)
    OBVIOUS
  <2> HIDE DEF at, piece, rest
  <2> QED
    BY <2>3, <2>4, <2>5, <2>6
<1> QED
  BY <1>2, <1>3

LEMMA PiecesExist ==
  ASSUME words \in [Entries -> Entries]
  PROVE  \E f \in [Nat -> [Entries -> [Nat -> Seq(Int)]]] :
           f = [total \in Nat |-> [cluster \in Entries |-> [offset \in Nat |->
                  PieceStep(f, total, cluster, offset)]]]
<1> DEFINE R == [Entries -> [Nat -> Seq(Int)]]
           H == [f \in [Nat -> R] |->
                   [total \in Nat |-> [cluster \in Entries |-> [offset \in Nat |->
                      PieceStep(f, total, cluster, offset)]]]]
<1>1. H \in [[Nat -> R] -> [Nat -> R]]
  BY PieceStepType
<1>2. ASSUME NEW g \in [Nat -> R], NEW h \in [Nat -> R], NEW n \in Nat,
             \A m \in Nat : m < n => g[m] = h[m]
      PROVE  H[g][n] = H[h][n]
  <2>1. n > FirstPiece(n) => g[n - FirstPiece(n)] = h[n - FirstPiece(n)]
    BY <1>2, FirstPieceFacts
  <2>2. ASSUME NEW c \in Entries, NEW o \in Nat
        PROVE  PieceStep(g, n, c, o) = PieceStep(h, n, c, o)
    BY <2>1 DEF PieceStep
  <2> QED
    BY <2>2
<1>3. Recurs(H, R)
  BY <1>1, <1>2 DEF Recurs
<1>4. R # {}
  <2>1. [cluster \in Entries |-> [offset \in Nat |-> <<>>]] \in R
    OBVIOUS
  <2> QED
    BY <2>1
<1>5. PICK f \in [Nat -> R] : f = H[f]
  <2> HIDE DEF H, R
  <2> QED
    BY <1>3, <1>4, FixedPoint
<1> QED
  BY <1>5

LEMMA PiecesEquation ==
  ASSUME words \in [Entries -> Entries]
  PROVE  Pieces = [total \in Nat |-> [cluster \in Entries |-> [offset \in Nat |->
                     PieceStep(Pieces, total, cluster, offset)]]]
  BY PiecesExist DEF Pieces, PieceStep, FirstPiece, SectorsOf, Entries

(* What a read of no more than a cluster delivers, wherever it starts. *)
LEMMA ShortRead ==
  ASSUME words \in [Entries -> Entries], NEW c \in Entries, NEW offset \in Nat,
         NEW total \in 0 .. SectorsPerCluster
  PROVE  fat16_read_internal(c, offset, total) =
           LET at == Walk[offset \div SectorsPerCluster][c]
           IN  IF at = SYSTEM_FAIL THEN <<SYSTEM_FAIL>> ELSE SectorsOf(at, offset, total)
<1> DEFINE at == Walk[offset \div SectorsPerCluster][c]
<1>1. offset \div SectorsPerCluster \in Nat /\ total \in Nat
  BY FatAssumption, DivisionFacts
<1>2. at \in Reached
  BY <1>1, WalkType
<1>3. FirstPiece(total) = total /\ ~(total > total)
  BY <1>1, FatAssumption DEF FirstPiece
<1>4. fat16_read_internal(c, offset, total) = PieceStep(Pieces, total, c, offset)
  BY <1>1, PiecesEquation DEF fat16_read_internal
<1>5. fat16_get_cluster_for_offset(c, offset) = at
  BY DEF fat16_get_cluster_for_offset
<1>6. at # SYSTEM_FAIL => SectorsOf(at, offset, total) \o <<>> = SectorsOf(at, offset, total)
  <2>1. at # SYSTEM_FAIL => SectorsOf(at, offset, total) \in Seq(Int)
    BY <1>1, <1>2, SectorsOfType DEF Reached
  <2> QED
    BY <2>1
<1> HIDE DEF at
<1>7. CASE at = SYSTEM_FAIL
  BY <1>4, <1>5, <1>7 DEF PieceStep, at
<1>8. CASE at # SYSTEM_FAIL
  <2>1. PieceStep(Pieces, total, c, offset) = SectorsOf(at, offset, total) \o <<>>
    BY <1>3, <1>5, <1>8 DEF PieceStep
  <2> QED
    BY <1>4, <1>6, <1>8, <2>1 DEF at
<1> QED
  BY <1>7, <1>8

LEMMA SameCluster ==
  ASSUME NEW d \in Nat \ {0}, NEW n \in Nat, NEW j \in Nat, (n % d) + j < d
  PROVE  (n + j) \div d = n \div d /\ (n + j) % d = (n % d) + j
<1> DEFINE q == n \div d
           r == n % d
           p == (n + j) \div d
           u == (n + j) % d
<1>1. q \in Nat /\ r \in Nat /\ n = q * d + r
  BY DivisionFacts
<1>2. p \in Nat /\ u \in Nat /\ u < d /\ n + j = p * d + u
  <2>1. n + j \in Nat
    OBVIOUS
  <2> QED
    BY <2>1, DivisionFacts
<1>3. p * d \in Nat /\ q * d \in Nat
  BY <1>1, <1>2
<1> HIDE DEF q, r, p, u
<1>4. q * d + (r + j) = p * d + u /\ r + j < d /\ r + j \in Nat
  BY <1>1, <1>2, <1>3 DEF r
<1>5. p = q
  <2>1. ASSUME NEW a \in Nat, NEW b \in Nat, NEW v \in Nat, NEW w \in Nat, v < d, w < d,
               a * d + v = b * d + w
        PROVE  ~(a < b)
    <3> SUFFICES ASSUME a < b PROVE FALSE
      OBVIOUS
    <3>1. PICK k \in Nat : b = (a + 1) + k
      <4>1. b - (a + 1) \in Nat /\ b = (a + 1) + (b - (a + 1))
        OBVIOUS
      <4> QED
        BY <4>1
    <3>2. b * d = a * d + d + k * d
      BY <3>1
    <3>3. k * d \in Nat /\ a * d \in Nat
      OBVIOUS
    <3> QED
      BY <2>1, <3>2, <3>3
  <2>2. ~(p < q) /\ ~(q < p)
    BY <1>1, <1>2, <1>4, <2>1
  <2> QED
    BY <1>1, <1>2, <2>2
<1>6. u = r + j
  BY <1>2, <1>3, <1>4, <1>5
<1> QED
  BY <1>5, <1>6 DEF p, q, r, u

(* A sector of the file, counted from where a walk comes to. *)
LEMMA InsideACluster ==
  ASSUME words \in [Entries -> Entries], NEW c \in Entries, NEW pos \in Nat,
         NEW total \in Nat, (pos % SectorsPerCluster) + total <= SectorsPerCluster,
         NEW i \in DOMAIN fat16_read_internal(c, pos, total), total > 0
  PROVE  fat16_read_internal(c, pos, total)[i] = ChainSector(c, pos + i - 1)
<1> DEFINE at == Walk[pos \div SectorsPerCluster][c]
           sectors == fat16_read_internal(c, pos, total)
<1>1. pos \div SectorsPerCluster \in Nat /\ pos % SectorsPerCluster \in Nat
  BY FatAssumption, DivisionFacts
<1>2. at \in Reached
  BY <1>1, WalkType
<1>3. total \in 0 .. SectorsPerCluster
  BY <1>1, FatAssumption
<1>4. sectors = IF at = SYSTEM_FAIL THEN <<SYSTEM_FAIL>> ELSE SectorsOf(at, pos, total)
  BY <1>3, ShortRead
<1>5. i \in 1 .. total
  <2>1. at = SYSTEM_FAIL => DOMAIN sectors = 1 .. 1
    BY <1>4
  <2>2. at # SYSTEM_FAIL => DOMAIN sectors = 1 .. total
    BY <1>4 DEF SectorsOf
  <2> QED
    BY <2>1, <2>2
<1>6. /\ (pos + (i - 1)) \div SectorsPerCluster = pos \div SectorsPerCluster
      /\ (pos + (i - 1)) % SectorsPerCluster = (pos % SectorsPerCluster) + (i - 1)
  <2>1. i - 1 \in Nat /\ (pos % SectorsPerCluster) + (i - 1) < SectorsPerCluster
    BY <1>1, <1>5, FatAssumption
  <2> QED
    BY <2>1, FatAssumption, SameCluster
<1>7. pos + i - 1 = pos + (i - 1)
  BY <1>5
<1>8. ChainSector(c, pos + i - 1) =
        IF at = SYSTEM_FAIL THEN SYSTEM_FAIL
        ELSE fat16_cluster_to_sector(at) + ((pos % SectorsPerCluster) + (i - 1))
  BY <1>6, <1>7 DEF ChainSector
<1>9. CASE at = SYSTEM_FAIL
  <2>1. sectors = <<SYSTEM_FAIL>>
    BY <1>4, <1>9
  <2>2. i = 1
    BY <2>1
  <2> QED
    BY <1>8, <1>9, <2>1, <2>2
<1>10. CASE at # SYSTEM_FAIL
  <2>1. at \in Entries
    BY <1>2, <1>10 DEF Reached
  <2>2. fat16_cluster_to_sector(at) \in Int
    BY <2>1, SectorOfCluster
  <2>3. sectors[i] = (fat16_cluster_to_sector(at) + (pos % SectorsPerCluster)) + i - 1
    BY <1>4, <1>5, <1>10 DEF SectorsOf
  <2> HIDE DEF at
  <2> QED
    BY <1>1, <1>5, <1>8, <1>10, <2>2, <2>3
<1> QED
  BY <1>9, <1>10

LEMMA FromTheStart ==
  ASSUME words \in [Entries -> Entries], NEW c \in Entries, NEW total \in Nat,
         total > SectorsPerCluster, total <= 2 * SectorsPerCluster,
         NEW i \in DOMAIN fat16_read_internal(c, 0, total)
  PROVE  fat16_read_internal(c, 0, total)[i] = ChainSector(c, 0 + i - 1)
<1> DEFINE S == SectorsPerCluster
           first == fat16_read_internal(c, 0, S)
           rest == fat16_read_internal(c, S, total - S)
           sectors == fat16_read_internal(c, 0, total)
<1>1. S \in Nat \ {0} /\ total - S \in 1 .. S /\ c # SYSTEM_FAIL
  BY FatAssumption DEF SYSTEM_FAIL, Entries
<1>2. 0 \div S = 0 /\ 0 % S = 0 /\ S \div S = 1 /\ S % S = 0
  BY <1>1
<1>3. fat16_get_cluster_for_offset(c, 0) = c
  BY <1>2, WalkNone DEF fat16_get_cluster_for_offset
<1>4. sectors = SectorsOf(c, 0, S) \o rest
  <2>1. sectors = PieceStep(Pieces, total, c, 0)
    BY PiecesEquation DEF fat16_read_internal
  <2>2. FirstPiece(total) = S /\ 0 + S = S
    BY <1>1 DEF FirstPiece
  <2> QED
    BY <1>1, <1>3, <2>1, <2>2 DEF PieceStep, fat16_read_internal
<1>5. first = SectorsOf(c, 0, S)
  BY <1>1, <1>2, ShortRead, WalkNone
<1>6. SectorsOf(c, 0, S) \in Seq(Int) /\ Len(SectorsOf(c, 0, S)) = S
  <2>1. SectorsOf(c, 0, S) \in Seq(Int)
    BY <1>1, SectorsOfType
  <2>2. DOMAIN SectorsOf(c, 0, S) = 1 .. S
    BY DEF SectorsOf
  <2> QED
    BY <1>1, <2>1, <2>2
<1>7. rest \in Seq(Int)
  <2> DEFINE at == Walk[1][c]
  <2>1. rest = IF at = SYSTEM_FAIL THEN <<SYSTEM_FAIL>> ELSE SectorsOf(at, S, total - S)
    BY <1>1, <1>2, ShortRead
  <2>2. at \in Reached
    BY WalkType
  <2>3. at # SYSTEM_FAIL => SectorsOf(at, S, total - S) \in Seq(Int)
    <3>1. S \in Nat /\ total - S \in Nat
      BY <1>1
    <3>2. at # SYSTEM_FAIL => at \in Entries
      BY <2>2 DEF Reached
    <3> HIDE DEF at
    <3> QED
      BY <3>1, <3>2, SectorsOfType
  <2>4. <<SYSTEM_FAIL>> \in Seq(Int)
    BY DEF SYSTEM_FAIL
  <2> HIDE DEF at, rest
  <2> QED
    BY <2>1, <2>3, <2>4
<1>8. i \in 1 .. (S + Len(rest))
  BY <1>4, <1>6, <1>7
<1>9. CASE i <= S
  <2>1. i \in 1 .. S /\ i \in DOMAIN first
    BY <1>1, <1>5, <1>8, <1>9 DEF SectorsOf
  <2>2. first[i] = ChainSector(c, 0 + i - 1)
    BY <1>1, <1>2, <2>1, InsideACluster
  <2>3. sectors[i] = first[i]
    BY <1>4, <1>5, <1>6, <1>7, <2>1
  <2> QED
    BY <2>2, <2>3
<1>10. CASE i > S
  <2> DEFINE j == i - S
  <2>1. j \in 1 .. Len(rest) /\ i = S + j
    BY <1>1, <1>7, <1>8, <1>10
  <2>2. sectors[i] = rest[j]
    <3> DEFINE start == SectorsOf(c, 0, S)
    <3>1. sectors = start \o rest /\ start \in Seq(Int) /\ Len(start) = S
      BY <1>4, <1>6
    <3>2. \A s, t \in Seq(Int) : \A k \in 1 .. Len(t) : (s \o t)[Len(s) + k] = t[k]
      OBVIOUS
    <3> HIDE DEF start, rest, sectors, j
    <3> QED
      BY <1>7, <2>1, <3>1, <3>2
  <2>3. rest[j] = ChainSector(c, S + j - 1)
    <3>1. S \in Nat /\ total - S \in Nat /\ total - S > 0 /\ (S % S) + (total - S) <= S
      BY <1>1, <1>2
    <3>2. j \in DOMAIN rest
      <4> HIDE DEF rest, j
      <4> QED
        BY <1>7, <2>1
    <3> HIDE DEF j
    <3> QED
      BY <3>1, <3>2, InsideACluster
  <2>4. S + j - 1 = 0 + i - 1
    BY <1>1, <2>1
  <2> QED
    BY <2>2, <2>3, <2>4
<1> QED
  BY <1>1, <1>8, <1>9, <1>10

(***************************************************************************)
(* A read inside one cluster, or from the start of the file to the end of  *)
(* its second cluster, delivers the sectors that the chain of words gives  *)
(* it, for every disk, every chain and every descriptor.                   *)
(***************************************************************************)
THEOREM ReadsFollowTheChain == Spec => []ReadFollowsChain
<1>1. ASSUME TypeOK
      PROVE  ReadFollowsChain
  <2> SUFFICES ASSUME NEW d \in Descriptors, desc[d] # None, NEW size \in 1 .. MaxSize,
                      \/ (desc[d].pos % SectorsPerCluster) + size <= SectorsPerCluster
                      \/ desc[d].pos = 0 /\ size <= 2 * SectorsPerCluster,
                      NEW i \in DOMAIN Delivered(d, size, 0)
               PROVE  Delivered(d, size, 0)[i] =
                        ChainSector(desc[d].item.cluster, desc[d].pos + i - 1)
    BY DEF ReadFollowsChain
  <2>1. words \in [Entries -> Entries]
    BY <1>1, FatAssumption DEF TypeOK, Entries
  <2>2. desc[d] \in [item : Items, pos : 0 .. (SizeMod - 1)]
    BY <1>1 DEF TypeOK
  <2> DEFINE c == desc[d].item.cluster
             pos == desc[d].pos
  <2>3. c \in Entries /\ pos \in Nat
    BY <2>2, FatAssumption DEF Items, Clusters, Entries
  <2>4. size \in Nat /\ size > 0 /\ MaxSize \in Nat /\ SectorsPerCluster \in Nat \ {0}
    BY FatAssumption
  <2>5. Delivered(d, size, 0) = fat16_read_internal(c, pos, size)
    BY <2>3, <2>4 DEF Delivered
  <2> HIDE DEF c, pos
  <2>6. CASE (pos % SectorsPerCluster) + size <= SectorsPerCluster
    BY <2>1, <2>3, <2>4, <2>5, <2>6, InsideACluster DEF c, pos
  <2>7. CASE pos = 0 /\ size > SectorsPerCluster /\ size <= 2 * SectorsPerCluster
    BY <2>1, <2>3, <2>4, <2>5, <2>7, FromTheStart DEF c, pos
  <2>8. pos = 0 => (pos % SectorsPerCluster) = 0
    BY <2>4
  <2> QED
    BY <2>4, <2>6, <2>7, <2>8 DEF pos
<1> QED
  BY <1>1, FatTypes, PTL

-----------------------------------------------------------------------------
(***************************************************************************)
(* Created files.  The words never change, so the free cluster that a      *)
(* first write finds is the same in every boot; and an item is stored with *)
(* it, whatever the descriptor held before.                                *)
(***************************************************************************)
OwnFiles ==
  \A s \in RootSectors :
    IsItem(disk[s]) /\ disk[s].name = Created => disk[s].cluster = fat16_get_free_cluster

LEMMA WordsStay == [Next]_vars => UNCHANGED words
<1> SUFFICES ASSUME [Next]_vars PROVE UNCHANGED words
  OBVIOUS
<1>1. ASSUME NEW d \in Descriptors, NEW value \in Data, NEW size \in 1 .. MaxSize,
             fat16_write(d, value, size) \/ PowerFailsInWrite(d, value, size)
      PROVE  UNCHANGED words
  BY <1>1, WriteShape, CutShape
<1>2. ASSUME NEW d \in Descriptors,
             \/ fat16_stat(d) \/ fat16_close(d)
             \/ \E name \in Names, file_mode \in {"READ", "WRITE", "APPEND"} :
                  fat16_open(d, name, file_mode)
             \/ \E size \in 1 .. MaxSize, nmemb \in 1 .. 2 : fat16_read(d, size, nmemb)
             \/ \E offset \in 0 .. (SizeMod - 1), seek_mode \in {"SET", "CUR", "END"} :
                  fat16_seek(d, offset, seek_mode)
      PROVE  UNCHANGED words
  BY <1>2 DEF fat16_stat, fat16_close, fat16_open, fat16_read, fat16_seek,
              RefusesDirectory, Return, MoveTo
<1>3. CASE fat16_resolve \/ PowerFails \/ UNCHANGED vars
  BY <1>3 DEF fat16_resolve, PowerFails, vars
<1> QED
  BY <1>1, <1>2, <1>3 DEF Next

LEMMA SameFreeCluster ==
  ASSUME UNCHANGED words
  PROVE  fat16_get_free_cluster' = fat16_get_free_cluster
  BY Zenon DEF fat16_get_free_cluster, fat16_get_fat_entry, fat16_is_entry_free

LEMMA FilesStayOwn ==
  ASSUME TypeOK, OwnFiles, [Next]_vars
  PROVE  OwnFiles'
<1>1. fat16_get_free_cluster' = fat16_get_free_cluster
  BY WordsStay, SameFreeCluster
<1>2. CASE UNCHANGED disk
  BY <1>1, <1>2 DEF OwnFiles, IsItem
<1>3. ASSUME NEW d \in Descriptors, NEW value \in Data, Writing(d), disk' \in Writes(d, value)
      PROVE  OwnFiles'
  <2>1. ASSUME NEW s \in RootSectors, IsItem(disk'[s]), disk'[s].name = Created
        PROVE  disk'[s].cluster = fat16_get_free_cluster
    <3>1. CASE disk'[s] = disk[s]
      BY <2>1, <3>1 DEF OwnFiles
    <3>2. CASE FirstWrite(d) /\ disk'[s] = ItemToWrite(d)
      <4>1. desc[d].item \in Items
        BY <1>3, ItemFacts
      <4>2. disk'[s] = [desc[d].item EXCEPT !.cluster = fat16_get_free_cluster]
        BY <3>2 DEF ItemToWrite
      <4> QED
        BY <4>1, <4>2 DEF Items
    <3> QED
      BY <1>3, <3>1, <3>2, WritesFacts
  <2> QED
    BY <1>1, <2>1 DEF OwnFiles, IsItem
<1> QED
  BY <1>2, <1>3, DiskSteps

(***************************************************************************)
(* Every file this driver creates has the same first cluster, over all     *)
(* boots and power failures, for every disk that it starts on without a    *)
(* created file or with those of earlier boots, where the same cluster was *)
(* found.                                                                  *)
(***************************************************************************)
THEOREM OneClusterForAll == Spec /\ OwnFiles => []CreatedFilesShareACluster
<1>1. TypeOK /\ OwnFiles /\ [Next]_vars => OwnFiles'
  BY FilesStayOwn
<1>2. OwnFiles => CreatedFilesShareACluster
  BY DEF OwnFiles, CreatedFilesShareACluster
<1> QED
  BY <1>1, <1>2, FatTypes, PTL DEF Spec
=============================================================================
