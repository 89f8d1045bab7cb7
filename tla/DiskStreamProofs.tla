--------------------------- MODULE DiskStreamProofs ---------------------------
(***************************************************************************)
(* Theorems about DiskStream, for every size of sectors and heap blocks,   *)
(* every width of the sector count and all buffers.                        *)
(***************************************************************************)
EXTENDS DiskStream, TLAPS

(* Products and quotients of the sizes involved. *)
LEMMA ProductInNat == \A m, n \in Nat : m * n \in Nat
  OBVIOUS

LEMMA Distributes == \A a, b, c \in Nat : (a + b) * c = a * c + b * c
  OBVIOUS

LEMMA DivisionFacts ==
  ASSUME NEW n \in Nat, NEW d \in Nat \ {0}
  PROVE  /\ n \div d \in Nat /\ n % d \in Nat
         /\ n % d < d
         /\ n = (n \div d) * d + (n % d)
  OBVIOUS

(* Whatever is asked for is less than a sector short of what is allocated. *)
LEMMA SectorsCover ==
  ASSUME NEW size \in Nat
  PROVE  /\ disk_stream_get_affected_sectors(size) \in Nat
         /\ size <= disk_stream_get_affected_sectors(size) * SectorSize
         /\ disk_stream_get_affected_sectors(size) * SectorSize < size + SectorSize
<1> DEFINE q == size \div SectorSize
           r == size % SectorSize
<1>1. q \in Nat /\ r \in Nat /\ r < SectorSize /\ size = q * SectorSize + r
  BY StreamAssumption, DivisionFacts
<1>2. disk_stream_get_affected_sectors(size) = q + (IF r = 0 THEN 0 ELSE 1)
  BY DEF disk_stream_get_affected_sectors
<1>3. SectorSize \in Nat /\ (q + 1) * SectorSize = q * SectorSize + SectorSize
      /\ (q + 0) * SectorSize = q * SectorSize /\ q * SectorSize \in Nat
  BY <1>1, StreamAssumption
<1> HIDE DEF q, r
<1>4. CASE r = 0
  BY <1>1, <1>2, <1>3, <1>4, StreamAssumption
<1>5. CASE r # 0
  BY <1>1, <1>2, <1>3, <1>5, StreamAssumption
<1> QED
  BY <1>4, <1>5

LEMMA PlaceFacts ==
  ASSUME NEW from \in Nat
  PROVE  /\ Sector(from) \in Nat /\ Offset(from) \in Nat
         /\ Offset(from) < SectorSize
         /\ from = Sector(from) * SectorSize + Offset(from)
  BY StreamAssumption, DivisionFacts DEF Sector, Offset

(* The sectors really transferred, and where they end. *)
LEMMA TransferFacts ==
  ASSUME NEW from \in Nat, NEW size \in Nat
  PROVE  LET n == disk_stream_get_affected_sectors(size)
             k == TransferredSectors(size)
         IN  /\ n \in Nat /\ k \in Nat /\ k <= n /\ k < CountMod
             /\ n < CountMod => k = n
             /\ EndOfTransfer(from, size) \in Nat
             /\ EndOfTransfer(from, size) = from - Offset(from) + k * SectorSize
<1> DEFINE n == disk_stream_get_affected_sectors(size)
           k == TransferredSectors(size)
<1>1. n \in Nat
  BY SectorsCover
<1>2. k = n % CountMod
  BY DEF TransferredSectors
<1> HIDE DEF n, k
<1>3. k \in Nat /\ k < CountMod /\ n = (n \div CountMod) * CountMod + k /\ n \div CountMod \in Nat
  BY <1>1, <1>2, StreamAssumption, DivisionFacts
<1>4. k <= n
  <2>1. (n \div CountMod) * CountMod \in Nat
    BY <1>3, StreamAssumption, ProductInNat
  <2> QED
    BY <1>1, <1>3, <2>1
<1>5. n < CountMod => k = n
  BY <1>1, <1>2, StreamAssumption
<1>6. EndOfTransfer(from, size) = (Sector(from) + k) * SectorSize
  BY DEF EndOfTransfer, k
<1>7. /\ (Sector(from) + k) * SectorSize = Sector(from) * SectorSize + k * SectorSize
      /\ (Sector(from) + k) * SectorSize \in Nat
      /\ k * SectorSize \in Nat /\ Sector(from) * SectorSize \in Nat
  <2>1. Sector(from) \in Nat
    BY PlaceFacts
  <2>2. SectorSize \in Nat /\ Sector(from) + k \in Nat
    BY <1>3, <2>1, StreamAssumption
  <2> QED
    BY <1>3, <2>1, <2>2, Distributes, ProductInNat
<1>8. from = Sector(from) * SectorSize + Offset(from) /\ Offset(from) \in Nat
  BY PlaceFacts
<1>9. EndOfTransfer(from, size) = from - Offset(from) + k * SectorSize
  BY <1>6, <1>7, <1>8
<1> QED
  BY <1>1, <1>3, <1>4, <1>5, <1>6, <1>7, <1>9 DEF n, k

LEMMA BufferFacts ==
  ASSUME NEW buffer \in Buffers
  PROVE  Len(buffer) \in Nat /\ DOMAIN buffer = 1 .. Len(buffer)
  BY StreamAssumption

-----------------------------------------------------------------------------
(***************************************************************************)
(* Reading whole sectors into a buffer, changing it and storing it again,  *)
(* byte by byte: with the buffer at its place up to the end of what was    *)
(* stored, and all else as it was.                                         *)
(***************************************************************************)
Patched(from, buffer, end) ==
  [p \in Positions |->
     IF p < end /\ p - from + 1 \in DOMAIN buffer THEN buffer[p - from + 1] ELSE bytes[p]]

(* The first of the sectors and the sectors transferred, counted in bytes. *)
LEMMA FilledFacts ==
  ASSUME NEW from \in Nat, NEW size \in Nat, NEW n \in 0 .. TransferredSectors(size)
  PROVE  /\ n * SectorSize \in Nat /\ Sector(from) * SectorSize \in Nat
         /\ (Sector(from) + n) * SectorSize = Sector(from) * SectorSize + n * SectorSize
         /\ n * SectorSize <= TransferredSectors(size) * SectorSize
         /\ TransferredSectors(size) * SectorSize \in Nat
         /\ TransferredSectors(size) * SectorSize <= BufferBytes(size)
         /\ BufferBytes(size) \in Nat
<1> DEFINE k == TransferredSectors(size)
           a == disk_stream_get_affected_sectors(size)
<1>1. k \in Nat /\ a \in Nat /\ k <= a /\ n \in Nat /\ n <= k
      /\ Sector(from) \in Nat /\ SectorSize \in Nat
  <2>1. k \in Nat /\ a \in Nat /\ k <= a
    BY TransferFacts
  <2>2. Sector(from) \in Nat /\ SectorSize \in Nat
    BY PlaceFacts, StreamAssumption
  <2>3. n \in 0 .. k
    OBVIOUS
  <2> HIDE DEF k, a
  <2> QED
    BY <2>1, <2>2, <2>3
<1>2. BufferBytes(size) = a * SectorSize
  BY DEF BufferBytes
<1> HIDE DEF k, a
<1>3. \A x, y, z \in Nat : x <= y => x * z <= y * z
  <2>1. ASSUME NEW x \in Nat, NEW y \in Nat, NEW z \in Nat, x <= y
        PROVE  x * z <= y * z
    <3>1. y - x \in Nat /\ y = x + (y - x)
      BY <2>1
    <3>2. y * z = x * z + (y - x) * z
      BY <3>1, Distributes
    <3>3. (y - x) * z \in Nat /\ x * z \in Nat
      BY <3>1, ProductInNat
    <3> QED
      BY <3>2, <3>3
  <2> QED
    BY <2>1
<1> QED
  BY <1>1, <1>2, <1>3, ProductInNat, Distributes DEF k

LEMMA ReadChangeWrite ==
  ASSUME NEW from \in Nat, NEW buffer \in Buffers,
         NEW n \in 0 .. TransferredSectors(Len(buffer))
  PROVE  WrittenBack(from, buffer, n) =
           Patched(from, buffer, (Sector(from) + n) * SectorSize)
<1> DEFINE size  == Len(buffer)
           first == Sector(from) * SectorSize
           local == Filled(from, size)
           changed == CopiedIn(local, from, buffer)
           stored == n * SectorSize
           moved == TransferredSectors(size) * SectorSize
<1>1. size \in Nat /\ DOMAIN buffer = 1 .. size
  BY BufferFacts
<1>2. /\ stored \in Nat /\ first \in Nat /\ moved \in Nat /\ stored <= moved
      /\ (Sector(from) + n) * SectorSize = first + stored
      /\ moved <= BufferBytes(size) /\ BufferBytes(size) \in Nat
  BY <1>1, FilledFacts
<1>3. from = first + Offset(from) /\ Offset(from) \in Nat
  BY PlaceFacts
<1>4. /\ DOMAIN changed = 0 .. (BufferBytes(size) - 1)
      /\ DOMAIN local = 0 .. (BufferBytes(size) - 1)
      /\ \A at \in 0 .. (stored - 1) : local[at] = bytes[first + at]
      /\ \A at \in 0 .. (BufferBytes(size) - 1) :
           changed[at] = IF at - Offset(from) + 1 \in DOMAIN buffer
                           THEN buffer[at - Offset(from) + 1] ELSE local[at]
  <2>1. local = [at \in 0 .. (BufferBytes(size) - 1) |->
                   IF at < moved THEN bytes[first + at] ELSE Junk]
    BY DEF Filled
  <2>2. DOMAIN local = 0 .. (BufferBytes(size) - 1)
    BY <2>1
  <2>3. changed = [at \in 0 .. (BufferBytes(size) - 1) |->
                     IF at - Offset(from) + 1 \in DOMAIN buffer
                       THEN buffer[at - Offset(from) + 1] ELSE local[at]]
    BY <2>2 DEF CopiedIn
  <2> HIDE DEF local, changed, moved, stored, first
  <2>4. \A at \in 0 .. (stored - 1) : at \in 0 .. (BufferBytes(size) - 1) /\ at < moved
    BY <1>2
  <2> QED
    BY <2>1, <2>2, <2>3, <2>4
<1>5. WrittenBack(from, buffer, n) =
        [p \in Positions |->
           IF p - first \in 0 .. (stored - 1) THEN changed[p - first] ELSE bytes[p]]
  BY DEF WrittenBack, Stored
<1>6. Positions \subseteq Nat
  BY DEF Positions
<1> HIDE DEF size, first, local, changed, stored, moved
<1>7. ASSUME NEW p \in Positions
      PROVE  (IF p - first \in 0 .. (stored - 1) THEN changed[p - first] ELSE bytes[p])
               = IF p < first + stored /\ p - from + 1 \in DOMAIN buffer
                   THEN buffer[p - from + 1] ELSE bytes[p]
  <2>1. p \in Nat
    BY <1>6
  <2>2. CASE p - first \in 0 .. (stored - 1)
    <3> DEFINE at == p - first
    <3>1. /\ at \in 0 .. (BufferBytes(size) - 1) /\ first + at = p
          /\ at - Offset(from) + 1 = p - from + 1 /\ p < first + stored
      BY <1>2, <1>3, <2>1, <2>2
    <3>2. local[at] = bytes[first + at]
      BY <1>4, <2>2
    <3> HIDE DEF at
    <3> QED
      BY <1>4, <2>2, <3>1, <3>2 DEF at
  <2>3. CASE p - first \notin 0 .. (stored - 1)
    <3>1. ~(p < first + stored) \/ p - from + 1 \notin DOMAIN buffer
      BY <1>1, <1>2, <1>3, <2>1, <2>3
    <3> QED
      BY <2>3, <3>1
  <2> QED
    BY <2>2, <2>3
<1> QED
  BY <1>2, <1>5, <1>7 DEF Patched

(* A read delivers the bytes of the disk up to the end of the transfer. *)
LEMMA ReadOut ==
  ASSUME NEW from \in Nat, NEW size \in Nat
  PROVE  CopiedOut(Filled(from, size), from, size) =
           [i \in 1 .. size |->
              IF from + i - 1 < EndOfTransfer(from, size) THEN bytes[from + i - 1] ELSE Junk]
<1> DEFINE first == Sector(from) * SectorSize
           local == Filled(from, size)
           moved == TransferredSectors(size) * SectorSize
<1>1. /\ first \in Nat /\ moved \in Nat /\ BufferBytes(size) \in Nat
      /\ moved <= BufferBytes(size) /\ EndOfTransfer(from, size) = first + moved
  <2>1. TransferredSectors(size) \in 0 .. TransferredSectors(size)
    BY TransferFacts
  <2> QED
    BY <2>1, FilledFacts DEF EndOfTransfer
<1>2. from = first + Offset(from) /\ Offset(from) \in Nat
  BY PlaceFacts
<1>3. local = [at \in 0 .. (BufferBytes(size) - 1) |->
                 IF at < moved THEN bytes[first + at] ELSE Junk]
  BY DEF Filled
<1> HIDE DEF first, local, moved
<1>4. ASSUME NEW i \in 1 .. size
      PROVE  (IF Offset(from) + i - 1 \in DOMAIN local THEN local[Offset(from) + i - 1]
                                                       ELSE Junk)
               = IF from + i - 1 < first + moved THEN bytes[from + i - 1] ELSE Junk
  <2> DEFINE at == Offset(from) + i - 1
  <2>1. at \in Nat /\ first + at = from + i - 1 /\ DOMAIN local = 0 .. (BufferBytes(size) - 1)
    <3>1. DOMAIN local = 0 .. (BufferBytes(size) - 1)
      BY <1>3
    <3>2. i \in Nat /\ i >= 1
      OBVIOUS
    <3>3. at \in Nat /\ first + at = from + i - 1
      BY <1>1, <1>2, <3>2
    <3> QED
      BY <3>1, <3>3
  <2>2. (from + i - 1 < first + moved) <=> at < moved
    BY <1>1, <1>2, <2>1
  <2>3. at < moved => at \in 0 .. (BufferBytes(size) - 1)
    BY <1>1, <2>1
  <2> HIDE DEF at
  <2>4. at \in DOMAIN local => local[at] = IF at < moved THEN bytes[first + at] ELSE Junk
    BY <1>3, <2>1
  <2> QED
    BY <2>1, <2>2, <2>3, <2>4 DEF at
<1> QED
  BY <1>1, <1>4 DEF CopiedOut, local

-----------------------------------------------------------------------------
(***************************************************************************)
(* Types.                                                                  *)
(***************************************************************************)
LEMMA PatchedType ==
  ASSUME TypeOK, NEW from \in Nat, NEW buffer \in Buffers, NEW end
  PROVE  Patched(from, buffer, end) \in [Positions -> Written \cup {Fresh}]
<1>1. \A i \in DOMAIN buffer : buffer[i] \in Written
  BY DEF Written, BytesIn
<1> QED
  BY <1>1 DEF Patched, TypeOK

LEMMA NextTypeOK == TypeOK /\ [Next]_vars => TypeOK'
<1> SUFFICES ASSUME TypeOK, [Next]_vars PROVE TypeOK'
  OBVIOUS
<1>1. Positions \subseteq Nat
  BY StreamAssumption DEF Positions
<1>2. ASSUME NEW s \in Streams,
             disk_stream_new(s) \/ disk_stream_reset(s) \/ disk_stream_close(s)
      PROVE  TypeOK'
  BY <1>2 DEF TypeOK, disk_stream_new, disk_stream_reset, disk_stream_close
<1>3. ASSUME NEW s \in Streams, NEW to \in Positions, disk_stream_seek(s, to)
      PROVE  TypeOK'
  BY <1>1, <1>3 DEF TypeOK, disk_stream_seek
<1>4. ASSUME NEW s \in Streams, NEW sector \in 0 .. (DiskSectors - 1),
             disk_stream_seek_by_sector(s, sector)
      PROVE  TypeOK'
  <2>1. sector * SectorSize \in Nat
    BY StreamAssumption, ProductInNat
  <2> QED
    BY <1>4, <2>1 DEF TypeOK, disk_stream_seek_by_sector
<1>5. ASSUME NEW s \in Streams, NEW buffer \in Buffers, disk_stream_read(s, Len(buffer))
      PROVE  TypeOK'
  <2>1. Len(buffer) \in Nat /\ pos[s] \in Nat
    BY <1>5, StreamAssumption DEF TypeOK, disk_stream_read, IsOpen
  <2>2. CASE Refuse("read", s, Len(buffer))
    BY <2>2 DEF TypeOK, Refuse
  <2>3. CASE /\ pos' = [pos EXCEPT ![s] = @ + Len(buffer)]
             /\ overrun' = (overrun \/ LeavesHeapBlocks(pos[s], Len(buffer)))
             /\ UNCHANGED bytes
    <3>1. pos[s] + Len(buffer) \in Nat
      BY <2>1
    <3>2. LeavesHeapBlocks(pos[s], Len(buffer)) \in BOOLEAN
      BY DEF LeavesHeapBlocks
    <3> QED
      BY <2>3, <3>1, <3>2 DEF TypeOK
  <2> QED
    BY <1>5, <2>2, <2>3 DEF disk_stream_read
<1>6. ASSUME NEW s \in Streams, NEW buffer \in Buffers, disk_stream_write(s, buffer)
      PROVE  TypeOK'
  <2>1. Len(buffer) \in Nat /\ pos[s] \in Nat
    BY <1>6, StreamAssumption DEF TypeOK, disk_stream_write, IsOpen
  <2>2. CASE Refuse("write", s, Len(buffer))
    BY <2>2 DEF TypeOK, Refuse
  <2>3. CASE /\ pos' = [pos EXCEPT ![s] = @ + Len(buffer)]
             /\ overrun' = (overrun \/ LeavesHeapBlocks(pos[s], Len(buffer)))
             /\ bytes' = WrittenBack(pos[s], buffer, TransferredSectors(Len(buffer)))
    <3>1. pos[s] + Len(buffer) \in Nat
      BY <2>1
    <3>2. LeavesHeapBlocks(pos[s], Len(buffer)) \in BOOLEAN
      BY DEF LeavesHeapBlocks
    <3>3. bytes' \in [Positions -> Written \cup {Fresh}]
      <4>1. TransferredSectors(Len(buffer)) \in 0 .. TransferredSectors(Len(buffer))
        BY <2>1, TransferFacts
      <4> QED
        BY <2>1, <2>3, <4>1, ReadChangeWrite, PatchedType
    <3> QED
      BY <2>3, <3>1, <3>2, <3>3 DEF TypeOK
  <2> QED
    BY <1>6, <2>2, <2>3 DEF disk_stream_write
<1>7. ASSUME NEW s \in Streams, NEW buffer \in Buffers, PowerFailsInWrite(s, buffer)
      PROVE  TypeOK'
  <2>1. pos[s] \in Nat
    BY <1>7 DEF TypeOK, PowerFailsInWrite, IsOpen
  <2>2. PICK n \in 0 .. TransferredSectors(Len(buffer)) :
          bytes' = WrittenBack(pos[s], buffer, n)
    <3>1. TransferredSectors(Len(buffer)) \in Nat
      BY <2>1, TransferFacts, BufferFacts
    <3>2. \A n \in 0 .. (TransferredSectors(Len(buffer)) - 1) :
            n \in 0 .. TransferredSectors(Len(buffer))
      BY <3>1
    <3> QED
      BY <1>7, <3>2 DEF PowerFailsInWrite
  <2>3. bytes' \in [Positions -> Written \cup {Fresh}]
    BY <2>1, <2>2, ReadChangeWrite, PatchedType
  <2> QED
    BY <1>7, <2>3 DEF TypeOK, PowerFailsInWrite
<1>8. CASE UNCHANGED vars
  BY <1>8 DEF vars, TypeOK
<1> QED
  BY <1>2, <1>3, <1>4, <1>5, <1>6, <1>7, <1>8 DEF Next

LEMMA InitTypeOK == Init => TypeOK
  BY DEF Init, TypeOK

(***************************************************************************)
(* Type correctness of the disk and the streams.                           *)
(***************************************************************************)
THEOREM StreamTypes == Spec => []TypeOK
  BY InitTypeOK, NextTypeOK, PTL DEF Spec

-----------------------------------------------------------------------------
(***************************************************************************)
(* The shapes of a step: a transfer refused, a read, a write that was      *)
(* stored up to some position, or a step that leaves bytes, overrun and    *)
(* last alone.                                                             *)
(***************************************************************************)
Quiet == UNCHANGED <<bytes, last>> /\ (overrun' => overrun)

RefusedOne ==
  /\ last'.code = "INVALID_ARGUMENT"
  /\ UNCHANGED <<bytes, overrun>>

ReadOne(s, size) ==
  /\ ~Refused(size) /\ OnDisk(pos[s], size)
  /\ last' = [op |-> "read", from |-> pos[s], size |-> size, code |-> "OK",
              delivered |-> [i \in 1 .. size |->
                IF pos[s] + i - 1 < EndOfTransfer(pos[s], size)
                  THEN bytes[pos[s] + i - 1] ELSE Junk]]
  /\ overrun' = (overrun \/ LeavesHeapBlocks(pos[s], size))
  /\ UNCHANGED bytes

WroteOne(s, buffer) ==
  /\ ~Refused(Len(buffer)) /\ OnDisk(pos[s], Len(buffer))
  /\ last' = [op |-> "write", from |-> pos[s], size |-> Len(buffer), code |-> "OK",
              delivered |-> buffer]
  /\ bytes' = Patched(pos[s], buffer, EndOfTransfer(pos[s], Len(buffer)))
  /\ overrun' = (overrun \/ LeavesHeapBlocks(pos[s], Len(buffer)))

CutOne(s, buffer) ==
  /\ last' = [op |-> "write", from |-> pos[s], size |-> Len(buffer), code |-> "CUT SHORT",
              delivered |-> buffer]
  /\ \E end : bytes' = Patched(pos[s], buffer, end)
  /\ ~overrun'

LEMMA OpenAt ==
  ASSUME TypeOK, NEW s \in Streams, IsOpen(s)
  PROVE  pos[s] \in Nat
  BY DEF TypeOK, IsOpen

LEMMA StepShapes ==
  ASSUME TypeOK, [Next]_vars
  PROVE  \/ Quiet
         \/ RefusedOne
         \/ \E s \in Streams, buffer \in Buffers :
              /\ IsOpen(s)
              /\ \/ ReadOne(s, Len(buffer))
                 \/ WroteOne(s, buffer)
                 \/ CutOne(s, buffer)
<1>1. ASSUME NEW s \in Streams,
             \/ disk_stream_new(s) \/ disk_stream_reset(s) \/ disk_stream_close(s)
             \/ \E to \in Positions : disk_stream_seek(s, to)
             \/ \E sector \in 0 .. (DiskSectors - 1) : disk_stream_seek_by_sector(s, sector)
      PROVE  Quiet
  BY <1>1 DEF Quiet, disk_stream_new, disk_stream_reset, disk_stream_close,
              disk_stream_seek, disk_stream_seek_by_sector
<1>2. ASSUME NEW s \in Streams, NEW buffer \in Buffers, disk_stream_read(s, Len(buffer))
      PROVE  RefusedOne \/ (IsOpen(s) /\ ReadOne(s, Len(buffer)))
  <2>1. IsOpen(s) /\ pos[s] \in Nat /\ Len(buffer) \in Nat
    BY <1>2, OpenAt, BufferFacts DEF disk_stream_read
  <2>2. CopiedOut(Filled(pos[s], Len(buffer)), pos[s], Len(buffer)) =
          [i \in 1 .. Len(buffer) |->
             IF pos[s] + i - 1 < EndOfTransfer(pos[s], Len(buffer))
               THEN bytes[pos[s] + i - 1] ELSE Junk]
    BY <2>1, ReadOut
  <2>3. CASE Refuse("read", s, Len(buffer))
    BY <2>3 DEF Refuse, Transfer, RefusedOne
  <2>4. CASE ~Refuse("read", s, Len(buffer))
    BY <1>2, <2>1, <2>2, <2>4 DEF disk_stream_read, Transfer, ReadOne
  <2> QED
    BY <2>3, <2>4
<1>3. ASSUME NEW s \in Streams, NEW buffer \in Buffers, disk_stream_write(s, buffer)
      PROVE  RefusedOne \/ (IsOpen(s) /\ WroteOne(s, buffer))
  <2>1. IsOpen(s) /\ pos[s] \in Nat /\ Len(buffer) \in Nat
    BY <1>3, OpenAt, BufferFacts DEF disk_stream_write
  <2>2. TransferredSectors(Len(buffer)) \in 0 .. TransferredSectors(Len(buffer))
    BY <2>1, TransferFacts
  <2>3. WrittenBack(pos[s], buffer, TransferredSectors(Len(buffer))) =
          Patched(pos[s], buffer, EndOfTransfer(pos[s], Len(buffer)))
    BY <2>1, <2>2, ReadChangeWrite DEF EndOfTransfer
  <2> QED
    BY <1>3, <2>1, <2>3 DEF disk_stream_write, Refuse, Transfer, RefusedOne, WroteOne
<1>4. ASSUME NEW s \in Streams, NEW buffer \in Buffers, PowerFailsInWrite(s, buffer)
      PROVE  IsOpen(s) /\ CutOne(s, buffer)
  <2>1. IsOpen(s) /\ pos[s] \in Nat
    BY <1>4, OpenAt DEF PowerFailsInWrite
  <2>2. PICK n \in 0 .. TransferredSectors(Len(buffer)) :
          bytes' = WrittenBack(pos[s], buffer, n)
    <3>1. TransferredSectors(Len(buffer)) \in Nat
      BY <2>1, TransferFacts, BufferFacts
    <3>2. \A n \in 0 .. (TransferredSectors(Len(buffer)) - 1) :
            n \in 0 .. TransferredSectors(Len(buffer))
      BY <3>1
    <3> QED
      BY <1>4, <3>2 DEF PowerFailsInWrite
  <2>3. bytes' = Patched(pos[s], buffer, (Sector(pos[s]) + n) * SectorSize)
    BY <2>1, <2>2, ReadChangeWrite
  <2> QED
    BY <1>4, <2>1, <2>3 DEF PowerFailsInWrite, Transfer, CutOne
<1>5. CASE UNCHANGED vars
  BY <1>5 DEF vars, Quiet
<1> QED
  BY <1>1, <1>2, <1>3, <1>4, <1>5 DEF Next

-----------------------------------------------------------------------------
(* And the place of a buffer is where the request said. *)
LEMMA PatchedInPlace ==
  ASSUME NEW from \in Nat, NEW buffer \in Buffers, NEW end, NEW p \in Positions,
         Patched(from, buffer, end)[p] # bytes[p]
  PROVE  p \in from .. (from + Len(buffer) - 1)
<1>1. p \in Nat
  BY StreamAssumption DEF Positions
<1>2. p - from + 1 \in 1 .. Len(buffer)
  BY BufferFacts DEF Patched
<1> QED
  BY <1>1, <1>2, BufferFacts

(***************************************************************************)
(* Reading whole sectors, changing them in a buffer and writing them back  *)
(* disturbs no byte outside the request: for every size of a sector, every *)
(* width of the count, with a copy loop that stays in its buffer or leaves *)
(* it, and wherever the power fails.                                       *)
(***************************************************************************)
THEOREM OthersUndisturbed == Spec => NeighboursUndisturbed
<1>1. ASSUME TypeOK, [Next]_vars, bytes' # bytes, NEW p \in Positions, bytes'[p] # bytes[p]
      PROVE  p \in Place(last')
  <2>1. ~Quiet /\ ~RefusedOne
    BY <1>1 DEF Quiet, RefusedOne
  <2>2. PICK s \in Streams, buffer \in Buffers :
          IsOpen(s) /\ (WroteOne(s, buffer) \/ CutOne(s, buffer))
    BY <1>1, <2>1, StepShapes DEF ReadOne
  <2>3. PICK end : bytes' = Patched(pos[s], buffer, end)
    BY <2>2 DEF WroteOne, CutOne
  <2>4. p \in pos[s] .. (pos[s] + Len(buffer) - 1)
    BY <1>1, <2>2, <2>3, OpenAt, PatchedInPlace
  <2>5. last'.from = pos[s] /\ last'.size = Len(buffer)
    <3>1. CASE WroteOne(s, buffer)
      BY <3>1 DEF WroteOne
    <3>2. CASE CutOne(s, buffer)
      BY <3>2 DEF CutOne
    <3> QED
      BY <2>2, <3>1, <3>2
  <2> QED
    BY <2>4, <2>5 DEF Place
<1>2. TypeOK /\ [Next]_vars =>
        [bytes' # bytes =>
           \A p \in Positions : bytes'[p] # bytes[p] => p \in Place(last')]_vars
  BY <1>1
<1> QED
  BY <1>2, StreamTypes, PTL DEF Spec, NeighboursUndisturbed

-----------------------------------------------------------------------------
(***************************************************************************)
(* A request that fits its sectors ends where its transfer ends, or before.*)
(***************************************************************************)
LEMMA FittingEndsInside ==
  ASSUME NEW from \in Nat, NEW size \in Nat,
         Offset(from) + size <= disk_stream_get_affected_sectors(size) * SectorSize,
         disk_stream_get_affected_sectors(size) < CountMod
  PROVE  from + size <= EndOfTransfer(from, size)
<1> DEFINE n == disk_stream_get_affected_sectors(size)
<1>1. EndOfTransfer(from, size) = from - Offset(from) + n * SectorSize
  BY TransferFacts
<1>2. n * SectorSize \in Nat /\ Offset(from) \in Nat
  BY TransferFacts, PlaceFacts, ProductInNat, StreamAssumption
<1> HIDE DEF n
<1>3. Offset(from) + size <= n * SectorSize
  BY DEF n
<1> QED
  BY <1>1, <1>2, <1>3

(* And the other way round, for a request that is not empty. *)
LEMMA InsideIsFitting ==
  ASSUME NEW from \in Nat, NEW size \in Nat \ {0},
         from + size <= EndOfTransfer(from, size)
  PROVE  /\ Offset(from) + size <= disk_stream_get_affected_sectors(size) * SectorSize
         /\ disk_stream_get_affected_sectors(size) < CountMod
<1> DEFINE n == disk_stream_get_affected_sectors(size)
           k == TransferredSectors(size)
<1>1. /\ n \in Nat /\ k \in Nat /\ k <= n /\ k < CountMod
      /\ EndOfTransfer(from, size) = from - Offset(from) + k * SectorSize
  BY TransferFacts
<1>2. n * SectorSize < size + SectorSize
  BY SectorsCover
<1>3. Offset(from) \in Nat /\ SectorSize \in Nat \ {0} /\ CountMod \in Nat
  BY PlaceFacts, StreamAssumption
<1> HIDE DEF n, k
<1>4. k * SectorSize \in Nat /\ n * SectorSize \in Nat
  BY <1>1, <1>3, ProductInNat
<1>5. Offset(from) + size <= k * SectorSize
  BY <1>1, <1>3, <1>4
<1>6. k = n
  <2>1. CASE k + 1 <= n
    <3>1. (k + 1) * SectorSize <= n * SectorSize
      BY <1>1, <1>3, <2>1
    <3>2. (k + 1) * SectorSize = k * SectorSize + SectorSize
      BY <1>1, <1>3
    <3> QED
      BY <1>2, <1>3, <1>4, <1>5, <3>1, <3>2
  <2> QED
    BY <1>1, <2>1
<1> QED
  BY <1>1, <1>5, <1>6 DEF n

LEMMA ReadEnds ==
  ASSUME TypeOK, NEW s \in Streams, NEW size \in Nat, IsOpen(s), ReadOne(s, size)
  PROVE  IF FitsItsSectors(last') THEN Complete(last', bytes')
                                  ELSE LosesItsEnd(last', bytes, bytes')
<1> DEFINE from == pos[s]
           end  == EndOfTransfer(from, size)
<1>1. from \in Nat /\ end \in Nat /\ size # 0
  BY OpenAt, TransferFacts DEF ReadOne, Refused
<1>2. /\ last'.from = from /\ last'.size = size /\ last'.op = "read" /\ bytes' = bytes
      /\ end <= DiskSectors * SectorSize
      /\ \A i \in 1 .. size :
           last'.delivered[i] = IF from + i - 1 < end THEN bytes[from + i - 1] ELSE Junk
  BY DEF ReadOne, OnDisk
<1>3. DiskSectors * SectorSize \in Nat
  BY StreamAssumption, ProductInNat
<1> HIDE DEF from, end
<1>4. ASSUME FitsItsSectors(last'), NEW i \in 1 .. size
      PROVE  /\ from + i - 1 \in Positions
             /\ last'.delivered[i] = bytes'[from + i - 1]
  <2>1. from + size <= end
    BY <1>1, <1>2, <1>4, FittingEndsInside DEF FitsItsSectors, end
  <2>2. from + i - 1 < end /\ from + i - 1 \in Nat
    BY <1>1, <2>1
  <2>3. from + i - 1 \in Positions
    BY <1>1, <1>2, <1>3, <2>2 DEF Positions
  <2> QED
    BY <1>2, <2>2, <2>3
<1>5. ASSUME ~FitsItsSectors(last')
      PROVE  last'.delivered[size] = Junk
  <2>1. ~(from + size <= end)
    BY <1>1, <1>2, <1>5, InsideIsFitting DEF FitsItsSectors, end
  <2>2. size \in 1 .. size /\ ~(from + size - 1 < end)
    BY <1>1, <2>1
  <2> QED
    BY <1>2, <2>2
<1> QED
  BY <1>2, <1>4, <1>5 DEF Complete, LosesItsEnd

LEMMA WriteEnds ==
  ASSUME TypeOK, NEW s \in Streams, NEW buffer \in Buffers, IsOpen(s), WroteOne(s, buffer)
  PROVE  IF FitsItsSectors(last') THEN Complete(last', bytes')
                                  ELSE LosesItsEnd(last', bytes, bytes')
<1> DEFINE from == pos[s]
           size == Len(buffer)
           end  == EndOfTransfer(from, size)
<1>1. from \in Nat /\ size \in Nat /\ end \in Nat /\ size # 0
  BY OpenAt, TransferFacts, BufferFacts DEF WroteOne, Refused
<1>2. /\ last'.from = from /\ last'.size = size /\ last'.delivered = buffer
      /\ last'.op = "write"
      /\ bytes' = Patched(from, buffer, end)
      /\ end <= DiskSectors * SectorSize
  BY DEF WroteOne, OnDisk
<1>3. DiskSectors * SectorSize \in Nat /\ DOMAIN buffer = 1 .. size
  BY StreamAssumption, ProductInNat, BufferFacts
<1> HIDE DEF from, size, end
<1>4. ASSUME FitsItsSectors(last'), NEW i \in 1 .. size
      PROVE  /\ from + i - 1 \in Positions
             /\ buffer[i] = bytes'[from + i - 1]
  <2>1. from + size <= end
    BY <1>1, <1>2, <1>4, FittingEndsInside DEF FitsItsSectors, end
  <2>2. from + i - 1 < end /\ from + i - 1 \in Nat /\ (from + i - 1) - from + 1 = i
    BY <1>1, <2>1
  <2>3. from + i - 1 \in Positions
    BY <1>1, <1>2, <1>3, <2>2 DEF Positions
  <2> QED
    BY <1>2, <1>3, <2>2, <2>3 DEF Patched
<1>5. ASSUME ~FitsItsSectors(last'), from + size - 1 \in Positions
      PROVE  bytes'[from + size - 1] = bytes[from + size - 1]
  <2>1. ~(from + size <= end)
    BY <1>1, <1>2, <1>5, InsideIsFitting DEF FitsItsSectors, end
  <2>2. ~(from + size - 1 < end)
    BY <1>1, <2>1
  <2> QED
    BY <1>2, <1>5, <2>2 DEF Patched
<1> QED
  BY <1>2, <1>4, <1>5 DEF Complete, LosesItsEnd

(***************************************************************************)
(* What OK means of a transfer, for all sizes: it is complete if the       *)
(* request fits, at its offset, the sectors that its length asks for, and  *)
(* otherwise it loses its end.                                             *)
(***************************************************************************)
THEOREM OkIsCompleteIfItFits == Spec => FittingTransfersAreComplete
<1>1. ASSUME TypeOK, [Next]_vars, last' # last, last'.code = "OK"
      PROVE  IF FitsItsSectors(last') THEN Complete(last', bytes')
                                      ELSE LosesItsEnd(last', bytes, bytes')
  <2>1. ~Quiet /\ ~RefusedOne
    BY <1>1 DEF Quiet, RefusedOne
  <2>2. PICK s \in Streams, buffer \in Buffers :
          IsOpen(s) /\ (ReadOne(s, Len(buffer)) \/ WroteOne(s, buffer) \/ CutOne(s, buffer))
    BY <1>1, <2>1, StepShapes
  <2>3. CASE ReadOne(s, Len(buffer))
    BY <1>1, <2>2, <2>3, ReadEnds, BufferFacts
  <2>4. CASE WroteOne(s, buffer)
    BY <1>1, <2>2, <2>4, WriteEnds
  <2>5. CASE CutOne(s, buffer)
    BY <1>1, <2>5 DEF CutOne
  <2> QED
    BY <2>2, <2>3, <2>4, <2>5
<1>2. TypeOK /\ [Next]_vars =>
        [last' # last /\ last'.code = "OK" =>
           IF FitsItsSectors(last') THEN Complete(last', bytes')
                                    ELSE LosesItsEnd(last', bytes, bytes')]_vars
  BY <1>1
<1> QED
  BY <1>2, StreamTypes, PTL DEF Spec, FittingTransfersAreComplete

-----------------------------------------------------------------------------
(***************************************************************************)
(* Buffers and heap blocks are whole sectors, so a buffer that does not    *)
(* fill its blocks leaves room for an offset.                              *)
(***************************************************************************)
LEMMA OneSectorMore ==
  ASSUME NEW a \in Nat, NEW b \in Nat, NEW d \in Nat \ {0}, a * d < b * d
  PROVE  a * d + d <= b * d
<1>1. CASE b <= a
  <2>1. PICK c \in Nat : a = b + c
    <3>1. a - b \in Nat /\ a = b + (a - b)
      BY <1>1
    <3> QED
      BY <3>1
  <2>2. a * d = b * d + c * d /\ c * d \in Nat /\ b * d \in Nat
    BY <2>1, Distributes, ProductInNat
  <2> QED
    BY <2>2
<1>2. CASE a + 1 <= b
  <2>1. PICK c \in Nat : b = (a + 1) + c
    <3>1. b - (a + 1) \in Nat /\ b = (a + 1) + (b - (a + 1))
      BY <1>2
    <3> QED
      BY <3>1
  <2>2. b * d = (a + 1) * d + c * d /\ (a + 1) * d = a * d + 1 * d
    BY <2>1, Distributes
  <2>3. c * d \in Nat /\ a * d \in Nat /\ 1 * d = d
    BY ProductInNat
  <2> QED
    BY <2>2, <2>3
<1> QED
  BY <1>1, <1>2

LEMMA RoomBehind ==
  ASSUME NEW from \in Nat, NEW size \in Nat, LeavesHeapBlocks(from, size)
  PROVE  Offset(from) # 0 /\ BufferBytes(size) % HeapBlock = 0
<1> DEFINE n == disk_stream_get_affected_sectors(size)
           bytesAsked == BufferBytes(size)
           blocks == (bytesAsked + HeapBlock - 1) \div HeapBlock
           k == HeapBlock \div SectorSize
<1>1. n \in Nat /\ bytesAsked = n * SectorSize /\ size <= n * SectorSize
  BY SectorsCover DEF BufferBytes
<1>2. /\ SectorSize \in Nat \ {0} /\ HeapBlock \in Nat \ {0} /\ k \in Nat
      /\ HeapBlock = k * SectorSize
  <2>1. HeapBlock = k * SectorSize + (HeapBlock % SectorSize) /\ k \in Nat
    BY StreamAssumption, DivisionFacts
  <2>2. k * SectorSize \in Nat
    BY <2>1, StreamAssumption, ProductInNat
  <2> QED
    BY <2>1, <2>2, StreamAssumption
<1>3. bytesAsked \in Nat
  BY <1>1, <1>2, ProductInNat
<1>4. Offset(from) \in Nat /\ Offset(from) < SectorSize
  BY PlaceFacts
<1>5. Offset(from) + size > blocks * HeapBlock
  BY DEF LeavesHeapBlocks
<1> HIDE DEF n, bytesAsked, blocks, k
<1>6. blocks \in Nat /\ bytesAsked <= blocks * HeapBlock
  <2>1. bytesAsked + HeapBlock - 1 \in Nat
    BY <1>2, <1>3
  <2>2. /\ blocks \in Nat
        /\ bytesAsked + HeapBlock - 1 = blocks * HeapBlock + ((bytesAsked + HeapBlock - 1) % HeapBlock)
        /\ (bytesAsked + HeapBlock - 1) % HeapBlock < HeapBlock
        /\ (bytesAsked + HeapBlock - 1) % HeapBlock \in Nat
    BY <1>2, <2>1, DivisionFacts DEF blocks
  <2>3. blocks * HeapBlock \in Nat
    BY <1>2, <2>2, ProductInNat
  <2> QED
    BY <1>2, <1>3, <2>2, <2>3
<1>7. Offset(from) # 0
  <2>1. blocks * HeapBlock \in Nat
    BY <1>2, <1>6, ProductInNat
  <2> QED
    BY <1>1, <1>3, <1>4, <1>5, <1>6, <2>1
<1>8. bytesAsked = blocks * HeapBlock
  <2>1. blocks * HeapBlock = (blocks * k) * SectorSize
    BY <1>2, <1>6
  <2>2. blocks * k \in Nat
    BY <1>2, <1>6, ProductInNat
  <2>3. (blocks * k) * SectorSize \in Nat /\ n * SectorSize \in Nat
    BY <1>1, <1>2, <2>2, ProductInNat
  <2>4. ASSUME n * SectorSize < (blocks * k) * SectorSize
        PROVE  FALSE
    <3>1. n * SectorSize + SectorSize <= (blocks * k) * SectorSize
      BY <1>1, <1>2, <2>2, <2>4, OneSectorMore
    <3> QED
      BY <1>1, <1>2, <1>4, <1>5, <2>1, <2>3, <3>1
  <2> QED
    BY <1>1, <1>6, <2>1, <2>3, <2>4
<1>9. bytesAsked % HeapBlock = 0
  BY <1>2, <1>6, <1>8
<1> QED
  BY <1>7, <1>9 DEF bytesAsked

(***************************************************************************)
(* A copy loop leaves the heap blocks of its buffer only from inside a     *)
(* sector and with a buffer that fills its blocks, for all sizes of both.  *)
(***************************************************************************)
THEOREM OverrunsStartInASector == Spec => OverrunNeedsAnOffset
<1>1. ASSUME TypeOK, [Next]_vars, overrun', ~overrun
      PROVE  Offset(last'.from) # 0 /\ BufferBytes(last'.size) % HeapBlock = 0
  <2>1. ~Quiet /\ ~RefusedOne
    BY <1>1 DEF Quiet, RefusedOne
  <2>2. PICK s \in Streams, buffer \in Buffers :
          IsOpen(s) /\ (ReadOne(s, Len(buffer)) \/ WroteOne(s, buffer) \/ CutOne(s, buffer))
    BY <1>1, <2>1, StepShapes
  <2>3. LeavesHeapBlocks(pos[s], Len(buffer))
    BY <1>1, <2>2 DEF ReadOne, WroteOne, CutOne
  <2>4. last'.from = pos[s] /\ last'.size = Len(buffer)
    <3>1. CASE ReadOne(s, Len(buffer))
      BY <3>1 DEF ReadOne
    <3>2. CASE WroteOne(s, buffer)
      BY <3>2 DEF WroteOne
    <3> QED
      BY <1>1, <2>2, <3>1, <3>2 DEF CutOne
  <2>5. pos[s] \in Nat /\ Len(buffer) \in Nat
    BY <1>1, <2>2, OpenAt, BufferFacts
  <2>6. Offset(pos[s]) # 0 /\ BufferBytes(Len(buffer)) % HeapBlock = 0
    BY <2>3, <2>5, RoomBehind
  <2> QED
    BY <2>4, <2>6
<1>2. TypeOK /\ [Next]_vars =>
        [overrun' /\ ~overrun =>
           /\ Offset(last'.from) # 0
           /\ BufferBytes(last'.size) % HeapBlock = 0]_vars
  BY <1>1
<1> QED
  BY <1>2, StreamTypes, PTL DEF Spec, OverrunNeedsAnOffset
=============================================================================
