----------------------------- MODULE DiskStream -----------------------------
(***************************************************************************)
(* Streams over the disk, src/src/lib/fs/disk_stream.c, with the sector    *)
(* transfers of src/src/lib/io/disk.c beneath them.  The stream reads the  *)
(* sectors it thinks a request touches into a heap buffer, copies bytes    *)
(* out of it or into it, and for a write stores the sectors again.         *)
(***************************************************************************)
EXTENDS Integers, Sequences

CONSTANTS
  SectorSize,     \* KERNEL_DEFAULT_DISK_SECTOR_SIZE
  CountMod,       \* disk_read_block takes the sector count as a uint8_t
  HeapBlock,      \* KERNEL_HEAP_BLOCK_SIZE, what malloc rounds up to
  DiskSectors,    \* bound: the sectors of the modelled disk
  Streams,        \* addresses of Disk_Streams
  Buffers,        \* what callers write; they read pieces of the same lengths
  Fresh,          \* a byte of the disk before the first write
  Junk,           \* a byte of the heap that nothing on the disk determines
  None

ASSUME StreamAssumption ==
  /\ SectorSize \in Nat \ {0}
  /\ CountMod \in Nat \ {0}
  /\ HeapBlock \in Nat \ {0} /\ HeapBlock % SectorSize = 0
  /\ DiskSectors \in Nat
  /\ \A buffer \in Buffers : Len(buffer) \in Nat /\ DOMAIN buffer = 1 .. Len(buffer)
  /\ Junk # Fresh
  /\ \A buffer \in Buffers : \A i \in DOMAIN buffer : buffer[i] # Junk

VARIABLES
  bytes,      \* the disk
  pos,        \* stream->pos, None for a stream that is not open
  overrun,    \* a copy has run out of its buffer's heap blocks
  last        \* the last transfer: op, from, size, code and what it delivered

vars == <<bytes, pos, overrun, last>>

Positions == 0 .. (DiskSectors * SectorSize - 1)

BytesIn(buffer) == {buffer[i] : i \in DOMAIN buffer}
Written == UNION {BytesIn(buffer) : buffer \in Buffers}

-----------------------------------------------------------------------------
(***************************************************************************)
(* disk_stream_get_affected_sectors looks at the length alone, not at the  *)
(* position inside the first sector.                                       *)
(***************************************************************************)
disk_stream_get_affected_sectors(total_bytes) ==
  total_bytes \div SectorSize + (IF total_bytes % SectorSize = 0 THEN 0 ELSE 1)

Sector(from) == from \div SectorSize
Offset(from) == from % SectorSize

(* Mutant of TransferredSectors: the last sector is left out. *)
TransferredSectors_OneLess(total_bytes) ==
  (disk_stream_get_affected_sectors(total_bytes) - 1) % CountMod

(* The sectors disk_read_block and disk_write_block really transfer. *)
TransferredSectors(total_bytes) ==
  disk_stream_get_affected_sectors(total_bytes) % CountMod

(* disk_read_sector and disk_write_sector refuse a count of 0. *)
Refused(total_bytes) == total_bytes = 0 \/ TransferredSectors(total_bytes) = 0

(* The position behind the sectors transferred for a request. *)
EndOfTransfer(from, total_bytes) ==
  (Sector(from) + TransferredSectors(total_bytes)) * SectorSize

(* Bound: the sectors transferred lie on the modelled disk. *)
OnDisk(from, total_bytes) == EndOfTransfer(from, total_bytes) <= DiskSectors * SectorSize

(* Mutant of BufferBytes: the leftover sector is not allocated. *)
BufferBytes_Truncated(total_bytes) == (total_bytes \div SectorSize) * SectorSize

(* The bytes that malloc is asked for. *)
BufferBytes(total_bytes) == disk_stream_get_affected_sectors(total_bytes) * SectorSize

(* The copy loop runs past the heap blocks that malloc gave for the buffer. *)
LeavesHeapBlocks(from, total_bytes) ==
  Offset(from) + total_bytes
    > ((BufferBytes(total_bytes) + HeapBlock - 1) \div HeapBlock) * HeapBlock

-----------------------------------------------------------------------------
(***************************************************************************)
(* The buffer on the heap between the disk and the caller's buffer.        *)
(***************************************************************************)

(* Mutant of Filled: the last sector is not read before it is changed. *)
Filled_LastNotRead(from, total_bytes) ==
  [at \in 0 .. (BufferBytes(total_bytes) - 1) |->
     IF at < (TransferredSectors(total_bytes) - 1) * SectorSize
       THEN bytes[Sector(from) * SectorSize + at] ELSE Junk]

(* disk_read_block into the new buffer: the sectors come whole, as many as do. *)
Filled(from, total_bytes) ==
  [at \in 0 .. (BufferBytes(total_bytes) - 1) |->
     IF at < TransferredSectors(total_bytes) * SectorSize
       THEN bytes[Sector(from) * SectorSize + at] ELSE Junk]

(* The copy loop of a read.  What lies behind the buffer is not the disk's. *)
CopiedOut(local_buffer, from, total_bytes) ==
  [i \in 1 .. total_bytes |->
     IF Offset(from) + i - 1 \in DOMAIN local_buffer
       THEN local_buffer[Offset(from) + i - 1] ELSE Junk]

(* The copy loop of a write.  What it stores behind the buffer is lost. *)
CopiedIn(local_buffer, from, buffer) ==
  [at \in DOMAIN local_buffer |->
     IF at - Offset(from) + 1 \in DOMAIN buffer
       THEN buffer[at - Offset(from) + 1] ELSE local_buffer[at]]

(* disk_write_block: the first sectors of the buffer go to the disk whole. *)
Stored(from, local_buffer, sectors) ==
  [p \in Positions |->
     IF p - Sector(from) * SectorSize \in 0 .. (sectors * SectorSize - 1)
       THEN local_buffer[p - Sector(from) * SectorSize] ELSE bytes[p]]

-----------------------------------------------------------------------------
Init ==
  /\ bytes = [p \in Positions |-> Fresh]
  /\ pos = [s \in Streams |-> None]
  /\ overrun = FALSE
  /\ last = None

IsOpen(s) == pos[s] # None

disk_stream_new(s) ==
  /\ ~IsOpen(s)
  /\ pos' = [pos EXCEPT ![s] = 0]
  /\ UNCHANGED <<bytes, overrun, last>>

disk_stream_seek(s, to) ==
  /\ IsOpen(s)
  /\ pos' = [pos EXCEPT ![s] = to]
  /\ UNCHANGED <<bytes, overrun, last>>

disk_stream_seek_by_sector(s, sector) ==
  /\ IsOpen(s)
  /\ pos' = [pos EXCEPT ![s] = sector * SectorSize]
  /\ UNCHANGED <<bytes, overrun, last>>

disk_stream_reset(s) ==
  /\ IsOpen(s)
  /\ pos' = [pos EXCEPT ![s] = 0]
  /\ UNCHANGED <<bytes, overrun, last>>

disk_stream_close(s) ==
  /\ IsOpen(s)
  /\ pos' = [pos EXCEPT ![s] = None]
  /\ UNCHANGED <<bytes, overrun, last>>

Transfer(op, s, size, code, delivered) ==
  last' = [op |-> op, from |-> pos[s], size |-> size, code |-> code,
           delivered |-> delivered]

(* Both transfers, when disk_read_block or the check of the size refuses. *)
Refuse(op, s, size) ==
  /\ Refused(size)
  /\ Transfer(op, s, size, "INVALID_ARGUMENT", <<>>)
  /\ UNCHANGED <<bytes, pos, overrun>>

disk_stream_read(s, size) ==
  /\ IsOpen(s)
  /\ \/ Refuse("read", s, size)
     \/ /\ ~Refused(size)
        /\ OnDisk(pos[s], size)
        /\ Transfer("read", s, size, "OK", CopiedOut(Filled(pos[s], size), pos[s], size))
        /\ pos' = [pos EXCEPT ![s] = @ + size]
        /\ overrun' = (overrun \/ LeavesHeapBlocks(pos[s], size))
        /\ UNCHANGED bytes

(* What a write leaves when so many of its sectors have been stored. *)
WrittenBack(from, buffer, sectors) ==
  Stored(from, CopiedIn(Filled(from, Len(buffer)), from, buffer), sectors)

disk_stream_write(s, buffer) ==
  LET size == Len(buffer)
  IN  /\ IsOpen(s)
      /\ \/ Refuse("write", s, size)
         \/ /\ ~Refused(size)
            /\ OnDisk(pos[s], size)
            /\ bytes' = WrittenBack(pos[s], buffer, TransferredSectors(size))
            /\ Transfer("write", s, size, "OK", buffer)
            /\ pos' = [pos EXCEPT ![s] = @ + size]
            /\ overrun' = (overrun \/ LeavesHeapBlocks(pos[s], size))

(* The power fails after some of the sectors of a write, and all streams go. *)
PowerFailsInWrite(s, buffer) ==
  LET size == Len(buffer)
  IN  /\ IsOpen(s)
      /\ ~Refused(size)
      /\ OnDisk(pos[s], size)
      /\ \E n \in 0 .. (TransferredSectors(size) - 1) :
           bytes' = WrittenBack(pos[s], buffer, n)
      /\ Transfer("write", s, size, "CUT SHORT", buffer)
      /\ pos' = [t \in Streams |-> None]
      /\ overrun' = FALSE

Next ==
  \E s \in Streams :
    \/ disk_stream_new(s)
    \/ \E to \in Positions : disk_stream_seek(s, to)
    \/ \E sector \in 0 .. (DiskSectors - 1) : disk_stream_seek_by_sector(s, sector)
    \/ disk_stream_reset(s)
    \/ disk_stream_close(s)
    \/ \E buffer \in Buffers : disk_stream_read(s, Len(buffer))
    \/ \E buffer \in Buffers : disk_stream_write(s, buffer)
    \/ \E buffer \in Buffers : PowerFailsInWrite(s, buffer)

Spec == Init /\ [][Next]_vars

-----------------------------------------------------------------------------
(* Type correctness of the disk and the streams: no byte of the heap gets   *)
(* to the disk.                                                            *)
TypeOK ==
  /\ bytes \in [Positions -> Written \cup {Fresh}]
  /\ pos \in [Streams -> Nat \cup {None}]
  /\ overrun \in BOOLEAN

(* The bytes that the last transfer was about. *)
Place(t) == t.from .. (t.from + t.size - 1)

(***************************************************************************)
(* A write reads whole sectors, changes some of their bytes in its buffer  *)
(* and stores the sectors again.  The bytes around the request come back   *)
(* as they were, whatever the position and the length, also for a request  *)
(* that runs out of its buffer, for a wrapped sector count and for a power *)
(* failure between two sectors.                                            *)
(***************************************************************************)
NeighboursUndisturbed ==
  [][bytes' # bytes =>
       \A p \in Positions : bytes'[p] # bytes[p] => p \in Place(last')]_vars

(***************************************************************************)
(* A transfer that returns OK is complete exactly when the request, placed *)
(* at its offset in the first sector, still ends inside the sectors that   *)
(* the length alone asks for, and these are fewer than CountMod.  Any      *)
(* other one says OK and loses its end: the last byte of a read is not the *)
(* disk's, and the last byte of a write is not stored.                     *)
(***************************************************************************)
FitsItsSectors(t) ==
  /\ Offset(t.from) + t.size <= disk_stream_get_affected_sectors(t.size) * SectorSize
  /\ disk_stream_get_affected_sectors(t.size) < CountMod

Complete(t, sectors) ==
  \A i \in 1 .. t.size : t.from + i - 1 \in Positions
                           /\ t.delivered[i] = sectors[t.from + i - 1]

LosesItsEnd(t, before, after) ==
  IF t.op = "read" THEN t.delivered[t.size] = Junk
  ELSE t.from + t.size - 1 \in Positions =>
         after[t.from + t.size - 1] = before[t.from + t.size - 1]

FittingTransfersAreComplete ==
  [][last' # last /\ last'.code = "OK" =>
       IF FitsItsSectors(last') THEN Complete(last', bytes')
                                ELSE LosesItsEnd(last', bytes, bytes')]_vars

(***************************************************************************)
(* The copy loops leave the heap blocks of their buffer only when the      *)
(* stream stands inside a sector and the buffer fills its blocks to the    *)
(* last byte; a stream that is kept on sector boundaries never does.       *)
(***************************************************************************)
OverrunNeedsAnOffset ==
  [][overrun' /\ ~overrun =>
       /\ Offset(last'.from) # 0
       /\ BufferBytes(last'.size) % HeapBlock = 0]_vars

(***************************************************************************)
(* disk_stream.c:97, "replace the parts in the buffer we read with the     *)
(* buffer data": what a write replaces are parts of the buffer it read.    *)
(***************************************************************************)
ReplacesPartsOfTheBuffer ==
  last # None /\ last.op = "write" /\ last.code = "OK" =>
    Offset(last.from) + last.size <= BufferBytes(last.size)
=============================================================================
