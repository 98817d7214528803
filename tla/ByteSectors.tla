---------------------------- MODULE ByteSectors ----------------------------
(***************************************************************************)
(* Byte ranges as whole sectors: the arithmetic of source/libntfs_ext/     *)
(* source/gekko_io.c, between the byte addresses of NTFS-3G and the sector *)
(* cache. The device is a function from byte addresses to bytes; sectors   *)
(* count from the start of the volume, startSector being added throughout. *)
(***************************************************************************)
EXTENDS Integers

CONSTANTS
  SectorSize,   \* fd->sectorSize
  SectorCount,  \* fd->sectorCount
  Byte,         \* what a byte may be
  Unknown,      \* a byte nothing is known of: lost, or memory not yet written
  MaxCount      \* bound on the length of a request

ASSUME ByteSectorsAssumption ==
  /\ SectorSize \in Nat \ {0} /\ SectorCount \in Nat \ {0}
  /\ Unknown \notin Byte
  /\ MaxCount \in Nat

\* Where a sector begins.
At(sector) == sector * SectorSize

Offset == 0..At(SectorCount) - 1

\* Requests within the device, as offset and count.
Requests == {r \in Offset \X (1..MaxCount) : r[1] + r[2] <= At(SectorCount)}

buffer_offset(offset) == offset % SectorSize

sec_start(offset) == offset \div SectorSize

sec_count(offset, count) ==
  IF buffer_offset(offset) + count > SectorSize
  THEN (buffer_offset(offset) + count + SectorSize - 1) \div SectorSize ELSE 1

readsectors(v, sector, n) == [i \in 0..At(n) - 1 |-> v[At(sector) + i]]

writesectors(v, sector, n, buffer) ==
  [o \in Offset |->
     IF At(sector) <= o /\ o < At(sector) + At(n) THEN buffer[o - At(sector)] ELSE v[o]]

\* Mutated form of readbytes: straight, too, when only the start is aligned.
ReadbytesStraight(v, offset, count) ==
  LET sectors == readsectors(v, sec_start(offset), sec_count(offset, count))
  IN  IF buffer_offset(offset) = 0 THEN sectors
      ELSE [i \in 0..count - 1 |-> sectors[buffer_offset(offset) + i]]

\* ntfs_device_gekko_io_readbytes: straight into the caller's memory when the
\* range is made of whole sectors, through a buffer otherwise.
readbytes(v, offset, count) ==
  LET sectors == readsectors(v, sec_start(offset), sec_count(offset, count))
  IN  IF buffer_offset(offset) = 0 /\ count % SectorSize = 0 THEN sectors
      ELSE [i \in 0..count - 1 |-> sectors[buffer_offset(offset) + i]]

\* Do the first and the last sector of a range hold bytes outside it?
FirstEdge(offset)       == buffer_offset(offset) # 0
LastEdge(offset, count) == (buffer_offset(offset) + count) % SectorSize # 0

\* Mutated form of OnEdge: one edge is read, not both.
OnEdgeFirstOnly(offset, count, i) ==
  IF FirstEdge(offset) THEN i < SectorSize
  ELSE LastEdge(offset, count) /\ At(sec_count(offset, count) - 1) <= i

\* Is byte i of the write buffer in a sector that is read first?
OnEdge(offset, count, i) ==
  \/ FirstEdge(offset) /\ i < SectorSize
  \/ LastEdge(offset, count) /\ At(sec_count(offset, count) - 1) <= i

\* The buffer of ntfs_device_gekko_io_writebytes: the edges as they are on the
\* device, the data on top.
writebuffer(v, offset, count, buf) ==
  [i \in 0..At(sec_count(offset, count)) - 1 |->
     IF buffer_offset(offset) <= i /\ i < buffer_offset(offset) + count
     THEN buf[i - buffer_offset(offset)]
     ELSE IF OnEdge(offset, count, i) THEN v[At(sec_start(offset)) + i]
     ELSE Unknown]

writebytes(v, offset, count, buf) ==
  writesectors(v, sec_start(offset), sec_count(offset, count),
               writebuffer(v, offset, count, buf))
=============================================================================
