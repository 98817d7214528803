----------------------------- MODULE ByteDevice -----------------------------
(***************************************************************************)
(* The device below NTFS-3G: ntfs_pread, ntfs_pwrite and ntfs_device_sync  *)
(* of source/libntfs_ext/source/device.c, and gekko_io.c, which turns byte *)
(* ranges into whole sectors. Underneath is the sector cache, which enters *)
(* by what it promises (module Volume): sectors are seen at once and are   *)
(* on the disk later; a failing call may have done part of its work; a     *)
(* failing read may lose sectors, whose bytes are then Unknown. (A device  *)
(* without memory for a cache writes at once, which Volume allows too.)    *)
(***************************************************************************)
EXTENDS ByteSectors

VARIABLES
  open, dirty,  \* NDevOpen, NDevDirty
  seen,         \* the bytes the device shows
  disk,         \* the bytes a restart finds
  ret,          \* what the last read or sync returned
  failed        \* history: a flush failed, and none succeeded since

vars == <<open, dirty, seen, disk, ret, failed>>

Value  == Byte \union {Unknown}
Sector == 0..SectorCount - 1

\* What a call returns: its success and, of a read, the data and where from.
Nothing == [op |-> "none", ok |-> TRUE]
Result(op, ok) == [op |-> op, ok |-> ok]

Init ==
  /\ open = FALSE /\ dirty = FALSE
  /\ disk \in [Offset -> Byte] /\ seen = disk
  /\ ret = Nothing
  /\ failed = FALSE

-----------------------------------------------------------------------------
\* u, with the sectors in T as in w.
Mix(u, w, T) == [o \in Offset |-> IF o \div SectorSize \in T THEN w[o] ELSE u[o]]

\* A sector read fails: sectors that are on the disk may be lost.
ReadFails ==
  \E T \in SUBSET {s \in Sector : \A o \in Offset : o \div SectorSize = s => seen[o] = disk[o]} :
    /\ seen' = Mix(seen, [o \in Offset |-> Unknown], T)
    /\ disk' = Mix(disk, [o \in Offset |-> Unknown], T)

\* A flush of the cache writes every sector that is not on the disk, or fails
\* after some.
Flush(ok) ==
  /\ seen' = seen
  /\ IF ok THEN disk' = seen ELSE \E T \in SUBSET Sector : disk' = Mix(disk, seen, T)
  /\ failed' = ~ok

\* ntfs_device_gekko_io_open with a new cache. O_RDONLY is 0, so that no flag
\* makes the device read-only.
Open ==
  /\ ~open
  /\ open' = TRUE
  /\ ret' = Nothing
  /\ UNCHANGED <<dirty, seen, disk, failed>>

\* ntfs_pread: one call of readbytes, which reads all or fails.
Pread(offset, count) ==
  /\ open
  /\ \/ /\ ret' = [op |-> "read", ok |-> TRUE, offset |-> offset, count |-> count,
                   data |-> readbytes(seen, offset, count)]
        /\ UNCHANGED <<seen, disk>>
     \/ ret' = Result("read", FALSE) /\ ReadFails
  /\ UNCHANGED <<open, dirty, failed>>

\* Mutated form of Pwrite: a write that fails leaves the device clean.
PwriteDirtyLate(offset, count, buf) ==
  /\ open
  /\ LET w == writebytes(seen, offset, count, buf) IN
     \/ seen' = w /\ dirty' = TRUE
     \/ (\E s \in 0..SectorCount : seen' = Mix(seen, w, 0..s - 1)) /\ dirty' = dirty
  /\ ret' = Nothing
  /\ UNCHANGED <<open, disk, failed>>

\* ntfs_pwrite: dirty first, then one call of writebytes, which writes the
\* sectors in order, all or only some, or fails to read an edge.
Pwrite(offset, count, buf) ==
  /\ open
  /\ dirty' = TRUE
  /\ \/ /\ LET w == writebytes(seen, offset, count, buf)
           IN  \E s \in 0..SectorCount : seen' = Mix(seen, w, 0..s - 1)
        /\ UNCHANGED disk
     \/ (FirstEdge(offset) \/ LastEdge(offset, count)) /\ ReadFails
  /\ ret' = Nothing
  /\ UNCHANGED <<open, failed>>

\* The cache makes room: some sectors go to the disk.
Evict ==
  /\ open
  /\ \E T \in SUBSET Sector : disk' = Mix(disk, seen, T)
  /\ ret' = Nothing
  /\ UNCHANGED <<open, dirty, seen, failed>>

\* ntfs_device_sync: a clean device is not flushed. The device is marked clean
\* before the flush, whatever comes of it.
Sync ==
  /\ open
  /\ IF dirty
     THEN \E ok \in BOOLEAN : Flush(ok) /\ ret' = Result("sync", ok)
     ELSE ret' = Result("sync", TRUE) /\ UNCHANGED <<seen, disk, failed>>
  /\ dirty' = FALSE
  /\ UNCHANGED open

\* ntfs_device_gekko_io_close ignores what the flush returns.
Close ==
  /\ open
  /\ open' = FALSE /\ dirty' = FALSE
  /\ \E ok \in BOOLEAN, T \in SUBSET Sector :
       /\ disk' = IF ok THEN seen ELSE Mix(disk, seen, T)
       /\ seen' = disk'
       /\ failed' = FALSE
  /\ ret' = Nothing

\* The console is switched off.
Restart ==
  /\ open' = FALSE /\ dirty' = FALSE
  /\ seen' = disk /\ failed' = FALSE
  /\ ret' = Nothing
  /\ UNCHANGED disk

Next ==
  \/ Open \/ Evict \/ Sync \/ Close \/ Restart
  \/ \E r \in Requests :
       \/ Pread(r[1], r[2])
       \/ \E buf \in [0..r[2] - 1 -> Byte] : Pwrite(r[1], r[2], buf)

Spec == Init /\ [][Next]_vars

-----------------------------------------------------------------------------
TypeOK ==
  /\ open \in BOOLEAN /\ dirty \in BOOLEAN /\ failed \in BOOLEAN
  /\ seen \in [Offset -> Value] /\ disk \in [Offset -> Value]

\* A range of v.
Slice(v, offset, count) == [i \in 0..count - 1 |-> v[offset + i]]

\* What ntfs_pread has put into the caller's memory is exactly the range that
\* was asked for, no byte more or less, wherever it begins and ends in a sector.
ReadExact ==
  ret.op = "read" /\ ret.ok => ret.data = Slice(seen, ret.offset, ret.count)

\* v with buf at a range.
Patch(v, offset, count, buf) ==
  [o \in Offset |-> IF offset <= o /\ o < offset + count THEN buf[o - offset] ELSE v[o]]

\* A write changes exactly its range: the bytes around it in its first and last
\* sector keep their value, and no byte of the buffer that was never filled
\* reaches the device.
WriteExact ==
  \A r \in Requests : \A buf \in [0..r[2] - 1 -> Byte] :
    writebytes(seen, r[1], r[2], buf) = Patch(seen, r[1], r[2], buf)

\* When ntfs_device_sync returns 0, everything that was written is on the disk,
\* or a flush has failed before and none has succeeded since.
SyncHonest ==
  ret = Result("sync", TRUE) => disk = seen \/ failed
=============================================================================
