---------------------------- MODULE FileSections ----------------------------
(***************************************************************************)
(* ntfs_ext_iso: main of source/ntfs_ext_iso/source/main.c looks for the   *)
(* ISO on every mounted volume, has ntfs_file_to_sectors (source/          *)
(* libntfs_ext/source/ntfsfile.c) turn the file's runlist into a section   *)
(* table, packs the arguments of the rawseciso plugin and loads it. One    *)
(* step handles one run of the runlist.                                    *)
(***************************************************************************)
EXTENDS SectionTable, Sequences, FiniteSets

CONSTANTS
  ClusterSize,   \* bytes in a cluster of the volume
  Word,          \* 2^32: sector numbers and sizes are kept in 32 bits
  Max,           \* MAX_SECTIONS
  MountLists,    \* what ntfsMountAll may find
  MaxTracks      \* tracks a cue sheet may have

ASSUME SectionsAssumption ==
  /\ SectorSize \in Nat \ {0} /\ ClusterSize \in Nat \ {0} /\ ClusterSize % SectorSize = 0
  /\ Word \in Nat \ {0} /\ Hole = Word - 1
  /\ Max \in Nat \ {0} /\ MaxTracks \in Nat \ {0}

\* A volume: the sector it starts at and the ISO on it. A file: runs of
\* clusters [lcn, length] (lcn NoLcn in a hole), data_size and init_size.
NoLcn  == -1
NoFile == [runs |-> <<>>, data_size |-> 0, init_size |-> 0]

\* First cluster of each run within the file (the run's vcn), and the end.
Vcns(runs) == RunningSum([r \in 1..Len(runs) |-> runs[r].length], Len(runs))

\* The run that holds byte o of a file.
RunOf(runs, o) == CHOOSE r \in 1..Len(runs) : /\ Vcns(runs)[r] * ClusterSize <= o
                                              /\ o < Vcns(runs)[r + 1] * ClusterSize

Run == [lcn : Nat \union {NoLcn}, length : Nat \ {0}]

\* A file: what is initialized is a first part of its data. Small files have
\* no runs, their data is in the MFT.
IsFile(f) ==
  /\ f.runs \in Seq(Run)
  /\ f.data_size \in Nat /\ f.init_size \in 0..f.data_size

ASSUME MountsAssumption ==
  \A list \in MountLists :
    /\ Len(list) \in Nat
    /\ \A v \in 1..Len(list) : list[v].startSector \in Nat /\ IsFile(list[v].file)

VARIABLES
  mounts, i,             \* the volumes and the one in turn
  pc,
  sections,              \* sections, sections_size: the output arrays
  sizes,
  s_count,
  pos, len,              \* locals of ntfs_file_to_sectors
  rl, ofs, count,        \* locals of ntfs_attr_to_sectors: run in turn, ...
  total, total2, prev_sector,
  ret,                   \* what ntfs_attr_to_sectors returned
  emu_mode, num_tracks,
  retried                \* history: a run of this file could not be mapped

arrays == <<sections, sizes, s_count>>
walk   == <<rl, ofs, count, total, total2, prev_sector>>
place  == <<pos, len>>
args   == <<emu_mode, num_tracks>>
vars   == <<mounts, i, pc, arrays, place, walk, ret, args, retried>>

Min(a, b) == IF a <= b THEN a ELSE b

File == mounts[i].file
Runs == File.runs

Init ==
  /\ mounts \in MountLists
  /\ i = 1
  /\ pc = "volume"
  /\ sections = [k \in 1..Max |-> 0] /\ sizes = [k \in 1..Max |-> 0] /\ s_count = 0
  /\ pos = 0 /\ len = 0
  /\ rl = 0 /\ ofs = 0 /\ count = 0 /\ total = 0 /\ total2 = 0 /\ prev_sector = 0
  /\ ret = 0
  /\ emu_mode \in {"EMU_PS3", "EMU_PSX"} /\ num_tracks = 1
  /\ retried = FALSE

-----------------------------------------------------------------------------
(* ntfs_file_to_sectors *)

\* The volume has the file: it is opened, neither a directory nor encrypted.
OpenFile ==
  /\ pc = "volume" /\ i <= Len(mounts)
  /\ File # NoFile
  /\ pc' = "file"
  /\ s_count' = 0 /\ pos' = 0 /\ len' = File.data_size
  /\ retried' = FALSE
  /\ UNCHANGED <<mounts, i, sections, sizes, walk, ret, args>>

\* No such file on this volume, or one that cannot be opened: -1.
OpenFails ==
  /\ pc = "volume" /\ i <= Len(mounts)
  /\ i' = i + 1
  /\ UNCHANGED <<mounts, pc, arrays, place, walk, ret, args, retried>>

\* Beyond the initialized part a call accounts for the rest and adds no section.
CallUninitialized ==
  /\ pc = "file" /\ len > 0 /\ s_count < Max
  /\ pos >= File.init_size
  /\ ret' = len /\ pc' = "returned"
  /\ UNCHANGED <<mounts, i, arrays, place, walk, args, retried>>

\* ntfs_attr_find_vcn: the run of a position, or the end of the runlist.
FindVcn(runs, o) ==
  IF o < Vcns(runs)[Len(runs) + 1] * ClusterSize THEN RunOf(runs, o) ELSE Len(runs) + 1

\* Where the previous section ends, to merge adjacent runs; a call that
\* continues an earlier one takes it from the entry behind the last.
PrevSector ==
  IF s_count = 0 \/ sections[s_count] = Hole
  THEN Hole
  ELSE sections[s_count] + ((sizes[s_count + 1] - 1) % Word)

CallAttr ==
  /\ pc = "file" /\ len > 0 /\ s_count < Max
  /\ pos < File.init_size
  /\ total' = 0
  /\ count' = Min(len, File.init_size - pos)
  /\ total2' = len - count'
  /\ rl' = FindVcn(Runs, pos)
  /\ ofs' = pos - Vcns(Runs)[rl'] * ClusterSize
  /\ prev_sector' = PrevSector
  /\ pc' = "runs"
  /\ UNCHANGED <<mounts, i, arrays, place, ret, args, retried>>

\* rl_err_out: what was done so far, or -1.
ErrOut ==
  /\ ret' = IF total > 0 THEN total ELSE -1
  /\ pc' = "returned"
  /\ retried' = TRUE
  /\ UNCHANGED <<mounts, i, arrays, place, walk, args>>

\* ntfs_attr_find_vcn cannot map the next part of the runlist, at the start of
\* the call (total is 0) or later.
MapFails ==
  /\ pc = "runs" /\ count # 0 /\ s_count < Max
  /\ ErrOut

\* The runlist ends although something is left, or there is none.
ZeroRun ==
  /\ pc = "runs" /\ count # 0 /\ s_count < Max
  /\ rl > Len(Runs)
  /\ ErrOut

\* Bytes of the request in the run in turn.
ToRead == Min(count, Runs[rl].length * ClusterSize - ofs)

Append1(start, n) ==
  /\ sections' = [sections EXCEPT ![s_count + 1] = start]
  /\ sizes' = [sizes EXCEPT ![s_count + 1] = n % Word]
  /\ s_count' = s_count + 1

Extend(n) ==
  /\ sizes' = [sizes EXCEPT ![s_count] = (@ + n) % Word]
  /\ UNCHANGED <<sections, s_count>>

InRun ==
  /\ pc = "runs" /\ count # 0 /\ s_count < Max
  /\ rl <= Len(Runs)

\* Mutated form of HoleEnd: the sector before the hole is remembered.
HoleEnd0 == IF s_count = 0 THEN Hole ELSE prev_sector

HoleEnd == Hole

HoleRun ==
  /\ InRun
  /\ Runs[rl].lcn = NoLcn
  /\ LET n == IF ToRead < SectorSize THEN SectorSize ELSE ToRead
     IN  /\ IF s_count > 0 /\ prev_sector = Hole
            THEN Extend(n \div SectorSize)
            ELSE Append1(Hole, n \div SectorSize)
         /\ total' = total + n
         /\ count' = count - n
  /\ prev_sector' = HoleEnd
  /\ rl' = rl + 1 /\ ofs' = 0
  /\ UNCHANGED <<mounts, i, pc, place, total2, ret, args, retried>>

\* Whole sectors for some bytes, rounded as C does: for a negative number, the
\* remainder is negative as well, so that less than a sector below 0 becomes 1
\* and each further sector one less.
DataSectors(br) ==
  IF br > 0
  THEN (br + SectorSize - 1) \div SectorSize
  ELSE (IF br % SectorSize = 0 THEN 0 ELSE 1) - ((-br) \div SectorSize)

\* A run whose last sector is used in part only ends the call. Behind a hole
\* that was rounded up, count is negative: an entry is added, and nothing read.
DataRun ==
  /\ InRun
  /\ Runs[rl].lcn # NoLcn
  /\ LET br  == ToRead
         n   == DataSectors(br)
         cur == (Runs[rl].lcn * ClusterSize + ofs) \div SectorSize
     IN  /\ IF prev_sector = cur
            THEN Extend(n) /\ prev_sector' = prev_sector + n
            ELSE Append1(cur % Word, n) /\ prev_sector' = (cur + n) % Word
         /\ total' = IF br > 0 THEN total + br ELSE total
         /\ count' = IF br > 0 THEN count - br ELSE count
         /\ IF br % SectorSize = 0
            THEN pc' = "runs" /\ UNCHANGED ret
            ELSE pc' = "returned" /\ ret' = total'
  /\ rl' = rl + 1 /\ ofs' = 0
  /\ UNCHANGED <<mounts, i, place, total2, args, retried>>

RunsDone ==
  /\ pc = "runs" /\ (count = 0 \/ s_count >= Max)
  /\ ret' = total + total2
  /\ pc' = "returned"
  /\ UNCHANGED <<mounts, i, arrays, place, walk, args, retried>>

\* Mutated form of BadCount: -1 is not recognised.
BadCountIgnoresError == ret > len

\* ret is unsigned: -1 is larger than any length.
BadCount == ret <= 0 \/ ret > len

\* The file is left open.
CallFailed ==
  /\ pc = "returned" /\ BadCount
  /\ pc' = "volume" /\ i' = i + 1
  /\ UNCHANGED <<mounts, arrays, place, walk, ret, args, retried>>

Progress == IF ret = -1 THEN 0 ELSE ret

CallReturned ==
  /\ pc = "returned" /\ ~BadCount
  /\ len' = len - Progress /\ pos' = pos + Progress
  /\ pc' = "file"
  /\ UNCHANGED <<mounts, i, arrays, walk, ret, args, retried>>

\* Mutated form of Physical: the first entry is skipped.
PhysicalNotFirst(k) ==
  IF k = 1 \/ k > s_count THEN sections[k] ELSE (sections[k] + mounts[i].startSector) % Word

\* Holes are moved by the start of the volume as everything else is.
Physical(k) ==
  IF k > s_count THEN sections[k] ELSE (sections[k] + mounts[i].startSector) % Word

AddStartSector ==
  /\ pc = "file" /\ (len = 0 \/ s_count >= Max)
  /\ sections' = [k \in 1..Max |-> Physical(k)]
  /\ pc' = "parts"
  /\ UNCHANGED <<mounts, i, sizes, s_count, place, walk, ret, args, retried>>

-----------------------------------------------------------------------------
(* main *)

LimitReached == s_count = Max

TooManyParts ==
  /\ pc = "parts" /\ LimitReached
  /\ pc' = "refused"
  /\ UNCHANGED <<mounts, i, arrays, place, walk, ret, args, retried>>

\* An empty file: the next volume.
NoParts ==
  /\ pc = "parts" /\ s_count = 0
  /\ pc' = "volume" /\ i' = i + 1
  /\ UNCHANGED <<mounts, arrays, place, walk, ret, args, retried>>

\* The cue sheet is read from the volume of the ISO; without a good one there
\* is one track.
ReadCue ==
  /\ pc = "parts" /\ ~LimitReached /\ s_count > 0
  /\ num_tracks' \in IF emu_mode = "EMU_PSX" THEN 1..MaxTracks ELSE {1}
  /\ pc' = "pack"
  /\ UNCHANGED <<mounts, i, arrays, place, walk, ret, emu_mode, retried>>

\* A section and a track descriptor take eight bytes of plugin_args each, and
\* Max times eight bytes are there.
PsxLimitReached == emu_mode = "EMU_PSX" /\ s_count = Max - num_tracks

TooManyPsxParts ==
  /\ pc = "pack" /\ PsxLimitReached
  /\ pc' = "refused"
  /\ UNCHANGED <<mounts, i, arrays, place, walk, ret, args, retried>>

\* The old plugin is unloaded and the new one loaded, or not.
LoadPlugin ==
  /\ pc = "pack" /\ ~PsxLimitReached
  /\ pc' \in {"loaded", "refused"}
  /\ UNCHANGED <<mounts, i, arrays, place, walk, ret, args, retried>>

NotFound ==
  /\ pc = "volume" /\ i > Len(mounts)
  /\ pc' = "refused"
  /\ UNCHANGED <<mounts, i, arrays, place, walk, ret, args, retried>>

\* main has returned.
Ended == pc \in {"loaded", "refused"}
Exited == Ended /\ UNCHANGED vars

Step ==
  \/ OpenFile \/ OpenFails \/ CallUninitialized \/ CallAttr \/ MapFails \/ ZeroRun \/ HoleRun
  \/ DataRun \/ RunsDone \/ CallFailed \/ CallReturned \/ AddStartSector
  \/ TooManyParts \/ NoParts \/ ReadCue \/ TooManyPsxParts \/ LoadPlugin \/ NotFound

Next == Step \/ Exited

Spec == Init /\ [][Next]_vars /\ WF_vars(Step)

-----------------------------------------------------------------------------
(* Properties *)

\* The counters of the two functions: lengths never go below zero, and the
\* output arrays are written inside their bounds.
TypeOK ==
  /\ i \in 1..(Len(mounts) + 1)
  /\ sections \in [1..Max -> 0..(Word - 1)] /\ sizes \in [1..Max -> 0..(Word - 1)]
  /\ s_count \in 0..Max
  /\ pos \in Nat /\ len \in Nat /\ total \in Nat /\ total2 \in Nat /\ ofs \in Nat
  /\ count \in Int /\ ret \in Nat \union {-1}
  /\ num_tracks \in 1..MaxTracks

\* The table in the output arrays, as the plugin reads it.
TableOf(n, start, size) ==
  [num   |-> n,
   start |-> [k \in 1..n |-> start[k]],
   size  |-> [k \in 1..n |-> size[k]],
   base  |-> RunningSum([k \in 1..n |-> Addr(size[k])], n)]

Table == TableOf(s_count, sections, sizes)

\* Byte o of a file: its address on the drive for a volume at a sector.
ByteOf(runs, o, sector) ==
  LET r == RunOf(runs, o)
  IN  IF runs[r].lcn = NoLcn
      THEN Zero
      ELSE Addr(sector) + runs[r].lcn * ClusterSize + (o - Vcns(runs)[r] * ClusterSize)

FileByte(o, sector) == ByteOf(Runs, o, sector)

\* The file is one that a table of 32-bit numbers can describe: every sector
\* number is less than the mark of a hole, and the file has less than 2^32
\* sectors, its holes included.
FitsTable ==
  /\ \A r \in 1..Len(Runs) :
       Runs[r].lcn # NoLcn =>
         mounts[i].startSector + ((Runs[r].lcn + Runs[r].length) * ClusterSize) \div SectorSize < Hole
  /\ Vcns(Runs)[Len(Runs) + 1] * ClusterSize < Addr(Word)

HasHole == \E r \in 1..Len(Runs) : Runs[r].lcn = NoLcn

\* When the runs have been walked without a failure, the table describes the
\* initialized part of the file within its volume: merged runs, holes and the
\* last incomplete sector included. Not so a table that is full: a walk that
\* stops at the limit still accounts for what is not initialized
\* (ntfsfile.c:731), and pos passes sectors that are not in the table.
TableDescribesFile ==
  pc = "file" /\ ~retried /\ FitsTable /\ s_count \in 1..(Max - 1) =>
    \A o \in 0..(Min(pos, File.init_size) - 1) : Image(Table, o) = FileByte(o, 0)

\* What the plugin is loaded with describes a file without holes on the drive,
\* up to its last initialized byte.
LoadedDescribesFile ==
  pc = "loaded" /\ ~retried /\ FitsTable /\ ~HasHole =>
    \A o \in 0..(File.init_size - 1) : Image(Table, o) = FileByte(o, mounts[i].startSector)

\* The search ends: every call of ntfs_attr_to_sectors makes progress or
\* fails, and a failure moves on to the next volume.
Terminates == <>Ended

\* ntfsfile.c:651 "It is a hole, just zero the matching @b range.": the plugin
\* returns zeros for the holes of the file it was loaded with.
HolesAreZero ==
  pc = "loaded" /\ ~retried =>
    \A o \in 0..(File.init_size - 1) : FileByte(o, 0) = Zero => Image(Table, o) = Zero
=============================================================================
