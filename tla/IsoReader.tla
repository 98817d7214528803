----------------------------- MODULE IsoReader -----------------------------
(***************************************************************************)
(* process_read_iso_cmd and get_next_read of source/rawseciso/main.c: a    *)
(* read of the ISO's bytes is turned into reads of whole raw sectors of    *)
(* the NTFS drive, following the section table that describes where the    *)
(* file lies. A byte of the drive is represented by its address, so that a *)
(* buffer shows which byte of the drive each of its bytes came from.       *)
(***************************************************************************)
EXTENDS SectionTable

CONSTANTS
  Tables,       \* section tables the plugin can be started with
  Offsets,      \* offsets the kernel reads at
  Lengths       \* lengths the kernel asks for

ASSUME ReaderAssumption ==
  /\ SectorSize \in Nat \ {0}
  /\ Hole \in Nat
  /\ \A t \in Tables : IsTable(t)
  /\ Offsets \subseteq Nat /\ Lengths \subseteq Nat

VARIABLES
  table,                     \* the section table (statics of the plugin)
  pc,                        \* "idle", "loop", "head", "body", "tail"
  from, size,                \* the arguments of the call
  buf,                       \* the caller's buffer
  offset, remaining,         \* locals of process_read_iso_cmd
  pos, readsize, idx,        \* ... and of its loop body
  ret                        \* the value returned last

args   == <<table, from, size>>
chunk  == <<pos, readsize, idx>>
vars   == <<args, pc, buf, offset, remaining, chunk, ret>>

Stale == -2      \* a byte the call has not written

Min(a, b) == IF a <= b THEN a ELSE b

\* Bytes of the buffer filled so far: where the advancing "buf" points.
Done == size - remaining

-----------------------------------------------------------------------------
(* get_next_read *)

NextReadSize(t, o, wanted) ==
  LET i == SectionOf(t, o)
  IN  IF i = 0 THEN wanted ELSE Min(wanted, t.base[i + 1] - o)

-----------------------------------------------------------------------------
(* process_read_iso_cmd *)

Init ==
  /\ table \in Tables
  /\ pc = "idle"
  /\ from = 0 /\ size = 0 /\ buf = [k \in 0..-1 |-> Stale]
  /\ offset = 0 /\ remaining = 0
  /\ pos = 0 /\ readsize = 0 /\ idx = 0
  /\ ret = 0

Call(o, n) ==
  /\ pc = "idle"
  /\ pc' = "loop"
  /\ from' = o /\ size' = n
  /\ offset' = o /\ remaining' = n
  /\ buf' = [k \in 0..(n - 1) |-> Stale]
  /\ pos' = 0 /\ readsize' = 0 /\ idx' = 0
  /\ UNCHANGED <<table, ret>>

\* n bytes arrive in the buffer; value(j) is the j-th of them.
Fill(n, value(_)) ==
  buf' = [k \in DOMAIN buf |->
            IF Done <= k /\ k < Done + n THEN value(k - Done) ELSE buf[k]]

Advance(n) ==
  /\ offset' = offset + n
  /\ remaining' = remaining - n

AdvanceChunk(n) ==
  /\ pos' = pos + n
  /\ readsize' = readsize - n
  /\ UNCHANGED idx

\* Mutated form of ZeroFill: a hole at the end of the disc is not consumed.
ZeroFillForever ==
  /\ pc = "loop" /\ remaining > 0
  /\ SectionOf(table, offset) = 0
  /\ UNCHANGED vars

\* Beyond the last section, or in a hole.
ZeroFill ==
  /\ pc = "loop" /\ remaining > 0
  /\ LET i == SectionOf(table, offset)
         n == NextReadSize(table, offset, remaining)
     IN  /\ i # 0 => table.start[i] = Hole
         /\ Fill(n, LAMBDA j : Zero)
         /\ Advance(n)
  /\ UNCHANGED <<args, pc, chunk, ret>>

NextChunk ==
  /\ pc = "loop" /\ remaining > 0
  /\ LET i == SectionOf(table, offset)
     IN  /\ i # 0
         /\ table.start[i] # Hole
         /\ idx' = i
         /\ pos' = offset - table.base[i]
         /\ readsize' = NextReadSize(table, offset, remaining)
         /\ pc' = IF Byte(pos') # 0 THEN "head" ELSE "body"
  /\ UNCHANGED <<args, buf, offset, remaining, ret>>

\* The first byte of the raw sector that holds position pos of the section.
RawSector == Addr(table.start[idx] + Sec(pos))

HeadSize == Min(SectorSize - Byte(pos), readsize)

\* Mutated form of ReadHead: the bytes before pos are not skipped.
ReadHeadFromStart ==
  /\ pc = "head"
  /\ Fill(HeadSize, LAMBDA j : RawSector + j)
  /\ Advance(HeadSize) /\ AdvanceChunk(HeadSize)
  /\ pc' = IF readsize' > 0 THEN "body" ELSE "loop"
  /\ UNCHANGED <<args, ret>>

ReadHead ==
  /\ pc = "head"
  /\ Fill(HeadSize, LAMBDA j : RawSector + Byte(pos) + j)
  /\ Advance(HeadSize) /\ AdvanceChunk(HeadSize)
  /\ pc' = IF readsize' > 0 THEN "body" ELSE "loop"
  /\ UNCHANGED <<args, ret>>

\* n whole sectors straight into the buffer.
ReadBody ==
  /\ pc = "body"
  /\ LET n == Addr(Sec(readsize))
     IN  /\ Fill(n, LAMBDA j : RawSector + j)
         /\ Advance(n) /\ AdvanceChunk(n)
  /\ pc' = IF readsize' > 0 THEN "tail" ELSE "loop"
  /\ UNCHANGED <<args, ret>>

ReadTail ==
  /\ pc = "tail"
  /\ Fill(readsize, LAMBDA j : RawSector + j)
  /\ Advance(readsize) /\ AdvanceChunk(readsize)
  /\ pc' = "loop"
  /\ UNCHANGED <<args, ret>>

\* sys_storage_read reports an error or fewer sectors; with less than a sector
\* left the body does not read.
StorageReadFails ==
  /\ pc \in {"head", "body", "tail"}
  /\ pc = "body" => Sec(readsize) > 0
  /\ pc' = "idle" /\ ret' = -1
  /\ UNCHANGED <<args, buf, offset, remaining, chunk>>

Return ==
  /\ pc = "loop" /\ remaining = 0
  /\ pc' = "idle" /\ ret' = 0
  /\ UNCHANGED <<args, buf, offset, remaining, chunk>>

Step == ZeroFill \/ NextChunk \/ ReadHead \/ ReadBody \/ ReadTail \/ StorageReadFails \/ Return

Next == Step \/ \E o \in Offsets, n \in Lengths : Call(o, n)

Spec == Init /\ [][Next]_vars /\ WF_vars(Step)

-----------------------------------------------------------------------------
(* Properties *)

\* The locals of process_read_iso_cmd: no unsigned difference underflows (a
\* copy larger than what remains would wrap remaining or readsize), and every
\* byte of the buffer is defined.
TypeOK ==
  /\ table \in Tables
  /\ pc \in {"idle", "loop", "head", "body", "tail"}
  /\ from \in Nat /\ size \in Nat /\ offset \in Nat /\ remaining \in Nat
  /\ pos \in Nat /\ readsize \in Nat /\ idx \in 0..table.num
  /\ buf \in [0..(size - 1) -> Int]
  /\ ret \in {0, -1}

\* A read that reports success has filled the whole buffer with the bytes of
\* the file, however the request straddles sectors, sections and holes.
ReadCorrect ==
  pc = "idle" /\ ret = 0 => \A k \in 0..(size - 1) : buf[k] = Image(table, from + k)

\* Every raw sector that is read belongs to the section being read: no other
\* file's data leaves the drive.
ReadsInsideSection ==
  /\ pc = "head" => Sec(pos) < table.size[idx]
  /\ pc = "body" => Sec(pos) + Sec(readsize) <= table.size[idx]
  /\ pc = "tail" => Sec(pos) < table.size[idx]

\* No copy ends behind the buffer, and what is left to fill is what is left of
\* the request.
WritesInsideBuffer ==
  pc # "idle" =>
    /\ Done \in 0..size /\ offset = from + Done
    /\ pc # "loop" => readsize <= remaining

\* Every call returns: each turn of the loop consumes something.
CallReturns == (pc # "idle") ~> (pc = "idle")
=============================================================================
