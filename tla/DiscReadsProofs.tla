-------------------------- MODULE DiscReadsProofs --------------------------
(***************************************************************************)
(* The reads of the rawseciso plugin.                                      *)
(*                                                                         *)
(*   - process_read_iso_cmd returns the bytes of the file, for every       *)
(*     sector size, every section table and every request;                 *)
(*   - the sector cache of process_read_cd_2352_cmd answers right, for     *)
(*     every cache size, word size and set of requests;                    *)
(*   - process_read_cd_2048_cmd squeezes raw sectors to their user data in *)
(*     the buffer they were read into, for every size of sector and        *)
(*     header.                                                             *)
(***************************************************************************)
EXTENDS IsoReader, CdCache, CdUserData, WellFoundedInduction, TLAPS

-----------------------------------------------------------------------------
(* Sector arithmetic. These are the only facts that look inside Sec, Byte  *)
(* and Addr.                                                               *)

\* A sector number times the sector size is an address.
LEMMA AddrNat == ASSUME NEW a \in Nat PROVE Addr(a) \in Nat
  BY ReaderAssumption DEF Addr

\* Addresses of sectors add up.
LEMMA AddrSum == ASSUME NEW a \in Nat, NEW b \in Nat PROVE Addr(a + b) = Addr(a) + Addr(b)
  BY ReaderAssumption DEF Addr

\* The sector after the first one begins a sector size later.
LEMMA AddrOne == Addr(1) = SectorSize
  BY ReaderAssumption DEF Addr

\* Addresses of sectors are ordered like the sectors.
LEMMA AddrOrder ==
  ASSUME NEW a \in Nat, NEW b \in Nat
  PROVE  (Addr(a) < Addr(b) => a < b) /\ (Addr(a) <= Addr(b) => a <= b)
  BY ReaderAssumption DEF Addr

\* Sector number and byte number of a position.
LEMMA SecByteNat ==
  ASSUME NEW p \in Nat PROVE Sec(p) \in Nat /\ Byte(p) \in Nat /\ Byte(p) < SectorSize
  BY ReaderAssumption DEF Sec, Byte

\* A position is its sector's address and the byte within it.
LEMMA SecByteSplit == ASSUME NEW p \in Nat PROVE p = Addr(Sec(p)) + Byte(p)
<1>1. \E q \in Nat, r \in 0..(SectorSize - 1) :
        p = SectorSize * q + r /\ q = p \div SectorSize /\ r = p % SectorSize
  BY ReaderAssumption
<1>2. \E q \in Nat, r \in 0..(SectorSize - 1) : p = Addr(q) + r /\ q = Sec(p) /\ r = Byte(p)
  BY <1>1, Zenon DEF Addr, Sec, Byte
<1> QED
  BY <1>2, Zenon

\* A sector begins at byte 0 of itself.
LEMMA ByteOfAddr == ASSUME NEW q \in Nat PROVE Byte(Addr(q)) = 0
<1>1. (SectorSize * q) % SectorSize = 0
  BY ReaderAssumption
<1> QED
  BY <1>1, Zenon DEF Addr, Byte

-----------------------------------------------------------------------------
(* The section table *)

\* What every table satisfies, unpacked for one index.
LEMMA TableFacts ==
  ASSUME NEW t \in Tables, NEW m \in 1..t.num
  PROVE  /\ t.num \in Nat
         /\ t.start[m] \in Nat /\ t.size[m] \in Nat
         /\ t.base[m] \in Nat /\ t.base[m + 1] \in Nat
         /\ t.base[m + 1] = t.base[m] + Addr(t.size[m])
<1>1. IsTable(t)
  BY ReaderAssumption
<1>2. t.num \in Nat
  BY <1>1 DEF IsTable
<1>3. m \in 1..(t.num + 1) /\ m + 1 \in 1..(t.num + 1)
  BY <1>2
<1>4. t.start[m] \in Nat /\ t.size[m] \in Nat
  BY <1>1 DEF IsTable
<1>5. t.base[m] \in Nat /\ t.base[m + 1] \in Nat
  BY <1>1, <1>3 DEF IsTable
<1>6. t.base[m + 1] = t.base[m] + Addr(t.size[m])
  BY <1>1 DEF IsTable
<1> QED
  BY <1>2, <1>4, <1>5, <1>6

\* Every non-empty set of naturals has a least element.
LEMMA LeastNat ==
  ASSUME NEW T, T \subseteq Nat, T # {} PROVE \E x \in T : \A y \in T : x <= y
<1> DEFINE R == {ss \in Nat \X Nat : ss[1] < ss[2]}
<1>1. IsWellFoundedOn(R, Nat)
  BY NatLessThanWellFounded DEF OpToRel
<1>2. \E x \in T : \A y \in T : ~(<<y, x>> \in R)
  <2> HIDE DEF R
  <2> QED
    BY <1>1, WFMin
<1>3. PICK x \in T : \A y \in T : ~(<<y, x>> \in R)
  BY <1>2
<1>4. ASSUME NEW y \in T PROVE x <= y
  <2>1. x \in Nat /\ y \in Nat
    OBVIOUS
  <2>2. SUFFICES ASSUME y < x PROVE FALSE
    BY <2>1
  <2>3. <<y, x>> \in R
    BY <2>1, <2>2
  <2> QED
    BY <1>3, <2>3
<1> QED
  BY <1>4

\* A later section does not begin before an earlier one: the first section
\* boundary that did would follow one that does not.
LEMMA BaseOrdered ==
  ASSUME NEW t \in Tables, NEW m \in 1..(t.num + 1), NEW h \in 1..(t.num + 1), m <= h
  PROVE  t.base[m] <= t.base[h]
<1> DEFINE Bad == {k \in 1..(t.num + 1) : m <= k /\ ~(t.base[m] <= t.base[k])}
<1>0. IsTable(t) /\ t.num \in Nat /\ \A k \in 1..(t.num + 1) : t.base[k] \in Nat
  BY ReaderAssumption DEF IsTable
<1>1. SUFFICES ASSUME h \in Bad PROVE FALSE
  OBVIOUS
<1>2. PICK x \in Bad : \A y \in Bad : x <= y
  <2>1. Bad \subseteq Nat /\ Bad # {}
    BY <1>0, <1>1
  <2> HIDE DEF Bad
  <2> QED
    BY <2>1, LeastNat
<1>3. x \in 1..(t.num + 1) /\ m <= x /\ ~(t.base[m] <= t.base[x])
  OBVIOUS
<1>4. m # x
  BY <1>0, <1>3
<1>5. x - 1 \in 1..t.num /\ m <= x - 1 /\ x - 1 \in 1..(t.num + 1)
  BY <1>0, <1>3, <1>4
<1>6. t.base[m] <= t.base[x - 1]
  BY <1>0, <1>2, <1>3, <1>5
<1>7. t.base[(x - 1) + 1] = t.base[x - 1] + Addr(t.size[x - 1]) /\ Addr(t.size[x - 1]) \in Nat
  BY <1>5, TableFacts, AddrNat
<1>8. (x - 1) + 1 = x
  BY <1>0, <1>3
<1> QED
  BY <1>0, <1>3, <1>5, <1>6, <1>7, <1>8

\* Sections leave no gap: below the end of the last one every offset is in one.
LEMMA BaseCovers ==
  ASSUME NEW t \in Tables, NEW o \in Nat, o < t.base[t.num + 1]
  PROVE  \E m \in 1..t.num : InSection(t, o, m)
<1> DEFINE Above == {k \in 1..(t.num + 1) : o < t.base[k]}
<1>0. IsTable(t) /\ t.num \in Nat /\ t.base[1] = 0
  BY ReaderAssumption DEF IsTable
<1>1. PICK x \in Above : \A y \in Above : x <= y
  <2>1. Above \subseteq Nat /\ t.num + 1 \in Above
    BY <1>0
  <2> HIDE DEF Above
  <2> QED
    BY <2>1, LeastNat
<1>2. x \in 1..(t.num + 1) /\ o < t.base[x]
  OBVIOUS
<1>3. x - 1 \in 1..t.num /\ x - 1 \in 1..(t.num + 1) /\ (x - 1) + 1 = x
  BY <1>0, <1>2
<1>4. ~(o < t.base[x - 1])
  BY <1>0, <1>1, <1>2, <1>3
<1>5. InSection(t, o, x - 1)
  BY <1>2, <1>3, <1>4, TableFacts DEF InSection
<1> QED
  BY <1>3, <1>5

\* An offset lies in at most one section, the one get_next_read finds.
LEMMA SectionUnique ==
  ASSUME NEW t \in Tables, NEW o \in Nat, NEW m \in 1..t.num, InSection(t, o, m)
  PROVE  SectionOf(t, o) = m
<1>1. ASSUME NEW h \in 1..t.num, InSection(t, o, h) PROVE h = m
  <2>1. ASSUME NEW a \in 1..t.num, NEW b \in 1..t.num, a < b,
               InSection(t, o, a), InSection(t, o, b)
        PROVE  FALSE
    <3>1. a + 1 \in 1..(t.num + 1) /\ b \in 1..(t.num + 1) /\ a + 1 <= b
      BY <2>1, TableFacts
    <3>2. t.base[a + 1] <= t.base[b]
      BY <3>1, BaseOrdered
    <3> QED
      BY <2>1, <3>2, TableFacts DEF InSection
  <2> QED
    BY <1>1, <2>1, TableFacts
<1> QED
  BY <1>1, Zenon DEF SectionOf

\* The section get_next_read finds does hold the offset.
LEMMA SectionFound ==
  ASSUME NEW t \in Tables, NEW o \in Nat, SectionOf(t, o) # 0
  PROVE  SectionOf(t, o) \in 1..t.num /\ InSection(t, o, SectionOf(t, o))
  BY Zenon DEF SectionOf

\* Index 0 stands for "no section" only.
LEMMA SectionNone ==
  ASSUME NEW t \in Tables, NEW o \in Nat
  PROVE  SectionOf(t, o) \in 0..t.num
<1>1. t.num \in Nat
  BY ReaderAssumption DEF IsTable
<1>2. CASE SectionOf(t, o) = 0
  BY <1>1, <1>2
<1>3. CASE SectionOf(t, o) # 0
  BY <1>1, <1>3, SectionFound
<1> QED
  BY <1>2, <1>3

-----------------------------------------------------------------------------
(* process_read_iso_cmd: the inductive invariant *)

\* Offset, buffer pointer and remaining length move together.
ProgressInv == pc # "idle" => remaining <= size /\ offset = from + Done

\* Inside a turn of the loop: a non-empty piece of a section that has data.
ChunkInv ==
  pc \in {"head", "body", "tail"} =>
    /\ idx \in 1..table.num
    /\ table.start[idx] # Hole
    /\ table.base[idx] + pos = offset
    /\ pos + readsize <= Addr(table.size[idx])
    /\ 0 < readsize /\ readsize <= remaining
    /\ pc # "head" => Byte(pos) = 0
    /\ pc = "tail" => readsize < SectorSize

\* What has been filled so far is right.
PrefixInv == pc # "idle" => \A k \in 0..(Done - 1) : buf[k] = Image(table, from + k)

IsoInv == TypeOK /\ ProgressInv /\ ChunkInv /\ PrefixInv /\ ReadCorrect

\* The bytes of the file in the piece of section being read.
LEMMA ChunkImage ==
  ASSUME TypeOK, ChunkInv, pc \in {"head", "body", "tail"}, NEW h \in Nat, h < readsize
  PROVE  Image(table, offset + h) = Addr(table.start[idx]) + (pos + h)
<1>1. idx \in 1..table.num /\ table.start[idx] # Hole /\ table.base[idx] + pos = offset
      /\ pos + readsize <= Addr(table.size[idx])
  BY DEF ChunkInv
<1>2. table \in Tables /\ pos \in Nat /\ readsize \in Nat /\ offset \in Nat
  BY DEF TypeOK
<1>3. /\ table.base[idx] \in Nat /\ Addr(table.size[idx]) \in Nat
      /\ table.base[idx + 1] = table.base[idx] + Addr(table.size[idx])
  BY <1>1, <1>2, TableFacts, AddrNat
<1>4. InSection(table, offset + h, idx)
  BY <1>1, <1>2, <1>3 DEF InSection
<1>5. SectionOf(table, offset + h) = idx
  BY <1>1, <1>2, <1>4, SectionUnique
<1>6. (offset + h) - table.base[idx] = pos + h
  BY <1>1, <1>2, <1>3
<1>7. idx # 0
  BY <1>1, <1>2, TableFacts
<1> QED
  BY <1>1, <1>5, <1>6, <1>7, Zenon DEF Image

\* A copy of n bytes that are the file's bytes keeps the prefix right.
LEMMA Filled ==
  ASSUME TypeOK, ProgressInv, PrefixInv, pc # "idle", NEW n \in Nat, n <= remaining,
         Advance(n), UNCHANGED args,
         buf' \in [0..(size - 1) -> Int],
         \A k \in 0..(size - 1) :
           buf'[k] = IF Done <= k /\ k < Done + n THEN Image(table, offset + (k - Done)) ELSE buf[k]
  PROVE  /\ buf' \in [0..(size' - 1) -> Int]
         /\ offset' \in Nat /\ remaining' \in Nat /\ remaining' <= size'
         /\ offset' = from' + Done'
         /\ \A k \in 0..(Done' - 1) : buf'[k] = Image(table', from' + k)
<1>1. size' = size /\ from' = from /\ table' = table
  BY DEF args
<1>2. /\ size \in Nat /\ from \in Nat /\ offset \in Nat /\ remaining \in Nat
      /\ remaining <= size /\ offset = from + (size - remaining)
  BY DEF TypeOK, ProgressInv, Done
<1>3. offset' = offset + n /\ remaining' = remaining - n
  BY DEF Advance
<1>4. ASSUME NEW k \in 0..(Done' - 1) PROVE buf'[k] = Image(table, from + k)
  <2>1. k \in 0..(size - 1) /\ k < Done + n
    BY <1>1, <1>2, <1>3 DEF Done
  <2>2. CASE k < Done
    <3>1. k \in 0..(Done - 1)
      BY <2>2, <1>2 DEF Done
    <3>2. buf[k] = Image(table, from + k)
      BY <3>1 DEF PrefixInv
    <3>3. ~(Done <= k)
      BY <2>2, <1>2 DEF Done
    <3> QED
      BY <2>1, <3>2, <3>3
  <2>3. CASE Done <= k
    <3>1. offset + (k - Done) = from + k
      BY <1>2, <2>3 DEF Done
    <3> QED
      BY <2>1, <2>3, <3>1
  <2> QED
    BY <2>2, <2>3, <1>2 DEF Done
<1> QED
  BY <1>1, <1>2, <1>3, <1>4 DEF Done

\* get_next_read always offers something, within the request and the section.
LEMMA NextReadFacts ==
  ASSUME TypeOK, remaining > 0
  PROVE  LET n == NextReadSize(table, offset, remaining)
             m == SectionOf(table, offset)
         IN  /\ n \in Nat /\ 0 < n /\ n <= remaining
             /\ m # 0 => offset + n <= table.base[m + 1]
<1>1. table \in Tables /\ offset \in Nat /\ remaining \in Nat
  BY DEF TypeOK
<1>2. CASE SectionOf(table, offset) = 0
  BY <1>1, <1>2 DEF NextReadSize
<1>3. CASE SectionOf(table, offset) # 0
  <2>1. PICK m \in 1..table.num : m = SectionOf(table, offset) /\ InSection(table, offset, m)
    BY <1>1, <1>3, SectionFound
  <2>2. m # 0 /\ table.base[m + 1] \in Nat /\ offset < table.base[m + 1]
    BY <1>1, <2>1, TableFacts DEF InSection
  <2>3. NextReadSize(table, offset, remaining) = Min(remaining, table.base[m + 1] - offset)
    BY <2>1, <2>2 DEF NextReadSize
  <2> QED
    BY <1>1, <2>1, <2>2, <2>3 DEF Min
<1> QED
  BY <1>2, <1>3

\* What get_next_read offers in a hole or behind the end is zero in the file.
LEMMA ZeroImage ==
  ASSUME TypeOK, remaining > 0,
         SectionOf(table, offset) # 0 => table.start[SectionOf(table, offset)] = Hole,
         NEW h \in Nat, h < NextReadSize(table, offset, remaining)
  PROVE  Image(table, offset + h) = Zero
<1>1. table \in Tables /\ offset \in Nat /\ offset + h \in Nat
  BY DEF TypeOK
<1>2. CASE SectionOf(table, offset) = 0
  <2>1. ~ \E m \in 1..table.num : InSection(table, offset, m)
    BY <1>1, <1>2, SectionUnique, TableFacts
  <2>2. ~(offset < table.base[table.num + 1])
    BY <1>1, <2>1, BaseCovers
  <2>3. ASSUME NEW m \in 1..table.num, InSection(table, offset + h, m) PROVE FALSE
    <3>1. table.num \in Nat /\ m + 1 \in 1..(table.num + 1)
      BY <1>1, TableFacts
    <3>2. table.num + 1 \in 1..(table.num + 1) /\ m + 1 <= table.num + 1
      BY <3>1
    <3>3. table.base[m + 1] <= table.base[table.num + 1]
      BY <1>1, <3>1, <3>2, BaseOrdered
    <3>4. table.base[m + 1] \in Nat /\ table.base[table.num + 1] \in Nat
      BY <1>1, <3>1, <3>2, ReaderAssumption DEF IsTable
    <3> QED
      BY <1>1, <2>2, <2>3, <3>3, <3>4 DEF InSection
  <2>4. SectionOf(table, offset + h) = 0
    BY <2>3, Zenon DEF SectionOf
  <2> QED
    BY <2>4 DEF Image
<1>3. CASE SectionOf(table, offset) # 0
  <2>1. PICK m \in 1..table.num : m = SectionOf(table, offset) /\ InSection(table, offset, m)
    BY <1>1, <1>3, SectionFound
  <2>2. /\ offset + NextReadSize(table, offset, remaining) <= table.base[m + 1]
        /\ NextReadSize(table, offset, remaining) \in Nat
    BY <2>1, <1>3, NextReadFacts
  <2>3. InSection(table, offset + h, m)
    BY <1>1, <2>1, <2>2, TableFacts DEF InSection
  <2>4. SectionOf(table, offset + h) = m
    BY <1>1, <2>3, SectionUnique
  <2> QED
    BY <2>1, <2>4 DEF Image
<1> QED
  BY <1>2, <1>3

-----------------------------------------------------------------------------
(* One lemma per action *)

\* The specification starts in the inductive invariant.
LEMMA IsoStart == Init => IsoInv
<1> SUFFICES ASSUME Init PROVE IsoInv
  OBVIOUS
<1>1. table.num \in Nat
  BY ReaderAssumption DEF Init, IsTable
<1>2. TypeOK
  BY <1>1 DEF Init, TypeOK, Stale
<1>3. ProgressInv /\ ChunkInv /\ PrefixInv
  BY DEF Init, ProgressInv, ChunkInv, PrefixInv
<1>4. ReadCorrect
  BY DEF Init, ReadCorrect
<1> QED
  BY <1>2, <1>3, <1>4 DEF IsoInv

\* A new call.
LEMMA IsoCallStep ==
  ASSUME IsoInv, NEW o \in Offsets, NEW n \in Lengths, Call(o, n)
  PROVE  IsoInv'
<1>1. o \in Nat /\ n \in Nat /\ table.num \in Nat
  BY ReaderAssumption DEF IsoInv, TypeOK, IsTable
<1>2. TypeOK'
  BY <1>1 DEF IsoInv, TypeOK, Call, Stale
<1>3. ProgressInv' /\ ChunkInv' /\ ReadCorrect'
  BY <1>1 DEF Call, ProgressInv, ChunkInv, ReadCorrect, Done
<1>4. PrefixInv'
  BY <1>1 DEF Call, PrefixInv, Done
<1> QED
  BY <1>2, <1>3, <1>4 DEF IsoInv

\* Filling zeros.
LEMMA ZeroFillStep == ASSUME IsoInv, ZeroFill PROVE IsoInv'
<1> DEFINE n == NextReadSize(table, offset, remaining)
<1>1. /\ pc = "loop" /\ pc' = "loop" /\ remaining > 0 /\ TypeOK /\ ProgressInv /\ PrefixInv
      /\ SectionOf(table, offset) # 0 => table.start[SectionOf(table, offset)] = Hole
      /\ Advance(n) /\ UNCHANGED args /\ UNCHANGED chunk /\ UNCHANGED ret
      /\ buf' = [k \in DOMAIN buf |-> IF Done <= k /\ k < Done + n THEN Zero ELSE buf[k]]
  BY DEF ZeroFill, Fill, IsoInv
<1>2. n \in Nat /\ n <= remaining
  BY <1>1, NextReadFacts
<1>3. \A h \in Nat : h < n => Image(table, offset + h) = Zero
  BY <1>1, ZeroImage
<1> HIDE DEF n
<1>4. /\ size \in Nat /\ remaining \in Nat /\ remaining <= size
      /\ buf \in [0..(size - 1) -> Int] /\ DOMAIN buf = 0..(size - 1)
  BY <1>1 DEF TypeOK, ProgressInv
<1>5. buf' \in [0..(size - 1) -> Int]
  BY <1>1, <1>4 DEF Zero
<1>6. ASSUME NEW k \in 0..(size - 1)
      PROVE  buf'[k] = IF Done <= k /\ k < Done + n THEN Image(table, offset + (k - Done)) ELSE buf[k]
  <2>1. Done <= k /\ k < Done + n => k - Done \in Nat /\ k - Done < n
    BY <1>2, <1>4 DEF Done
  <2> QED
    BY <1>1, <1>3, <1>4, <2>1
<1>7. /\ buf' \in [0..(size' - 1) -> Int]
      /\ offset' \in Nat /\ remaining' \in Nat /\ remaining' <= size'
      /\ offset' = from' + Done'
      /\ \A k \in 0..(Done' - 1) : buf'[k] = Image(table', from' + k)
  BY <1>1, <1>2, <1>5, <1>6, Filled
<1>8. TypeOK'
  BY <1>1, <1>7 DEF TypeOK, args, chunk
<1> QED
  BY <1>1, <1>7, <1>8 DEF IsoInv, ProgressInv, ChunkInv, PrefixInv, ReadCorrect

\* A section with data is chosen.
LEMMA NextChunkStep == ASSUME IsoInv, NextChunk PROVE IsoInv'
<1> DEFINE m == SectionOf(table, offset)
           n == NextReadSize(table, offset, remaining)
<1>1. /\ pc = "loop" /\ remaining > 0 /\ m # 0 /\ table.start[m] # Hole
      /\ idx' = m /\ pos' = offset - table.base[m] /\ readsize' = n
      /\ pc' = IF Byte(pos') # 0 THEN "head" ELSE "body"
      /\ UNCHANGED <<args, buf, offset, remaining, ret>>
      /\ TypeOK /\ ProgressInv /\ PrefixInv
  BY DEF NextChunk, IsoInv
<1>2. n \in Nat /\ 0 < n /\ n <= remaining /\ offset + n <= table.base[m + 1]
  BY <1>1, NextReadFacts
<1>3. table \in Tables /\ offset \in Nat /\ m \in 1..table.num /\ InSection(table, offset, m)
  <2>1. table \in Tables /\ offset \in Nat
    BY <1>1 DEF TypeOK
  <2> QED
    BY <1>1, <2>1, SectionFound
<1> HIDE DEF m, n
<1>4. /\ table.num \in Nat /\ table.base[m] \in Nat /\ table.base[m] <= offset
      /\ table.base[m + 1] = table.base[m] + Addr(table.size[m]) /\ Addr(table.size[m]) \in Nat
  BY <1>3, TableFacts, AddrNat DEF InSection
<1>5. /\ pos' \in Nat /\ table.base[m] + pos' = offset /\ pos' + n <= Addr(table.size[m])
      /\ m \in 0..table.num
  BY <1>1, <1>2, <1>3, <1>4
<1>6. pc' \in {"head", "body"} /\ (pc' # "head" => Byte(pos') = 0)
  BY <1>1
<1>7. TypeOK'
  BY <1>1, <1>2, <1>5, <1>6 DEF TypeOK, args
<1>8. ChunkInv'
  BY <1>1, <1>2, <1>3, <1>5, <1>6 DEF ChunkInv, args
<1>9. ProgressInv' /\ PrefixInv' /\ ReadCorrect'
  BY <1>1, <1>6 DEF ProgressInv, PrefixInv, ReadCorrect, Done, args
<1> QED
  BY <1>7, <1>8, <1>9 DEF IsoInv

\* Copying n bytes of the piece, taken from position pos of the section.
LEMMA Copied ==
  ASSUME IsoInv, pc \in {"head", "body", "tail"}, NEW n \in Nat, n <= readsize,
         NEW b, b = Addr(table.start[idx]) + pos,
         buf' = [k \in DOMAIN buf |->
                   IF Done <= k /\ k < Done + n THEN b + (k - Done) ELSE buf[k]],
         Advance(n), AdvanceChunk(n), UNCHANGED <<args, ret>>,
         pc' \in {"loop", "body", "tail"},
         pc' # "loop" => 0 < readsize' /\ Byte(pos') = 0,
         pc' = "tail" => readsize' < SectorSize
  PROVE  IsoInv'
<1>1. /\ TypeOK /\ ProgressInv /\ PrefixInv /\ ChunkInv
      /\ table' = table /\ from' = from /\ size' = size /\ ret' = ret
      /\ pos' = pos + n /\ readsize' = readsize - n /\ idx' = idx
      /\ offset' = offset + n /\ remaining' = remaining - n
  BY DEF IsoInv, Advance, AdvanceChunk, args
<1>2. /\ table \in Tables /\ size \in Nat /\ remaining \in Nat /\ remaining <= size
      /\ buf \in [0..(size - 1) -> Int] /\ DOMAIN buf = 0..(size - 1)
      /\ pos \in Nat /\ readsize \in Nat /\ offset \in Nat
  BY <1>1 DEF TypeOK, ProgressInv
<1>3. /\ idx \in 1..table.num /\ readsize <= remaining /\ table.start[idx] # Hole
      /\ table.base[idx] + pos = offset /\ pos + readsize <= Addr(table.size[idx])
  BY <1>1 DEF ChunkInv
<1>4. /\ Addr(table.start[idx]) \in Nat /\ table.base[idx] \in Nat
      /\ Addr(table.size[idx]) \in Nat
  BY <1>2, <1>3, TableFacts, AddrNat
<1>5. b \in Nat
  BY <1>2, <1>4
<1>6. buf' \in [0..(size - 1) -> Int]
  BY <1>2, <1>5 DEF Done
<1>7. ASSUME NEW k \in 0..(size - 1)
      PROVE  buf'[k] = IF Done <= k /\ k < Done + n THEN Image(table, offset + (k - Done)) ELSE buf[k]
  <2>1. Done \in Nat
    BY <1>2 DEF Done
  <2>2. CASE Done <= k /\ k < Done + n
    <3>1. k - Done \in Nat /\ k - Done < readsize
      BY <1>2, <2>1, <2>2
    <3>2. Image(table, offset + (k - Done)) = Addr(table.start[idx]) + (pos + (k - Done))
      BY <1>1, <3>1, ChunkImage
    <3>3. b + (k - Done) = Addr(table.start[idx]) + (pos + (k - Done))
      BY <1>2, <1>4, <3>1
    <3> QED
      BY <1>2, <2>2, <3>2, <3>3
  <2>3. CASE ~(Done <= k /\ k < Done + n)
    BY <1>2, <2>3
  <2> QED
    BY <2>2, <2>3
<1>8. n <= remaining /\ UNCHANGED args
  BY <1>2, <1>3
<1>9. /\ buf' \in [0..(size' - 1) -> Int]
      /\ offset' \in Nat /\ remaining' \in Nat /\ remaining' <= size'
      /\ offset' = from' + Done'
      /\ \A k \in 0..(Done' - 1) : buf'[k] = Image(table', from' + k)
  BY <1>1, <1>6, <1>7, <1>8, Filled
<1>10. pos' \in Nat /\ readsize' \in Nat /\ readsize' <= remaining'
  BY <1>1, <1>2, <1>3
<1>11. table.base[idx] + pos' = offset' /\ pos' + readsize' <= Addr(table.size[idx])
  <2>1. pos' = pos + n /\ readsize' = readsize - n /\ offset' = offset + n
    BY <1>1
  <2>2. (pos + n) + (readsize - n) = pos + readsize
    BY <1>2
  <2>3. table.base[idx] + (pos + n) = (table.base[idx] + pos) + n
    BY <1>2, <1>4
  <2> QED
    BY <1>3, <2>1, <2>2, <2>3, Zenon
<1>12. TypeOK'
  BY <1>1, <1>9, <1>10 DEF TypeOK
<1>13. ChunkInv'
  BY <1>1, <1>3, <1>10, <1>11 DEF ChunkInv
<1>14. ProgressInv' /\ PrefixInv' /\ ReadCorrect'
  BY <1>9 DEF ProgressInv, PrefixInv, ReadCorrect
<1> QED
  BY <1>12, <1>13, <1>14 DEF IsoInv

\* Where the raw sector of a position lies.
LEMMA RawSectorAddr ==
  ASSUME TypeOK, ChunkInv, pc \in {"head", "body", "tail"}
  PROVE  RawSector + Byte(pos) = Addr(table.start[idx]) + pos /\ RawSector \in Nat
<1>1. pos \in Nat /\ table \in Tables /\ idx \in 1..table.num
  BY DEF TypeOK, ChunkInv
<1>2. /\ table.start[idx] \in Nat /\ Sec(pos) \in Nat /\ Byte(pos) \in Nat
      /\ Addr(table.start[idx]) \in Nat /\ Addr(Sec(pos)) \in Nat
  BY <1>1, TableFacts, SecByteNat, AddrNat
<1>3. RawSector = Addr(table.start[idx]) + Addr(Sec(pos))
  BY <1>2, AddrSum DEF RawSector
<1>4. pos = Addr(Sec(pos)) + Byte(pos)
  BY <1>1, SecByteSplit
<1> QED
  BY <1>2, <1>3, <1>4

\* The sector the piece begins in.
LEMMA ReadHeadStep == ASSUME IsoInv, ReadHead PROVE IsoInv'
<1> DEFINE n == HeadSize
           b == RawSector + Byte(pos)
<1>1. /\ pc = "head" /\ TypeOK /\ ChunkInv
      /\ buf' = [k \in DOMAIN buf |-> IF Done <= k /\ k < Done + n THEN b + (k - Done) ELSE buf[k]]
      /\ Advance(n) /\ AdvanceChunk(n) /\ UNCHANGED <<args, ret>>
      /\ pc' = IF readsize' > 0 THEN "body" ELSE "loop"
  BY DEF ReadHead, Fill, IsoInv
<1>2. pos \in Nat /\ readsize \in Nat /\ Sec(pos) \in Nat /\ Byte(pos) \in Nat /\ Byte(pos) < SectorSize
      /\ SectorSize \in Nat
  BY <1>1, SecByteNat, ReaderAssumption DEF TypeOK
<1>3. n \in Nat /\ n <= readsize /\ (n # readsize => n = SectorSize - Byte(pos))
  BY <1>2 DEF HeadSize, Min
<1>4. b = Addr(table.start[idx]) + pos
  BY <1>1, RawSectorAddr
<1> HIDE DEF n, b
<1>5. pos' = pos + n /\ readsize' = readsize - n
  BY <1>1 DEF AdvanceChunk
<1>6. ASSUME readsize' > 0 PROVE Byte(pos') = 0
  <2>1. n = SectorSize - Byte(pos)
    BY <1>2, <1>3, <1>5, <1>6
  <2>2. pos = Addr(Sec(pos)) + Byte(pos) /\ Addr(Sec(pos)) \in Nat
    BY <1>2, SecByteSplit, AddrNat
  <2>3. Addr(Sec(pos) + 1) = Addr(Sec(pos)) + SectorSize
    BY <1>2, AddrSum, AddrOne
  <2>4. pos' = Addr(Sec(pos) + 1)
    BY <1>2, <1>5, <2>1, <2>2, <2>3
  <2> QED
    BY <1>2, <2>4, ByteOfAddr
<1>7. pc' \in {"loop", "body", "tail"} /\ pc' # "tail"
      /\ (pc' # "loop" => 0 < readsize' /\ Byte(pos') = 0)
  BY <1>1, <1>2, <1>3, <1>5, <1>6
<1> QED
  BY <1>1, <1>3, <1>4, <1>7, Copied

\* The whole sectors of the piece.
LEMMA ReadBodyStep == ASSUME IsoInv, ReadBody PROVE IsoInv'
<1> DEFINE n == Addr(Sec(readsize))
           b == RawSector
<1>1. /\ pc = "body" /\ TypeOK /\ ChunkInv
      /\ buf' = [k \in DOMAIN buf |-> IF Done <= k /\ k < Done + n THEN b + (k - Done) ELSE buf[k]]
      /\ Advance(n) /\ AdvanceChunk(n) /\ UNCHANGED <<args, ret>>
      /\ pc' = IF readsize' > 0 THEN "tail" ELSE "loop"
  BY DEF ReadBody, Fill, IsoInv
<1>2. /\ pos \in Nat /\ readsize \in Nat /\ Byte(pos) = 0 /\ SectorSize \in Nat
      /\ Sec(pos) \in Nat /\ Sec(readsize) \in Nat
      /\ Byte(readsize) \in Nat /\ Byte(readsize) < SectorSize
  BY <1>1, SecByteNat, ReaderAssumption DEF TypeOK, ChunkInv
<1>3. n \in Nat /\ readsize = n + Byte(readsize)
  BY <1>2, SecByteSplit, AddrNat
<1>4. b = Addr(table.start[idx]) + pos
  <2>1. b + 0 = Addr(table.start[idx]) + pos /\ b \in Nat
    BY <1>1, <1>2, RawSectorAddr
  <2> QED
    BY <2>1
<1>5. pos' = pos + n /\ readsize' = readsize - n
  BY <1>1 DEF AdvanceChunk
<1>6. Byte(pos') = 0
  <2>1. pos = Addr(Sec(pos)) /\ Addr(Sec(pos)) \in Nat
    BY <1>2, SecByteSplit, AddrNat
  <2>2. pos' = Addr(Sec(pos) + Sec(readsize))
    BY <1>2, <1>5, <2>1, AddrSum
  <2> QED
    BY <1>2, <2>2, ByteOfAddr
<1> HIDE DEF n, b
<1>7. n <= readsize /\ readsize' \in Nat /\ readsize' < SectorSize
  BY <1>2, <1>3, <1>5
<1>8. pc' \in {"loop", "body", "tail"} /\ (pc' # "loop" => 0 < readsize' /\ Byte(pos') = 0)
  BY <1>1, <1>6, <1>7
<1> QED
  BY <1>1, <1>3, <1>4, <1>7, <1>8, Copied

\* The sector the piece ends in.
LEMMA ReadTailStep == ASSUME IsoInv, ReadTail PROVE IsoInv'
<1> DEFINE b == RawSector
<1>1. /\ pc = "tail" /\ TypeOK /\ ChunkInv
      /\ buf' = [k \in DOMAIN buf |->
                   IF Done <= k /\ k < Done + readsize THEN b + (k - Done) ELSE buf[k]]
      /\ Advance(readsize) /\ AdvanceChunk(readsize) /\ UNCHANGED <<args, ret>>
      /\ pc' = "loop"
  BY DEF ReadTail, Fill, IsoInv
<1>2. readsize \in Nat /\ pos \in Nat /\ Byte(pos) = 0
  BY <1>1 DEF TypeOK, ChunkInv
<1>3. b = Addr(table.start[idx]) + pos
  <2>1. b + 0 = Addr(table.start[idx]) + pos /\ b \in Nat
    BY <1>1, <1>2, RawSectorAddr
  <2> QED
    BY <2>1
<1> HIDE DEF b
<1> QED
  BY <1>1, <1>2, <1>3, Copied

\* The two ways out.
LEMMA LeaveStep == ASSUME IsoInv, StorageReadFails \/ Return PROVE IsoInv'
<1>1. /\ pc' = "idle" /\ TypeOK /\ ProgressInv /\ PrefixInv
      /\ UNCHANGED <<args, buf, offset, remaining, chunk>>
      /\ ret' \in {0, -1} /\ (ret' = 0 => pc = "loop" /\ remaining = 0)
  BY DEF StorageReadFails, Return, IsoInv
<1>2. TypeOK'
  BY <1>1 DEF TypeOK, args, chunk
<1>3. ProgressInv' /\ ChunkInv' /\ PrefixInv'
  BY <1>1 DEF ProgressInv, ChunkInv, PrefixInv
<1>4. ASSUME ret' = 0 PROVE \A k \in 0..(size - 1) : buf[k] = Image(table, from + k)
  <2>1. Done = size
    BY <1>1, <1>4 DEF Done, TypeOK
  <2> QED
    BY <1>1, <1>4, <2>1 DEF PrefixInv
<1>5. ReadCorrect'
  BY <1>1, <1>4 DEF ReadCorrect, args
<1> QED
  BY <1>2, <1>3, <1>5 DEF IsoInv

-----------------------------------------------------------------------------
(* The theorems *)

\* The inductive invariant holds in every state of every read.
THEOREM IsoInvariance == Spec => []IsoInv
<1>1. ASSUME IsoInv, [Next]_vars PROVE IsoInv'
  <2>1. CASE UNCHANGED vars
    BY <1>1, <2>1 DEF vars, args, chunk, IsoInv, TypeOK, ProgressInv, ChunkInv, PrefixInv,
                      ReadCorrect, Done
  <2>2. CASE Step
    BY <1>1, <2>2, ZeroFillStep, NextChunkStep, ReadHeadStep, ReadBodyStep, ReadTailStep,
       LeaveStep DEF Step
  <2>3. CASE \E o \in Offsets, n \in Lengths : Call(o, n)
    BY <1>1, <2>3, IsoCallStep
  <2> QED
    BY <1>1, <2>1, <2>2, <2>3 DEF Next
<1> QED
  BY <1>1, IsoStart, PTL DEF Spec

\* Type correctness of process_read_iso_cmd: no unsigned local underflows.
THEOREM IsoTypeCorrect == Spec => []TypeOK
<1>1. IsoInv => TypeOK
  BY DEF IsoInv
<1> QED
  BY <1>1, IsoInvariance, PTL

\* A read that process_read_iso_cmd reports as successful returned the file's bytes.
THEOREM SuccessfulReadsAreRight == Spec => []ReadCorrect
<1>1. IsoInv => ReadCorrect
  BY DEF IsoInv
<1> QED
  BY <1>1, IsoInvariance, PTL

\* process_read_iso_cmd reads no sector outside the section it is working on.
THEOREM StaysInSection == Spec => []ReadsInsideSection
<1>1. ASSUME IsoInv, pc \in {"head", "body", "tail"}
      PROVE  /\ Sec(pos) + Sec(readsize) <= table.size[idx]
             /\ pc # "body" => Sec(pos) < table.size[idx]
  <2>1. /\ table \in Tables /\ pos \in Nat /\ readsize \in Nat
        /\ idx \in 1..table.num /\ pos + readsize <= Addr(table.size[idx]) /\ 0 < readsize
    BY <1>1 DEF IsoInv, TypeOK, ChunkInv
  <2>2. /\ Sec(pos) \in Nat /\ Sec(readsize) \in Nat /\ table.size[idx] \in Nat
        /\ Byte(pos) \in Nat /\ Byte(readsize) \in Nat
    BY <2>1, SecByteNat, TableFacts
  <2>3. /\ Addr(Sec(pos)) \in Nat /\ Addr(Sec(readsize)) \in Nat /\ Addr(table.size[idx]) \in Nat
        /\ pos = Addr(Sec(pos)) + Byte(pos) /\ readsize = Addr(Sec(readsize)) + Byte(readsize)
    BY <2>1, <2>2, SecByteSplit, AddrNat
  <2>4. Addr(Sec(pos) + Sec(readsize)) <= Addr(table.size[idx])
    <3>1. Addr(Sec(pos) + Sec(readsize)) = Addr(Sec(pos)) + Addr(Sec(readsize))
      BY <2>2, AddrSum
    <3> QED
      BY <2>1, <2>2, <2>3, <3>1
  <2>5. Sec(pos) + Sec(readsize) \in Nat
    BY <2>2
  <2>6. Sec(pos) + Sec(readsize) <= table.size[idx]
    BY <2>2, <2>4, <2>5, AddrOrder
  <2>7. Addr(Sec(pos)) < Addr(table.size[idx])
    BY <2>1, <2>2, <2>3
  <2> QED
    BY <2>2, <2>6, <2>7, AddrOrder
<1>2. IsoInv => ReadsInsideSection
  BY <1>1 DEF ReadsInsideSection
<1> QED
  BY <1>2, IsoInvariance, PTL

\* process_read_iso_cmd never writes behind the caller's buffer.
THEOREM StaysInBuffer == Spec => []WritesInsideBuffer
<1>1. IsoInv => WritesInsideBuffer
  BY DEF IsoInv, TypeOK, ProgressInv, ChunkInv, WritesInsideBuffer, Done
<1> QED
  BY <1>1, IsoInvariance, PTL

-----------------------------------------------------------------------------
(* process_read_cd_2352_cmd: the inductive invariant *)

Small(s, n) == s + n + 2 * CacheSize < Half

\* A call that has not looked anything up yet.
FreshInv ==
  cd_pc \in {"lookup", "direct"} =>
    /\ sector = start /\ cd_remaining = count /\ to = 0
    /\ Small(start, count)
    /\ cd_pc = "lookup" => count <= CacheSize /\ tainted = stale

\* A tag other than the initial one belongs to memory; the initial one over
\* memory is what a failed first refill leaves.
TagInv ==
  /\ cached_cd_sector # Half => cd_cache \in [Slots -> Int]
  /\ cached_cd_sector = Half /\ cd_cache # NotAllocated => stale

\* Before the refill, the rest of the request is a run of sectors that
\* belongs at "to", and everything around it is there already.
RefillInv ==
  cd_pc = "refill" =>
    /\ to + cd_remaining <= count /\ cd_remaining <= CacheSize
    /\ sector = start + to /\ sector < Half
    /\ ~tainted => \A k \in 0..(count - 1) :
                     k < to \/ to + cd_remaining <= k => cd_buf[k] = start + k

CdInv ==
  /\ CdTypeOK /\ FreshInv /\ TagInv /\ RefillInv
  /\ CacheHonest /\ RawReadCorrect /\ NoWildCopy

-----------------------------------------------------------------------------
(* Distance to the cache *)

\* A hit that is not the accident of INT_MIN is near, and is a true distance.
LEMMA HitFacts ==
  ASSUME CdInv, cd_pc = "lookup", TRUE \in Near(Dif(cached_cd_sector, sector)),
         Dif(cached_cd_sector, sector) # IntMin
  PROVE  /\ cached_cd_sector \in 0..(Half - 1)
         /\ Dif(cached_cd_sector, sector) = cached_cd_sector - sector
         /\ cached_cd_sector - sector < CacheSize /\ sector - cached_cd_sector < CacheSize
<1>1. /\ sector = start /\ start \in Nat /\ count \in Nat /\ Small(start, count)
      /\ cached_cd_sector = Half \/ cached_cd_sector \in 0..(Half - 1)
  BY DEF CdInv, CdTypeOK, FreshInv
<1>2. CacheSize \in Nat /\ Half \in Nat /\ sector + 2 * CacheSize < Half /\ sector \in Nat
  BY <1>1, CdAssumption DEF Small
<1>3. cached_cd_sector \in Nat
  BY <1>1, <1>2
<1> DEFINE d == Dif(cached_cd_sector, sector)
<1>4. d \in Int
  BY <1>2, <1>3 DEF Dif, Int32
<1>5. d < CacheSize /\ -d < CacheSize
  <2>1. Near(d) = {IF d < 0 THEN -d < CacheSize ELSE d < CacheSize}
    BY DEF Near
  <2>2. IF d < 0 THEN -d < CacheSize ELSE d < CacheSize
    BY <2>1
  <2> HIDE DEF d
  <2> QED
    BY <1>2, <1>4, <2>2
<1>6. cached_cd_sector # Half
  <2>1. SUFFICES ASSUME cached_cd_sector = Half PROVE FALSE
    OBVIOUS
  <2>2. d = IF sector = 0 THEN -Half ELSE Half - sector
    BY <1>2, <2>1 DEF Dif, Int32
  <2> QED
    BY <1>2, <1>5, <2>2 DEF IntMin
<1>7. d = cached_cd_sector - sector
  BY <1>1, <1>2, <1>6 DEF Dif, Int32
<1> QED
  BY <1>1, <1>2, <1>3, <1>5, <1>6, <1>7

-----------------------------------------------------------------------------
(* One lemma per action *)

\* The cache starts empty.
LEMMA CdStart == CdInit => CdInv
<1> SUFFICES ASSUME CdInit PROVE CdInv
  OBVIOUS
<1>1. CdTypeOK
  <2>1. cd_buf \in [0..(count - 1) -> Int]
    <3>1. count - 1 = -1 /\ Unknown \in Int
      BY DEF CdInit, Unknown
    <3>2. NotAllocated \in [0..-1 -> Int]
      BY <3>1, Zenon DEF NotAllocated
    <3>3. cd_buf = NotAllocated
      BY DEF CdInit
    <3> QED
      BY <3>1, <3>2, <3>3
  <2> QED
    BY <2>1 DEF CdInit, CdTypeOK
<1> QED
  BY <1>1 DEF CdInit, CdInv, FreshInv, TagInv, RefillInv, CacheHonest, RawReadCorrect, NoWildCopy

\* A new call.
LEMMA CdCallStep ==
  ASSUME CdInv, NEW s \in Sectors, NEW n \in Counts, CdCall(s, n)
  PROVE  CdInv'
<1>1. s \in Nat /\ n \in Nat /\ Small(s, n) /\ CacheSize \in Nat
  BY CdAssumption DEF Small
<1>2. cd_buf' \in [0..(n - 1) -> Int]
  BY <1>1 DEF CdCall, Unknown
<1>3. CdTypeOK'
  BY <1>1, <1>2 DEF CdInv, CdTypeOK, CdCall
<1>4. FreshInv' /\ RefillInv' /\ RawReadCorrect'
  BY <1>1 DEF CdCall, FreshInv, RefillInv, RawReadCorrect, Small
<1>5. TagInv' /\ CacheHonest' /\ NoWildCopy'
  BY DEF CdInv, CdCall, TagInv, CacheHonest, NoWildCopy
<1> QED
  BY <1>3, <1>4, <1>5 DEF CdInv

\* What every step of the lookup leaves alone.
LEMMA LookupKeeps ==
  ASSUME CdInv, UNCHANGED <<cd_cache, cached_cd_sector, stale>>
  PROVE  TagInv' /\ CacheHonest'
  BY DEF CdInv, TagInv, CacheHonest

\* Nothing of the request is in the cache.
LEMMA MissStep == ASSUME CdInv, Miss PROVE CdInv'
<1>1. CdTypeOK' /\ FreshInv' /\ RawReadCorrect' /\ NoWildCopy'
  BY DEF CdInv, Miss, CdTypeOK, FreshInv, RawReadCorrect, NoWildCopy, call
<1>2. /\ sector = start /\ cd_remaining = count /\ to = 0 /\ count <= CacheSize
      /\ start \in Nat /\ count \in Nat /\ CacheSize \in Nat /\ Half \in Nat /\ Small(start, count)
  BY CdAssumption DEF CdInv, Miss, FreshInv, CdTypeOK
<1>3. RefillInv'
  BY <1>2 DEF Miss, RefillInv, call, Small
<1> QED
  BY <1>1, <1>3, LookupKeeps DEF CdInv, Miss

\* The initial tag against sector 0.
LEMMA HitInvalidStep == ASSUME CdInv, HitInvalid PROVE CdInv'
<1>1. CdTypeOK' /\ FreshInv' /\ RawReadCorrect'
  BY DEF CdInv, HitInvalid, CdTypeOK, FreshInv, RawReadCorrect, call
<1>2. /\ sector = start /\ cd_remaining = count /\ to = 0 /\ count <= CacheSize /\ tainted = stale
      /\ start \in Nat /\ count \in Nat /\ CacheSize \in Nat /\ Half \in Nat /\ Small(start, count)
  BY CdAssumption DEF CdInv, HitInvalid, FreshInv, CdTypeOK
<1>3. RefillInv'
  BY <1>2 DEF HitInvalid, RefillInv, call, Small
<1>4. cached_cd_sector = Half
  BY <1>2 DEF CdInv, CdTypeOK, HitInvalid, Dif, Int32, IntMin, Small
<1>5. NoWildCopy'
  BY <1>2, <1>4 DEF CdInv, HitInvalid, NoWildCopy, TagInv
<1> QED
  BY <1>1, <1>3, <1>5, LookupKeeps DEF CdInv, HitInvalid

\* A copy from the cache brings the sectors of the request.
LEMMA CopyFacts ==
  ASSUME CdInv, cd_pc = "lookup", cached_cd_sector \in 0..(Half - 1),
         NEW place \in Nat, NEW slot \in Nat, NEW n \in Nat,
         slot + n <= CacheSize, cached_cd_sector + slot = start + place,
         FromCache(place, slot, n)
  PROVE  /\ cd_buf' \in [0..(count - 1) -> Int]
         /\ ~stale => \A k \in 0..(count - 1) : place <= k /\ k < place + n => cd_buf'[k] = start + k
<1>1. /\ DOMAIN cd_buf = 0..(count - 1) /\ cd_buf \in [0..(count - 1) -> Int]
      /\ count \in Nat /\ start \in Nat /\ CacheSize \in Nat /\ Half \in Nat
  BY CdAssumption DEF CdInv, CdTypeOK
<1>2. cached_cd_sector # Half /\ cd_cache \in [Slots -> Int]
  BY <1>1 DEF CdInv, TagInv
<1>3. \A k \in 0..(count - 1) : place <= k /\ k < place + n => slot + (k - place) \in Slots
  BY <1>1 DEF Slots
<1>4. \A k \in 0..(count - 1) :
        cd_buf'[k] = IF place <= k /\ k < place + n THEN cd_cache[slot + (k - place)] ELSE cd_buf[k]
  BY <1>1 DEF FromCache
<1>5. cd_buf' \in [0..(count - 1) -> Int]
  <2>1. \A k \in 0..(count - 1) : cd_buf'[k] \in Int
    BY <1>1, <1>2, <1>3, <1>4
  <2> QED
    BY <1>1, <2>1 DEF FromCache
<1>6. ASSUME ~stale, NEW k \in 0..(count - 1), place <= k, k < place + n
      PROVE  cd_buf'[k] = start + k
  <2>1. cd_cache[slot + (k - place)] = cached_cd_sector + (slot + (k - place))
    BY <1>2, <1>3, <1>6 DEF CdInv, CacheHonest
  <2>2. cached_cd_sector + (slot + (k - place)) = start + k
    BY <1>1, <1>6
  <2> QED
    BY <1>4, <1>6, <2>1, <2>2
<1> QED
  BY <1>5, <1>6

\* The cache holds the end of the request.
LEMMA HitTailStep == ASSUME CdInv, HitTail PROVE CdInv'
<1> DEFINE dif == Dif(cached_cd_sector, sector)
<1>1. /\ cd_pc = "lookup" /\ TRUE \in Near(dif) /\ 0 < dif /\ dif < cd_remaining
      /\ FromCache(dif, 0, cd_remaining - dif) /\ cd_remaining' = dif /\ cd_pc' = "refill"
      /\ UNCHANGED <<cd_cache, cached_cd_sector, call, to, sector, cd_ret, stale, tainted>>
  BY DEF HitTail
<1>2. /\ sector = start /\ cd_remaining = count /\ to = 0 /\ count <= CacheSize /\ tainted = stale
      /\ start \in Nat /\ count \in Nat /\ CacheSize \in Nat /\ Half \in Nat /\ Small(start, count)
      /\ cached_cd_sector \in Nat
  BY <1>1, CdAssumption DEF CdInv, FreshInv, CdTypeOK
<1>3. dif # IntMin
  <2>1. dif \in Int
    BY <1>2 DEF Dif, Int32
  <2> QED
    BY <1>1, <1>2, <2>1 DEF IntMin
<1>4. /\ cached_cd_sector \in 0..(Half - 1) /\ dif = cached_cd_sector - sector
      /\ dif \in Nat /\ dif < CacheSize
  BY <1>1, <1>2, <1>3, HitFacts
<1> HIDE DEF dif
<1>5. /\ cd_buf' \in [0..(count - 1) -> Int]
      /\ ~stale => \A k \in 0..(count - 1) :
                     dif <= k /\ k < dif + (cd_remaining - dif) => cd_buf'[k] = start + k
  <2>1. cd_remaining - dif \in Nat /\ 0 + (cd_remaining - dif) <= CacheSize
        /\ cached_cd_sector + 0 = start + dif /\ 0 \in Nat
    BY <1>1, <1>2, <1>4
  <2> QED
    BY <1>1, <1>4, <2>1, CopyFacts
<1>6. CdTypeOK'
  BY <1>1, <1>4, <1>5 DEF CdInv, CdTypeOK, call
<1>7. RefillInv'
  <2>1. ~tainted => \A k \in 0..(count - 1) : k < 0 \/ 0 + dif <= k => cd_buf'[k] = start + k
    BY <1>1, <1>2, <1>4, <1>5
  <2> QED
    BY <1>1, <1>2, <1>4, <2>1 DEF RefillInv, call, Small
<1>8. FreshInv' /\ RawReadCorrect' /\ NoWildCopy'
  BY <1>1 DEF FreshInv, RawReadCorrect, NoWildCopy
<1> QED
  BY <1>1, <1>6, <1>7, <1>8, LookupKeeps DEF CdInv

\* The cache holds the beginning of the request, or all of it.
LEMMA HitHeadStep == ASSUME CdInv, HitHead PROVE CdInv'
<1> DEFINE dif == Dif(cached_cd_sector, sector)
           n   == Lower(cd_remaining, CacheSize + dif)
<1>1. /\ cd_pc = "lookup" /\ TRUE \in Near(dif) /\ dif <= 0 /\ dif # IntMin
      /\ FromCache(0, -dif, n)
      /\ IF n = cd_remaining
         THEN cd_pc' = "idle" /\ cd_ret' = 0 /\ UNCHANGED <<to, sector, cd_remaining>>
         ELSE /\ cd_pc' = "refill" /\ cd_remaining' = cd_remaining - n
              /\ sector' = cached_cd_sector + CacheSize
              /\ to' = to + ((cached_cd_sector + CacheSize) - sector)
              /\ UNCHANGED cd_ret
      /\ UNCHANGED <<cd_cache, cached_cd_sector, call, stale, tainted>>
  BY DEF HitHead, SectorsLeft, NextSector, NextPlace
<1>2. /\ sector = start /\ cd_remaining = count /\ to = 0 /\ count <= CacheSize /\ tainted = stale
      /\ start \in Nat /\ count \in Nat /\ CacheSize \in Nat /\ Half \in Nat /\ Small(start, count)
  BY <1>1, CdAssumption DEF CdInv, FreshInv, CdTypeOK
<1>3. /\ cached_cd_sector \in 0..(Half - 1) /\ dif = cached_cd_sector - sector
      /\ -dif \in Nat /\ -dif < CacheSize /\ dif \in Int
  BY <1>1, <1>2, HitFacts
<1>4. n \in Nat /\ n <= cd_remaining /\ -dif + n <= CacheSize
      /\ (n # cd_remaining => n = CacheSize + dif)
  <2> HIDE DEF dif
  <2> QED
    BY <1>2, <1>3 DEF Lower
<1> HIDE DEF dif, n
<1>5. /\ cd_buf' \in [0..(count - 1) -> Int]
      /\ ~stale => \A k \in 0..(count - 1) : 0 <= k /\ k < 0 + n => cd_buf'[k] = start + k
  <2>1. cached_cd_sector + (-dif) = start + 0 /\ 0 \in Nat
    BY <1>2, <1>3
  <2> QED
    BY <1>1, <1>3, <1>4, <2>1, CopyFacts
<1>6. CASE n = cd_remaining
  <2>1. CdTypeOK'
    BY <1>1, <1>5, <1>6 DEF CdInv, CdTypeOK, call
  <2>2. RawReadCorrect'
    BY <1>1, <1>2, <1>5, <1>6 DEF RawReadCorrect, call
  <2>3. FreshInv' /\ RefillInv' /\ NoWildCopy'
    BY <1>1, <1>6 DEF FreshInv, RefillInv, NoWildCopy
  <2> QED
    BY <1>1, <2>1, <2>2, <2>3, LookupKeeps DEF CdInv
<1>7. CASE n # cd_remaining
  <2>1. /\ cd_pc' = "refill" /\ cd_remaining' = count - n /\ to' = n /\ sector' = start + n
        /\ cd_remaining' \in Nat /\ sector' \in Nat /\ UNCHANGED cd_ret
    BY <1>1, <1>2, <1>3, <1>4, <1>7
  <2>2. CdTypeOK'
    BY <1>1, <1>4, <1>5, <2>1 DEF CdInv, CdTypeOK, call
  <2>3. RefillInv'
    <3>1. n <= count /\ start + n < Half
      BY <1>2, <1>4 DEF Small
    <3>2. ~tainted => \A k \in 0..(count - 1) : k < n \/ n + (count - n) <= k => cd_buf'[k] = start + k
      BY <1>2, <1>4, <1>5
    <3> QED
      BY <1>1, <1>2, <1>4, <2>1, <3>1, <3>2 DEF RefillInv, call
  <2>4. FreshInv' /\ RawReadCorrect' /\ NoWildCopy'
    BY <2>1 DEF FreshInv, RawReadCorrect, NoWildCopy
  <2> QED
    BY <1>1, <2>2, <2>3, <2>4, LookupKeeps DEF CdInv
<1> QED
  BY <1>6, <1>7

\* A read too long for the cache.
LEMMA ReadDirectStep == ASSUME CdInv, ReadDirect PROVE CdInv'
<1>1. PICK m \in 0..cd_remaining :
        /\ cd_buf' = Fetched(cd_buf, sector, m) /\ cd_ret' = IF m = cd_remaining THEN 0 ELSE -1
  BY DEF ReadDirect
<1>2. /\ cd_pc = "direct" /\ cd_pc' = "idle" /\ sector = start /\ cd_remaining = count
      /\ count \in Nat /\ start \in Nat /\ cd_buf \in [0..(count - 1) -> Int]
      /\ DOMAIN cd_buf = 0..(count - 1)
      /\ UNCHANGED <<cd_cache, cached_cd_sector, call, to, sector, cd_remaining, stale, tainted>>
  BY DEF CdInv, ReadDirect, FreshInv, CdTypeOK
<1>3. cd_buf' \in [0..(count - 1) -> Int]
  BY <1>1, <1>2 DEF Fetched
<1>4. CdTypeOK'
  BY <1>1, <1>2, <1>3 DEF CdInv, CdTypeOK, call
<1>5. RawReadCorrect'
  BY <1>1, <1>2 DEF RawReadCorrect, Fetched, call
<1>6. FreshInv' /\ RefillInv' /\ NoWildCopy'
  BY <1>2 DEF FreshInv, RefillInv, NoWildCopy
<1> QED
  BY <1>2, <1>4, <1>5, <1>6, LookupKeeps DEF CdInv

\* No memory for the cache.
LEMMA AllocateFailsStep == ASSUME CdInv, AllocateFails PROVE CdInv'
<1>1. CdTypeOK'
  BY DEF CdInv, AllocateFails, CdTypeOK, call
<1>2. FreshInv' /\ RefillInv' /\ NoWildCopy' /\ RawReadCorrect'
  BY DEF AllocateFails, FreshInv, RefillInv, NoWildCopy, RawReadCorrect
<1> QED
  BY <1>1, <1>2, LookupKeeps DEF CdInv, AllocateFails

\* The refill fails half way.
LEMMA RefillFailsStep == ASSUME CdInv, RefillFails PROVE CdInv'
<1>1. PICK m \in Slots : cd_cache' = Fetched(CacheMemory, sector, m)
  BY DEF RefillFails
<1>2. sector \in Nat
  BY DEF CdInv, CdTypeOK
<1>3. CacheMemory \in [Slots -> Int]
  BY DEF CdInv, CdTypeOK, CacheMemory, Unknown
<1>4. cd_cache' \in [Slots -> Int]
  <2>1. DOMAIN CacheMemory = Slots /\ \A k \in Slots : CacheMemory[k] \in Int
    BY <1>3
  <2>2. \A k \in Slots : (IF k < m THEN sector + k ELSE CacheMemory[k]) \in Int
    BY <1>2, <2>1 DEF Slots
  <2> QED
    BY <1>1, <2>1, <2>2 DEF Fetched
<1>5. CdTypeOK'
  BY <1>4 DEF CdInv, RefillFails, CdTypeOK, call
<1>6. FreshInv' /\ RefillInv' /\ NoWildCopy' /\ RawReadCorrect' /\ CacheHonest'
  BY DEF RefillFails, FreshInv, RefillInv, NoWildCopy, RawReadCorrect, CacheHonest
<1>7. TagInv'
  BY <1>4 DEF RefillFails, TagInv
<1> QED
  BY <1>5, <1>6, <1>7 DEF CdInv

\* The refill succeeds.
LEMMA RefillStep == ASSUME CdInv, Refill PROVE CdInv'
<1>1. /\ cd_pc = "refill" /\ cd_cache' = [k \in Slots |-> sector + k]
      /\ cd_buf' = [k \in DOMAIN cd_buf |->
                   IF to <= k /\ k < to + cd_remaining THEN cd_cache'[k - to] ELSE cd_buf[k]]
      /\ cached_cd_sector' = sector /\ cd_pc' = "idle" /\ cd_ret' = 0 /\ stale' = FALSE
      /\ UNCHANGED <<call, to, sector, cd_remaining, tainted>>
  BY DEF Refill, NewTag
<1>2. /\ to + cd_remaining <= count /\ cd_remaining <= CacheSize /\ sector = start + to
      /\ sector < Half
      /\ ~tainted => \A k \in 0..(count - 1) :
                       k < to \/ to + cd_remaining <= k => cd_buf[k] = start + k
  BY <1>1 DEF CdInv, RefillInv
<1>3. /\ count \in Nat /\ start \in Nat /\ to \in Nat /\ cd_remaining \in Nat /\ sector \in Nat
      /\ CacheSize \in Nat /\ Half \in Nat /\ tainted \in BOOLEAN
      /\ cd_buf \in [0..(count - 1) -> Int] /\ DOMAIN cd_buf = 0..(count - 1)
  BY CdAssumption DEF CdInv, CdTypeOK
<1>4. cd_cache' \in [Slots -> Int]
  BY <1>1, <1>3 DEF Slots
<1>5. \A k \in 0..(count - 1) : to <= k /\ k < to + cd_remaining => cd_cache'[k - to] = start + k
  <2>1. \A k \in 0..(count - 1) : to <= k /\ k < to + cd_remaining =>
          k - to \in Slots /\ sector + (k - to) = start + k
    BY <1>2, <1>3 DEF Slots
  <2> QED
    BY <1>1, <2>1
<1>6. \A k \in 0..(count - 1) :
        cd_buf'[k] = IF to <= k /\ k < to + cd_remaining THEN start + k ELSE cd_buf[k]
  BY <1>1, <1>3, <1>5
<1>7. cd_buf' \in [0..(count - 1) -> Int]
  <2>1. \A k \in 0..(count - 1) : cd_buf'[k] \in Int
    BY <1>3, <1>6
  <2> QED
    BY <1>1, <1>3, <2>1
<1>8. CdTypeOK'
  <2>1. cached_cd_sector' \in 0..(Half - 1)
    BY <1>1, <1>2, <1>3
  <2>2. start' = start /\ count' = count /\ to' = to /\ sector' = sector /\ cd_remaining' = cd_remaining
        /\ tainted' = tainted
    BY <1>1 DEF call
  <2> QED
    BY <1>1, <1>3, <1>4, <1>7, <2>1, <2>2 DEF CdTypeOK
<1>9. RawReadCorrect'
  <2>1. ASSUME ~tainted, NEW k \in 0..(count - 1) PROVE cd_buf'[k] = start + k
    BY <1>2, <1>3, <1>6, <2>1
  <2> QED
    BY <1>1, <2>1 DEF RawReadCorrect, call
<1>10. FreshInv' /\ RefillInv' /\ NoWildCopy' /\ CacheHonest'
  BY <1>1 DEF FreshInv, RefillInv, NoWildCopy, CacheHonest
<1>11. TagInv'
  BY <1>1, <1>2, <1>3, <1>4 DEF TagInv
<1> QED
  BY <1>8, <1>9, <1>10, <1>11 DEF CdInv

-----------------------------------------------------------------------------
(* The theorems *)

\* The inductive invariant holds in every state.
THEOREM CdInvariance == CdSpec => []CdInv
<1>1. ASSUME CdInv, [CdNext]_cd_vars PROVE CdInv'
  <2>1. CASE UNCHANGED cd_vars
    BY <1>1, <2>1 DEF cd_vars, call, CdInv, CdTypeOK, FreshInv, TagInv, RefillInv, CacheHonest,
                      RawReadCorrect, NoWildCopy
  <2>2. CASE CdNext
    BY <1>1, <2>2, CdCallStep, MissStep, HitTailStep, HitHeadStep, HitInvalidStep, ReadDirectStep,
       AllocateFailsStep, RefillFailsStep, RefillStep DEF CdNext
  <2> QED
    BY <1>1, <2>1, <2>2
<1> QED
  BY <1>1, CdStart, PTL DEF CdSpec

\* Type correctness of process_read_cd_2352_cmd: its unsigned locals never
\* underflow.
THEOREM CdTypeCorrect == CdSpec => []CdTypeOK
<1>1. CdInv => CdTypeOK
  BY DEF CdInv
<1> QED
  BY <1>1, CdInvariance, PTL

\* cd_cache holds what cached_cd_sector says, unless the last refill failed.
THEOREM CacheIsHonest == CdSpec => []CacheHonest
<1>1. CdInv => CacheHonest
  BY DEF CdInv
<1> QED
  BY <1>1, CdInvariance, PTL

\* Successful raw reads return the sectors asked for, hits and misses alike.
THEOREM RawReadsAreRight == CdSpec => []RawReadCorrect
<1>1. CdInv => RawReadCorrect
  BY DEF CdInv
<1> QED
  BY <1>1, CdInvariance, PTL

\* The copies of process_read_cd_2352_cmd stay in buffer and cache.
THEOREM CopiesStayInside == CdSpec => []CopiesFit
<1>1. CdInv => CopiesFit
  BY DEF CdInv, RefillInv, CopiesFit
<1> QED
  BY <1>1, CdInvariance, PTL

\* The initial cached_cd_sector never causes a copy before a refill has failed.
THEOREM InitialTagHarmless == CdSpec => []NoWildCopy
<1>1. CdInv => NoWildCopy
  BY DEF CdInv
<1> QED
  BY <1>1, CdInvariance, PTL

-----------------------------------------------------------------------------
(* process_read_cd_2048_cmd: the inductive invariant *)

\* Byte r of the user data of the q-th sector is where it belongs.
UserByte(q, r) == user_buf[q * UserSize + r] = (first + q) * RawSize + HeaderSize + r

\* Byte r of the q-th raw sector is where it was read to.
RawByte(q, r) == user_buf[q * RawSize + r] = (first + q) * RawSize + r

\* The first n sectors, and b bytes of the next one, are squeezed.
Squeezed(n, b) ==
  \A q \in Nat : \A r \in 0..(UserSize - 1) :
    q \notin bad /\ (q < n \/ (q = n /\ r < b)) => UserByte(q, r)

\* Those of the raw sectors that are still to be copied, from byte b of the
\* n-th one on, have not been overwritten.
Intact(n, b) ==
  \A q \in 0..(Fit - 1) : \A r \in 0..(RawSize - 1) :
    q \notin bad /\ (q > n \/ (q = n /\ r >= b)) => RawByte(q, r)

UserType ==
  /\ first \in Nat /\ sector_count \in Nat /\ start_sector \in Nat
  /\ i \in Nat /\ j \in Nat
  /\ user_pc \in {"idle", "bulk", "copy", "single"}
  /\ user_buf \in [0..(sector_count * UserSize - 1) -> Int]

SqueezeInv ==
  /\ user_pc = "idle" => Squeezed(sector_count, 0)
  /\ user_pc = "bulk" => start_sector = first /\ i = 0 /\ j = 0
  /\ user_pc = "copy" =>
       /\ start_sector = first + i
       /\ i <= Fit /\ j <= UserSize /\ (i = Fit => j = 0)
       /\ Squeezed(i, j) /\ Intact(i, HeaderSize + j)
  /\ user_pc = "single" =>
       /\ start_sector = first + Fit + i /\ i <= Rem
       /\ Squeezed(Fit + i, 0)

UserInv == UserType /\ SqueezeInv

-----------------------------------------------------------------------------
(* Rows of bytes *)

LEMMA Distribute ==
  ASSUME NEW a \in Nat, NEW b \in Nat, NEW c \in Nat
  PROVE  /\ a * c \in Nat
         /\ (a + b) * c = a * c + b * c
         /\ (a + 1) * c = a * c + c
  OBVIOUS

LEMMA TimesMonotone ==
  ASSUME NEW a \in Nat, NEW b \in Nat, NEW c \in Nat, a <= b
  PROVE  a * c <= b * c
<1> DEFINE d == b - a
<1>1. d \in Nat /\ b = a + d
  OBVIOUS
<1>2. (a + d) * c = a * c + d * c /\ a * c \in Nat /\ d * c \in Nat
  BY <1>1, Distribute
<1> QED
  BY <1>1, <1>2

\* A byte of an earlier row comes before every byte of a later one.
LEMMA RowBefore ==
  ASSUME NEW a \in Nat, NEW b \in Nat, NEW c \in Nat, a < b, NEW r \in 0..(c - 1)
  PROVE  a * c + r < b * c /\ a * c \in Nat /\ b * c \in Nat
<1>1. (a + 1) * c <= b * c
  BY TimesMonotone
<1>2. (a + 1) * c = a * c + c /\ a * c \in Nat /\ b * c \in Nat
  BY Distribute
<1> QED
  BY <1>1, <1>2

\* The raw sectors that are read at once fit into the buffer, and are not more
\* than the sectors asked for.
LEMMA RawSectorsFit ==
  ASSUME NEW n \in Nat, NEW f, f = (n * UserSize) \div RawSize
  PROVE  f \in Nat /\ f <= n /\ f * RawSize <= n * UserSize
<1>1. n * UserSize \in Nat /\ RawSize \in Nat \ {0}
  BY UserAssumption, Distribute
<1>2. ASSUME NEW c \in Nat, NEW w \in Nat \ {0}
      PROVE  c \div w \in Nat /\ (c \div w) * w <= c
  OBVIOUS
<1>3. f \in Nat /\ f * RawSize <= n * UserSize
  BY <1>1, <1>2
<1>4. f <= n
  <2> SUFFICES ASSUME n < f PROVE FALSE
    BY <1>3
  <2>1. n * RawSize + 0 < f * RawSize
    BY <1>1, <1>3, RowBefore
  <2>2. n * UserSize <= n * RawSize
    <3>1. UserSize * n <= RawSize * n
      BY <1>1, UserAssumption, TimesMonotone
    <3> QED
      BY <3>1, UserAssumption
  <2> QED
    BY <1>1, <1>3, <2>1, <2>2
<1> QED
  BY <1>3, <1>4

LEMMA FitFits ==
  /\ sector_count \in Nat => /\ Fit \in Nat /\ Fit <= sector_count
                             /\ Fit * RawSize <= sector_count * UserSize
  /\ sector_count' \in Nat => Fit' \in Nat /\ Fit' <= sector_count'
  BY RawSectorsFit DEF Fit, Capacity

-----------------------------------------------------------------------------
(* process_read_cd_2048_cmd: its steps *)

LEMMA UserStart == UserInit => UserInv
<1> SUFFICES ASSUME UserInit PROVE UserInv
  OBVIOUS
<1>1. 0 * UserSize - 1 = -1
  BY UserAssumption
<1>2. UserType
  BY <1>1 DEF UserInit, UserType, Unread
<1>3. Squeezed(sector_count, 0)
  BY DEF Squeezed, UserInit
<1> QED
  BY <1>2, <1>3 DEF UserInv, SqueezeInv, UserInit

LEMMA UserCallStep ==
  ASSUME UserInv, NEW s \in UserSectors, NEW n \in UserCounts, UserCall(s, n)
  PROVE  UserInv'
<1>1. s \in Nat /\ n \in Nat
  BY UserAssumption
<1>2. UserType'
  BY <1>1 DEF UserCall, UserType, Unread, UserInv
<1>3. Fit' \in Nat /\ Fit' <= sector_count'
  <2>1. sector_count' \in Nat
    BY <1>2 DEF UserType
  <2> QED
    BY <2>1, FitFits
<1>4. CASE Fit' > 0
  BY <1>4, <1>2 DEF UserCall, UserInv, SqueezeInv
<1>5. CASE Fit' = 0
  <2>1. user_pc' = "single" /\ start_sector' = first' + Fit' + i' /\ i' = 0 /\ i' <= Rem'
    BY <1>1, <1>3, <1>5 DEF UserCall, Rem
  <2>2. Squeezed(Fit + i, 0)'
    BY <2>1, <1>5 DEF Squeezed
  <2> QED
    BY <1>2, <2>1, <2>2 DEF UserInv, SqueezeInv
<1> QED
  BY <1>3, <1>4, <1>5

\* A read of units of c bytes, of which the first m are there: the units that
\* are not bad are there as a whole.
LEMMA GoodUnit ==
  ASSUME NEW base \in Nat, NEW c \in Nat, NEW units \in Nat, NEW m \in 0..(units * c),
         NEW q \in 0..(units - 1), NEW r \in 0..(c - 1),
         base + q \notin {base + p : p \in {p \in 0..(units - 1) : (p + 1) * c > m}}
  PROVE  q * c + r < m /\ q * c \in Nat
<1>1. ~((q + 1) * c > m)
  OBVIOUS
<1>2. (q + 1) * c = q * c + c /\ q * c \in Nat
  BY Distribute
<1>3. m \in Nat
  BY Distribute
<1> QED
  BY <1>1, <1>2, <1>3

LEMMA ReadBulkStep ==
  ASSUME UserInv, ReadBulk
  PROVE  UserInv'
<1>1. UserType /\ sector_count \in Nat /\ first \in Nat /\ start_sector = first /\ i = 0 /\ j = 0
  BY DEF UserInv, UserType, SqueezeInv, ReadBulk
<1>2. Fit \in Nat /\ Fit * RawSize <= sector_count * UserSize /\ Fit' = Fit
  BY <1>1, FitFits DEF ReadBulk, request, Fit, Capacity
<1>c. RawSize \in Nat /\ UserSize \in Nat /\ HeaderSize \in Nat /\ sector_count * UserSize \in Nat
      /\ Fit * RawSize \in Nat /\ first * RawSize \in Nat
  BY <1>1, <1>2, UserAssumption, Distribute
<1>3. PICK m \in 0..(Fit * RawSize) :
        /\ user_buf' = [k \in DOMAIN user_buf |->
                          IF 0 <= k /\ k < 0 + m THEN start_sector * RawSize + (k - 0) ELSE user_buf[k]]
        /\ bad' = bad \union
                  {0 + q : q \in {q \in 0..(Fit - 1) : (q + 1) * RawSize > m}}
  BY DEF ReadBulk, ReadIso
<1>4. UserType'
  BY <1>1, <1>3, <1>c DEF UserType, ReadBulk, request
<1>5. Squeezed(i, j)'
  BY <1>1 DEF Squeezed, ReadBulk
<1>6. ASSUME NEW q \in 0..(Fit - 1), NEW r \in 0..(RawSize - 1), q \notin bad'
      PROVE  user_buf'[q * RawSize + r] = (first + q) * RawSize + r
  <2>1. 0 + q \notin {0 + p : p \in {p \in 0..(Fit - 1) : (p + 1) * RawSize > m}}
    BY <1>2, <1>3, <1>6
  <2>2. q * RawSize + r < m /\ q * RawSize \in Nat
    BY <2>1, <1>2, <1>c, GoodUnit
  <2>3. q * RawSize + r \in DOMAIN user_buf
    BY <2>2, <1>1, <1>2, <1>c DEF UserType
  <2>4. user_buf'[q * RawSize + r] = first * RawSize + (q * RawSize + r)
    BY <2>2, <2>3, <1>1, <1>3, <1>c
  <2>5. (first + q) * RawSize = first * RawSize + q * RawSize
    BY <1>1, <1>c, <1>2, Distribute
  <2> QED
    BY <2>2, <2>4, <2>5, <1>c
<1>7. Intact(i, HeaderSize + j)'
  BY <1>6, <1>2 DEF Intact, RawByte, ReadBulk, request
<1> QED
  BY <1>1, <1>2, <1>4, <1>5, <1>7, UserAssumption DEF UserInv, SqueezeInv, ReadBulk, request

\* In the middle of the squeezing: the byte that is copied is not one that is
\* in its place already, and comes before everything still to be copied.
LEMMA CopyByteStep ==
  ASSUME UserInv, CopyByte
  PROVE  UserInv'
<1>1. /\ UserType /\ sector_count \in Nat /\ first \in Nat /\ i \in Nat /\ j \in Nat
      /\ i < Fit /\ j < UserSize /\ start_sector = first + i
      /\ Squeezed(i, j) /\ Intact(i, HeaderSize + j)
  BY UserAssumption DEF UserInv, UserType, SqueezeInv, CopyByte
<1>2. Fit \in Nat /\ Fit <= sector_count /\ Fit' = Fit
  BY <1>1, FitFits DEF CopyByte, request, Fit, Capacity
<1>c. /\ RawSize \in Nat /\ UserSize \in Nat /\ HeaderSize \in Nat
      /\ HeaderSize + UserSize <= RawSize
  BY UserAssumption
<1>3. /\ i * UserSize \in Nat /\ i * RawSize \in Nat
      /\ i * UserSize + j < sector_count * UserSize
      /\ sector_count * UserSize \in Nat
  BY <1>1, <1>2, <1>c, RowBefore, Distribute
<1> DEFINE here  == i * UserSize + j
           value == user_buf[i * RawSize + HeaderSize + j]
<1>4. /\ user_buf' = [user_buf EXCEPT ![here] = value]
      /\ here \in 0..(sector_count * UserSize - 1)
  BY <1>1, <1>3 DEF CopyByte, In, Out, CopyIndex
<1>r. i * RawSize + HeaderSize + j \in 0..(sector_count * UserSize - 1)
  <2>1. i * RawSize + (HeaderSize + j) < Fit * RawSize /\ Fit * RawSize \in Nat
    BY <1>1, <1>2, <1>c, RowBefore
  <2> QED
    BY <2>1, <1>1, <1>3, <1>c, FitFits
<1>5. UserType'
  <2>1. value \in Int
    BY <1>1, <1>r DEF UserType
  <2>2. user_buf' \in [0..(sector_count * UserSize - 1) -> Int]
    BY <2>1, <1>1, <1>4 DEF UserType
  <2> QED
    BY <2>2, <1>1 DEF UserType, CopyByte, request
<1>6. \A k \in 0..(sector_count * UserSize - 1) : k # here => user_buf'[k] = user_buf[k]
  BY <1>1, <1>4 DEF UserType
<1>7. user_buf'[here] = value
  BY <1>1, <1>4 DEF UserType
<1>8. /\ first' = first /\ sector_count' = sector_count /\ i' = i /\ j' = j + 1
      /\ bad' = bad /\ start_sector' = start_sector /\ user_pc' = "copy"
  BY DEF CopyByte, request
<1> HIDE DEF here, value
<1>9. ASSUME NEW q \in Nat, NEW r \in 0..(UserSize - 1), q \notin bad,
             q < i \/ (q = i /\ r < j + 1)
      PROVE  user_buf'[q * UserSize + r] = (first + q) * RawSize + HeaderSize + r
  <2>1. CASE q < i \/ r < j
    <3>s. UserByte(q, r)
      BY <1>1, <1>9, <2>1 DEF Squeezed
    <3>1. user_buf[q * UserSize + r] = (first + q) * RawSize + HeaderSize + r
      BY <3>s DEF UserByte
    <3>2. q * UserSize \in Nat /\ q * UserSize + r < i * UserSize + j
      <4>1. CASE q < i
        <5>1. q * UserSize + r < i * UserSize /\ q * UserSize \in Nat
          BY <4>1, <1>1, <1>c, RowBefore
        <5> QED
          BY <5>1, <1>1, <1>3, <1>c
      <4>2. CASE q = i
        BY <4>2, <2>1, <1>1, <1>3, <1>c
      <4> QED
        BY <1>9, <4>1, <4>2
    <3>3. q * UserSize + r # here /\ q * UserSize + r \in 0..(sector_count * UserSize - 1)
      BY <3>2, <1>1, <1>3, <1>c DEF here
    <3> QED
      BY <3>1, <3>3, <1>6
  <2>2. CASE q = i /\ r = j
    <3>1. value = (first + i) * RawSize + (HeaderSize + j)
      <4>1. i * RawSize + HeaderSize + j = i * RawSize + (HeaderSize + j)
        BY <1>1, <1>3, <1>c
      <4>2. i \in 0..(Fit - 1) /\ HeaderSize + j \in 0..(RawSize - 1)
        BY <1>1, <1>2, <1>c
      <4>3. RawByte(i, HeaderSize + j)
        BY <4>2, <1>1, <1>9, <1>c, <2>2 DEF Intact
      <4> QED
        BY <4>1, <4>3 DEF RawByte, value
    <3>2. (first + i) * RawSize \in Nat
      BY <1>1, <1>c, Distribute
    <3>3. value = (first + i) * RawSize + HeaderSize + j
      BY <3>1, <3>2, <1>1, <1>c
    <3> QED
      BY <3>3, <1>7, <2>2 DEF here
  <2> QED
    BY <2>1, <2>2, <1>9, <1>1, <1>c
<1>10. Squeezed(i, j)'
  BY <1>8, <1>9 DEF Squeezed, UserByte
<1>11. ASSUME NEW q \in 0..(Fit - 1), NEW r \in 0..(RawSize - 1), q \notin bad,
              q > i \/ (q = i /\ r >= HeaderSize + (j + 1))
       PROVE  user_buf'[q * RawSize + r] = (first + q) * RawSize + r
  <2>1. user_buf[q * RawSize + r] = (first + q) * RawSize + r
    BY <1>1, <1>c, <1>11 DEF Intact, RawByte
  <2>2. i * UserSize <= i * RawSize
    <3>1. UserSize * i <= RawSize * i
      BY <1>1, <1>c, TimesMonotone
    <3> QED
      BY <3>1, <1>1, <1>c
  <2>3. i * UserSize + j < q * RawSize + r /\ q * RawSize \in Nat
    <3>1. CASE q > i
      <4>1. i * RawSize + j < q * RawSize /\ q * RawSize \in Nat
        BY <3>1, <1>1, <1>2, <1>c, RowBefore
      <4> QED
        BY <4>1, <2>2, <1>1, <1>3, <1>c
    <3>2. CASE q = i
      BY <3>2, <1>11, <2>2, <1>1, <1>3, <1>c
    <3> QED
      BY <1>11, <3>1, <3>2
  <2>4. q * RawSize + r < Fit * RawSize /\ Fit * RawSize \in Nat
    BY <1>2, <1>c, RowBefore
  <2>5. q * RawSize + r # here /\ q * RawSize + r \in 0..(sector_count * UserSize - 1)
    BY <2>3, <2>4, <1>1, <1>3, <1>c, FitFits DEF here
  <2> QED
    BY <2>1, <2>5, <1>6
<1>12. Intact(i, HeaderSize + j)'
  BY <1>2, <1>8, <1>11 DEF Intact, RawByte
<1> QED
  BY <1>1, <1>2, <1>c, <1>5, <1>8, <1>10, <1>12 DEF UserInv, SqueezeInv

LEMMA NextCopyStep ==
  ASSUME UserInv, NextCopy
  PROVE  UserInv'
<1>1. /\ UserType /\ i \in Nat /\ j = UserSize /\ first \in Nat /\ i < Fit /\ start_sector = first + i
      /\ sector_count \in Nat
      /\ Squeezed(i, UserSize) /\ Intact(i, HeaderSize + UserSize)
  BY DEF UserInv, UserType, SqueezeInv, NextCopy
<1>2. Fit \in Nat /\ Fit' = Fit
  BY <1>1, FitFits DEF NextCopy, request, Fit, Capacity
<1>3. /\ first' = first /\ sector_count' = sector_count /\ i' = i + 1 /\ j' = 0
      /\ bad' = bad /\ start_sector' = first + (i + 1) /\ user_pc' = "copy" /\ user_buf' = user_buf
  BY <1>1 DEF NextCopy, request
<1>c. RawSize \in Nat /\ UserSize \in Nat /\ HeaderSize \in Nat
  BY UserAssumption
<1>4. Squeezed(i + 1, 0)
  BY <1>1, <1>c DEF Squeezed
<1>5. Squeezed(i, j)'
  BY <1>3, <1>4 DEF Squeezed, UserByte
<1>6. Intact(i + 1, HeaderSize)
  <2> SUFFICES ASSUME NEW q \in 0..(Fit - 1), NEW r \in 0..(RawSize - 1), q \notin bad,
                      q > i + 1 \/ (q = i + 1 /\ r >= HeaderSize)
               PROVE  RawByte(q, r)
    BY DEF Intact
  <2>1. q > i
    BY <1>1, <1>2
  <2> QED
    BY <2>1, <1>1 DEF Intact
<1>7. Intact(i, HeaderSize + j)'
  BY <1>2, <1>3, <1>6, <1>c DEF Intact, RawByte
<1>8. UserType'
  BY <1>1, <1>3 DEF UserType
<1> QED
  BY <1>1, <1>2, <1>3, <1>5, <1>7, <1>8, <1>c DEF UserInv, SqueezeInv

LEMMA CopyDoneStep ==
  ASSUME UserInv, CopyDone
  PROVE  UserInv'
<1>1. /\ UserType /\ i = Fit /\ j = 0 /\ first \in Nat /\ start_sector = first + Fit
      /\ sector_count \in Nat /\ Squeezed(Fit, 0)
  BY DEF UserInv, UserType, SqueezeInv, CopyDone
<1>2. Fit \in Nat /\ Fit' = Fit /\ Fit <= sector_count
  BY <1>1, FitFits DEF CopyDone, request, Fit, Capacity
<1>3. /\ first' = first /\ sector_count' = sector_count /\ i' = 0
      /\ bad' = bad /\ start_sector' = start_sector /\ user_pc' = "single" /\ user_buf' = user_buf
      /\ j' = j
  BY DEF CopyDone, request
<1>4. Squeezed(Fit + i, 0)'
  BY <1>1, <1>2, <1>3 DEF Squeezed, UserByte
<1>5. UserType'
  BY <1>1, <1>3 DEF UserType
<1> QED
  BY <1>1, <1>2, <1>3, <1>4, <1>5 DEF UserInv, SqueezeInv, Rem

LEMMA ReadSingleStep ==
  ASSUME UserInv, ReadSingle
  PROVE  UserInv'
<1>1. /\ UserType /\ i \in Nat /\ j \in Nat /\ first \in Nat /\ sector_count \in Nat
      /\ start_sector = first + Fit + i /\ i < Rem /\ Squeezed(Fit + i, 0)
  BY DEF UserInv, UserType, SqueezeInv, ReadSingle
<1>2. Fit \in Nat /\ Fit <= sector_count /\ Fit' = Fit /\ Rem' = Rem
  BY <1>1, FitFits DEF ReadSingle, request, Fit, Capacity, Rem
<1>c. RawSize \in Nat /\ UserSize \in Nat /\ HeaderSize \in Nat
  BY UserAssumption
<1> DEFINE n == Fit + i
<1>n. n \in Nat /\ n < sector_count /\ start_sector = first + n
  BY <1>1, <1>2 DEF Rem
<1>3. PICK m \in 0..(1 * UserSize) :
        /\ user_buf' = [k \in DOMAIN user_buf |->
                          IF n * UserSize <= k /\ k < n * UserSize + m
                          THEN start_sector * RawSize + HeaderSize + (k - n * UserSize)
                          ELSE user_buf[k]]
        /\ bad' = bad \union {n + q : q \in {q \in 0..(1 - 1) : (q + 1) * UserSize > m}}
  BY DEF ReadSingle, ReadIso
<1>4. /\ first' = first /\ sector_count' = sector_count /\ i' = i + 1
      /\ start_sector' = first + (n + 1) /\ user_pc' = "single" /\ j' = j
  BY <1>1, <1>2, <1>n DEF ReadSingle, request
<1> HIDE DEF n
<1>5. /\ m \in 0..UserSize /\ m \in Nat /\ n * UserSize \in Nat /\ start_sector * RawSize \in Nat
      /\ n * UserSize + (UserSize - 1) < sector_count * UserSize /\ sector_count * UserSize \in Nat
  BY <1>1, <1>c, <1>n, <1>2, RowBefore, Distribute, UserAssumption
<1>6. UserType'
  BY <1>1, <1>3, <1>4, <1>5, <1>c, <1>n DEF UserType
<1>7. ASSUME NEW q \in Nat, NEW r \in 0..(UserSize - 1), q \notin bad', q < n + 1
      PROVE  user_buf'[q * UserSize + r] = (first + q) * RawSize + HeaderSize + r
  <2>1. CASE q < n
    <3>s. UserByte(q, r)
      BY <1>1, <1>3, <1>7, <2>1 DEF Squeezed, n
    <3>1. user_buf[q * UserSize + r] = (first + q) * RawSize + HeaderSize + r
      BY <3>s DEF UserByte
    <3>2. q * UserSize + r < n * UserSize /\ q * UserSize \in Nat
      BY <2>1, <1>n, <1>c, RowBefore
    <3>3. q * UserSize + r \in 0..(sector_count * UserSize - 1)
      BY <3>2, <1>5, <1>c
    <3>4. user_buf'[q * UserSize + r] = user_buf[q * UserSize + r]
      BY <3>2, <3>3, <1>1, <1>3, <1>5 DEF UserType
    <3> QED
      BY <3>1, <3>4
  <2>2. CASE q = n
    <3>1. ~((0 + 1) * UserSize > m)
      BY <1>3, <1>7, <2>2, <1>n
    <3>2. m = UserSize
      BY <3>1, <1>5, <1>c
    <3> DEFINE p == n * UserSize + r
    <3>3. /\ p \in 0..(sector_count * UserSize - 1) /\ n * UserSize <= p
          /\ p < n * UserSize + UserSize /\ p - n * UserSize = r
      BY <1>5, <1>c
    <3> HIDE DEF p
    <3>4. user_buf'[p] = start_sector * RawSize + HeaderSize + (p - n * UserSize)
      BY <3>2, <3>3, <1>1, <1>3 DEF UserType
    <3>5. user_buf'[p] = start_sector * RawSize + HeaderSize + r
      BY <3>3, <3>4
    <3> QED
      BY <3>5, <2>2, <1>n DEF p
  <2> QED
    BY <2>1, <2>2, <1>7, <1>n
<1>8. Fit' + i' = n + 1
  BY <1>1, <1>2, <1>4 DEF n
<1>9. Squeezed(Fit + i, 0)'
  BY <1>4, <1>7, <1>8 DEF Squeezed, UserByte
<1> QED
  BY <1>1, <1>2, <1>4, <1>6, <1>8, <1>9, <1>n DEF UserInv, SqueezeInv, Rem

LEMMA UserReturnStep ==
  ASSUME UserInv, UserReturn
  PROVE  UserInv'
<1>1. /\ UserType /\ sector_count \in Nat /\ i = Rem /\ Squeezed(Fit + i, 0)
  BY DEF UserInv, UserType, SqueezeInv, UserReturn
<1>2. Fit \in Nat /\ Fit + i = sector_count
  BY <1>1, FitFits DEF Rem
<1>3. Squeezed(sector_count, 0)'
  BY <1>1, <1>2 DEF Squeezed, UserByte, UserReturn, request
<1>4. UserType'
  BY <1>1 DEF UserType, UserReturn, request
<1> QED
  BY <1>3, <1>4 DEF UserInv, SqueezeInv, UserReturn

LEMMA UserStep == UserInv /\ [UserNext]_user_vars => UserInv'
<1> SUFFICES ASSUME UserInv, [UserNext]_user_vars PROVE UserInv'
  OBVIOUS
<1>1. CASE UNCHANGED user_vars
  <2>1. UserType'
    BY <1>1 DEF UserInv, UserType, user_vars, request
  <2>2. SqueezeInv'
    BY <1>1 DEF UserInv, SqueezeInv, Squeezed, Intact, UserByte, RawByte, Fit, Capacity, Rem,
                user_vars, request
  <2> QED
    BY <2>1, <2>2 DEF UserInv
<1> QED
  BY <1>1, UserCallStep, ReadBulkStep, CopyByteStep, NextCopyStep, CopyDoneStep, ReadSingleStep,
     UserReturnStep DEF UserNext

\* What is in its place row by row is what UserDataCorrect asks for.
LEMMA SqueezedIsCorrect == UserInv => UserDataCorrect
<1> SUFFICES ASSUME UserInv, user_pc = "idle", NEW k \in DOMAIN user_buf,
                    k \div UserSize \notin bad
             PROVE  user_buf[k] = Wanted(k)
  BY DEF UserDataCorrect
<1>1. /\ k \in 0..(sector_count * UserSize - 1) /\ sector_count \in Nat
      /\ Squeezed(sector_count, 0) /\ UserSize \in Nat \ {0}
  BY UserAssumption DEF UserInv, UserType, SqueezeInv
<1>2. sector_count * UserSize \in Nat /\ k \in Nat /\ k < sector_count * UserSize
  BY <1>1, Distribute
<1> DEFINE q == k \div UserSize
           r == k % UserSize
<1>3. /\ q \in Nat /\ r \in 0..(UserSize - 1)
      /\ k = UserSize * q + r
  BY <1>1, <1>2
<1> HIDE DEF q, r
<1>4. k = q * UserSize + r /\ q * UserSize \in Nat
  BY <1>1, <1>3, Distribute
<1>5. q < sector_count
  <2> SUFFICES ASSUME sector_count <= q PROVE FALSE
    BY <1>1, <1>3
  <2>1. sector_count * UserSize <= q * UserSize
    BY <1>1, <1>3, TimesMonotone
  <2> QED
    BY <2>1, <1>1, <1>2, <1>3, <1>4
<1>6. UserByte(q, r)
  BY <1>1, <1>3, <1>5 DEF Squeezed, q
<1> QED
  BY <1>4, <1>6 DEF UserByte, Wanted, q, r

\* Every sector of user data that was read whole is the one asked for, for
\* every size of sector and header, though the copies of
\* process_read_cd_2048_cmd overlap what they are made from (main.c:260-266).
THEOREM UserDataIsRight == UserSpec => []UserDataCorrect
<1>1. UserInit => UserInv
  BY UserStart
<1>2. UserInv /\ [UserNext]_user_vars => UserInv'
  BY UserStep
<1>3. UserInv => UserDataCorrect
  BY SqueezedIsCorrect
<1> QED
  BY <1>1, <1>2, <1>3, PTL DEF UserSpec

=============================================================================
