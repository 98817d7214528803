-------------------------- MODULE ByteDeviceProofs --------------------------
(***************************************************************************)
(* Reads and writes of byte ranges through sectors are exact, and a sync   *)
(* is honest, for every sector size, device and request.                   *)
(***************************************************************************)
EXTENDS ByteDevice, TLAPS

-----------------------------------------------------------------------------
(* Sector arithmetic. These are the only facts that look inside At,        *)
(* sec_start and buffer_offset.                                            *)

\* A sector begins at an address.
LEMMA AtNat == ASSUME NEW s \in Nat PROVE At(s) \in Nat
  BY ByteSectorsAssumption DEF At

\* The next sector begins a sector size later.
LEMMA AtNext == ASSUME NEW s \in Nat PROVE At(s + 1) = At(s) + SectorSize
  BY ByteSectorsAssumption DEF At

\* The first sectors.
LEMMA AtFirst == At(0) = 0 /\ At(1) = SectorSize
  BY ByteSectorsAssumption DEF At

\* Sectors that begin less than a sector apart are the same.
LEMMA AtApart ==
  ASSUME NEW s \in Nat, NEW t \in Nat, s < t PROVE At(s) + SectorSize <= At(t)
<1>1. PICK d \in Nat : t = s + 1 + d
  BY t - (s + 1) \in Nat
<1>2. At(t) = At(s) + SectorSize + d * SectorSize
  BY <1>1, ByteSectorsAssumption DEF At
<1>3. d * SectorSize \in Nat
  BY ByteSectorsAssumption
<1> QED
  BY <1>2, <1>3, AtNat, ByteSectorsAssumption

\* An offset is the start of its sector and the place within it.
LEMMA Split ==
  ASSUME NEW p \in Nat
  PROVE  /\ sec_start(p) \in Nat
         /\ buffer_offset(p) \in Nat /\ buffer_offset(p) < SectorSize
         /\ p = At(sec_start(p)) + buffer_offset(p)
<1>1. sec_start(p) \in Nat /\ buffer_offset(p) \in 0..(SectorSize - 1)
  BY ByteSectorsAssumption DEF sec_start, buffer_offset
<1>2. \E q \in Nat, r \in 0..(SectorSize - 1) :
        p = SectorSize * q + r /\ q = p \div SectorSize /\ r = p % SectorSize
  BY ByteSectorsAssumption
<1>3. \A q \in Nat : SectorSize * q = At(q)
  BY ByteSectorsAssumption DEF At
<1>4. \E q \in Nat, r \in 0..(SectorSize - 1) :
        p = At(q) + r /\ q = sec_start(p) /\ r = buffer_offset(p)
  BY <1>2, <1>3, Zenon DEF sec_start, buffer_offset
<1>5. p = At(sec_start(p)) + buffer_offset(p)
  BY <1>4, Zenon
<1> QED
  BY <1>1, <1>5, ByteSectorsAssumption

\* The sectors of a range: they hold it, and no whole sector more.
LEMMA RangeSectors ==
  ASSUME NEW o \in Nat, NEW n \in Nat \ {0}
  PROVE  /\ buffer_offset(o) \in Nat /\ buffer_offset(o) < SectorSize
         /\ sec_start(o) \in Nat /\ At(sec_start(o)) \in Nat
         /\ o = At(sec_start(o)) + buffer_offset(o)
         /\ sec_count(o, n) \in Nat \ {0}
         /\ At(sec_count(o, n)) \in Nat /\ At(sec_count(o, n) - 1) \in Nat
         /\ At(sec_count(o, n)) = At(sec_count(o, n) - 1) + SectorSize
         /\ buffer_offset(o) + n <= At(sec_count(o, n))
         /\ At(sec_count(o, n) - 1) < buffer_offset(o) + n
         /\ ~LastEdge(o, n) => At(sec_count(o, n)) = buffer_offset(o) + n
<1> DEFINE m == buffer_offset(o) + n
           c == sec_count(o, n)
<1>1. /\ buffer_offset(o) \in Nat /\ buffer_offset(o) < SectorSize
      /\ sec_start(o) \in Nat /\ At(sec_start(o)) \in Nat
      /\ o = At(sec_start(o)) + buffer_offset(o)
  BY Split, AtNat
<1>2. SectorSize \in Nat \ {0} /\ m \in Nat \ {0}
  BY <1>1, ByteSectorsAssumption
<1>3. c \in Nat /\ m <= At(c) /\ At(c) < m + SectorSize
  <2>1. CASE m > SectorSize
    <3>1. m + SectorSize - 1 \in Nat
      BY <1>2
    <3> DEFINE p == m + SectorSize - 1
    <3>2. c = sec_start(p)
      BY <2>1 DEF sec_count, sec_start
    <3>3. PICK r \in Nat : c \in Nat /\ r < SectorSize /\ p = At(c) + r
      <4> HIDE DEF p, c
      <4> QED
        BY <3>1, <3>2, Split DEF p
    <3>4. At(c) \in Nat
      BY <3>3, AtNat
    <3> HIDE DEF c
    <3> QED
      BY <1>2, <3>3, <3>4
  <2>2. CASE ~(m > SectorSize)
    <3>1. c = 1
      BY <2>2 DEF sec_count
    <3> QED
      BY <1>2, <2>2, <3>1, AtFirst
  <2> QED
    BY <2>1, <2>2
<1>4. c # 0
  BY <1>2, <1>3, AtFirst
<1>5. c - 1 \in Nat /\ At(c) = At(c - 1) + SectorSize /\ At(c - 1) \in Nat /\ At(c) \in Nat
  <2>1. c - 1 \in Nat /\ (c - 1) + 1 = c
    BY <1>3, <1>4
  <2> HIDE DEF c
  <2> QED
    BY <1>3, <2>1, AtNext, AtNat
<1>6. ASSUME ~LastEdge(o, n) PROVE At(c) = m
  <2>1. buffer_offset(m) = 0
    <3>1. m % SectorSize = 0
      BY <1>6 DEF LastEdge
    <3> HIDE DEF m
    <3> QED
      BY <3>1 DEF buffer_offset
  <2> DEFINE k == sec_start(m)
  <2>2. k \in Nat /\ m = At(k) + buffer_offset(m)
    BY <1>2, Split
  <2>3. At(k) \in Nat
    BY <2>2, AtNat
  <2>4. m = At(k)
    <3> HIDE DEF m, k
    <3> QED
      BY <2>1, <2>2, <2>3
  <2> HIDE DEF m, k, c
  <2>5. ~(k < c) /\ ~(c < k)
    BY <1>2, <1>3, <2>2, <2>3, <2>4, <1>5, AtApart
  <2>6. k = c
    BY <1>3, <2>2, <2>5
  <2> QED
    BY <2>4, <2>6
<1>7. At(c - 1) < m
  <2> HIDE DEF m, c
  <2> QED
    BY <1>2, <1>3, <1>5
<1> HIDE DEF c
<1> QED
  BY <1>1, <1>3, <1>4, <1>5, <1>6, <1>7 DEF c

-----------------------------------------------------------------------------
(* Ranges of bytes *)

\* A read returns the range.
LEMMA ReadRange ==
  ASSUME NEW v, NEW o \in Nat, NEW n \in Nat \ {0}
  PROVE  readbytes(v, o, n) = Slice(v, o, n)
<1> DEFINE b == buffer_offset(o)
           s == At(sec_start(o))
           c == At(sec_count(o, n))
           sectors == readsectors(v, sec_start(o), sec_count(o, n))
<1>1. /\ b \in Nat /\ s \in Nat /\ c \in Nat /\ o = s + b /\ b + n <= c
      /\ ~LastEdge(o, n) => c = b + n
  BY RangeSectors
<1>2. sectors = [i \in 0..c - 1 |-> v[s + i]]
  BY DEF readsectors
<1>3. CASE b = 0 /\ n % SectorSize = 0
  <2>1. readbytes(v, o, n) = sectors
    BY <1>3 DEF readbytes
  <2>2. ~LastEdge(o, n)
    <3>1. b + n = n
      BY <1>3
    <3>2. (b + n) % SectorSize = 0
      BY <1>3, <3>1, Zenon
    <3> QED
      BY <3>2 DEF LastEdge
  <2>3. c = n /\ s = o
    <3> HIDE DEF b, s, c
    <3> QED
      BY <1>1, <1>3, <2>2
  <2> HIDE DEF s, c
  <2> QED
    BY <1>2, <2>1, <2>3 DEF Slice
<1>4. CASE ~(b = 0 /\ n % SectorSize = 0)
  <2>1. readbytes(v, o, n) = [i \in 0..n - 1 |-> sectors[b + i]]
    BY <1>4 DEF readbytes
  <2>2. ASSUME NEW i \in 0..n - 1 PROVE sectors[b + i] = v[o + i]
    <3> HIDE DEF b, s, c, sectors
    <3>1. b + i \in 0..c - 1 /\ s + (b + i) = o + i
      BY <1>1
    <3>2. sectors[b + i] = v[s + (b + i)]
      BY <1>2, <3>1
    <3> QED
      BY <3>1, <3>2
  <2> HIDE DEF sectors, b
  <2> QED
    BY <2>1, <2>2 DEF Slice
<1> QED
  BY <1>3, <1>4

\* A write changes the range and nothing else.
LEMMA WriteRange ==
  ASSUME NEW v, NEW o \in Nat, NEW n \in Nat \ {0}, NEW buf
  PROVE  writebytes(v, o, n, buf) = Patch(v, o, n, buf)
<1> DEFINE b == buffer_offset(o)
           s == At(sec_start(o))
           c == At(sec_count(o, n))
           l == At(sec_count(o, n) - 1)
           buffer == writebuffer(v, o, n, buf)
           w == writebytes(v, o, n, buf)
<1>1. /\ b \in Nat /\ b < SectorSize /\ s \in Nat /\ c \in Nat /\ l \in Nat
      /\ o = s + b /\ b + n <= c /\ l < b + n
      /\ ~LastEdge(o, n) => c = b + n
  BY RangeSectors
<1>2. w = [p \in Offset |-> IF s <= p /\ p < s + c THEN buffer[p - s] ELSE v[p]]
  BY DEF writebytes, writesectors
<1>3. \A i \in 0..c - 1 :
        buffer[i] = IF b <= i /\ i < b + n THEN buf[i - b]
                    ELSE IF OnEdge(o, n, i) THEN v[s + i] ELSE Unknown
  BY DEF writebuffer
<1>4. \A i \in 0..c - 1 : i < b \/ b + n <= i => OnEdge(o, n, i)
  <2> TAKE i \in 0..c - 1
  <2>1. ASSUME i < b PROVE OnEdge(o, n, i)
    <3>1. FirstEdge(o) /\ i < SectorSize
      BY <1>1, <2>1, ByteSectorsAssumption DEF FirstEdge
    <3> QED
      BY <3>1 DEF OnEdge
  <2>2. ASSUME b + n <= i PROVE OnEdge(o, n, i)
    <3> HIDE DEF b, c, l
    <3>1. LastEdge(o, n)
      BY <1>1, <2>2
    <3>2. l <= i
      BY <1>1, <2>2
    <3> QED
      BY <3>1, <3>2 DEF OnEdge, l
  <2> QED
    BY <2>1, <2>2
<1> HIDE DEF b, s, c, l, buffer
<1>5. ASSUME NEW p \in Offset, s <= p, p < s + c
      PROVE  buffer[p - s] = IF o <= p /\ p < o + n THEN buf[p - o] ELSE v[p]
  <2>0. p \in Nat
    BY AtNat, ByteSectorsAssumption DEF Offset
  <2>1. p - s \in 0..c - 1
    BY <1>1, <1>5, <2>0
  <2>2. CASE o <= p /\ p < o + n
    <3>1. b <= p - s /\ p - s < b + n /\ (p - s) - b = p - o
      BY <1>1, <2>0, <2>2
    <3> QED
      BY <1>3, <2>1, <2>2, <3>1
  <2>3. CASE ~(o <= p /\ p < o + n)
    <3>1. ~(b <= p - s /\ p - s < b + n) /\ (p - s < b \/ b + n <= p - s) /\ s + (p - s) = p
      BY <1>1, <2>0, <2>3
    <3>2. OnEdge(o, n, p - s)
      BY <1>4, <2>1, <3>1
    <3> QED
      BY <1>3, <2>1, <2>3, <3>1, <3>2
  <2> QED
    BY <2>2, <2>3
<1>6. ASSUME NEW p \in Offset, ~(s <= p /\ p < s + c) PROVE ~(o <= p /\ p < o + n)
  <2>0. p \in Nat
    BY AtNat, ByteSectorsAssumption DEF Offset
  <2> QED
    BY <1>1, <1>6, <2>0
<1> QED
  BY <1>2, <1>5, <1>6 DEF Patch, w

-----------------------------------------------------------------------------
(* The inductive invariant *)

\* A clean device has nothing that is not on the disk, unless a flush failed;
\* a closed one has nothing at all.
CleanOnDisk ==
  /\ open /\ ~dirty => disk = seen \/ failed
  /\ ~open => disk = seen

IInv == TypeOK /\ CleanOnDisk /\ SyncHonest /\ ReadExact

\* Requests are not empty and begin on the device.
LEMMA RequestFacts ==
  ASSUME NEW r \in Requests PROVE r[1] \in Nat /\ r[2] \in Nat \ {0}
  BY AtNat, ByteSectorsAssumption DEF Requests, Offset

\* A mixture of two contents is a content; of equal ones, the same.
LEMMA MixFacts ==
  ASSUME NEW u \in [Offset -> Value], NEW w \in [Offset -> Value], NEW T
  PROVE  Mix(u, w, T) \in [Offset -> Value] /\ Mix(u, u, T) = u
  BY DEF Mix

\* Writing bytes gives contents.
LEMMA PatchType ==
  ASSUME NEW v \in [Offset -> Value], NEW o \in Nat, NEW n \in Nat \ {0},
         NEW buf \in [0..n - 1 -> Byte]
  PROVE  Patch(v, o, n, buf) \in [Offset -> Value]
<1>1. \A p \in Offset : p \in Int
  BY AtNat, ByteSectorsAssumption DEF Offset
<1>2. ASSUME NEW p \in Offset, o <= p, p < o + n PROVE buf[p - o] \in Value
  <2>1. p - o \in 0..n - 1
    BY <1>1, <1>2
  <2> QED
    BY <2>1 DEF Value
<1> QED
  BY <1>2 DEF Patch

\* A failing read takes the same sectors from what is seen and from the disk.
LEMMA ReadFailsFacts ==
  ASSUME TypeOK, ReadFails
  PROVE  /\ seen' \in [Offset -> Value] /\ disk' \in [Offset -> Value]
         /\ disk = seen => disk' = seen'
<1> DEFINE U == [o \in Offset |-> Unknown]
<1>1. PICK T : seen' = Mix(seen, U, T) /\ disk' = Mix(disk, U, T)
  BY DEF ReadFails
<1>2. U \in [Offset -> Value]
  BY DEF Value
<1> HIDE DEF U
<1> QED
  BY <1>1, <1>2, MixFacts DEF TypeOK

\* A result that is neither a read nor a successful sync.
LEMMA NoResult == Nothing.op # "read" /\ Nothing # Result("sync", TRUE)
  BY DEF Nothing, Result

\* The result of a sync is no read.
LEMMA SyncResult ==
  ASSUME NEW ok \in BOOLEAN
  PROVE  Result("sync", ok).op # "read" /\ (Result("sync", ok) = Result("sync", TRUE) => ok)
<1>1. Result("sync", ok).op = "sync" /\ Result("sync", ok).ok = ok /\ Result("sync", TRUE).ok = TRUE
  BY DEF Result
<1> QED
  BY <1>1

\* The invariant holds at first.
LEMMA InitIInv == Init => IInv
<1> SUFFICES ASSUME Init PROVE IInv
  OBVIOUS
<1>1. TypeOK
  BY DEF Init, TypeOK, Value
<1>2. CleanOnDisk
  BY DEF Init, CleanOnDisk
<1>3. SyncHonest
  BY DEF Init, SyncHonest
<1>4. ReadExact
  BY NoResult DEF Init, ReadExact
<1> QED
  BY <1>1, <1>2, <1>3, <1>4 DEF IInv

\* Steps that return nothing.
LEMMA NothingStep == ASSUME ret' = Nothing PROVE SyncHonest' /\ ReadExact'
<1>1. ret'.op # "read" /\ ret' # Result("sync", TRUE)
  BY NoResult
<1> QED
  BY <1>1 DEF SyncHonest, ReadExact

\* ntfs_device_sync.
LEMMA SyncStep == ASSUME IInv, Sync PROVE IInv'
<1>0. TypeOK /\ CleanOnDisk
  BY DEF IInv
<1>1. open /\ open' = open /\ dirty' = FALSE /\ seen' = seen
  BY <1>0 DEF Sync, Flush
<1>2. CASE dirty
  <2>1. PICK ok \in BOOLEAN : Flush(ok) /\ ret' = Result("sync", ok)
    BY <1>2 DEF Sync
  <2>2. ReadExact'
    <3>1. ret'.op # "read"
      BY <2>1, SyncResult
    <3> QED
      BY <3>1 DEF ReadExact
  <2>3. disk' \in [Offset -> Value] /\ failed' \in BOOLEAN /\ (ok => disk' = seen) /\ (~ok => failed')
    <3>1. CASE ok
      BY <1>0, <2>1, <3>1 DEF Flush, TypeOK
    <3>2. CASE ~ok
      <4>1. failed' = TRUE /\ \E T \in SUBSET Sector : disk' = Mix(disk, seen, T)
        BY <2>1, <3>2 DEF Flush
      <4> QED
        BY <1>0, <3>2, <4>1, MixFacts DEF TypeOK
    <3> QED
      BY <3>1, <3>2
  <2>4. SyncHonest' /\ CleanOnDisk'
    BY <1>1, <2>3 DEF SyncHonest, CleanOnDisk
  <2>5. TypeOK'
    BY <1>0, <1>1, <2>3 DEF TypeOK
  <2> QED
    BY <2>2, <2>4, <2>5 DEF IInv
<1>3. CASE ~dirty
  <2>1. ret' = Result("sync", TRUE) /\ disk' = disk /\ failed' = failed
    BY <1>3 DEF Sync
  <2>2. ReadExact'
    <3>1. ret'.op # "read"
      BY <2>1, SyncResult
    <3> QED
      BY <3>1 DEF ReadExact
  <2>3. TypeOK' /\ CleanOnDisk' /\ SyncHonest'
    BY <1>0, <1>1, <1>3, <2>1 DEF TypeOK, CleanOnDisk, SyncHonest
  <2> QED
    BY <2>2, <2>3 DEF IInv
<1> QED
  BY <1>2, <1>3

\* ntfs_pread.
LEMMA PreadStep == ASSUME IInv, NEW o \in Nat, NEW n \in Nat \ {0}, Pread(o, n) PROVE IInv'
<1>0. TypeOK /\ CleanOnDisk
  BY DEF IInv
<1>1. open' = open /\ dirty' = dirty /\ failed' = failed
  BY DEF Pread
<1> DEFINE data == readbytes(seen, o, n)
           result == [op |-> "read", ok |-> TRUE, offset |-> o, count |-> n, data |-> data]
<1>2. CASE ret' = result /\ seen' = seen /\ disk' = disk
  <2>1. ret'.op = "read" /\ ret'.offset = o /\ ret'.count = n /\ ret'.data = data
    <3> HIDE DEF data
    <3> QED
      BY <1>2
  <2>2. data = Slice(seen, o, n)
    BY ReadRange
  <2> HIDE DEF data
  <2>3. ReadExact'
    BY <1>2, <2>1, <2>2, Zenon DEF ReadExact
  <2>4. ret' # Result("sync", TRUE)
    <3>1. Result("sync", TRUE).op # "read"
      BY SyncResult
    <3> QED
      BY <2>1, <3>1
  <2>5. TypeOK' /\ CleanOnDisk' /\ SyncHonest'
    BY <1>0, <1>1, <1>2, <2>4 DEF TypeOK, CleanOnDisk, SyncHonest
  <2> QED
    BY <2>3, <2>5 DEF IInv
<1>3. CASE ret' = Result("read", FALSE) /\ ReadFails
  <2>1. /\ seen' \in [Offset -> Value] /\ disk' \in [Offset -> Value]
        /\ disk = seen => disk' = seen'
    BY <1>0, <1>3, ReadFailsFacts
  <2>2. ret'.ok = FALSE /\ ret'.op = "read"
    BY <1>3 DEF Result
  <2>3. ret' # Result("sync", TRUE)
    <3>1. Result("sync", TRUE).op # "read"
      BY SyncResult
    <3> QED
      BY <2>2, <3>1
  <2>4. ReadExact'
    BY <2>2, Zenon DEF ReadExact
  <2>5. TypeOK' /\ CleanOnDisk' /\ SyncHonest'
    BY <1>0, <1>1, <2>1, <2>3 DEF TypeOK, CleanOnDisk, SyncHonest
  <2> QED
    BY <2>4, <2>5 DEF IInv
<1> QED
  BY <1>2, <1>3 DEF Pread

\* ntfs_pwrite.
LEMMA PwriteStep ==
  ASSUME IInv, NEW r \in Requests, NEW buf \in [0..r[2] - 1 -> Byte], Pwrite(r[1], r[2], buf)
  PROVE  IInv'
<1>0. TypeOK
  BY DEF IInv
<1>1. open /\ open' = open /\ dirty' = TRUE /\ failed' = failed /\ ret' = Nothing
  BY DEF Pwrite
<1>2. seen' \in [Offset -> Value] /\ disk' \in [Offset -> Value]
  <2>1. CASE ReadFails
    BY <1>0, <2>1, ReadFailsFacts
  <2>2. CASE ~ReadFails
    <3> DEFINE w == writebytes(seen, r[1], r[2], buf)
    <3>1. w \in [Offset -> Value]
      <4>1. r[1] \in Nat /\ r[2] \in Nat \ {0}
        BY RequestFacts
      <4>2. w = Patch(seen, r[1], r[2], buf)
        BY <4>1, WriteRange
      <4> QED
        BY <1>0, <4>1, <4>2, PatchType DEF TypeOK
    <3>2. disk' = disk /\ \E s \in 0..SectorCount : seen' = Mix(seen, w, 0..s - 1)
      BY <2>2 DEF Pwrite
    <3> HIDE DEF w
    <3> QED
      BY <1>0, <3>1, <3>2, MixFacts DEF TypeOK
  <2> QED
    BY <2>1, <2>2
<1>3. TypeOK' /\ CleanOnDisk'
  BY <1>0, <1>1, <1>2 DEF TypeOK, CleanOnDisk
<1> QED
  BY <1>1, <1>3, NothingStep DEF IInv

\* Every step preserves it.
LEMMA StepIInv == IInv /\ [Next]_vars => IInv'
<1> SUFFICES ASSUME IInv, [Next]_vars PROVE IInv'
  OBVIOUS
<1>0. TypeOK /\ CleanOnDisk /\ SyncHonest /\ ReadExact
  BY DEF IInv
<1>1. CASE Open
  <2>1. TypeOK' /\ CleanOnDisk'
    BY <1>0, <1>1 DEF Open, TypeOK, CleanOnDisk
  <2> QED
    BY <1>1, <2>1, NothingStep DEF Open, IInv
<1>2. CASE Evict
  <2>1. PICK T : disk' = Mix(disk, seen, T)
    BY <1>2 DEF Evict
  <2>2. disk' \in [Offset -> Value] /\ (disk = seen => disk' = seen)
    BY <1>0, <2>1, MixFacts DEF TypeOK
  <2>3. TypeOK' /\ CleanOnDisk'
    BY <1>0, <1>2, <2>2 DEF Evict, TypeOK, CleanOnDisk
  <2> QED
    BY <1>2, <2>3, NothingStep DEF Evict, IInv
<1>3. CASE Sync
  BY <1>3, SyncStep
<1>4. CASE Close
  <2>1. PICK ok \in BOOLEAN, T \in SUBSET Sector :
          disk' = (IF ok THEN seen ELSE Mix(disk, seen, T)) /\ seen' = disk' /\ failed' = FALSE
    BY <1>4 DEF Close
  <2>2. disk' \in [Offset -> Value]
    BY <1>0, <2>1, MixFacts DEF TypeOK
  <2>3. TypeOK' /\ CleanOnDisk'
    BY <1>4, <2>1, <2>2 DEF Close, TypeOK, CleanOnDisk
  <2> QED
    BY <1>4, <2>3, NothingStep DEF Close, IInv
<1>5. CASE Restart
  <2>1. TypeOK' /\ CleanOnDisk'
    BY <1>0, <1>5 DEF Restart, TypeOK, CleanOnDisk
  <2> QED
    BY <1>5, <2>1, NothingStep DEF Restart, IInv
<1>6. ASSUME NEW r \in Requests, Pread(r[1], r[2]) PROVE IInv'
  BY <1>6, PreadStep, RequestFacts
<1>7. ASSUME NEW r \in Requests, NEW buf \in [0..r[2] - 1 -> Byte], Pwrite(r[1], r[2], buf)
      PROVE  IInv'
  BY <1>7, PwriteStep
<1>8. CASE UNCHANGED vars
  BY <1>0, <1>8 DEF vars, IInv, TypeOK, CleanOnDisk, SyncHonest, ReadExact
<1> QED
  BY <1>1, <1>2, <1>3, <1>4, <1>5, <1>6, <1>7, <1>8 DEF Next

-----------------------------------------------------------------------------
(* The theorems *)

\* The invariant holds in every reachable state.
THEOREM Invariance == Spec => []IInv
  BY InitIInv, StepIInv, PTL DEF Spec

\* ntfs_device_sync reports success only when nothing is left to write, or when
\* an earlier flush failed and took the dirty mark with it.
THEOREM SyncIsHonest == Spec => []SyncHonest
<1>1. IInv => SyncHonest
  BY DEF IInv
<1> QED
  BY <1>1, Invariance, PTL

\* ntfs_pread returns exactly the bytes of the range, wherever it lies.
THEOREM ReadsAreExact == Spec => []ReadExact
<1>1. IInv => ReadExact
  BY DEF IInv
<1> QED
  BY <1>1, Invariance, PTL

\* ntfs_pwrite changes exactly the bytes of the range, wherever it lies.
THEOREM WritesAreExact == Spec => []WriteExact
<1>1. WriteExact
  BY RequestFacts, WriteRange DEF WriteExact
<1> QED
  BY <1>1, PTL
=============================================================================
