------------------------------ MODULE CdCache ------------------------------
(***************************************************************************)
(* process_read_cd_2352_cmd of source/rawseciso/main.c: raw sector reads   *)
(* of a PSX disc through a cache of CD_CACHE_SIZE consecutive sectors. A   *)
(* sector is represented by its number. The reads underneath, calls of     *)
(* process_read_iso_cmd, are the subject of IsoReader: here one succeeds   *)
(* or fails as a whole, and a failing one has filled a part of its target. *)
(***************************************************************************)
EXTENDS Integers

CONSTANTS
  CacheSize,    \* CD_CACHE_SIZE, 64 sectors
  Half,         \* 2^31: sector numbers are 32-bit, their difference an int
  Sectors,      \* first sectors of the requests
  Counts        \* lengths of the requests

\* A CD has fewer than 450000 sectors, so a request stays far below Half, and the
\* 32-bit products sector*2352 (main.c:334, 351), unbounded here, do not wrap.
ASSUME CdAssumption ==
  /\ CacheSize \in Nat \ {0} /\ Half \in Nat
  /\ Sectors \subseteq Nat /\ Counts \subseteq Nat
  /\ \A s \in Sectors, n \in Counts : s + n + 2 * CacheSize < Half

VARIABLES
  cd_cache,             \* its sectors; <<>> as long as it is not allocated
  cached_cd_sector,     \* the sector cd_cache begins with
  cd_pc,                \* "idle", "lookup", "direct", "refill", "wild"
  start, count,         \* the arguments of the call
  cd_buf, to,           \* the caller's buffer, and where buf points in it
  sector, cd_remaining, \* as the call advances them
  cd_ret,               \* the value returned last
  stale, tainted        \* history: the last refill failed; ... before this call

call == <<start, count>>
cd_vars == <<cd_cache, cached_cd_sector, cd_pc, call, cd_buf, to, sector, cd_remaining, cd_ret,
             stale, tainted>>

Slots   == 0..(CacheSize - 1)
Unknown == -1                  \* contents nobody wrote
NotAllocated == [k \in 0..-1 |-> Unknown]

Lower(a, b) == IF a <= b THEN a ELSE b

\* The int a difference of two 32-bit numbers is converted to.
Int32(d) == IF d >= Half THEN d - 2 * Half ELSE IF d < -Half THEN d + 2 * Half ELSE d

IntMin == -Half

Dif(cached, s) == Int32(cached - s)

\* ABS(dif) < CD_CACHE_SIZE. ABS(INT_MIN) is undefined: negated with
\* wrap-around it passes the test, tested as a range it does not.
Near(d) == {IF d < 0 THEN -d < CacheSize ELSE d < CacheSize}
           \union (IF d = IntMin THEN {TRUE} ELSE {})

CdInit ==
  /\ cd_cache = NotAllocated /\ cached_cd_sector = Half
  /\ cd_pc = "idle"
  /\ start = 0 /\ count = 0 /\ cd_buf = NotAllocated /\ to = 0
  /\ sector = 0 /\ cd_remaining = 0 /\ cd_ret = 0
  /\ stale = FALSE /\ tainted = FALSE

CdCall(s, n) ==
  /\ cd_pc = "idle"
  /\ cd_pc' = IF n <= CacheSize THEN "lookup" ELSE "direct"
  /\ start' = s /\ count' = n
  /\ cd_buf' = [k \in 0..(n - 1) |-> Unknown] /\ to' = 0
  /\ sector' = s /\ cd_remaining' = n
  /\ tainted' = stale
  /\ UNCHANGED <<cd_cache, cached_cd_sector, cd_ret, stale>>

-----------------------------------------------------------------------------
(* What the cache holds of the request *)

\* memcpy of n cached sectors, from the given slot, to the given place.
FromCache(place, slot, n) ==
  cd_buf' = [k \in DOMAIN cd_buf |->
            IF place <= k /\ k < place + n THEN cd_cache[slot + (k - place)] ELSE cd_buf[k]]

Miss ==
  /\ cd_pc = "lookup"
  /\ \/ FALSE \in Near(Dif(cached_cd_sector, sector))
     \/ /\ TRUE \in Near(Dif(cached_cd_sector, sector))
        /\ Dif(cached_cd_sector, sector) >= cd_remaining \* the cache begins behind the request
        /\ Dif(cached_cd_sector, sector) > 0
  /\ cd_pc' = "refill"
  /\ UNCHANGED <<cd_cache, cached_cd_sector, call, cd_buf, to, sector, cd_remaining, cd_ret,
                 stale, tainted>>

\* The cache begins inside the request: its head is the tail of the request.
HitTail ==
  /\ cd_pc = "lookup"
  /\ LET dif == Dif(cached_cd_sector, sector)
     IN  /\ TRUE \in Near(dif) /\ 0 < dif /\ dif < cd_remaining
         /\ FromCache(dif, 0, cd_remaining - dif)
         /\ cd_remaining' = dif
  /\ cd_pc' = "refill"
  /\ UNCHANGED <<cd_cache, cached_cd_sector, call, to, sector, cd_ret, stale, tainted>>

SectorsLeft(n) == cd_remaining - n

\* Mutated form of NextSector: the rest is fetched from where the request began.
NextSectorUnmoved == sector

NextSector == cached_cd_sector + CacheSize

NextPlace == to + (NextSector - sector)

\* The request begins in the cache; what is left begins where the cache ends.
HitHead ==
  /\ cd_pc = "lookup"
  /\ LET dif == Dif(cached_cd_sector, sector)
         n   == Lower(cd_remaining, CacheSize + dif)
     IN  /\ TRUE \in Near(dif) /\ dif <= 0 /\ dif # IntMin
         /\ FromCache(0, -dif, n)
         /\ IF n = cd_remaining
            THEN cd_pc' = "idle" /\ cd_ret' = 0 /\ UNCHANGED <<to, sector, cd_remaining>>
            ELSE /\ cd_pc' = "refill"
                 /\ cd_remaining' = SectorsLeft(n)
                 /\ sector' = NextSector
                 /\ to' = NextPlace
                 /\ UNCHANGED cd_ret
  /\ UNCHANGED <<cd_cache, cached_cd_sector, call, stale, tainted>>

\* Sector 0 against the initial cached_cd_sector: (-dif)*2352 is 0 in 32 bits,
\* so copy_ptr is cd_cache. While that is NULL nothing is copied; afterwards
\* the whole cache is, into a buffer of any size, and memory is overwritten.
HitInvalid ==
  /\ cd_pc = "lookup"
  /\ Dif(cached_cd_sector, sector) = IntMin
  /\ TRUE \in Near(IntMin)
  /\ cd_pc' = IF cd_cache = NotAllocated THEN "refill" ELSE "wild"
  /\ UNCHANGED <<cd_cache, cached_cd_sector, call, cd_buf, to, sector, cd_remaining, cd_ret,
                 stale, tainted>>

-----------------------------------------------------------------------------
(* Reading from the drive *)

\* n sectors of the disc from sector s on, the first m of them already there.
Fetched(target, s, m) == [k \in DOMAIN target |-> IF k < m THEN s + k ELSE target[k]]

ReadDirect ==
  /\ cd_pc = "direct"
  /\ \E m \in 0..cd_remaining :
       /\ cd_buf' = Fetched(cd_buf, sector, m)
       /\ cd_ret' = IF m = cd_remaining THEN 0 ELSE -1
  /\ cd_pc' = "idle"
  /\ UNCHANGED <<cd_cache, cached_cd_sector, call, to, sector, cd_remaining, stale, tainted>>

\* sys_memory_allocate fails.
AllocateFails ==
  /\ cd_pc = "refill" /\ cd_cache = NotAllocated
  /\ cd_pc' = "idle" /\ cd_ret' = -1
  /\ UNCHANGED <<cd_cache, cached_cd_sector, call, cd_buf, to, sector, cd_remaining, stale, tainted>>

CacheMemory == IF cd_cache = NotAllocated THEN [k \in Slots |-> Unknown] ELSE cd_cache

\* The old tag stays, over contents that are partly new.
RefillFails ==
  /\ cd_pc = "refill"
  /\ \E m \in Slots : cd_cache' = Fetched(CacheMemory, sector, m)
  /\ cd_pc' = "idle" /\ cd_ret' = -1
  /\ stale' = TRUE
  /\ UNCHANGED <<cached_cd_sector, call, cd_buf, to, sector, cd_remaining, tainted>>

\* Mutated form of NewTag: the assignment is missing.
NewTagOld == cached_cd_sector

NewTag == sector

Refill ==
  /\ cd_pc = "refill"
  /\ cd_cache' = [k \in Slots |-> sector + k]
  /\ cd_buf' = [k \in DOMAIN cd_buf |->
               IF to <= k /\ k < to + cd_remaining THEN cd_cache'[k - to] ELSE cd_buf[k]]
  /\ cached_cd_sector' = NewTag
  /\ cd_pc' = "idle" /\ cd_ret' = 0
  /\ stale' = FALSE
  /\ UNCHANGED <<call, to, sector, cd_remaining, tainted>>

CdNext ==
  \/ \E s \in Sectors, n \in Counts : CdCall(s, n)
  \/ Miss \/ HitTail \/ HitHead \/ HitInvalid
  \/ ReadDirect \/ AllocateFails \/ RefillFails \/ Refill

CdSpec == CdInit /\ [][CdNext]_cd_vars

-----------------------------------------------------------------------------
(* Properties *)

\* The control state and the locals of process_read_cd_2352_cmd; the tag is
\* the initial one or a sector near those that were asked for.
CdTypeOK ==
  /\ cd_cache = NotAllocated \/ cd_cache \in [Slots -> Int]
  /\ cached_cd_sector = Half \/ cached_cd_sector \in 0..(Half - 1)
  /\ cd_pc \in {"idle", "lookup", "direct", "refill", "wild"}
  /\ start \in Nat /\ count \in Nat /\ sector \in Nat /\ cd_remaining \in Nat /\ to \in Nat
  /\ cd_buf \in [0..(count - 1) -> Int]
  /\ cd_ret \in {0, -1}
  /\ stale \in BOOLEAN /\ tainted \in BOOLEAN

\* Unless the last refill failed, the cache holds the sectors its tag
\* promises: cached_cd_sector is written only after a complete refill
\* (main.c:351-355).
CacheHonest ==
  cached_cd_sector # Half /\ ~stale => \A k \in Slots : cd_cache[k] = cached_cd_sector + k

\* A raw read that reports success has returned the sectors asked for,
\* whichever part of them came from the cache, unless a failed refill was the
\* last thing that happened to the cache before.
RawReadCorrect ==
  cd_pc = "idle" /\ cd_ret = 0 /\ ~tainted => \A k \in 0..(count - 1) : cd_buf[k] = start + k

\* The two copies of the request together fill the buffer and no more: the
\* one from the refilled cache stays inside the buffer and inside the cache.
CopiesFit ==
  cd_pc = "refill" => to + cd_remaining <= count /\ cd_remaining <= CacheSize

\* The initial tag matches sector 0 in 32-bit arithmetic, but nothing is
\* copied because of it as long as no first refill has failed.
NoWildCopy == ~tainted => cd_pc # "wild"
=============================================================================
