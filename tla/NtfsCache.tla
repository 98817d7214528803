----------------------------- MODULE NtfsCache -----------------------------
(***************************************************************************)
(* The write-back cache between the NTFS driver and a USB drive (source/   *)
(* libntfs_ext/source/cache2.c, called by gekko_io.c under the volume's    *)
(* lock). A page caches one block of sectors; a call works page by page.   *)
(* The device may fail at every access and the console may be switched off *)
(* at any time.                                                            *)
(***************************************************************************)
EXTENDS Integers

CONSTANTS
  Start, End,      \* startOfPartition, endOfPartition
  PerPage,         \* sectorsPerPage
  NumPages,        \* numberOfPages
  Data,            \* what a sector may hold
  Lost,            \* for the mapping to Volume: not in Data
  Calls            \* calls the driver makes, within the partition

Sector == Start..(End - 1)
Page   == 1..NumPages

ASSUME CacheAssumption ==
  /\ Start \in Nat /\ End \in Nat /\ Start < End
  /\ PerPage \in Nat \ {0} /\ NumPages \in Nat \ {0}
  /\ Lost \notin Data /\ Data # {}
  /\ \A c \in Calls :
       \/ /\ c \in [op : {"read", "write"}, sector : Sector, left : Nat \ {0}, data : Data]
          /\ c.sector + c.left <= End
       \/ c \in [op : {"flush", "invalidate", "destroy"}, sector : {0}, left : {0}, data : Data]

VARIABLES
  disc,            \* the device: Sector -> Data
  block,           \* block each page caches (sector and count of the entry), or Free
  cache,           \* buffer of each page, by the sectors of its block
  dirty,           \* dirty pages
  last_access,     \* rank of each page by last access; 0: never
  call,            \* call in progress: op, sector, numSectors, the data to write
  i,               \* next page of flush
  piece,           \* history: what the last step of a read copied
  ok,              \* result of the last call
  damaged          \* history: sectors of pages that a failed read overwrote

pages == <<block, cache, dirty, last_access>>
vars  == <<disc, pages, call, i, piece, ok, damaged>>

Free    == -1
Empty   == [s \in {} |-> Lost]
Idle    == [op |-> "idle", sector |-> 0, left |-> 0]

\* Blocks are aligned to the start of the partition; the last may be shorter.
BlockOf(s) == (s - Start) \div PerPage
First(b)   == Start + b * PerPage
Sectors(b) == {s \in Sector : BlockOf(s) = b}

\* _NTFS_cache_constructor.
Init ==
  /\ disc \in [Sector -> Data]
  /\ block = [p \in Page |-> Free]
  /\ cache = [p \in Page |-> Empty]
  /\ dirty = {}
  /\ last_access = [p \in Page |-> 0]
  /\ call = Idle /\ i = 1
  /\ piece = Empty /\ ok = TRUE
  /\ damaged = {}

Holds(p, s) == block[p] = BlockOf(s)

Cached(s) == \E p \in Page : Holds(p, s)

Hit(s) == CHOOSE p \in Page : Holds(p, s)

\* accessTime: the page becomes the one used last.
Touch(p) ==
  [q \in Page |-> IF q = p THEN NumPages
                  ELSE IF last_access[q] > last_access[p] THEN last_access[q] - 1
                  ELSE last_access[q]]

Min(a, b) == IF a <= b THEN a ELSE b

-----------------------------------------------------------------------------

Call ==
  /\ call = Idle
  /\ call' \in Calls
  /\ i' = 1 /\ piece' = Empty
  /\ UNCHANGED <<disc, pages, ok, damaged>>

Moved(n) == [call EXCEPT !.sector = @ + n, !.left = @ - n]

\* Mutated form of InBlock: one sector short.
InBlockShort == Min(call.left, Min(First(BlockOf(call.sector) + 1), End) - 1 - call.sector)

\* The call's sectors up to the end of the block.
InBlock == Min(call.left, Min(First(BlockOf(call.sector) + 1), End) - call.sector)

Run(n) == {s \in Sector : call.sector <= s /\ s < call.sector + n}

Return(result) ==
  /\ call' = Idle /\ ok' = result /\ i' = 1 /\ piece' = Empty

(* _NTFS_cache_readSectors and _NTFS_cache_getPage *)

Reading == call.op = "read" /\ call.left > 0

ReadHit ==
  /\ Reading /\ Cached(call.sector)
  /\ LET p == Hit(call.sector)
     IN  /\ piece' = [s \in Run(InBlock) |-> cache[p][s]]
         /\ last_access' = Touch(p)
  /\ call' = Moved(InBlock)
  /\ UNCHANGED <<disc, block, cache, dirty, i, ok, damaged>>

\* The page to replace: the first free one, or the one not used for longest.
Victim ==
  CHOOSE p \in Page :
    IF \E q \in Page : block[q] = Free
    THEN block[p] = Free /\ \A q \in 1..(p - 1) : block[q] # Free
    ELSE /\ \A q \in Page : last_access[p] <= last_access[q]
         /\ \A q \in 1..(p - 1) : last_access[p] < last_access[q]

Missing == Reading /\ ~Cached(call.sector)

\* What the device holds after the sectors S of page p were written.
Written(p, S) == [s \in Sector |-> IF s \in S THEN cache[p][s] ELSE disc[s]]

\* A dirty victim is written back first.
WriteBack ==
  /\ Missing /\ Victim \in dirty
  /\ disc' = Written(Victim, Sectors(block[Victim]))
  /\ dirty' = dirty \ {Victim}
  /\ piece' = Empty
  /\ UNCHANGED <<block, cache, last_access, call, i, ok, damaged>>

\* The device may have written some of the sectors.
WriteBackFails ==
  /\ Missing /\ Victim \in dirty
  /\ \E S \in SUBSET Sectors(block[Victim]) : disc' = Written(Victim, S)
  /\ Return(FALSE)
  /\ UNCHANGED <<pages, damaged>>

Fill ==
  /\ Missing /\ Victim \notin dirty
  /\ LET b == BlockOf(call.sector)
     IN  /\ block' = [block EXCEPT ![Victim] = b]
         /\ cache' = [cache EXCEPT ![Victim] = [s \in Sectors(b) |-> disc[s]]]
  /\ last_access' = Touch(Victim)
  /\ piece' = Empty
  /\ UNCHANGED <<disc, dirty, call, i, ok, damaged>>

\* The page keeps its old block, whatever was read into its buffer.
FillFails ==
  /\ Missing /\ Victim \notin dirty
  /\ \/ UNCHANGED <<cache, damaged>>
     \/ /\ block[Victim] # Free
        /\ \E c \in [Sectors(block[Victim]) -> Data] : cache' = [cache EXCEPT ![Victim] = c]
        /\ damaged' = damaged \union Sectors(block[Victim])
  /\ Return(FALSE)
  /\ UNCHANGED <<disc, block, dirty, last_access>>

(* _NTFS_cache_writeSectors *)

Writing == call.op = "write" /\ call.left > 0

WriteHit ==
  /\ Writing /\ Cached(call.sector)
  /\ LET p == Hit(call.sector)
     IN  /\ cache' = [cache EXCEPT ![p] = [s \in DOMAIN @ |->
                                             IF s \in Run(InBlock) THEN call.data ELSE @[s]]]
         /\ dirty' = dirty \union {p}
         /\ last_access' = Touch(p)
  /\ damaged' = damaged \ Run(InBlock)
  /\ call' = Moved(InBlock) /\ piece' = Empty
  /\ UNCHANGED <<disc, block, i, ok>>

CachedAfter(b) == {block[p] : p \in Page} \ (Free..b)

\* Mutated form of DirectEnd: cached blocks are not looked for.
DirectEndOfPartition == End

\* Where a direct write ends: before the next cached block, and a block
\* earlier unless that is the very next.
DirectEnd ==
  LET b == BlockOf(call.sector)
  IN  IF CachedAfter(b) = {} THEN End
      ELSE LET c == CHOOSE c \in CachedAfter(b) : \A d \in CachedAfter(b) : c <= d
           IN  First(IF c = b + 1 THEN c ELSE c - 1)

Direct == Min(call.left, DirectEnd - call.sector)

Put(S) == [s \in Sector |-> IF s \in S THEN call.data ELSE disc[s]]

WriteDirect ==
  /\ Writing /\ ~Cached(call.sector)
  /\ disc' = Put(Run(Direct))
  /\ damaged' = damaged \ Run(Direct)
  /\ call' = Moved(Direct) /\ piece' = Empty
  /\ UNCHANGED <<pages, i, ok>>

\* The device may have written some of the sectors.
WriteDirectFails ==
  /\ Writing /\ ~Cached(call.sector)
  /\ \E S \in SUBSET Run(Direct) : disc' = Put(S) /\ damaged' = damaged \ S
  /\ Return(FALSE)
  /\ UNCHANGED pages

Transferred ==
  /\ call.op \in {"read", "write"} /\ call.left = 0
  /\ Return(TRUE)
  /\ UNCHANGED <<disc, pages, damaged>>

(* _NTFS_cache_flush, and the callers that flush first *)

Flushing == call.op \in {"flush", "invalidate", "destroy"}

FlushPage ==
  /\ Flushing /\ i <= NumPages
  /\ disc' = IF i \in dirty THEN Written(i, Sectors(block[i])) ELSE disc
  /\ dirty' = dirty \ {i}
  /\ i' = i + 1
  /\ piece' = Empty
  /\ UNCHANGED <<block, cache, last_access, call, ok, damaged>>

FlushFails ==
  /\ call.op = "flush" /\ i <= NumPages /\ i \in dirty
  /\ \E S \in SUBSET Sectors(block[i]) : disc' = Written(i, S)
  /\ Return(FALSE)
  /\ UNCHANGED <<pages, damaged>>

\* _NTFS_cache_invalidate and _NTFS_cache_destructor go on after a failure.
FlushFailsUnnoticed ==
  /\ call.op \in {"invalidate", "destroy"} /\ i <= NumPages /\ i \in dirty
  /\ \E S \in SUBSET Sectors(block[i]) : disc' = Written(i, S)
  /\ i' = NumPages + 1
  /\ piece' = Empty
  /\ UNCHANGED <<pages, call, ok, damaged>>

Flushed ==
  /\ call.op = "flush" /\ i > NumPages
  /\ Return(TRUE)
  /\ UNCHANGED <<disc, pages, damaged>>

\* All pages are free, in the same cache or in the one of the next mount.
Clear ==
  /\ block' = [p \in Page |-> Free]
  /\ cache' = [p \in Page |-> Empty]
  /\ dirty' = {}
  /\ last_access' = [p \in Page |-> 0]

Emptied ==
  /\ call.op \in {"invalidate", "destroy"} /\ i > NumPages
  /\ Clear
  /\ call' = Idle /\ i' = 1 /\ piece' = Empty
  /\ UNCHANGED <<disc, ok, damaged>>

\* The console is switched off, or the drive pulled out.
PowerOff ==
  /\ Clear
  /\ call' = Idle /\ i' = 1 /\ piece' = Empty
  /\ UNCHANGED <<disc, ok, damaged>>

Step ==
  \/ ReadHit \/ WriteBack \/ WriteBackFails \/ Fill \/ FillFails
  \/ WriteHit \/ WriteDirect \/ WriteDirectFails \/ Transferred
  \/ FlushPage \/ FlushFails \/ FlushFailsUnnoticed \/ Flushed \/ Emptied

Next == Call \/ Step \/ PowerOff

Spec == Init /\ [][Next]_vars /\ WF_vars(Step)

-----------------------------------------------------------------------------
(* Properties *)

CallOK ==
  \/ call = Idle
  \/ /\ call \in [op : {"read", "write"}, sector : Start..End, left : Nat, data : Data]
     /\ call.sector + call.left <= End
  \/ call \in [op : {"flush", "invalidate", "destroy"}, sector : {0}, left : {0}, data : Data]

\* Types; a page's buffer covers its block, and only pages in use are dirty.
TypeOK ==
  /\ disc \in [Sector -> Data]
  /\ block \in [Page -> {Free} \union {BlockOf(s) : s \in Sector}]
  /\ DOMAIN cache = Page /\ \A p \in Page : cache[p] \in [Sectors(block[p]) -> Data]
  /\ dirty \subseteq {p \in Page : block[p] # Free}
  /\ last_access \in [Page -> 0..NumPages]
  /\ CallOK
  /\ i \in 1..(NumPages + 1)
  /\ damaged \subseteq Sector

\* No sector is cached twice.
CachedOnce == \A p, q \in Page : block[p] = block[q] /\ block[p] # Free => p = q

\* A clean page has what the device has, unless a failed read overwrote it.
CleanPages ==
  \A p \in Page \ dirty : block[p] # Free =>
    \A s \in Sectors(block[p]) \ damaged : cache[p][s] = disc[s]

\* A flush has cleaned the pages behind it.
FlushedPages == call.op = "flush" => \A p \in dirty : p >= i

\* What a reader sees.
View == [s \in Sector |-> IF Cached(s) THEN cache[Hit(s)][s] ELSE disc[s]]

Mask(f) == [s \in Sector |-> IF s \in damaged THEN Lost ELSE f[s]]

Contents == Mask(View)
Durable  == Mask(disc)

V == INSTANCE Volume WITH contents <- Contents, durable <- Durable

\* The cache is invisible: reads return what was written last, over any
\* sequence of hits, evictions, direct writes and failures; a successful
\* flush makes everything durable; a failed one loses nothing.
ImplementsVolume == V!Spec

\* Every call returns: each step of the loops makes progress.
CallReturns == (call # Idle) ~> (call = Idle)
=============================================================================
