-------------------------- MODULE NtfsCacheProofs --------------------------
(***************************************************************************)
(* Between a drive and NTFS-3G: the cache of cache2.c implements Volume,   *)
(* for every partition, page size and number of pages; and                 *)
(* ntfsFindPartitions finds the partitions of every drive.                 *)
(***************************************************************************)
EXTENDS NtfsCache, Partitions, WellFoundedInduction, TLAPS

-----------------------------------------------------------------------------
(* Blocks. Only these lemmas look inside BlockOf and First.                *)

\* A sector lies in its block.
LEMMA BlockFacts ==
  ASSUME NEW s \in Sector
  PROVE  /\ BlockOf(s) \in Nat
         /\ First(BlockOf(s)) <= s /\ s < First(BlockOf(s) + 1)
<1>1. s - Start \in Nat /\ s \in Nat /\ PerPage \in Nat \ {0} /\ Start \in Nat
  BY CacheAssumption DEF Sector
<1>2. ASSUME NEW x \in Nat
      PROVE  \E q \in Nat, r \in 0..(PerPage - 1) : x = PerPage * q + r /\ q = x \div PerPage
  BY <1>1
<1>3. PICK q \in Nat, r \in 0..(PerPage - 1) :
         s - Start = PerPage * q + r /\ q = (s - Start) \div PerPage
  BY <1>1, <1>2
<1>4. BlockOf(s) = q
  BY <1>3, Zenon DEF BlockOf
<1>5. First(q) <= s /\ s < First(q + 1)
  BY <1>1, <1>3 DEF First
<1> QED
  BY <1>4, <1>5

\* Blocks begin in order.
LEMMA FirstOrder ==
  ASSUME NEW a \in Nat, NEW b \in Nat
  PROVE  First(a) \in Nat /\ (a <= b => First(a) <= First(b))
  BY CacheAssumption DEF First

\* A sector before the start of a block is in an earlier block.
LEMMA BlockBefore ==
  ASSUME NEW t \in Sector, NEW c \in Nat, t < First(c) PROVE BlockOf(t) < c
<1>1. t \in Nat
  BY CacheAssumption DEF Sector
<1>2. BlockOf(t) \in Nat /\ First(BlockOf(t)) <= t
  BY BlockFacts
<1>3. c <= BlockOf(t) => First(c) <= First(BlockOf(t))
  BY <1>2, FirstOrder
<1>4. First(c) \in Nat /\ First(BlockOf(t)) \in Nat
  BY <1>2, FirstOrder
<1> QED
  BY <1>1, <1>2, <1>3, <1>4

\* A later sector is in the same block or in a later one.
LEMMA BlockOrder ==
  ASSUME NEW s \in Sector, NEW t \in Sector, s <= t PROVE BlockOf(s) <= BlockOf(t)
<1>1. s \in Nat /\ t \in Nat
  BY CacheAssumption DEF Sector
<1>2. /\ BlockOf(s) \in Nat /\ First(BlockOf(s)) <= s
      /\ BlockOf(t) \in Nat /\ t < First(BlockOf(t) + 1)
  BY BlockFacts
<1>3. BlockOf(t) + 1 <= BlockOf(s) => First(BlockOf(t) + 1) <= First(BlockOf(s))
  BY <1>2, FirstOrder
<1>4. First(BlockOf(t) + 1) \in Nat /\ First(BlockOf(s)) \in Nat
  BY <1>2, FirstOrder
<1> QED
  BY <1>1, <1>2, <1>3, <1>4

\* Nothing lies in block Free.
LEMMA FreeIsEmpty == Sectors(Free) = {}
  BY BlockFacts DEF Sectors, Free

-----------------------------------------------------------------------------
(* Pages *)

\* Every nonempty set of natural numbers has a least element.
LEMMA LeastOf ==
  ASSUME NEW T, T \subseteq Nat, T # {} PROVE \E x \in T : \A y \in T : x <= y
<1> DEFINE R == {ss \in Nat \X Nat : ss[1] < ss[2]}
<1>1. IsWellFoundedOn(R, Nat)
  BY NatLessThanWellFounded DEF OpToRel
<1>2. \E x \in T : \A y \in T : ~(<<y, x>> \in R)
  <2> HIDE DEF R
  <2> QED
    BY <1>1, WFMin
<1>3. PICK x \in T : \A y \in T : ~(<<y, x>> \in R)
  BY <1>2
<1>4. ASSUME NEW y \in T PROVE x <= y
  <2>1. x \in Nat /\ y \in Nat
    OBVIOUS
  <2>2. y < x => <<y, x>> \in R
    BY <2>1
  <2> QED
    BY <1>3, <2>1, <2>2
<1> QED
  BY <1>4

\* There always is a page to replace, and a free one is preferred.
LEMMA VictimFacts ==
  ASSUME TypeOK PROVE Victim \in Page
<1> DEFINE P(p) == IF \E q \in Page : block[q] = Free
                   THEN block[p] = Free /\ \A q \in 1..(p - 1) : block[q] # Free
                   ELSE /\ \A q \in Page : last_access[p] <= last_access[q]
                        /\ \A q \in 1..(p - 1) : last_access[p] < last_access[q]
<1>0. Page \subseteq Nat /\ 1 \in Page /\ \A p \in Page : \A q \in 1..(p - 1) : q \in Page /\ q < p
  BY CacheAssumption DEF Page
<1>1. \E p \in Page : P(p)
  <2>1. CASE \E q \in Page : block[q] = Free
    <3> DEFINE T == {p \in Page : block[p] = Free}
    <3>1. PICK x \in T : \A y \in T : x <= y
      <4>1. T \subseteq Nat /\ T # {}
        BY <1>0, <2>1
      <4> HIDE DEF T
      <4> QED
        BY <4>1, LeastOf
    <3>2. \A q \in 1..(x - 1) : block[q] # Free
      BY <1>0, <3>1
    <3> QED
      BY <2>1, <3>1, <3>2
  <2>2. CASE ~\E q \in Page : block[q] = Free
    <3> DEFINE A == {last_access[p] : p \in Page}
    <3>0. \A p \in Page : last_access[p] \in Nat
      BY CacheAssumption DEF TypeOK
    <3>1. PICK a \in A : \A b \in A : a <= b
      <4>1. A \subseteq Nat /\ A # {}
        BY <1>0, <3>0
      <4> HIDE DEF A
      <4> QED
        BY <4>1, LeastOf
    <3> DEFINE T == {p \in Page : last_access[p] = a}
    <3>2. PICK x \in T : \A y \in T : x <= y
      <4>1. T \subseteq Nat /\ T # {}
        BY <1>0, <3>1
      <4> HIDE DEF T
      <4> QED
        BY <4>1, LeastOf
    <3>3. \A q \in Page : last_access[x] <= last_access[q]
      BY <3>1, <3>2
    <3>4. ASSUME NEW q \in 1..(x - 1) PROVE last_access[x] < last_access[q]
      <4>1. q \in Page /\ x \in Page /\ q < x /\ x \in Nat /\ q \in Nat
        BY <1>0, <3>2
      <4>2. last_access[q] # a
        BY <3>2, <4>1
      <4> QED
        BY <3>0, <3>2, <3>3, <4>1, <4>2
    <3> QED
      BY <2>2, <3>2, <3>3, <3>4
  <2> QED
    BY <2>1, <2>2
<1>2. Victim = CHOOSE p \in Page : P(p)
  BY DEF Victim
<1> HIDE DEF P
<1> QED
  BY <1>1, <1>2

\* Ranks stay ranks.
LEMMA TouchType ==
  ASSUME TypeOK, NEW p \in Page PROVE Touch(p) \in [Page -> 0..NumPages]
<1>1. \A q \in Page : last_access[q] \in 0..NumPages
  BY DEF TypeOK
<1>2. NumPages \in Nat
  BY CacheAssumption
<1> QED
  BY <1>1, <1>2 DEF Touch

\* The page a lookup finds.
LEMMA HitFacts ==
  ASSUME NEW s, Cached(s) PROVE Hit(s) \in Page /\ block[Hit(s)] = BlockOf(s)
  BY Zenon DEF Cached, Hit, Holds

\* What a reader sees of a cached sector, and of one that is not.
LEMMA ViewNow ==
  ASSUME CachedOnce, NEW s \in Sector
  PROVE  /\ \A p \in Page : block[p] = BlockOf(s) => View[s] = cache[p][s]
         /\ (\A p \in Page : block[p] # BlockOf(s)) => View[s] = disc[s]
<1>1. BlockOf(s) # Free
  BY BlockFacts DEF Free
<1>2. ASSUME NEW p \in Page, block[p] = BlockOf(s) PROVE View[s] = cache[p][s]
  <2>1. Cached(s)
    BY <1>2 DEF Cached, Holds
  <2>2. Hit(s) = p
    BY <1>1, <1>2, <2>1, HitFacts DEF CachedOnce
  <2> QED
    BY <2>1, <2>2 DEF View
<1>3. (\A p \in Page : block[p] # BlockOf(s)) => View[s] = disc[s]
  BY DEF View, Cached, Holds
<1> QED
  BY <1>2, <1>3

\* The same of the next state.
LEMMA ViewNext ==
  ASSUME CachedOnce', NEW s \in Sector
  PROVE  /\ \A p \in Page : block'[p] = BlockOf(s) => View'[s] = cache'[p][s]
         /\ (\A p \in Page : block'[p] # BlockOf(s)) => View'[s] = disc'[s]
<1>1. BlockOf(s) # Free
  BY BlockFacts DEF Free
<1>2. ASSUME NEW p \in Page, block'[p] = BlockOf(s) PROVE View'[s] = cache'[p][s]
  <2>1. Cached(s)'
    BY <1>2 DEF Cached, Holds
  <2>2. Hit(s)' \in Page /\ block'[Hit(s)'] = BlockOf(s)
    BY <2>1, Zenon DEF Cached, Hit, Holds
  <2>3. Hit(s)' = p
    BY <1>1, <1>2, <2>2 DEF CachedOnce
  <2> QED
    BY <2>1, <2>3 DEF View
<1>3. (\A p \in Page : block'[p] # BlockOf(s)) => View'[s] = disc'[s]
  BY DEF View, Cached, Holds
<1> QED
  BY <1>2, <1>3

-----------------------------------------------------------------------------
(* Pieces *)

\* A call in progress that has something left to transfer.
LEMMA TransferFacts ==
  ASSUME TypeOK, call.op \in {"read", "write"}, call.left > 0
  PROVE  /\ call \in [op : {"read", "write"}, sector : Start..End, left : Nat, data : Data]
         /\ call.sector \in Sector /\ call.left \in Nat /\ call.data \in Data
         /\ call.sector + call.left <= End
<1>1. call # Idle
  BY DEF Idle
<1>2. /\ call \in [op : {"read", "write"}, sector : Start..End, left : Nat, data : Data]
      /\ call.sector + call.left <= End
  BY <1>1 DEF TypeOK, CallOK
<1> QED
  BY <1>2, CacheAssumption DEF Sector

\* A piece within a block: not empty, not too long, and in one block.
LEMMA InBlockFacts ==
  ASSUME TypeOK, call.op \in {"read", "write"}, call.left > 0
  PROVE  /\ InBlock \in 1..call.left
         /\ \A s \in Run(InBlock) : BlockOf(s) = BlockOf(call.sector)
<1> DEFINE b == BlockOf(call.sector)
<1>1. /\ call.sector \in Sector /\ call.sector \in Nat /\ call.left \in Nat
      /\ call.sector + call.left <= End /\ End \in Nat /\ call.sector < End
  BY TransferFacts, CacheAssumption DEF Sector
<1>2. b \in Nat /\ call.sector < First(b + 1) /\ First(b + 1) \in Nat
  BY <1>1, BlockFacts, FirstOrder
<1>3. InBlock \in 1..call.left /\ call.sector + InBlock <= First(b + 1)
  <2> HIDE DEF b
  <2>1. InBlock = Min(call.left, Min(First(b + 1), End) - call.sector)
    BY DEF InBlock, b
  <2> QED
    BY <1>1, <1>2, <2>1 DEF Min
<1>4. ASSUME NEW s \in Run(InBlock) PROVE BlockOf(s) = b
  <2>1. s \in Sector /\ s \in Nat /\ call.sector <= s /\ s < call.sector + InBlock
    BY CacheAssumption DEF Run, Sector
  <2>2. b <= BlockOf(s)
    BY <1>1, <2>1, BlockOrder
  <2>3. s < First(b + 1)
    BY <1>1, <1>2, <1>3, <2>1
  <2>4. BlockOf(s) < b + 1
    BY <1>2, <2>1, <2>3, BlockBefore
  <2>5. BlockOf(s) \in Nat
    BY <2>1, BlockFacts
  <2> QED
    BY <1>2, <2>2, <2>4, <2>5
<1> QED
  BY <1>3, <1>4

\* A direct write: not empty, not too long, and over no cached sector.
LEMMA DirectFacts ==
  ASSUME TypeOK, Writing, ~Cached(call.sector)
  PROVE  /\ Direct \in 1..call.left
         /\ \A s \in Run(Direct) : ~Cached(s)
<1> DEFINE b == BlockOf(call.sector)
           A == CachedAfter(b)
<1>1. /\ call.sector \in Sector /\ call.sector \in Nat /\ call.left \in Nat
      /\ call.left > 0 /\ End \in Nat /\ call.sector < End
  BY TransferFacts, CacheAssumption DEF Sector, Writing
<1>2. /\ b \in Nat /\ call.sector < First(b + 1) /\ First(b + 1) \in Nat
  BY <1>1, BlockFacts, FirstOrder
<1>3. \A p \in Page : block[p] = Free \/ block[p] \in Nat
  BY BlockFacts DEF TypeOK
<1>4. A \subseteq Nat /\ \A c \in A : c > b
  BY <1>2, <1>3 DEF CachedAfter, Free
<1>5. ASSUME NEW s \in Sector, call.sector <= s, Cached(s) PROVE BlockOf(s) \in A
  <2>1. PICK p \in Page : block[p] = BlockOf(s)
    BY <1>5 DEF Cached, Holds
  <2>2. b <= BlockOf(s) /\ BlockOf(s) \in Nat
    BY <1>1, <1>5, BlockOrder, BlockFacts
  <2>3. b # BlockOf(s)
    BY <2>1 DEF Cached, Holds
  <2> QED
    BY <1>2, <2>1, <2>2, <2>3 DEF CachedAfter, Free
<1>6. CASE A = {}
  <2>1. DirectEnd = End
    BY <1>6 DEF DirectEnd
  <2>2. Direct \in 1..call.left
    BY <1>1, <2>1 DEF Direct, Min
  <2>3. ASSUME NEW s \in Run(Direct) PROVE ~Cached(s)
    BY <1>5, <1>6 DEF Run
  <2> QED
    BY <2>2, <2>3
<1>7. CASE A # {}
  <2> DEFINE c == CHOOSE c \in A : \A d \in A : c <= d
  <2>1. c \in A /\ \A d \in A : c <= d
    <3>1. \E x \in A : \A y \in A : x <= y
      <4> HIDE DEF A
      <4> QED
        BY <1>4, <1>7, LeastOf
    <3> QED
      BY <3>1
  <2> DEFINE e == IF c = b + 1 THEN c ELSE c - 1
  <2>2. DirectEnd = First(e)
    BY <1>7, Zenon DEF DirectEnd
  <2>3. c \in Nat /\ c > b
    BY <1>4, <2>1
  <2> HIDE DEF c
  <2>4. e \in Nat /\ b + 1 <= e /\ e <= c
    BY <1>2, <2>3
  <2> HIDE DEF e
  <2>5. First(e) \in Nat /\ First(b + 1) <= First(e)
    BY <1>2, <2>4, FirstOrder
  <2>6. Direct \in 1..call.left /\ call.sector + Direct <= First(e)
    BY <1>1, <1>2, <2>2, <2>5 DEF Direct, Min
  <2>7. ASSUME NEW s \in Run(Direct), Cached(s) PROVE FALSE
    <3>1. s \in Sector /\ s \in Nat /\ call.sector <= s /\ s < call.sector + Direct
      BY CacheAssumption DEF Run, Sector
    <3>2. BlockOf(s) \in A
      BY <1>5, <2>7, <3>1
    <3>3. s < First(e)
      BY <1>1, <2>5, <2>6, <3>1
    <3>4. BlockOf(s) < e /\ BlockOf(s) \in Nat
      BY <2>4, <3>1, <3>3, BlockBefore, BlockFacts
    <3>5. c <= BlockOf(s)
      <4> HIDE DEF A
      <4> QED
        BY <2>1, <3>2
    <3> QED
      BY <2>3, <2>4, <3>4, <3>5
  <2> QED
    BY <2>6, <2>7
<1> QED
  BY <1>6, <1>7

\* A call that moves on stays a call within the partition.
LEMMA MovedFacts ==
  ASSUME TypeOK, call.op \in {"read", "write"}, call.left > 0,
         NEW n \in 1..call.left, call' = Moved(n)
  PROVE  CallOK'
<1>1. /\ call \in [op : {"read", "write"}, sector : Start..End, left : Nat, data : Data]
      /\ call.sector \in Sector /\ call.left \in Nat
      /\ call.sector + call.left <= End /\ n \in Nat
      /\ Start \in Nat /\ End \in Nat
  BY TransferFacts, CacheAssumption
<1>2. call.sector + n \in Start..End /\ call.left - n \in Nat
      /\ (call.sector + n) + (call.left - n) <= End
  BY <1>1 DEF Sector
<1>3. call' = [op |-> call.op, sector |-> call.sector + n, left |-> call.left - n,
               data |-> call.data]
  BY <1>1 DEF Moved
<1> QED
  BY <1>1, <1>2, <1>3 DEF CallOK

-----------------------------------------------------------------------------
(* The inductive invariant *)

\* CleanPages needs CachedOnce: a write must not change a block that a second
\* page holds too. The success of a flush needs FlushedPages.
IInv == TypeOK /\ CachedOnce /\ CleanPages /\ FlushedPages

\* What is written of a page belongs to no other page.
LEMMA WrittenFacts ==
  ASSUME TypeOK, CachedOnce, NEW v \in dirty,
         NEW S \in SUBSET Sectors(block[v]), disc' = Written(v, S)
  PROVE  /\ v \in Page /\ block[v] # Free
         /\ disc' \in [Sector -> Data]
         /\ \A s \in S : disc'[s] = cache[v][s] /\ BlockOf(s) = block[v]
         /\ \A s \in Sector \ S : disc'[s] = disc[s]
         /\ \A p \in Page : p # v /\ block[p] # Free =>
              \A s \in Sectors(block[p]) : disc'[s] = disc[s]
<1>1. v \in Page /\ block[v] # Free /\ cache[v] \in [Sectors(block[v]) -> Data]
      /\ disc \in [Sector -> Data]
  BY DEF TypeOK
<1>2. \A s \in S : s \in Sector /\ s \in Sectors(block[v]) /\ BlockOf(s) = block[v]
  BY DEF Sectors
<1>3. disc' \in [Sector -> Data]
  BY <1>1, <1>2 DEF Written
<1>4. \A s \in S : disc'[s] = cache[v][s]
  BY <1>2 DEF Written
<1>5. \A s \in Sector \ S : disc'[s] = disc[s]
  BY DEF Written
<1>6. ASSUME NEW p \in Page, p # v, block[p] # Free, NEW s \in Sectors(block[p])
      PROVE  disc'[s] = disc[s]
  <2>1. s \in Sector /\ BlockOf(s) = block[p]
    BY DEF Sectors
  <2>2. block[p] # block[v]
    BY <1>1, <1>6 DEF CachedOnce
  <2> QED
    BY <1>2, <1>5, <2>1, <2>2
<1> QED
  BY <1>1, <1>2, <1>3, <1>4, <1>5, <1>6

\* Returning is fine for the types.
LEMMA ReturnFacts ==
  ASSUME NEW r, Return(r)
  PROVE  CallOK' /\ i' \in 1..(NumPages + 1) /\ call'.op # "flush"
  BY CacheAssumption DEF Return, CallOK, Idle

\* So is emptying the cache.
LEMMA ClearFacts ==
  ASSUME IInv, Clear, call' = Idle, i' = 1, UNCHANGED <<disc, damaged>> PROVE IInv'
<1>1. \A p \in Page : block'[p] = Free /\ cache'[p] = Empty
  BY DEF Clear
<1>2. Empty \in [{} -> Data]
  BY Zenon DEF Empty
<1>3. \A p \in Page : cache'[p] \in [Sectors(block'[p]) -> Data]
  BY <1>1, <1>2, FreeIsEmpty
<1>4. block' \in [Page -> {Free} \union {BlockOf(s) : s \in Sector}]
  BY DEF Clear
<1>5. DOMAIN cache' = Page /\ dirty' = {}
  BY DEF Clear
<1>6. last_access' \in [Page -> 0..NumPages]
  BY CacheAssumption DEF Clear
<1>7. CallOK' /\ call'.op # "flush"
  BY DEF CallOK, Idle
<1>8. i' \in 1..(NumPages + 1)
  BY CacheAssumption
<1>9. TypeOK'
  BY <1>3, <1>4, <1>5, <1>6, <1>7, <1>8 DEF IInv, TypeOK
<1>10. CachedOnce' /\ CleanPages' /\ FlushedPages'
  BY <1>1, <1>7 DEF CachedOnce, CleanPages, FlushedPages
<1> QED
  BY <1>9, <1>10 DEF IInv

\* The constructor's state.
LEMMA InitInv == Init => IInv
<1> SUFFICES ASSUME Init PROVE IInv
  OBVIOUS
<1>1. \A p \in Page : block[p] = Free /\ cache[p] = Empty
  BY DEF Init
<1>2. Empty \in [{} -> Data]
  BY Zenon DEF Empty
<1>3. \A p \in Page : cache[p] \in [Sectors(block[p]) -> Data]
  BY <1>1, <1>2, FreeIsEmpty
<1>4. TypeOK
  BY <1>3, CacheAssumption DEF Init, TypeOK, CallOK
<1>5. CachedOnce /\ CleanPages /\ FlushedPages
  BY <1>1 DEF Init, CachedOnce, CleanPages, FlushedPages
<1> QED
  BY <1>4, <1>5 DEF IInv

\* Reads.
LEMMA ReadInv ==
  ASSUME IInv, ReadHit \/ WriteBack \/ WriteBackFails \/ Fill \/ FillFails PROVE IInv'
<1> USE DEF IInv
<1>1. CASE ReadHit
  <2>1. Hit(call.sector) \in Page
    BY <1>1, HitFacts DEF ReadHit
  <2>2. last_access' \in [Page -> 0..NumPages]
    BY <1>1, <2>1, TouchType DEF ReadHit
  <2>3. CallOK' /\ call'.op # "flush"
    <3>1. call.op = "read" /\ call.left > 0 /\ call' = Moved(InBlock)
      BY <1>1 DEF ReadHit, Reading
    <3>2. InBlock \in 1..call.left
      BY <3>1, InBlockFacts
    <3>3. CallOK'
      BY <3>1, <3>2, MovedFacts
    <3>4. call'.op = call.op
      <4>1. call \in [op : {"read", "write"}, sector : Start..End, left : Nat, data : Data]
        BY <3>1, TransferFacts
      <4> QED
        BY <3>1, <4>1 DEF Moved
    <3> QED
      BY <3>1, <3>3, <3>4
  <2>4. UNCHANGED <<disc, block, cache, dirty, i, damaged>>
    BY <1>1 DEF ReadHit
  <2>5. TypeOK'
    BY <2>2, <2>3, <2>4 DEF TypeOK
  <2> QED
    BY <2>3, <2>4, <2>5 DEF CachedOnce, CleanPages, FlushedPages
<1>2. CASE WriteBack
  <2> DEFINE v == Victim
  <2>1. /\ v \in dirty /\ disc' = Written(v, Sectors(block[v])) /\ dirty' = dirty \ {v}
        /\ UNCHANGED <<block, cache, last_access, call, i, damaged>> /\ call.op # "flush"
    BY <1>2 DEF WriteBack, Missing, Reading
  <2> HIDE DEF v
  <2>2. /\ v \in Page /\ block[v] # Free /\ disc' \in [Sector -> Data]
        /\ \A s \in Sectors(block[v]) : disc'[s] = cache[v][s]
        /\ \A p \in Page : p # v /\ block[p] # Free =>
             \A s \in Sectors(block[p]) : disc'[s] = disc[s]
    BY <2>1, WrittenFacts
  <2>3. CallOK'
    BY <2>1 DEF TypeOK, CallOK
  <2>4. TypeOK'
    BY <2>1, <2>2, <2>3 DEF TypeOK
  <2>5. CleanPages'
    BY <2>1, <2>2 DEF CleanPages
  <2> QED
    BY <2>1, <2>4, <2>5 DEF CachedOnce, FlushedPages
<1>3. CASE WriteBackFails
  <2> DEFINE v == Victim
  <2>1. v \in dirty /\ Return(FALSE) /\ UNCHANGED <<pages, damaged>>
        /\ \E S \in SUBSET Sectors(block[v]) : disc' = Written(v, S)
    BY <1>3 DEF WriteBackFails
  <2> HIDE DEF v
  <2>2. PICK S \in SUBSET Sectors(block[v]) : disc' = Written(v, S)
    BY <2>1
  <2>3. /\ disc' \in [Sector -> Data]
        /\ \A p \in Page : p # v /\ block[p] # Free =>
             \A s \in Sectors(block[p]) : disc'[s] = disc[s]
    BY <2>1, <2>2, WrittenFacts
  <2>4. CallOK' /\ i' \in 1..(NumPages + 1) /\ call'.op # "flush"
    BY <2>1, ReturnFacts
  <2>5. UNCHANGED <<block, cache, dirty, last_access>>
    BY <2>1 DEF pages
  <2>6. TypeOK'
    BY <2>1, <2>3, <2>4, <2>5 DEF TypeOK
  <2>7. CleanPages'
    BY <2>1, <2>3, <2>5 DEF CleanPages
  <2> QED
    BY <2>4, <2>5, <2>6, <2>7 DEF CachedOnce, FlushedPages
<1>4. CASE Fill
  <2> DEFINE v == Victim
             b == BlockOf(call.sector)
  <2>1. /\ v \notin dirty
        /\ block' = [block EXCEPT ![v] = b]
        /\ cache' = [cache EXCEPT ![v] = [s \in Sectors(b) |-> disc[s]]]
        /\ last_access' = Touch(v)
        /\ UNCHANGED <<disc, dirty, call, i, damaged>>
    BY <1>4 DEF Fill
  <2>2. call.op = "read" /\ call.left > 0 /\ ~Cached(call.sector)
    BY <1>4 DEF Fill, Missing, Reading
  <2>3. v \in Page
    BY VictimFacts
  <2>4. call.sector \in Sector
    BY <2>2, TransferFacts
  <2>5. \A p \in Page : block[p] # b
    BY <2>2 DEF Cached, Holds
  <2>6. last_access' \in [Page -> 0..NumPages]
    BY <2>1, <2>3, TouchType
  <2>7. b \in {BlockOf(s) : s \in Sector}
    BY <2>4
  <2> HIDE DEF v, b
  <2>8. /\ block \in [Page -> {Free} \union {BlockOf(s) : s \in Sector}]
        /\ DOMAIN cache = Page /\ disc \in [Sector -> Data]
    BY DEF TypeOK
  <2>9. block' \in [Page -> {Free} \union {BlockOf(s) : s \in Sector}]
    BY <2>1, <2>3, <2>7, <2>8
  <2>10. DOMAIN cache' = Page
    BY <2>1, <2>8
  <2>11. \A p \in Page : p # v => block'[p] = block[p] /\ cache'[p] = cache[p]
    BY <2>1, <2>8
  <2>12. block'[v] = b /\ cache'[v] = [s \in Sectors(b) |-> disc[s]]
    BY <2>1, <2>3, <2>8
  <2>13. [s \in Sectors(b) |-> disc[s]] \in [Sectors(b) -> Data]
    BY <2>8 DEF Sectors
  <2>14. \A p \in Page : cache'[p] \in [Sectors(block'[p]) -> Data]
    <3>1. \A p \in Page : cache[p] \in [Sectors(block[p]) -> Data]
      BY DEF TypeOK
    <3> QED
      BY <2>11, <2>12, <2>13, <3>1
  <2>15. dirty' \subseteq {p \in Page : block'[p] # Free}
    BY <2>1, <2>11 DEF TypeOK
  <2>16. CallOK'
    BY <2>1 DEF TypeOK, CallOK
  <2>17. TypeOK'
    BY <2>1, <2>6, <2>9, <2>10, <2>14, <2>15, <2>16 DEF TypeOK
  <2>18. CachedOnce'
    BY <2>5, <2>11, <2>12 DEF CachedOnce
  <2>19. CleanPages'
    <3>1. ASSUME NEW p \in Page, p \notin dirty, block'[p] # Free,
                 NEW s \in Sectors(block'[p]), s \notin damaged
          PROVE  cache'[p][s] = disc[s]
      BY <2>11, <2>12, <3>1 DEF CleanPages
    <3> QED
      BY <2>1, <3>1 DEF CleanPages
  <2>20. FlushedPages'
    BY <2>1 DEF FlushedPages
  <2> QED
    BY <2>17, <2>18, <2>19, <2>20
<1>5. CASE FillFails
  <2> DEFINE v == Victim
  <2>1. /\ v \notin dirty /\ Return(FALSE)
        /\ UNCHANGED <<disc, block, dirty, last_access>>
        /\ \/ UNCHANGED <<cache, damaged>>
           \/ /\ block[v] # Free
              /\ \E c \in [Sectors(block[v]) -> Data] : cache' = [cache EXCEPT ![v] = c]
              /\ damaged' = damaged \union Sectors(block[v])
    BY <1>5 DEF FillFails
  <2>2. v \in Page
    BY VictimFacts
  <2> HIDE DEF v
  <2>3. CallOK' /\ i' \in 1..(NumPages + 1) /\ call'.op # "flush"
    BY <2>1, ReturnFacts
  <2>4. /\ DOMAIN cache' = Page
        /\ \A p \in Page : cache'[p] \in [Sectors(block'[p]) -> Data]
        /\ damaged' \subseteq Sector /\ damaged \subseteq damaged'
        /\ \A p \in Page : cache'[p] = cache[p] \/ Sectors(block[p]) \subseteq damaged'
    <3>1. DOMAIN cache = Page /\ \A p \in Page : cache[p] \in [Sectors(block[p]) -> Data]
      BY DEF TypeOK
    <3>2. damaged \subseteq Sector /\ Sectors(block[v]) \subseteq Sector
      BY DEF TypeOK, Sectors
    <3>3. CASE UNCHANGED <<cache, damaged>>
      BY <2>1, <3>1, <3>2, <3>3
    <3>4. CASE ~UNCHANGED <<cache, damaged>>
      <4>1. PICK c \in [Sectors(block[v]) -> Data] : cache' = [cache EXCEPT ![v] = c]
        BY <2>1, <3>4
      <4>2. damaged' = damaged \union Sectors(block[v])
        BY <2>1, <3>4
      <4>3. cache'[v] = c /\ DOMAIN cache' = Page /\ \A p \in Page : p # v => cache'[p] = cache[p]
        BY <2>2, <3>1, <4>1
      <4> QED
        BY <2>1, <3>1, <3>2, <4>2, <4>3
    <3> QED
      BY <3>3, <3>4
  <2>5. TypeOK'
    BY <2>1, <2>3, <2>4 DEF TypeOK
  <2>6. CleanPages'
    <3>1. ASSUME NEW p \in Page, p \notin dirty, block[p] # Free,
                 NEW s \in Sectors(block[p]), s \notin damaged'
          PROVE  cache'[p][s] = disc[s]
      <4>1. s \notin damaged /\ cache'[p] = cache[p]
        BY <2>4, <3>1
      <4> QED
        BY <3>1, <4>1 DEF CleanPages
    <3> QED
      BY <2>1, <3>1 DEF CleanPages
  <2> QED
    BY <2>1, <2>3, <2>5, <2>6 DEF CachedOnce, FlushedPages
<1> QED
  BY <1>1, <1>2, <1>3, <1>4, <1>5

\* A piece of a write moves the call on.
LEMMA WriteMoves ==
  ASSUME TypeOK, Writing, NEW n \in 1..call.left, call' = Moved(n)
  PROVE  CallOK' /\ call'.op = "write" /\ call.data \in Data
<1>1. call.op = "write" /\ call.left > 0
  BY DEF Writing
<1>2. CallOK'
  BY <1>1, MovedFacts
<1>3. call \in [op : {"read", "write"}, sector : Start..End, left : Nat, data : Data]
  BY <1>1, TransferFacts
<1>4. call'.op = call.op
  BY <1>3 DEF Moved
<1> QED
  BY <1>1, <1>2, <1>3, <1>4

\* A write into a page.
LEMMA WriteHitFacts ==
  ASSUME TypeOK, WriteHit
  PROVE  LET p == Hit(call.sector)
         IN  /\ p \in Page /\ block[p] = BlockOf(call.sector) /\ block[p] # Free
             /\ call.data \in Data /\ Run(InBlock) \subseteq Sectors(block[p])
             /\ dirty' = dirty \union {p} /\ DOMAIN cache' = Page
             /\ \A q \in Page : q # p => cache'[q] = cache[q]
             /\ cache'[p] = [s \in Sectors(block[p]) |->
                               IF s \in Run(InBlock) THEN call.data ELSE cache[p][s]]
<1> DEFINE p == Hit(call.sector)
<1>1. Writing /\ Cached(call.sector) /\ call.op = "write" /\ call.left > 0
  BY DEF WriteHit, Writing
<1>2. p \in Page /\ block[p] = BlockOf(call.sector)
  BY <1>1, HitFacts
<1>3. call.data \in Data /\ call.sector \in Sector
  BY <1>1, TransferFacts
<1>4. block[p] # Free
  BY <1>2, <1>3, BlockFacts DEF Free
<1>5. Run(InBlock) \subseteq Sectors(block[p])
  <2>1. \A s \in Run(InBlock) : BlockOf(s) = BlockOf(call.sector)
    BY <1>1, InBlockFacts
  <2> QED
    BY <1>2, <2>1 DEF Run, Sectors
<1>6. dirty' = dirty \union {p}
  BY DEF WriteHit
<1>7. DOMAIN cache = Page /\ DOMAIN cache[p] = Sectors(block[p])
  BY <1>2 DEF TypeOK
<1>8. cache' = [cache EXCEPT ![p] = [s \in DOMAIN @ |->
                                        IF s \in Run(InBlock) THEN call.data ELSE @[s]]]
  BY DEF WriteHit
<1> HIDE DEF p
<1>9. DOMAIN cache' = Page /\ \A q \in Page : q # p => cache'[q] = cache[q]
  BY <1>7, <1>8
<1>10. cache'[p] = [s \in Sectors(block[p]) |->
                      IF s \in Run(InBlock) THEN call.data ELSE cache[p][s]]
  BY <1>2, <1>7, <1>8, Zenon
<1> QED
  BY <1>2, <1>3, <1>4, <1>5, <1>6, <1>9, <1>10 DEF p

\* Writes.
LEMMA WriteInv ==
  ASSUME IInv, WriteHit \/ WriteDirect \/ WriteDirectFails \/ Transferred PROVE IInv'
<1> USE DEF IInv
<1>1. CASE WriteHit
  <2> DEFINE p == Hit(call.sector)
  <2>1. /\ p \in Page /\ block[p] # Free /\ call.data \in Data
        /\ dirty' = dirty \union {p} /\ DOMAIN cache' = Page
        /\ \A q \in Page : q # p => cache'[q] = cache[q]
        /\ cache'[p] = [s \in Sectors(block[p]) |->
                          IF s \in Run(InBlock) THEN call.data ELSE cache[p][s]]
    BY <1>1, WriteHitFacts
  <2>2. last_access' = Touch(p) /\ damaged' = damaged \ Run(InBlock)
        /\ call' = Moved(InBlock) /\ UNCHANGED <<disc, block, i>>
    BY <1>1 DEF WriteHit
  <2>3. last_access' \in [Page -> 0..NumPages]
    BY <2>1, <2>2, TouchType
  <2>4. CallOK' /\ call'.op = "write"
    <3>1. Writing /\ call.op \in {"read", "write"} /\ call.left > 0
      BY <1>1 DEF WriteHit, Writing
    <3>2. InBlock \in 1..call.left
      BY <3>1, InBlockFacts
    <3> QED
      BY <2>2, <3>1, <3>2, WriteMoves
  <2> HIDE DEF p
  <2>5. \A q \in Page : cache'[q] \in [Sectors(block'[q]) -> Data]
    <3>1. \A q \in Page : cache[q] \in [Sectors(block[q]) -> Data]
      BY DEF TypeOK
    <3>2. cache'[p] \in [Sectors(block[p]) -> Data]
      BY <2>1, <3>1
    <3> QED
      BY <2>1, <2>2, <3>1, <3>2
  <2>6. TypeOK'
    BY <2>1, <2>2, <2>3, <2>4, <2>5 DEF TypeOK
  <2>7. CleanPages'
    <3>1. ASSUME NEW q \in Page, q \notin dirty', block[q] # Free,
                 NEW s \in Sectors(block[q]), s \notin damaged'
          PROVE  cache'[q][s] = disc[s]
      <4>1. q # p /\ q \notin dirty /\ cache'[q] = cache[q]
        BY <2>1, <3>1
      <4>2. s \notin Run(InBlock)
        <5>1. Run(InBlock) \subseteq Sectors(block[p])
          BY <1>1, WriteHitFacts DEF p
        <5>2. block[q] # block[p]
          BY <2>1, <3>1, <4>1 DEF CachedOnce
        <5> QED
          BY <5>1, <5>2 DEF Sectors
      <4>3. s \notin damaged
        BY <2>2, <3>1, <4>2
      <4> QED
        BY <3>1, <4>1, <4>3 DEF CleanPages
    <3> QED
      BY <2>2, <3>1 DEF CleanPages
  <2> QED
    BY <2>2, <2>4, <2>6, <2>7 DEF CachedOnce, FlushedPages
<1>2. ASSUME NEW S \in SUBSET Run(Direct), Writing, ~Cached(call.sector), disc' = Put(S),
             damaged' = damaged \ S, UNCHANGED pages,
             CallOK', i' \in 1..(NumPages + 1), call'.op # "flush"
      PROVE  IInv'
  <2>1. UNCHANGED <<block, cache, dirty, last_access>>
    BY <1>2 DEF pages
  <2>2. call.data \in Data
    BY <1>2, TransferFacts DEF Writing
  <2>3. disc' \in [Sector -> Data] /\ \A s \in Sector \ S : disc'[s] = disc[s]
    BY <1>2, <2>2 DEF Put, TypeOK
  <2>4. \A s \in S : ~Cached(s)
    BY <1>2, DirectFacts
  <2>5. TypeOK'
    BY <1>2, <2>1, <2>3 DEF TypeOK
  <2>6. CleanPages'
    <3>1. ASSUME NEW q \in Page, q \notin dirty, block[q] # Free,
                 NEW s \in Sectors(block[q]), s \notin damaged'
          PROVE  cache[q][s] = disc'[s]
      <4>1. s \in Sector /\ block[q] = BlockOf(s)
        BY DEF Sectors
      <4>2. s \notin S
        BY <2>4, <4>1 DEF Cached, Holds
      <4>3. s \notin damaged /\ disc'[s] = disc[s]
        BY <1>2, <2>3, <3>1, <4>1, <4>2
      <4> QED
        BY <3>1, <4>3 DEF CleanPages
    <3> QED
      BY <2>1, <3>1 DEF CleanPages
  <2> QED
    BY <1>2, <2>1, <2>5, <2>6 DEF CachedOnce, FlushedPages
<1>3. CASE WriteDirect
  <2>1. /\ Writing /\ ~Cached(call.sector) /\ disc' = Put(Run(Direct))
        /\ damaged' = damaged \ Run(Direct) /\ UNCHANGED <<pages, i>> /\ call' = Moved(Direct)
    BY <1>3 DEF WriteDirect
  <2>2. Direct \in 1..call.left
    BY <2>1, DirectFacts
  <2>3. CallOK' /\ call'.op = "write"
    BY <2>1, <2>2, WriteMoves
  <2>4. i' \in 1..(NumPages + 1)
    BY <2>1 DEF TypeOK
  <2> QED
    BY <1>2, <2>1, <2>3, <2>4
<1>4. CASE WriteDirectFails
  <2>1. /\ Writing /\ ~Cached(call.sector) /\ UNCHANGED pages /\ Return(FALSE)
        /\ \E S \in SUBSET Run(Direct) : disc' = Put(S) /\ damaged' = damaged \ S
    BY <1>4 DEF WriteDirectFails
  <2>2. CallOK' /\ i' \in 1..(NumPages + 1) /\ call'.op # "flush"
    BY <2>1, ReturnFacts
  <2> QED
    BY <1>2, <2>1, <2>2
<1>5. CASE Transferred
  <2>1. Return(TRUE) /\ UNCHANGED <<disc, block, cache, dirty, last_access, damaged>>
    BY <1>5 DEF Transferred, pages
  <2>2. CallOK' /\ i' \in 1..(NumPages + 1) /\ call'.op # "flush"
    BY <2>1, ReturnFacts
  <2>3. TypeOK'
    BY <2>1, <2>2 DEF TypeOK
  <2> QED
    BY <2>1, <2>2, <2>3 DEF CachedOnce, CleanPages, FlushedPages
<1> QED
  BY <1>1, <1>3, <1>4, <1>5

\* Flushes.
LEMMA FlushInv ==
  ASSUME IInv, FlushPage \/ FlushFails \/ FlushFailsUnnoticed \/ Flushed PROVE IInv'
<1> USE DEF IInv
<1>0. i \in 1..(NumPages + 1) /\ NumPages \in Nat /\ dirty \subseteq Page
  BY CacheAssumption DEF TypeOK
<1>1. CASE FlushPage
  <2>1. /\ i <= NumPages /\ i' = i + 1 /\ dirty' = dirty \ {i}
        /\ disc' = IF i \in dirty THEN Written(i, Sectors(block[i])) ELSE disc
        /\ UNCHANGED <<block, cache, last_access, call, damaged>>
    BY <1>1 DEF FlushPage
  <2>2. disc' \in [Sector -> Data] /\ CleanPages'
    <3>1. CASE i \in dirty
      <4>1. disc' = Written(i, Sectors(block[i]))
        BY <2>1, <3>1
      <4>2. /\ disc' \in [Sector -> Data]
            /\ \A s \in Sectors(block[i]) : disc'[s] = cache[i][s]
            /\ \A p \in Page : p # i /\ block[p] # Free =>
                 \A s \in Sectors(block[p]) : disc'[s] = disc[s]
        BY <3>1, <4>1, WrittenFacts
      <4> QED
        BY <2>1, <4>2 DEF CleanPages
    <3>2. CASE i \notin dirty
      BY <2>1, <3>2 DEF CleanPages, TypeOK
    <3> QED
      BY <3>1, <3>2
  <2>3. CallOK'
    BY <2>1 DEF TypeOK, CallOK
  <2>4. i' \in 1..(NumPages + 1)
    BY <1>0, <2>1
  <2>5. TypeOK'
    BY <2>1, <2>2, <2>3, <2>4 DEF TypeOK
  <2>6. FlushedPages'
    <3>1. ASSUME call.op = "flush", NEW p \in dirty, p # i PROVE p >= i + 1
      <4>1. p \in Nat /\ p >= i /\ i \in Nat
        BY <1>0, <3>1 DEF FlushedPages, Page
      <4> QED
        BY <3>1, <4>1
    <3> QED
      BY <2>1, <3>1 DEF FlushedPages
  <2> QED
    BY <2>1, <2>2, <2>5, <2>6 DEF CachedOnce
<1>2. ASSUME i \in dirty, \E S \in SUBSET Sectors(block[i]) : disc' = Written(i, S),
             UNCHANGED <<pages, damaged>>,
             CallOK', i' \in 1..(NumPages + 1), call'.op # "flush"
      PROVE  IInv'
  <2>1. PICK S \in SUBSET Sectors(block[i]) : disc' = Written(i, S)
    BY <1>2
  <2>2. /\ disc' \in [Sector -> Data]
        /\ \A p \in Page : p # i /\ block[p] # Free =>
             \A s \in Sectors(block[p]) : disc'[s] = disc[s]
    BY <1>2, <2>1, WrittenFacts
  <2>3. UNCHANGED <<block, cache, dirty, last_access>>
    BY <1>2 DEF pages
  <2>4. TypeOK'
    BY <1>2, <2>2, <2>3 DEF TypeOK
  <2>5. CleanPages'
    BY <1>2, <2>2, <2>3 DEF CleanPages
  <2> QED
    BY <1>2, <2>3, <2>4, <2>5 DEF CachedOnce, FlushedPages
<1>3. CASE FlushFails
  <2>1. /\ i \in dirty /\ \E S \in SUBSET Sectors(block[i]) : disc' = Written(i, S)
        /\ UNCHANGED <<pages, damaged>> /\ Return(FALSE)
    BY <1>3 DEF FlushFails
  <2>2. CallOK' /\ i' \in 1..(NumPages + 1) /\ call'.op # "flush"
    BY <2>1, ReturnFacts
  <2> QED
    BY <1>2, <2>1, <2>2
<1>4. CASE FlushFailsUnnoticed
  <2>1. /\ i \in dirty /\ \E S \in SUBSET Sectors(block[i]) : disc' = Written(i, S)
        /\ UNCHANGED <<pages, call, damaged>> /\ i' = NumPages + 1
        /\ call.op \in {"invalidate", "destroy"}
    BY <1>4 DEF FlushFailsUnnoticed
  <2>2. CallOK' /\ call'.op # "flush"
    BY <2>1 DEF TypeOK, CallOK
  <2>3. i' \in 1..(NumPages + 1)
    BY <1>0, <2>1
  <2> QED
    BY <1>2, <2>1, <2>2, <2>3
<1>5. CASE Flushed
  <2>1. Return(TRUE) /\ UNCHANGED <<disc, block, cache, dirty, last_access, damaged>>
    BY <1>5 DEF Flushed, pages
  <2>2. CallOK' /\ i' \in 1..(NumPages + 1) /\ call'.op # "flush"
    BY <2>1, ReturnFacts
  <2>3. TypeOK'
    BY <2>1, <2>2 DEF TypeOK
  <2> QED
    BY <2>1, <2>2, <2>3 DEF CachedOnce, CleanPages, FlushedPages
<1> QED
  BY <1>1, <1>3, <1>4, <1>5

\* A new call.
LEMMA CallInv == ASSUME IInv, Call PROVE IInv'
<1>1. UNCHANGED <<disc, block, cache, dirty, last_access, damaged>> /\ call' \in Calls /\ i' = 1
  BY DEF Call, pages
<1>2. CallOK'
  <2>1. \/ /\ call' \in [op : {"read", "write"}, sector : Sector, left : Nat \ {0}, data : Data]
           /\ call'.sector + call'.left <= End
        \/ call' \in [op : {"flush", "invalidate", "destroy"}, sector : {0}, left : {0}, data : Data]
    BY <1>1, CacheAssumption
  <2> QED
    BY <2>1, CacheAssumption DEF CallOK, Sector
<1>3. i' \in 1..(NumPages + 1)
  BY <1>1, CacheAssumption
<1>4. TypeOK'
  BY <1>1, <1>2, <1>3 DEF IInv, TypeOK
<1>5. FlushedPages'
  BY <1>1, <1>4, CacheAssumption DEF FlushedPages, TypeOK, Page
<1> QED
  BY <1>1, <1>4, <1>5 DEF IInv, CachedOnce, CleanPages

\* Every step preserves the invariant.
LEMMA NextInv == IInv /\ [Next]_vars => IInv'
<1> SUFFICES ASSUME IInv, [Next]_vars PROVE IInv'
  OBVIOUS
<1>1. CASE Step
  <2>1. CASE Emptied
    BY <2>1, ClearFacts DEF Emptied
  <2> QED
    BY <1>1, <2>1, ReadInv, WriteInv, FlushInv DEF Step
<1>2. CASE PowerOff
  BY <1>2, ClearFacts DEF PowerOff
<1>3. CASE UNCHANGED vars
  <2>1. UNCHANGED <<disc, block, cache, dirty, last_access, call, i, damaged>>
    BY <1>3 DEF vars, pages
  <2>2. CallOK'
    BY <2>1 DEF IInv, TypeOK, CallOK
  <2>3. TypeOK'
    BY <2>1, <2>2 DEF IInv, TypeOK
  <2> QED
    BY <2>1, <2>3 DEF IInv, CachedOnce, CleanPages, FlushedPages
<1> QED
  BY <1>1, <1>2, <1>3, CallInv DEF Next

-----------------------------------------------------------------------------
(* Theorems *)

\* The inductive invariant holds in every state.
THEOREM Invariance == Spec => []IInv
  BY InitInv, NextInv, PTL DEF Spec

\* Types hold in every state: the pages' bookkeeping is consistent.
THEOREM TypeCorrect == Spec => []TypeOK
<1>1. IInv => TypeOK
  BY DEF IInv
<1> QED
  BY <1>1, Invariance, PTL

\* getPage never loads a block into a second page.
THEOREM NeverCachedTwice == Spec => []CachedOnce
<1>1. IInv => CachedOnce
  BY DEF IInv
<1> QED
  BY <1>1, Invariance, PTL

\* What getPage may drop without writing it is on the device.
THEOREM CleanMeansOnDevice == Spec => []CleanPages
<1>1. IInv => CleanPages
  BY DEF IInv
<1> QED
  BY <1>1, Invariance, PTL

-----------------------------------------------------------------------------
(* Refinement *)

\* The mapping, sector by sector.
LEMMA MapAt ==
  \A s \in Sector :
    /\ Contents[s] = IF s \in damaged THEN Lost ELSE View[s]
    /\ Durable[s] = IF s \in damaged THEN Lost ELSE disc[s]
  BY DEF Contents, Durable, Mask

\* The mapping has the types of Volume.
LEMMA MapType ==
  TypeOK => Contents \in [Sector -> V!Value] /\ Durable \in [Sector -> V!Value]
<1> SUFFICES ASSUME TypeOK
             PROVE Contents \in [Sector -> V!Value] /\ Durable \in [Sector -> V!Value]
  OBVIOUS
<1>1. ASSUME NEW s \in Sector PROVE View[s] \in Data
  <2>1. CASE Cached(s)
    <3>1. Hit(s) \in Page /\ s \in Sectors(block[Hit(s)])
      BY <2>1, HitFacts DEF Sectors
    <3>2. cache[Hit(s)][s] \in Data
      BY <3>1 DEF TypeOK
    <3> QED
      BY <2>1, <3>2 DEF View
  <2>2. CASE ~Cached(s)
    BY <2>2 DEF View, TypeOK
  <2> QED
    BY <2>1, <2>2
<1>2. disc \in [Sector -> Data]
  BY DEF TypeOK
<1>3. Contents = [s \in Sector |-> IF s \in damaged THEN Lost ELSE View[s]]
  BY DEF Contents, Mask
<1>4. Durable = [s \in Sector |-> IF s \in damaged THEN Lost ELSE disc[s]]
  BY DEF Durable, Mask
<1> QED
  BY <1>1, <1>2, <1>3, <1>4 DEF V!Value

\* The same of the next state.
LEMMA MapNext ==
  /\ \A s \in Sector :
       /\ Contents'[s] = IF s \in damaged' THEN Lost ELSE View'[s]
       /\ Durable'[s] = IF s \in damaged' THEN Lost ELSE disc'[s]
  /\ TypeOK' => Contents' \in [Sector -> V!Value] /\ Durable' \in [Sector -> V!Value]
<1>1. (TypeOK => Contents \in [Sector -> V!Value] /\ Durable \in [Sector -> V!Value])'
  BY MapType, PTL
<1>2. \A s \in Sector :
       /\ Contents'[s] = IF s \in damaged' THEN Lost ELSE View'[s]
       /\ Durable'[s] = IF s \in damaged' THEN Lost ELSE disc'[s]
  BY DEF Contents, Durable, Mask
<1> QED
  BY <1>1, <1>2 DEF V!Value

\* A block is written back, in part or whole: a reader sees no change.
LEMMA WrittenView ==
  ASSUME TypeOK, CachedOnce, NEW v \in dirty,
         NEW S \in SUBSET Sectors(block[v]), disc' = Written(v, S),
         UNCHANGED <<block, cache, damaged>>, TypeOK'
  PROVE  /\ Contents' = Contents
         /\ \A s \in Sector : Durable'[s] \in {Durable[s], Contents[s]}
<1>1. CachedOnce'
  BY DEF CachedOnce
<1>2. /\ v \in Page
      /\ \A s \in S : disc'[s] = cache[v][s] /\ BlockOf(s) = block[v]
      /\ \A s \in Sector \ S : disc'[s] = disc[s]
  BY WrittenFacts
<1>3. ASSUME NEW s \in Sector PROVE View'[s] = View[s] /\ disc'[s] \in {disc[s], View[s]}
  <2>1. CASE s \in S
    <3>1. View[s] = cache[v][s]
      BY <1>2, <2>1, ViewNow
    <3>2. View'[s] = cache'[v][s]
      BY <1>1, <1>2, <2>1, ViewNext
    <3> QED
      BY <1>2, <2>1, <3>1, <3>2
  <2>2. CASE s \notin S
    <3>1. disc'[s] = disc[s]
      BY <1>2, <2>2
    <3>2. CASE \E p \in Page : block[p] = BlockOf(s)
      BY <1>1, <3>1, <3>2, ViewNow, ViewNext
    <3>3. CASE \A p \in Page : block[p] # BlockOf(s)
      BY <1>1, <3>1, <3>3, ViewNow, ViewNext
    <3> QED
      BY <3>1, <3>2, <3>3
  <2> QED
    BY <2>1, <2>2
<1>4. ASSUME NEW s \in Sector
      PROVE  Contents'[s] = Contents[s] /\ Durable'[s] \in {Durable[s], Contents[s]}
  BY <1>3, MapAt, MapNext
<1>5. Contents \in [Sector -> V!Value] /\ Contents' \in [Sector -> V!Value]
  BY MapType, MapNext
<1>6. Contents' = Contents
  BY <1>4, <1>5
<1> QED
  BY <1>4, <1>6

\* Nothing the mapping depends on changes.
LEMMA MapSame ==
  ASSUME UNCHANGED <<disc, block, cache, damaged>>
  PROVE  Contents' = Contents /\ Durable' = Durable
  BY DEF Contents, Durable, Mask, View, Cached, Hit, Holds

\* The pieces are those of Volume.
LEMMA SameNames ==
  V!Idle = Idle /\ V!Nothing = Empty /\ \A n : V!Run(n) = Run(n) /\ V!Moved(n) = Moved(n)
  BY Zenon DEF V!Idle, V!Nothing, V!Run, V!Moved, Idle, Empty, Run, Moved

\* Reading a page is reading the volume.
LEMMA ReadHitMaps == ASSUME IInv, ReadHit, IInv' PROVE V!Next
<1> USE DEF IInv
<1> DEFINE p == Hit(call.sector)
<1>1. /\ call.op = "read" /\ call.left > 0 /\ Cached(call.sector) /\ call' = Moved(InBlock)
      /\ piece' = [s \in Run(InBlock) |-> cache[p][s]]
      /\ UNCHANGED <<disc, block, cache, damaged, ok>>
  BY DEF ReadHit, Reading
<1>2. p \in Page /\ block[p] = BlockOf(call.sector)
  BY <1>1, HitFacts
<1>3. InBlock \in 1..call.left /\ \A s \in Run(InBlock) : BlockOf(s) = BlockOf(call.sector)
  BY <1>1, InBlockFacts
<1>4. \A s \in Run(InBlock) : s \in Sector /\ s \in Sectors(block[p]) /\ block[p] = BlockOf(s)
  BY <1>2, <1>3 DEF Run, Sectors
<1> HIDE DEF p
<1>5. piece' \in [Run(InBlock) -> Data]
  <2>1. cache[p] \in [Sectors(block[p]) -> Data]
    BY <1>2 DEF TypeOK
  <2> QED
    BY <1>1, <1>4, <2>1
<1>6. ASSUME NEW s \in Run(InBlock), Contents[s] # Lost PROVE piece'[s] = Contents[s]
  <2>1. View[s] = cache[p][s]
    BY <1>2, <1>4, ViewNow
  <2> QED
    BY <1>1, <1>4, <1>6, <2>1, MapAt
<1>7. Contents' = Contents /\ Durable' = Durable
  BY <1>1, MapSame
<1>8. V!ReadPiece(InBlock)
  BY <1>1, <1>5, <1>6, <1>7, SameNames DEF V!ReadPiece
<1> QED
  BY <1>3, <1>8 DEF V!Next

\* Writing back is saving, also when a failing device writes a part.
LEMMA WriteBackMaps ==
  ASSUME IInv, IInv', NEW v \in dirty, UNCHANGED <<block, cache, damaged>>, piece' = Empty,
         \E S \in SUBSET Sectors(block[v]) : disc' = Written(v, S),
         UNCHANGED <<call, ok>> \/ (call # Idle /\ call' = Idle /\ ok' = FALSE)
  PROVE  V!Next
<1> USE DEF IInv
<1>1. PICK S \in SUBSET Sectors(block[v]) : disc' = Written(v, S)
  OBVIOUS
<1>2. /\ Contents' = Contents
      /\ \A s \in Sector : Durable'[s] \in {Durable[s], Contents[s]}
  BY <1>1, WrittenView
<1>3. Durable' \in [Sector -> V!Value] /\ Contents' \in [Sector -> V!Value]
  BY MapNext
<1>4. CASE UNCHANGED <<call, ok>>
  <2>1. V!Save
    BY <1>2, <1>3, <1>4, SameNames DEF V!Save
  <2> QED
    BY <2>1 DEF V!Next
<1>5. CASE call # Idle /\ call' = Idle /\ ok' = FALSE
  <2>1. V!Fail
    BY <1>2, <1>3, <1>5, SameNames DEF V!Fail
  <2> QED
    BY <2>1 DEF V!Next
<1> QED
  BY <1>4, <1>5

\* Loading a block, and dropping a clean one, changes nothing for a reader.
LEMMA FillMaps == ASSUME IInv, Fill, IInv' PROVE V!Next
<1> USE DEF IInv
<1> DEFINE v == Victim
           b == BlockOf(call.sector)
<1>1. /\ v \notin dirty
      /\ block' = [block EXCEPT ![v] = b]
      /\ cache' = [cache EXCEPT ![v] = [s \in Sectors(b) |-> disc[s]]]
      /\ UNCHANGED <<disc, call, ok, damaged>> /\ piece' = Empty
  BY DEF Fill
<1>2. \A p \in Page : block[p] # b
  BY DEF Fill, Missing, Cached, Holds
<1>3. v \in Page /\ DOMAIN block = Page /\ DOMAIN cache = Page
  BY VictimFacts DEF TypeOK
<1> HIDE DEF v, b
<1>4. /\ \A p \in Page : p # v => block'[p] = block[p] /\ cache'[p] = cache[p]
      /\ block'[v] = b /\ cache'[v] = [s \in Sectors(b) |-> disc[s]]
  BY <1>1, <1>3
<1>5. ASSUME NEW s \in Sector, s \notin damaged PROVE View'[s] = View[s]
  <2>0. BlockOf(s) # Free
    BY BlockFacts DEF Free
  <2>1. CASE BlockOf(s) = b
    <3>1. View[s] = disc[s]
      BY <1>2, <2>1, ViewNow
    <3>2. s \in Sectors(b)
      BY <2>1 DEF Sectors
    <3>3. View'[s] = cache'[v][s]
      BY <1>3, <1>4, <2>1, ViewNext
    <3> QED
      BY <1>4, <3>1, <3>2, <3>3
  <2>2. CASE BlockOf(s) = block[v]
    <3>1. View[s] = cache[v][s]
      BY <1>3, <2>2, ViewNow
    <3>2. cache[v][s] = disc[s]
      BY <1>1, <1>3, <1>5, <2>0, <2>2 DEF CleanPages, Sectors
    <3>3. \A p \in Page : block'[p] # BlockOf(s)
      BY <1>2, <1>3, <1>4, <2>0, <2>2 DEF CachedOnce
    <3>4. View'[s] = disc'[s]
      BY <3>3, ViewNext
    <3> QED
      BY <1>1, <3>1, <3>2, <3>4
  <2>3. CASE BlockOf(s) # b /\ BlockOf(s) # block[v]
    <3>1. \A p \in Page : block'[p] = BlockOf(s) <=> block[p] = BlockOf(s)
      BY <1>3, <1>4, <2>3
    <3>2. \A p \in Page : block[p] = BlockOf(s) => cache'[p] = cache[p]
      BY <1>4, <2>3
    <3>3. CASE \E p \in Page : block[p] = BlockOf(s)
      BY <3>1, <3>2, <3>3, ViewNow, ViewNext
    <3>4. CASE \A p \in Page : block[p] # BlockOf(s)
      BY <1>1, <3>1, <3>4, ViewNow, ViewNext
    <3> QED
      BY <3>3, <3>4
  <2> QED
    BY <2>1, <2>2, <2>3
<1>6. \A s \in Sector : Contents'[s] = Contents[s] /\ Durable'[s] = Durable[s]
  BY <1>1, <1>5, MapAt, MapNext
<1>7. /\ Contents \in [Sector -> V!Value] /\ Contents' \in [Sector -> V!Value]
      /\ Durable' \in [Sector -> V!Value]
  BY MapType, MapNext
<1>8. Contents' = Contents
  BY <1>6, <1>7
<1>9. V!Save
  BY <1>1, <1>6, <1>7, <1>8, SameNames DEF V!Save
<1> QED
  BY <1>9 DEF V!Next

\* A read that fails loses no more than sectors the device has.
LEMMA FillFailsMaps == ASSUME IInv, FillFails, IInv' PROVE V!Next
<1> USE DEF IInv
<1> DEFINE v == Victim
<1>1. /\ v \notin dirty /\ call.op = "read" /\ UNCHANGED <<disc, block>>
      /\ call' = Idle /\ ok' = FALSE /\ piece' = Empty
      /\ \/ UNCHANGED <<cache, damaged>>
         \/ /\ block[v] # Free
            /\ \E c \in [Sectors(block[v]) -> Data] : cache' = [cache EXCEPT ![v] = c]
            /\ damaged' = damaged \union Sectors(block[v])
  BY DEF FillFails, Missing, Reading, Return
<1>2. v \in Page /\ DOMAIN cache = Page
  BY VictimFacts DEF TypeOK
<1>3. Durable' \in [Sector -> V!Value] /\ Contents' \in [Sector -> V!Value]
  BY MapNext
<1>4. call # Idle
  BY <1>1 DEF Idle
<1> HIDE DEF v
<1>5. CASE UNCHANGED <<cache, damaged>>
  <2>1. Contents' = Contents /\ Durable' = Durable
    BY <1>1, <1>5, MapSame
  <2>2. V!Fail
    BY <1>1, <1>3, <1>4, <2>1, SameNames DEF V!Fail
  <2> QED
    BY <2>2 DEF V!Next
<1>6. CASE ~UNCHANGED <<cache, damaged>>
  <2>1. block[v] # Free /\ damaged' = damaged \union Sectors(block[v])
    BY <1>1, <1>6
  <2>2. \A p \in Page : p # v => cache'[p] = cache[p]
    BY <1>1, <1>2, <1>6
  <2>3. ASSUME NEW s \in Sector, s \in Sectors(block[v])
        PROVE  Contents[s] = Durable[s] /\ Contents'[s] = Lost /\ Durable'[s] = Lost
    <3>1. View[s] = cache[v][s]
      BY <1>2, <2>3, ViewNow DEF Sectors
    <3>2. s \notin damaged => cache[v][s] = disc[s]
      BY <1>1, <1>2, <2>1, <2>3 DEF CleanPages
    <3> QED
      BY <2>1, <2>3, <3>1, <3>2, MapAt, MapNext
  <2>4. ASSUME NEW s \in Sector, s \notin Sectors(block[v])
        PROVE  Contents'[s] = Contents[s] /\ Durable'[s] = Durable[s]
    <3>1. block[v] # BlockOf(s)
      BY <2>4 DEF Sectors
    <3>2. View'[s] = View[s]
      <4>1. CASE \E p \in Page : block[p] = BlockOf(s)
        BY <1>1, <2>2, <3>1, <4>1, ViewNow, ViewNext
      <4>2. CASE \A p \in Page : block[p] # BlockOf(s)
        BY <1>1, <4>2, ViewNow, ViewNext
      <4> QED
        BY <4>1, <4>2
    <3> QED
      BY <1>1, <2>1, <2>4, <3>2, MapAt, MapNext
  <2>5. V!Fail
    BY <1>1, <1>3, <1>4, <2>3, <2>4, SameNames DEF V!Fail
  <2> QED
    BY <2>5 DEF V!Next
<1> QED
  BY <1>5, <1>6

\* Writing into a page is writing the volume.
LEMMA WriteHitMaps == ASSUME IInv, WriteHit, IInv' PROVE V!Next
<1> USE DEF IInv
<1> DEFINE p == Hit(call.sector)
<1>1. /\ call.op = "write" /\ call.left > 0 /\ call' = Moved(InBlock) /\ piece' = Empty
      /\ damaged' = damaged \ Run(InBlock) /\ UNCHANGED <<disc, block, ok>>
  BY DEF WriteHit, Writing
<1>2. InBlock \in 1..call.left
  BY <1>1, InBlockFacts
<1>3. /\ p \in Page /\ Run(InBlock) \subseteq Sectors(block[p])
      /\ \A q \in Page : q # p => cache'[q] = cache[q]
      /\ cache'[p] = [s \in Sectors(block[p]) |->
                        IF s \in Run(InBlock) THEN call.data ELSE cache[p][s]]
  BY WriteHitFacts
<1> HIDE DEF p
<1>4. ASSUME NEW s \in Sector
      PROVE  View'[s] = IF s \in Run(InBlock) THEN call.data ELSE View[s]
  <2>1. CASE BlockOf(s) = block[p]
    <3>1. s \in Sectors(block[p])
      BY <2>1 DEF Sectors
    <3>2. View[s] = cache[p][s] /\ View'[s] = cache'[p][s]
      BY <1>1, <1>3, <2>1, ViewNow, ViewNext
    <3> QED
      BY <1>3, <3>1, <3>2
  <2>2. CASE BlockOf(s) # block[p]
    <3>1. s \notin Run(InBlock)
      BY <1>3, <2>2 DEF Sectors
    <3>2. CASE \E q \in Page : block[q] = BlockOf(s)
      BY <1>1, <1>3, <2>2, <3>1, <3>2, ViewNow, ViewNext
    <3>3. CASE \A q \in Page : block[q] # BlockOf(s)
      BY <1>1, <3>1, <3>3, ViewNow, ViewNext
    <3> QED
      BY <3>2, <3>3
  <2> QED
    BY <2>1, <2>2
<1>5. \A s \in Sector :
        /\ Contents'[s] = IF s \in Run(InBlock) THEN call.data ELSE Contents[s]
        /\ \/ Durable'[s] = Durable[s]
           \/ s \in Run(InBlock) /\ Durable[s] = Lost
  BY <1>1, <1>4, MapAt, MapNext
<1>6. Durable' \in [Sector -> V!Value] /\ Contents' \in [Sector -> V!Value]
  BY MapNext
<1>7. Contents' = [s \in Sector |-> IF s \in Run(InBlock) THEN call.data ELSE Contents[s]]
  BY <1>5, <1>6
<1>8. V!WritePiece(InBlock)
  BY <1>1, <1>5, <1>6, <1>7, SameNames DEF V!WritePiece
<1> QED
  BY <1>2, <1>8 DEF V!Next

\* A direct write goes around the cache and hides behind no page.
LEMMA DirectView ==
  ASSUME IInv, IInv', Writing, ~Cached(call.sector), NEW S \in SUBSET Run(Direct),
         disc' = Put(S), damaged' = damaged \ S, UNCHANGED pages
  PROVE  /\ \A s \in Sector \ S : Contents'[s] = Contents[s] /\ Durable'[s] = Durable[s]
         /\ \A s \in S : s \in Sector /\ Contents'[s] = call.data /\ Durable'[s] = call.data
<1> USE DEF IInv
<1>1. UNCHANGED <<block, cache>> /\ S \subseteq Sector
  BY DEF pages, Run
<1>2. \A s \in S : ~Cached(s)
  BY DirectFacts
<1>3. ASSUME NEW s \in Sector \ S PROVE View'[s] = View[s] /\ disc'[s] = disc[s]
  <2>1. disc'[s] = disc[s]
    BY DEF Put
  <2>2. CASE \E q \in Page : block[q] = BlockOf(s)
    BY <1>1, <2>1, <2>2, ViewNow, ViewNext
  <2>3. CASE \A q \in Page : block[q] # BlockOf(s)
    BY <1>1, <2>1, <2>3, ViewNow, ViewNext
  <2> QED
    BY <2>1, <2>2, <2>3
<1>4. ASSUME NEW s \in S PROVE View'[s] = call.data /\ disc'[s] = call.data
  <2>1. s \in Sector /\ disc'[s] = call.data
    BY <1>1 DEF Put
  <2>2. \A q \in Page : block'[q] # BlockOf(s)
    BY <1>1, <1>2 DEF Cached, Holds
  <2>3. View'[s] = disc'[s]
    BY <2>1, <2>2, ViewNext
  <2> QED
    BY <2>1, <2>3
<1>5. \A s \in Sector \ S : Contents'[s] = Contents[s] /\ Durable'[s] = Durable[s]
  BY <1>3, MapAt, MapNext
<1>6. \A s \in S : s \in Sector /\ Contents'[s] = call.data /\ Durable'[s] = call.data
  BY <1>1, <1>4, MapNext
<1> QED
  BY <1>5, <1>6

\* Direct writes, successful and failing.
LEMMA DirectMaps == ASSUME IInv, WriteDirect \/ WriteDirectFails, IInv' PROVE V!Next
<1> USE DEF IInv
<1>1. Durable' \in [Sector -> V!Value] /\ Contents' \in [Sector -> V!Value]
  BY MapNext
<1>2. CASE WriteDirect
  <2>1. /\ Writing /\ ~Cached(call.sector) /\ disc' = Put(Run(Direct))
        /\ damaged' = damaged \ Run(Direct) /\ UNCHANGED <<pages, ok>>
        /\ call' = Moved(Direct) /\ piece' = Empty /\ call.op = "write"
    BY <1>2 DEF WriteDirect, Writing
  <2>2. Direct \in 1..call.left
    BY <2>1, DirectFacts
  <2>3. /\ \A s \in Sector \ Run(Direct) : Contents'[s] = Contents[s] /\ Durable'[s] = Durable[s]
        /\ \A s \in Run(Direct) : Contents'[s] = call.data /\ Durable'[s] = call.data
    BY <2>1, DirectView
  <2>4. Contents' = [s \in Sector |-> IF s \in Run(Direct) THEN call.data ELSE Contents[s]]
    BY <1>1, <2>3
  <2>5. V!WritePiece(Direct)
    BY <1>1, <2>1, <2>3, <2>4, SameNames DEF V!WritePiece
  <2> QED
    BY <2>2, <2>5 DEF V!Next
<1>3. CASE WriteDirectFails
  <2>1. /\ Writing /\ ~Cached(call.sector) /\ UNCHANGED pages /\ call.op = "write"
        /\ call' = Idle /\ ok' = FALSE /\ piece' = Empty
    BY <1>3 DEF WriteDirectFails, Writing, Return
  <2>2. PICK S \in SUBSET Run(Direct) : disc' = Put(S) /\ damaged' = damaged \ S
    BY <1>3 DEF WriteDirectFails
  <2>3. /\ \A s \in Sector \ S : Contents'[s] = Contents[s] /\ Durable'[s] = Durable[s]
        /\ \A s \in S : s \in Sector /\ Contents'[s] = call.data /\ Durable'[s] = call.data
    BY <2>1, <2>2, DirectView
  <2>4. S \subseteq Run(call.left)
    <3>1. Direct \in 1..call.left
      BY <2>1, DirectFacts
    <3>2. call.left \in Nat /\ call.sector \in Nat
      BY <2>1, TransferFacts, CacheAssumption DEF Writing, Sector
    <3>3. \A s \in Sector : s \in Nat
      BY CacheAssumption DEF Sector
    <3> QED
      BY <2>2, <3>1, <3>2, <3>3 DEF Run
  <2>5. call # Idle
    BY <2>1 DEF Idle
  <2>6. V!Fail
    BY <1>1, <2>1, <2>3, <2>4, <2>5, SameNames DEF V!Fail
  <2> QED
    BY <2>6 DEF V!Next
<1> QED
  BY <1>2, <1>3

\* A flush that succeeds has made everything durable.
LEMMA FlushedMaps == ASSUME IInv, Flushed, IInv' PROVE V!Next
<1> USE DEF IInv
<1>1. /\ call.op = "flush" /\ i > NumPages /\ UNCHANGED <<disc, block, cache, damaged>>
      /\ call' = Idle /\ ok' = TRUE /\ piece' = Empty
  BY DEF Flushed, Return, pages
<1>2. dirty = {}
  <2>1. \A p \in dirty : p \in 1..NumPages /\ p >= i
    BY <1>1 DEF FlushedPages, TypeOK, Page
  <2>2. i \in Nat /\ NumPages \in Nat
    BY CacheAssumption DEF TypeOK
  <2> QED
    BY <1>1, <2>1, <2>2
<1>3. ASSUME NEW s \in Sector, s \notin damaged PROVE View[s] = disc[s]
  <2>1. CASE \E p \in Page : block[p] = BlockOf(s)
    <3>1. PICK p \in Page : block[p] = BlockOf(s)
      BY <2>1
    <3>2. View[s] = cache[p][s]
      BY <3>1, ViewNow
    <3>3. block[p] # Free /\ s \in Sectors(block[p])
      BY <3>1, BlockFacts DEF Free, Sectors
    <3> QED
      BY <1>2, <1>3, <3>2, <3>3 DEF CleanPages
  <2>2. CASE \A p \in Page : block[p] # BlockOf(s)
    BY <2>2, ViewNow
  <2> QED
    BY <2>1, <2>2
<1>4. \A s \in Sector : Contents[s] = Durable[s]
  BY <1>3, MapAt
<1>5. Contents = Durable
  BY <1>4, MapType
<1>6. Contents' = Contents /\ Durable' = Durable
  BY <1>1, MapSame
<1>7. V!Succeed
  BY <1>1, <1>5, <1>6, SameNames DEF V!Succeed
<1> QED
  BY <1>7 DEF V!Next

\* An empty cache shows the device.
LEMMA ClearMaps ==
  ASSUME IInv, IInv', Clear, call' = Idle, piece' = Empty, UNCHANGED <<disc, ok, damaged>>
  PROVE  V!Next
<1> USE DEF IInv
<1>1. ASSUME NEW s \in Sector PROVE View'[s] = disc[s]
  <2>1. \A p \in Page : block'[p] # BlockOf(s)
    BY BlockFacts DEF Clear, Free
  <2> QED
    BY <2>1, ViewNext
<1>2. \A s \in Sector : Contents'[s] = Durable[s] /\ Durable'[s] = Durable[s]
  BY <1>1, MapAt, MapNext
<1>3. Contents' = Durable /\ Durable' = Durable
  BY <1>2, MapType, MapNext
<1>4. V!Restart
  BY <1>3, SameNames DEF V!Restart
<1> QED
  BY <1>4 DEF V!Next

\* The constructor's state is an initial state of the volume.
LEMMA InitMaps == Init => V!Init
<1> SUFFICES ASSUME Init PROVE V!Init
  OBVIOUS
<1>1. IInv
  BY InitInv
<1>2. ASSUME NEW s \in Sector PROVE View[s] = disc[s]
  <2>1. \A p \in Page : block[p] # BlockOf(s)
    BY BlockFacts DEF Init, Free
  <2> QED
    BY <1>1, <2>1, ViewNow DEF IInv
<1>3. \A s \in Sector : Contents[s] = disc[s] /\ Durable[s] = disc[s]
  BY <1>2, MapAt DEF Init
<1>4. Contents \in [Sector -> V!Value] /\ Durable \in [Sector -> V!Value]
  BY <1>1, MapType DEF IInv
<1>5. Contents = disc /\ Durable = disc
  BY <1>3, <1>4 DEF Init
<1> QED
  BY <1>5, SameNames DEF Init, V!Init

\* Every step is a step of the volume.
LEMMA NextMaps == IInv /\ IInv' /\ [Next]_vars => [V!Next]_(V!vars)
<1> SUFFICES ASSUME IInv, IInv', [Next]_vars PROVE V!Next \/ UNCHANGED V!vars
  OBVIOUS
<1>1. CASE Call
  <2>1. Contents' = Contents /\ Durable' = Durable
    BY <1>1, MapSame DEF Call, pages
  <2>2. V!Call
    BY <1>1, <2>1, SameNames DEF Call, V!Call
  <2> QED
    BY <2>2 DEF V!Next
<1>2. CASE WriteBack \/ WriteBackFails
  <2>1. /\ Victim \in dirty /\ UNCHANGED <<block, cache, damaged>> /\ piece' = Empty
        /\ \E S \in SUBSET Sectors(block[Victim]) : disc' = Written(Victim, S)
        /\ UNCHANGED <<call, ok>> \/ (call # Idle /\ call' = Idle /\ ok' = FALSE)
    <3>1. call # Idle
      <4>1. call.op = "read"
        BY <1>2 DEF WriteBack, WriteBackFails, Missing, Reading
      <4> QED
        BY <4>1 DEF Idle
    <3> QED
      BY <1>2, <3>1 DEF WriteBack, WriteBackFails, Return, pages
  <2> QED
    BY <2>1, WriteBackMaps
<1>3. CASE FlushPage /\ i \notin dirty
  <2>1. /\ UNCHANGED <<disc, block, cache, damaged, call, ok>> /\ piece' = Empty
    BY <1>3 DEF FlushPage
  <2>2. Contents' = Contents /\ Durable' = Durable
    BY <2>1, MapSame
  <2>3. Durable' \in [Sector -> V!Value]
    BY MapNext DEF IInv
  <2>4. V!Save
    BY <2>1, <2>2, <2>3, SameNames DEF V!Save
  <2> QED
    BY <2>4 DEF V!Next
<1>4. CASE (FlushPage /\ i \in dirty) \/ FlushFails \/ FlushFailsUnnoticed
  <2>1. /\ i \in dirty /\ UNCHANGED <<block, cache, damaged>> /\ piece' = Empty
        /\ \E S \in SUBSET Sectors(block[i]) : disc' = Written(i, S)
        /\ UNCHANGED <<call, ok>> \/ (call # Idle /\ call' = Idle /\ ok' = FALSE)
    <3>1. CASE FlushPage /\ i \in dirty
      BY <3>1 DEF FlushPage
    <3>2. CASE FlushFails
      BY <3>2 DEF FlushFails, Return, pages, Idle
    <3>3. CASE FlushFailsUnnoticed
      BY <3>3 DEF FlushFailsUnnoticed, pages
    <3> QED
      BY <1>4, <3>1, <3>2, <3>3
  <2> QED
    BY <2>1, WriteBackMaps
<1>5. CASE Transferred
  <2>1. Contents' = Contents /\ Durable' = Durable
    BY <1>5, MapSame DEF Transferred, pages
  <2>2. V!Succeed
    BY <1>5, <2>1, SameNames DEF Transferred, Return, V!Succeed
  <2> QED
    BY <2>2 DEF V!Next
<1>6. CASE Emptied \/ PowerOff
  BY <1>6, ClearMaps DEF Emptied, PowerOff
<1>7. CASE UNCHANGED vars
  <2>1. UNCHANGED <<disc, block, cache, damaged, call, piece, ok>>
    BY <1>7 DEF vars, pages
  <2>2. Contents' = Contents /\ Durable' = Durable
    BY <2>1, MapSame
  <2> QED
    BY <2>1, <2>2 DEF V!vars
<1> QED
  BY <1>1, <1>2, <1>3, <1>4, <1>5, <1>6, <1>7, ReadHitMaps, FillMaps, FillFailsMaps,
     WriteHitMaps, DirectMaps, FlushedMaps DEF Next, Step

\* The cache implements the volume: reads return what was written last, a
\* successful flush makes everything durable, and a failure loses nothing but
\* the clean page a failed read overwrote.
THEOREM Implementation == Spec => ImplementsVolume
  BY InitMaps, NextMaps, Invariance, PTL DEF Spec, ImplementsVolume, V!Spec

-----------------------------------------------------------------------------
(* ntfsFindPartitions: the inductive invariant *)

FoundSet == {found[n] : n \in 1..Len(found)}

\* What is found counts while the drive is there and the list has room.
Counts == ~gone /\ Len(found) < MaxPartitions

\* A partition that entry e leads to, if it is one, is in F.
Taken(F, e, p) ==
  Readable(p) /\ Kind(e, p) # "none" => [lba |-> p, type |-> Kind(e, p)] \in F

EntryDone(F, n) == \A p \in Claimed(Entries[n]) : Taken(F, Entries[n], p)

\* The logical partition of record r of entry e is in F.
RecordDone(F, e, r) == Readable(r) /\ drive[r].ebr # <<>> => Taken(F, e, r + drive[r].ebr[1].part)

Here == ebr_lba + next_erb_lba

\* The records Seen have been looked at, and lead to none but themselves and the
\* record in turn, which is at h.
Visited(F, e, Seen, h) ==
  /\ e.lba \in Seen \union {h}
  /\ \A r \in Seen : RecordDone(F, e, r) /\ (Goes(r) => After(e.lba, r) \in Seen \union {h})

\* A partition among the first sectors is in F.
StrayDone(F, p) == Readable(p) /\ drive[p].ntfs => [lba |-> p, type |-> "ntfs"] \in F

SearchType ==
  /\ drive \in Drives /\ gone \in BOOLEAN
  /\ pc \in {"first", "primary", "chain", "stray", "return", "done", "failed"}
  /\ found \in Seq(Listed)

\* The search is over the entries of a boot record, or over the first sectors.
Tabled == Readable(0) /\ ~drive[0].ntfs /\ Entries # <<>>
Bare   == Readable(0) /\ ~Tabled

TableInv ==
  pc \in {"primary", "chain"} =>
    /\ Tabled /\ turn \in 1..Len(Entries)
    /\ Counts => \A n \in 1..(turn - 1) : EntryDone(FoundSet, n)

ChainInv ==
  pc = "chain" =>
    /\ Entries[turn].type = "extended" /\ ebr_lba = Entries[turn].lba
    /\ next_erb_lba \in Nat /\ Here \in Records(ebr_lba)
    /\ Counts => \E Seen : Visited(FoundSet, Entries[turn], Seen, Here)

StrayInv ==
  pc = "stray" =>
    /\ Bare /\ turn \in 0..(Stray - 1)
    /\ Counts => \A p \in 0..(turn - 1) : StrayDone(FoundSet, p)

EndInv == pc \in {"return", "done"} /\ Counts => Listed \subseteq FoundSet

SearchInv == SearchType /\ TableInv /\ ChainInv /\ StrayInv /\ EndInv

-----------------------------------------------------------------------------
(* What is listed, and lists that grow *)

\* What the lemmas need of a drive.
LEMMA DriveFacts ==
  ASSUME drive \in Drives
  PROVE  /\ \A s \in DOMAIN drive : s \in Nat
         /\ Readable(0) =>
              Entries \in Seq([type : {"empty", "ntfs", "linux", "extended", "other"}, lba : Nat])
         /\ \A r : Readable(r) => drive[r].ebr \in Seq([part : Nat, next : Nat])
  BY PartitionsAssumption DEF Readable, Entries

LEMMA EntryFacts ==
  ASSUME drive \in Drives, Readable(0), NEW n \in 1..Len(Entries)
  PROVE  /\ Entries[n].type \in {"empty", "ntfs", "linux", "extended", "other"}
         /\ Entries[n].lba \in Nat
<1> DEFINE T == {"empty", "ntfs", "linux", "extended", "other"}
           R == [type : T, lba : Nat]
<1>1. Entries \in Seq(R)
  BY DriveFacts
<1>2. Entries[n] \in R
  <2> HIDE DEF R
  <2> QED
    BY <1>1
<1> QED
  BY <1>2

\* A partition behind an entry is listed.
LEMMA ListedByEntry ==
  ASSUME Tabled, NEW n \in 1..Len(Entries), NEW p \in Claimed(Entries[n]), Readable(p),
         Kind(Entries[n], p) # "none"
  PROVE  [lba |-> p, type |-> Kind(Entries[n], p)] \in Listed
<1> DEFINE e == Entries[n]
           x == [lba |-> p, type |-> Kind(e, p)]
<1>1. e \in EntrySet
  BY DEF EntrySet
<1>2. x \in UNION {Behind(f) : f \in EntrySet}
  BY <1>1 DEF Behind
<1>3. x.type # "none"
  OBVIOUS
<1> QED
  BY <1>2, <1>3 DEF Tabled, Listed

\* All that is listed has been found when every entry is done.
LEMMA AllEntriesDone ==
  ASSUME Tabled, NEW F, \A n \in 1..Len(Entries) : EntryDone(F, n)
  PROVE  Listed \subseteq F
<1> SUFFICES ASSUME NEW x \in Listed PROVE x \in F
  OBVIOUS
<1>1. x \in UNION {Behind(f) : f \in EntrySet} /\ x.type # "none"
  BY DEF Tabled, Listed
<1>2. PICK f \in EntrySet : \E q \in Claimed(f) : Readable(q) /\ x = [lba |-> q, type |-> Kind(f, q)]
  BY <1>1 DEF Behind
<1>3. PICK q \in Claimed(f) : Readable(q) /\ x = [lba |-> q, type |-> Kind(f, q)]
  BY <1>2
<1>4. Kind(f, q) # "none"
  BY <1>1, <1>3
<1>5. PICK n \in 1..Len(Entries) : f = Entries[n]
  BY DEF EntrySet
<1> QED
  BY <1>3, <1>4, <1>5 DEF EntryDone, Taken

LEMMA ListedBare ==
  ASSUME Bare
  PROVE  Listed = {[lba |-> p, type |-> "ntfs"] :
                     p \in {p \in 0..(Stray - 1) : Readable(p) /\ drive[p].ntfs}}
  BY DEF Bare, Tabled, Listed

LEMMA AddFacts ==
  ASSUME NEW S, NEW s \in Seq(S), NEW lba, NEW type, [lba |-> lba, type |-> type] \in S
  PROVE  /\ Add(s, lba, type) \in Seq(S)
         /\ Len(Add(s, lba, type)) >= Len(s)
         /\ {s[n] : n \in 1..Len(s)} \subseteq
              {Add(s, lba, type)[n] : n \in 1..Len(Add(s, lba, type))}
         /\ Len(s) < MaxPartitions =>
              [lba |-> lba, type |-> type] \in
                {Add(s, lba, type)[n] : n \in 1..Len(Add(s, lba, type))}
<1> DEFINE x == [lba |-> lba, type |-> type]
<1>1. CASE Len(s) < MaxPartitions
  <2>1. Add(s, lba, type) = Append(s, x)
    BY <1>1 DEF Add
  <2> HIDE DEF x
  <2>2. /\ Append(s, x) \in Seq(S) /\ Len(Append(s, x)) = Len(s) + 1
        /\ \A n \in 1..Len(s) : Append(s, x)[n] = s[n]
        /\ Append(s, x)[Len(s) + 1] = x /\ Len(s) \in Nat
    BY DEF x
  <2> QED
    BY <2>1, <2>2 DEF x
<1>2. CASE ~(Len(s) < MaxPartitions)
  BY <1>2 DEF Add
<1> QED
  BY <1>1, <1>2

\* The drive stays, and with it everything that is said about it.
LEMMA SameDrive ==
  ASSUME drive' = drive
  PROVE  /\ Listed' = Listed /\ Entries' = Entries /\ Tabled' = Tabled /\ Bare' = Bare
         /\ \A l : Records(l)' = Records(l)
         /\ \A F, n : EntryDone(F, n)' = EntryDone(F, n)
         /\ \A F, e, Seen, h : Visited(F, e, Seen, h)' = Visited(F, e, Seen, h)
         /\ \A F, p : StrayDone(F, p)' = StrayDone(F, p)
<1>1. /\ \A r : Readable(r)' = Readable(r)
      /\ \A r : Goes(r)' = Goes(r)
      /\ \A l, r : After(l, r)' = After(l, r)
      /\ \A e, p : Kind(e, p)' = Kind(e, p)
      /\ Entries' = Entries
  BY DEF Readable, Goes, After, Kind, Entries
<1>2. \A l : Places(l)' = Places(l)
  BY <1>1 DEF Places
<1>3. \A l, S : Closed(l, S)' = Closed(l, S)
  BY <1>1 DEF Closed
<1>4. \A l : Records(l)' = Records(l)
  BY <1>2, <1>3 DEF Records
<1>5. \A e : Claimed(e)' = Claimed(e)
  BY <1>1, <1>4 DEF Claimed
<1>6. Tabled' = Tabled /\ Bare' = Bare
  BY <1>1 DEF Tabled, Bare
<1>7. \A F, e, p : Taken(F, e, p)' = Taken(F, e, p)
  BY <1>1 DEF Taken
<1>8. \A F, n : EntryDone(F, n)' = EntryDone(F, n)
  BY <1>1, <1>5, <1>7 DEF EntryDone
<1>9. \A F, e, r : RecordDone(F, e, r)' = RecordDone(F, e, r)
  BY <1>1, <1>7 DEF RecordDone
<1>10. \A F, e, Seen, h : Visited(F, e, Seen, h)' = Visited(F, e, Seen, h)
  BY <1>1, <1>9 DEF Visited
<1>11. Listed' = Listed
  <2>1. \A e : Behind(e)' = Behind(e)
    BY <1>1, <1>5 DEF Behind
  <2>2. EntrySet' = EntrySet
    BY <1>1 DEF EntrySet
  <2>3. UNION {Behind(e) : e \in EntrySet}' = UNION {Behind(e) : e \in EntrySet}
    BY <2>1, <2>2
  <2> QED
    BY <1>1, <2>3 DEF Listed
<1>12. \A F, p : StrayDone(F, p)' = StrayDone(F, p)
  BY <1>1 DEF StrayDone
<1> QED
  BY <1>1, <1>4, <1>6, <1>8, <1>10, <1>11, <1>12

\* What was found stays found.
LEMMA MoreFound ==
  ASSUME NEW F, NEW G, F \subseteq G
  PROVE  /\ \A n : EntryDone(F, n) => EntryDone(G, n)
         /\ \A e, Seen, h : Visited(F, e, Seen, h) => Visited(G, e, Seen, h)
         /\ \A p : StrayDone(F, p) => StrayDone(G, p)
<1>1. \A e, p : Taken(F, e, p) => Taken(G, e, p)
  BY DEF Taken
<1>2. \A e, r : RecordDone(F, e, r) => RecordDone(G, e, r)
  BY <1>1 DEF RecordDone
<1> QED
  BY <1>1, <1>2 DEF EntryDone, Visited, StrayDone

-----------------------------------------------------------------------------
(* Chains *)

LEMMA ChainStarts == \A l : l \in Records(l)
  BY DEF Records, Places, Closed

LEMMA ChainGoesOn ==
  ASSUME NEW l, NEW r \in Records(l), Goes(r)
  PROVE  After(l, r) \in Records(l)
<1>1. r \in DOMAIN drive
  BY DEF Goes, Readable
<1>2. After(l, r) \in Places(l)
  BY <1>1 DEF Places
<1> QED
  BY <1>2 DEF Records, Closed

\* When the records looked at lead to no other, the entry is done.
LEMMA ChainDone ==
  ASSUME NEW F, NEW n, Entries[n].type = "extended", NEW W, Entries[n].lba \in W,
         \A r \in W : /\ RecordDone(F, Entries[n], r)
                      /\ Goes(r) => After(Entries[n].lba, r) \in W
  PROVE  EntryDone(F, n)
<1> DEFINE l == Entries[n].lba
           S == W \intersect Places(l)
<1>1. Closed(l, S)
  <2>1. l \in S
    BY DEF Places
  <2>2. ASSUME NEW r \in S, Goes(r) PROVE After(l, r) \in S
    <3>1. r \in DOMAIN drive
      BY <2>2 DEF Goes, Readable
    <3>2. After(l, r) \in Places(l)
      BY <2>2, <3>1 DEF Places
    <3> QED
      BY <2>2, <3>2
  <2> QED
    BY <2>1, <2>2 DEF Closed
<1>2. Records(l) \subseteq W
  BY <1>1 DEF Records
<1>3. Claimed(Entries[n]) =
        {r + drive[r].ebr[1].part : r \in {r \in Records(l) : Readable(r) /\ drive[r].ebr # <<>>}}
  BY DEF Claimed
<1> QED
  BY <1>2, <1>3 DEF EntryDone, RecordDone

-----------------------------------------------------------------------------
(* ntfsFindPartitions: its steps *)

\* A step that looks at a partition, or at none.
Grows ==
  /\ drive' = drive /\ gone' = gone
  /\ found' \in Seq(Listed) /\ FoundSet \subseteq FoundSet' /\ Len(found) <= Len(found')

LEMMA GrowsKeeps ==
  ASSUME SearchType, Grows, Counts'
  PROVE  Counts
<1>1. Len(found) \in Nat /\ Len(found') \in Nat
  BY DEF SearchType, Grows
<1> QED
  BY <1>1, PartitionsAssumption DEF Counts, Grows

LEMMA Unmoved ==
  ASSUME SearchType, drive' = drive, gone' = gone, found' = found
  PROVE  Grows
<1>1. Len(found) \in Nat
  BY DEF SearchType
<1> QED
  BY <1>1 DEF Grows, SearchType, FoundSet

LEMMA Added ==
  ASSUME SearchType, drive' = drive, gone' = gone, NEW p, NEW k,
         [lba |-> p, type |-> k] \in Listed, found' = Add(found, p, k)
  PROVE  Grows /\ (Counts' => [lba |-> p, type |-> k] \in FoundSet')
<1>1. found \in Seq(Listed)
  BY DEF SearchType
<1>a. /\ found' \in Seq(Listed) /\ Len(found') >= Len(found)
      /\ FoundSet \subseteq FoundSet'
      /\ Len(found) < MaxPartitions => [lba |-> p, type |-> k] \in FoundSet'
  <2> DEFINE f == Add(found, p, k)
  <2>1. /\ f \in Seq(Listed) /\ Len(f) >= Len(found)
        /\ {found[n] : n \in 1..Len(found)} \subseteq {f[n] : n \in 1..Len(f)}
        /\ Len(found) < MaxPartitions => [lba |-> p, type |-> k] \in {f[n] : n \in 1..Len(f)}
    BY <1>1, AddFacts
  <2> HIDE DEF f
  <2>2. found' = f /\ FoundSet' = {f[n] : n \in 1..Len(f)}
    BY DEF f, FoundSet
  <2> QED
    BY <2>1, <2>2 DEF FoundSet
<1>2. Grows
  <2>1. Len(found) \in Nat /\ Len(found') \in Nat
    BY <1>1, <1>a
  <2> QED
    BY <1>a, <2>1 DEF Grows
<1>3. Counts' => Len(found) < MaxPartitions
  BY <1>2, GrowsKeeps DEF Counts
<1> QED
  BY <1>a, <1>2, <1>3

\* The entry in turn is done, and the search goes on to the next.
LEMMA FollowingStep ==
  ASSUME SearchInv, pc \in {"primary", "chain"}, Grows, Following,
         Counts' => EntryDone(FoundSet', turn)
  PROVE  SearchInv'
<1>1. Tabled /\ turn \in 1..Len(Entries) /\ SearchType
  BY DEF SearchInv, TableInv
<1>2. /\ Listed' = Listed /\ Entries' = Entries /\ Tabled' /\ Len(Entries) \in Nat
      /\ \A F, n : EntryDone(F, n)' = EntryDone(F, n)
  <2>1. Len(Entries) \in Nat
    BY <1>1, DriveFacts DEF SearchType, Tabled
  <2> QED
    BY <1>1, <2>1, SameDrive DEF Grows
<1>3. Counts' => \A n \in 1..turn : EntryDone(FoundSet', n)
  <2> SUFFICES ASSUME Counts', NEW n \in 1..turn PROVE EntryDone(FoundSet', n)
    OBVIOUS
  <2>1. CASE n = turn
    BY <2>1
  <2>2. CASE n \in 1..(turn - 1)
    <3>1. EntryDone(FoundSet, n)
      BY <2>2, GrowsKeeps, <1>1 DEF SearchInv, TableInv
    <3> QED
      BY <3>1, MoreFound DEF Grows
  <2> QED
    BY <1>1, <1>2, <2>1, <2>2
<1>4. SearchType'
  BY <1>1, <1>2 DEF SearchType, Grows, Following
<1>5. CASE turn < Len(Entries)
  <2>1. pc' = "primary" /\ turn' = turn + 1 /\ turn' \in 1..Len(Entries) /\ turn' - 1 = turn
    BY <1>1, <1>2, <1>5 DEF Following
  <2>2. Counts' => \A n \in 1..(turn' - 1) : EntryDone(FoundSet, n)'
    BY <1>2, <1>3, <2>1
  <2>3. TableInv'
    BY <1>2, <2>1, <2>2 DEF TableInv
  <2> QED
    BY <1>4, <2>1, <2>3 DEF SearchInv, ChainInv, StrayInv, EndInv
<1>6. CASE ~(turn < Len(Entries))
  <2>1. pc' = "return" /\ turn = Len(Entries)
    BY <1>1, <1>2, <1>6 DEF Following
  <2>2. Counts' => Listed \subseteq FoundSet'
    BY <1>1, <1>3, <2>1, AllEntriesDone
  <2> QED
    BY <1>2, <1>4, <2>1, <2>2 DEF SearchInv, TableInv, ChainInv, StrayInv, EndInv
<1> QED
  BY <1>5, <1>6

LEMMA StutterStep ==
  ASSUME SearchInv, UNCHANGED search_vars
  PROVE  SearchInv'
<1>1. /\ drive' = drive /\ gone' = gone /\ pc' = pc /\ turn' = turn /\ ebr_lba' = ebr_lba
      /\ next_erb_lba' = next_erb_lba /\ found' = found
  BY DEF search_vars
<1>2. /\ Listed' = Listed /\ Entries' = Entries /\ Tabled' = Tabled /\ Bare' = Bare
      /\ FoundSet' = FoundSet /\ Counts' = Counts /\ Here' = Here
      /\ \A l : Records(l)' = Records(l)
      /\ \A F, n : EntryDone(F, n)' = EntryDone(F, n)
      /\ \A F, e, Seen, h : Visited(F, e, Seen, h)' = Visited(F, e, Seen, h)
      /\ \A F, p : StrayDone(F, p)' = StrayDone(F, p)
  BY <1>1, SameDrive DEF FoundSet, Counts, Here
<1>3. SearchType'
  BY <1>1, <1>2 DEF SearchInv, SearchType
<1>4. TableInv'
  BY <1>1, <1>2 DEF SearchInv, TableInv
<1>5. ChainInv'
  BY <1>1, <1>2 DEF SearchInv, ChainInv
<1>6. StrayInv' /\ EndInv'
  BY <1>1, <1>2 DEF SearchInv, StrayInv, EndInv
<1> QED
  BY <1>3, <1>4, <1>5, <1>6 DEF SearchInv

\* One partition that entry e may lead to: it is added if it is one.
LEMMA OnePartition ==
  ASSUME SearchInv, Tabled, NEW n \in 1..Len(Entries), NEW p \in Claimed(Entries[n]),
         drive' = drive, gone' = gone,
         found' = IF ~Reads(p) \/ Kind(Entries[n], p) = "none" THEN found
                  ELSE Add(found, p, Kind(Entries[n], p))
  PROVE  Grows /\ (Counts' => Taken(FoundSet', Entries[n], p))
<1>1. SearchType
  BY DEF SearchInv
<1> DEFINE e == Entries[n]
<1> HIDE DEF e
<1>2. CASE Reads(p) /\ Kind(e, p) # "none"
  <2>1. Readable(p)
    BY <1>2 DEF Reads, Readable
  <2>2. [lba |-> p, type |-> Kind(e, p)] \in Listed
    BY <1>2, <2>1, ListedByEntry DEF e
  <2>3. found' = Add(found, p, Kind(e, p))
    BY <1>2 DEF e
  <2>4. Grows /\ (Counts' => [lba |-> p, type |-> Kind(e, p)] \in FoundSet')
    BY <1>1, <2>2, <2>3, Added
  <2> QED
    BY <2>4 DEF Taken, e
<1>3. CASE ~Reads(p) \/ Kind(e, p) = "none"
  <2>1. found' = found
    BY <1>3 DEF e
  <2>2. Grows
    BY <1>1, <2>1, Unmoved
  <2>3. Counts' => ~Readable(p) \/ Kind(e, p) = "none"
    BY <1>3, <2>2 DEF Counts, Grows, Reads, Readable
  <2> QED
    BY <2>2, <2>3 DEF Taken, e
<1> QED
  BY <1>2, <1>3

LEMMA PrimaryStep ==
  ASSUME SearchInv, Primary
  PROVE  SearchInv'
<1>1. /\ pc = "primary" /\ SearchType /\ Tabled /\ turn \in 1..Len(Entries)
      /\ drive' = drive /\ gone' = gone /\ Following
  BY DEF SearchInv, TableInv, Primary
<1> DEFINE e == Entries[turn]
<1>2. e.type \in {"empty", "ntfs", "linux", "other"}
  <2>1. e.type \in {"empty", "ntfs", "linux", "extended", "other"}
    BY <1>1, EntryFacts DEF SearchType, Tabled
  <2> QED
    BY <2>1 DEF Primary
<1>3. found' = IF e.type = "empty" \/ ~Reads(e.lba) THEN found
               ELSE IF e.type = "linux"
               THEN IF drive[e.lba].ext THEN Add(found, e.lba, "ext") ELSE found
               ELSE IF e.type = "ntfs"
               THEN IF drive[e.lba].ntfs THEN Add(found, e.lba, "ntfs") ELSE found
               ELSE Either(e.lba)
  BY DEF Primary
<1>4. CASE e.type = "empty"
  <2>1. Claimed(e) = {}
    BY <1>4 DEF Claimed
  <2>2. Grows
    BY <1>1, <1>3, <1>4, Unmoved
  <2>3. EntryDone(FoundSet', turn)
    BY <2>1 DEF EntryDone
  <2> QED
    BY <1>1, <2>2, <2>3, FollowingStep
<1>5. CASE e.type # "empty"
  <2>1. Claimed(e) = {e.lba}
    BY <1>2, <1>5 DEF Claimed
  <2>2. found' = IF ~Reads(e.lba) \/ Kind(e, e.lba) = "none" THEN found
                 ELSE Add(found, e.lba, Kind(e, e.lba))
    BY <1>2, <1>3, <1>5 DEF Kind, Either
  <2>3. Grows /\ (Counts' => Taken(FoundSet', e, e.lba))
    <3>1. e.lba \in Claimed(Entries[turn])
      BY <2>1
    <3> QED
      BY <1>1, <2>2, <3>1, OnePartition
  <2>4. Counts' => EntryDone(FoundSet', turn)
    BY <2>1, <2>3 DEF EntryDone
  <2> QED
    BY <1>1, <2>3, <2>4, FollowingStep
<1> QED
  BY <1>4, <1>5

LEMMA ExtendedStep ==
  ASSUME SearchInv, Extended
  PROVE  SearchInv'
<1>1. /\ SearchType /\ Tabled /\ turn \in 1..Len(Entries) /\ Entries[turn].type = "extended"
      /\ Counts => \A n \in 1..(turn - 1) : EntryDone(FoundSet, n)
  BY DEF SearchInv, TableInv, Extended
<1>2. /\ drive' = drive /\ gone' = gone /\ found' = found /\ turn' = turn /\ pc' = "chain"
      /\ ebr_lba' = Entries[turn].lba /\ next_erb_lba' = 0
  BY DEF Extended
<1>3. Entries[turn].lba \in Nat
  BY <1>1, EntryFacts DEF SearchType, Tabled
<1>4. Here' = Entries[turn].lba
  BY <1>2, <1>3 DEF Here
<1>5. /\ Listed' = Listed /\ Entries' = Entries /\ Tabled' /\ FoundSet' = FoundSet /\ Counts' = Counts
      /\ \A F, n : EntryDone(F, n)' = EntryDone(F, n)
      /\ \A l : Records(l)' = Records(l)
      /\ \A F, e, Seen, h : Visited(F, e, Seen, h)' = Visited(F, e, Seen, h)
  BY <1>1, <1>2, SameDrive DEF FoundSet, Counts
<1>6. SearchType'
  BY <1>1, <1>2, <1>5 DEF SearchType
<1>7. TableInv'
  BY <1>1, <1>2, <1>5 DEF TableInv
<1>8. Visited(FoundSet', Entries[turn], {}, Here')
  BY <1>4 DEF Visited
<1>9. ChainInv'
  <2>1. Here' \in Records(ebr_lba)'
    BY <1>2, <1>4, <1>5, ChainStarts
  <2>2. Visited(FoundSet, Entries[turn], {}, Here)'
    BY <1>2, <1>5, <1>8
  <2> QED
    BY <1>1, <1>2, <1>5, <2>1, <2>2 DEF ChainInv
<1> QED
  BY <1>2, <1>6, <1>7, <1>9 DEF SearchInv, StrayInv, EndInv

\* A chain that ends at a record which leads to no other.
LEMMA ChainEndsStep ==
  ASSUME SearchInv, pc = "chain", Grows, Following,
         Counts' => RecordDone(FoundSet', Entries[turn], Here) /\ ~Goes(Here)
  PROVE  SearchInv'
<1>1. /\ SearchType /\ Entries[turn].type = "extended" 
      /\ Counts => \E Seen : Visited(FoundSet, Entries[turn], Seen, Here)
  BY DEF SearchInv, ChainInv
<1>2. ASSUME Counts' PROVE EntryDone(FoundSet', turn)
  <2>1. PICK Seen : Visited(FoundSet, Entries[turn], Seen, Here)
    BY <1>1, <1>2, GrowsKeeps
  <2>2. Visited(FoundSet', Entries[turn], Seen, Here)
    BY <2>1, MoreFound DEF Grows
  <2> DEFINE W == Seen \union {Here}
  <2>3. Entries[turn].lba \in W
    BY <2>2 DEF Visited
  <2>4. \A r \in W : /\ RecordDone(FoundSet', Entries[turn], r)
                     /\ Goes(r) => After(Entries[turn].lba, r) \in W
    BY <1>2, <2>2 DEF Visited
  <2> HIDE DEF W
  <2> QED
    BY <1>1, <2>3, <2>4, ChainDone
<1> QED
  BY <1>2, FollowingStep

LEMMA LogicalStep ==
  ASSUME SearchInv, Logical
  PROVE  SearchInv'
<1> DEFINE e    == Entries[turn]
           ebr  == drive[Here].ebr
           part == Here + ebr[1].part
<1>1. /\ pc = "chain" /\ SearchType /\ Tabled /\ turn \in 1..Len(Entries)
      /\ e.type = "extended" /\ ebr_lba = e.lba /\ Here \in Records(ebr_lba)
      /\ Counts => \A n \in 1..(turn - 1) : EntryDone(FoundSet, n)
      /\ Counts => \E Seen : Visited(FoundSet, e, Seen, Here)
  BY DEF SearchInv, TableInv, ChainInv, Logical
<1>2. /\ Reads(Here) /\ ebr # <<>> /\ drive' = drive /\ gone' = gone
      /\ found' = IF Reads(part) THEN Either(part) ELSE found
      /\ next_erb_lba' = ebr[1].next /\ ebr_lba' = ebr_lba /\ Loop
  BY DEF Logical, Here, NextRecord
<1>3. Readable(Here)
  BY <1>2 DEF Reads, Readable
<1>4. part \in Claimed(e)
  <2>1. Claimed(e) =
          {r + drive[r].ebr[1].part : r \in {r \in Records(e.lba) : Readable(r) /\ drive[r].ebr # <<>>}}
    BY <1>1 DEF Claimed
  <2> QED
    BY <1>1, <1>2, <1>3, <2>1
<1>5. found' = IF ~Reads(part) \/ Kind(e, part) = "none" THEN found ELSE Add(found, part, Kind(e, part))
  BY <1>1, <1>2 DEF Kind, Either
<1>6. Grows /\ (Counts' => Taken(FoundSet', e, part))
  BY <1>1, <1>2, <1>4, <1>5, OnePartition
<1>7. Counts' => RecordDone(FoundSet', e, Here)
  BY <1>6 DEF RecordDone
<1>n. ebr[1].next \in Nat
  <2> DEFINE R == [part : Nat, next : Nat]
  <2>1. ebr \in Seq(R)
    BY <1>1, <1>3, DriveFacts DEF SearchType
  <2> HIDE DEF ebr, R
  <2>2. 1 \in 1..Len(ebr)
    BY <1>2, <2>1
  <2>3. ebr[1] \in R
    BY <2>1, <2>2
  <2> QED
    BY <2>3 DEF R
<1>8. CASE next_erb_lba' = 0
  <2>1. ~Goes(Here) /\ Following
    BY <1>2, <1>8 DEF Goes, Loop
  <2> QED
    BY <1>1, <1>6, <1>7, <2>1, ChainEndsStep
<1>9. CASE next_erb_lba' # 0
  <2>1. Goes(Here) /\ UNCHANGED <<pc, turn>>
    BY <1>2, <1>3, <1>9 DEF Goes, Loop
  <2>2. Here' = After(e.lba, Here)
    BY <1>1, <1>2 DEF Here, After
  <2>3. Here' \in Records(ebr_lba)
    BY <1>1, <2>1, <2>2, ChainGoesOn
  <2>4. ASSUME Counts' PROVE \E Seen : Visited(FoundSet', e, Seen, Here')
    <3>1. PICK Seen : Visited(FoundSet, e, Seen, Here)
      BY <1>1, <1>6, <2>4, GrowsKeeps
    <3>2. Visited(FoundSet', e, Seen, Here)
      BY <1>6, <3>1, MoreFound DEF Grows
    <3>3. Visited(FoundSet', e, Seen \union {Here}, Here')
      BY <1>7, <2>2, <2>4, <3>2 DEF Visited
    <3> QED
      BY <3>3
  <2>5. Counts' => \A n \in 1..(turn - 1) : EntryDone(FoundSet', n)
    BY <1>1, <1>6, GrowsKeeps, MoreFound DEF Grows
  <2>6. /\ Listed' = Listed /\ Entries' = Entries /\ Tabled'
        /\ \A F, n : EntryDone(F, n)' = EntryDone(F, n)
        /\ \A l : Records(l)' = Records(l)
        /\ \A F, f, Seen, h : Visited(F, f, Seen, h)' = Visited(F, f, Seen, h)
    BY <1>1, <1>2, SameDrive
  <2> HIDE DEF e, ebr, part
  <2>7. SearchType'
    BY <1>1, <1>6, <2>1, <2>6 DEF SearchType, Grows
  <2>8. TableInv'
    BY <1>1, <2>1, <2>5, <2>6 DEF TableInv
  <2>9. ChainInv'
    <3>1. Counts' => \E Seen : Visited(FoundSet, Entries[turn], Seen, Here)'
      BY <2>1, <2>4, <2>6 DEF e
    <3>2. Here' \in Records(ebr_lba)'
      BY <1>2, <2>3, <2>6
    <3> QED
      BY <1>1, <1>2, <1>n, <2>1, <2>6, <3>1, <3>2 DEF ChainInv, e
  <2> QED
    BY <1>1, <2>1, <2>7, <2>8, <2>9 DEF SearchInv, StrayInv, EndInv
<1> QED
  BY <1>8, <1>9

LEMMA ChainEndsOrFails ==
  ASSUME SearchInv, ChainEnds \/ ChainFails
  PROVE  SearchInv'
<1>1. pc = "chain" /\ SearchType /\ drive' = drive /\ gone' = gone /\ found' = found
  BY DEF SearchInv, ChainEnds, ChainFails
<1>2. Grows
  BY <1>1, Unmoved
<1>3. CASE ChainEnds
  <2>1. drive[Here].ebr = <<>> /\ Following
    BY <1>3 DEF ChainEnds, Here
  <2>2. RecordDone(FoundSet', Entries[turn], Here) /\ ~Goes(Here)
    BY <2>1 DEF RecordDone, Goes
  <2> QED
    BY <1>1, <1>2, <2>1, <2>2, ChainEndsStep
<1>4. CASE ChainFails /\ next_erb_lba' = 0
  <2>1. ~Reads(Here) /\ Following
    BY <1>4 DEF ChainFails, Loop, Here
  <2>2. Counts' => ~Readable(Here)
    BY <1>1, <2>1 DEF Counts, Reads, Readable
  <2>3. Counts' => RecordDone(FoundSet', Entries[turn], Here) /\ ~Goes(Here)
    BY <2>2 DEF RecordDone, Goes
  <2> QED
    BY <1>1, <1>2, <2>1, <2>3, ChainEndsStep
<1>5. CASE ChainFails /\ next_erb_lba' # 0
  <2>1. UNCHANGED search_vars
    BY <1>5 DEF ChainFails, Loop, search_vars
  <2> QED
    BY <2>1, StutterStep
<1> QED
  BY <1>3, <1>4, <1>5

LEMMA StraySectorStep ==
  ASSUME SearchInv, StraySector
  PROVE  SearchInv'
<1>1. /\ pc = "stray" /\ SearchType /\ Bare /\ turn \in 0..(Stray - 1)
      /\ Counts => \A p \in 0..(turn - 1) : StrayDone(FoundSet, p)
      /\ drive' = drive /\ gone' = gone
      /\ found' = IF Reads(turn) /\ drive[turn].ntfs THEN Add(found, turn, "ntfs") ELSE found
  BY DEF SearchInv, StrayInv, StraySector
<1>2. Grows /\ (Counts' => StrayDone(FoundSet', turn))
  <2>1. CASE Reads(turn) /\ drive[turn].ntfs
    <3>1. Readable(turn)
      BY <2>1 DEF Reads, Readable
    <3>2. [lba |-> turn, type |-> "ntfs"] \in Listed
      BY <1>1, <2>1, <3>1, ListedBare
    <3>3. Grows /\ (Counts' => [lba |-> turn, type |-> "ntfs"] \in FoundSet')
      BY <1>1, <2>1, <3>2, Added
    <3> QED
      BY <3>3 DEF StrayDone
  <2>2. CASE ~(Reads(turn) /\ drive[turn].ntfs)
    <3>1. Grows
      BY <1>1, <2>2, Unmoved
    <3> QED
      BY <1>1, <2>2, <3>1 DEF StrayDone, Counts, Reads, Readable
  <2> QED
    BY <2>1, <2>2
<1>3. Counts' => \A p \in 0..turn : StrayDone(FoundSet', p)
  <2> SUFFICES ASSUME Counts', NEW p \in 0..turn PROVE StrayDone(FoundSet', p)
    OBVIOUS
  <2>1. CASE p = turn
    BY <1>2, <2>1
  <2>2. CASE p \in 0..(turn - 1)
    BY <1>1, <1>2, <2>2, GrowsKeeps, MoreFound DEF Grows
  <2> QED
    BY <1>1, <2>1, <2>2
<1>4. /\ Listed' = Listed /\ Bare' /\ \A F, p : StrayDone(F, p)' = StrayDone(F, p)
  BY <1>1, SameDrive
<1>5. CASE turn + 1 < Stray
  <2>1. turn' = turn + 1 /\ pc' = "stray" /\ turn' \in 0..(Stray - 1) /\ turn' - 1 = turn
    BY <1>1, <1>5, PartitionsAssumption DEF StraySector
  <2>2. Counts' => \A p \in 0..(turn' - 1) : StrayDone(FoundSet, p)'
    BY <1>3, <1>4, <2>1
  <2>3. SearchType' /\ StrayInv'
    BY <1>1, <1>2, <1>4, <2>1, <2>2 DEF SearchType, StrayInv, Grows
  <2> QED
    BY <2>1, <2>3 DEF SearchInv, TableInv, ChainInv, EndInv
<1>6. CASE ~(turn + 1 < Stray)
  <2>1. turn = Stray - 1 /\ pc' = "return"
    BY <1>1, <1>6, PartitionsAssumption DEF StraySector
  <2>2. Counts' => Listed \subseteq FoundSet'
    BY <1>1, <1>3, <2>1, ListedBare DEF StrayDone
  <2>3. SearchType' /\ EndInv'
    BY <1>1, <1>2, <1>4, <2>1, <2>2 DEF SearchType, EndInv, Grows
  <2> QED
    BY <2>1, <2>3 DEF SearchInv, TableInv, ChainInv, StrayInv
<1> QED
  BY <1>5, <1>6

LEMMA FirstStep ==
  ASSUME SearchInv, ReadFirst
  PROVE  SearchInv'
<1>1. /\ pc = "first" /\ SearchType /\ drive' = drive /\ gone' = gone /\ found' = found /\ Readable(0)
  BY DEF SearchInv, ReadFirst, Reads, Readable
<1>2. Listed' = Listed /\ Entries' = Entries /\ Tabled' = Tabled /\ Bare' = Bare
  BY <1>1, SameDrive
<1>3. CASE Tabled
  <2>1. pc' = "primary" /\ turn' = 1
    BY <1>3 DEF ReadFirst, Tabled
  <2>2. 1 \in 1..Len(Entries)
    BY <1>1, <1>3, DriveFacts DEF Tabled, SearchType
  <2>3. SearchType' /\ TableInv'
    BY <1>1, <1>2, <1>3, <2>1, <2>2 DEF SearchType, TableInv
  <2> QED
    BY <2>1, <2>3 DEF SearchInv, ChainInv, StrayInv, EndInv
<1>4. CASE Bare
  <2>1. pc' = "stray" /\ turn' = 0
    BY <1>4 DEF ReadFirst, Bare, Tabled
  <2>2. SearchType' /\ StrayInv'
    BY <1>1, <1>2, <1>4, <2>1, PartitionsAssumption DEF SearchType, StrayInv
  <2> QED
    BY <2>1, <2>2 DEF SearchInv, TableInv, ChainInv, EndInv
<1> QED
  BY <1>1, <1>3, <1>4 DEF Bare

\* The end of the search, and the drive being pulled out.
LEMMA OtherSteps ==
  ASSUME SearchInv, ReadFirstFails \/ SearchDone \/ NoMemory \/ Pull
  PROVE  SearchInv'
<1>1. SearchType /\ drive' = drive /\ found' = found
  BY DEF SearchInv, ReadFirstFails, SearchDone, NoMemory, Pull
<1>2. /\ Listed' = Listed /\ Entries' = Entries /\ Tabled' = Tabled /\ Bare' = Bare
      /\ FoundSet' = FoundSet /\ \A l : Records(l)' = Records(l)
  BY <1>1, SameDrive DEF FoundSet
<1>3. CASE Pull
  <2>1. ~Counts' /\ UNCHANGED <<pc, turn, ebr_lba, next_erb_lba>> /\ Here' = Here /\ gone' \in BOOLEAN
    BY <1>3 DEF Pull, Counts, Here
  <2>2. SearchType' /\ TableInv'
    BY <1>1, <1>2, <2>1 DEF SearchInv, SearchType, TableInv
  <2>3. ChainInv'
    BY <1>2, <2>1 DEF SearchInv, ChainInv
  <2>4. StrayInv' /\ EndInv'
    BY <1>2, <2>1 DEF SearchInv, StrayInv, EndInv
  <2> QED
    BY <2>2, <2>3, <2>4 DEF SearchInv
<1>4. CASE ReadFirstFails \/ NoMemory
  <2>1. pc' = "failed" /\ gone' = gone
    BY <1>4 DEF ReadFirstFails, NoMemory
  <2> QED
    BY <1>1, <1>2, <2>1 DEF SearchInv, SearchType, TableInv, ChainInv, StrayInv, EndInv
<1>5. CASE SearchDone
  <2>1. pc = "return" /\ pc' = "done" /\ gone' = gone
    BY <1>5 DEF SearchDone
  <2> QED
    BY <1>1, <1>2, <2>1 DEF SearchInv, SearchType, TableInv, ChainInv, StrayInv, EndInv, Counts
<1> QED
  BY <1>3, <1>4, <1>5

LEMMA SearchStart == SearchInit => SearchInv
<1> SUFFICES ASSUME SearchInit PROVE SearchInv
  OBVIOUS
<1>1. pc = "first" /\ drive \in Drives /\ gone \in BOOLEAN /\ found = <<>>
  BY DEF SearchInit
<1>2. <<>> \in Seq(Listed)
  OBVIOUS
<1> QED
  BY <1>1, <1>2 DEF SearchInv, SearchType, TableInv, ChainInv, StrayInv, EndInv

\* What ntfsFindPartitions has found is what the drive has: nothing else at any
\* time, and all of it at the end, for every drive, however long its chains of
\* extended boot records are and wherever they lead (ntfs.c:101-353).
THEOREM SearchFindsPartitions == SearchSpec => []PartitionsFound
<1>1. SearchInit => SearchInv
  BY SearchStart
<1>2. SearchInv /\ [SearchNext]_search_vars => SearchInv'
  BY FirstStep, PrimaryStep, ExtendedStep, LogicalStep, ChainEndsOrFails, StraySectorStep,
     OtherSteps, StutterStep DEF SearchNext, Search
<1>3. SearchInv => PartitionsFound
  <2> SUFFICES ASSUME SearchInv PROVE PartitionsFound
    OBVIOUS
  <2>1. FoundSet \subseteq Listed
    BY DEF SearchInv, SearchType, FoundSet
  <2>2. pc = "done" /\ ~gone /\ Len(found) < MaxPartitions => FoundSet = Listed
    BY <2>1 DEF SearchInv, EndInv, Counts
  <2> QED
    BY <2>1, <2>2 DEF PartitionsFound, FoundSet
<1> QED
  BY <1>1, <1>2, <1>3, PTL DEF SearchSpec
=============================================================================
