------------------------- MODULE FileSectionsProofs -------------------------
(***************************************************************************)
(* The section table that ntfs_file_to_sectors makes of a runlist          *)
(* describes the file, for every sector and cluster size, every runlist    *)
(* and every number of volumes.                                            *)
(***************************************************************************)
EXTENDS FileSections, WellFoundedInduction, TLAPS

-----------------------------------------------------------------------------
(* Running sums *)

\* f holds the sums of the first entries of d.
IsSum(f, d, n) ==
  /\ f \in [1..(n + 1) -> Nat]
  /\ f[1] = 0
  /\ \A k \in 1..n : f[k + 1] = f[k] + d[k]

\* Every non-empty set of naturals has a least element.
LEMMA LeastNat ==
  ASSUME NEW T, T \subseteq Nat, T # {} PROVE \E x \in T : \A y \in T : x <= y
<1> DEFINE LT == {ss \in Nat \X Nat : ss[1] < ss[2]}
<1>1. IsWellFoundedOn(LT, Nat)
  BY NatLessThanWellFounded DEF OpToRel
<1>2. \E x \in T : \A y \in T : ~(<<y, x>> \in LT)
  <2> HIDE DEF LT
  <2> QED
    BY <1>1, WFMin
<1>3. PICK x \in T : \A y \in T : ~(<<y, x>> \in LT)
  BY <1>2
<1>4. ASSUME NEW y \in T PROVE x <= y
  <2>1. x \in Nat /\ y \in Nat
    OBVIOUS
  <2>2. SUFFICES ASSUME y < x PROVE FALSE
    BY <2>1
  <2>3. <<y, x>> \in LT
    BY <2>1, <2>2
  <2> QED
    BY <1>3, <2>3
<1> QED
  BY <1>4

\* The sums of n entries exist: the first number of entries for which they did
\* not would be one more than a number for which they do.
LEMMA SumExists ==
  ASSUME NEW n \in Nat, NEW d, \A k \in 1..n : d[k] \in Nat
  PROVE  \E f : IsSum(f, d, n)
<1> DEFINE Bad == {m \in 0..n : ~\E f : IsSum(f, d, m)}
<1>1. SUFFICES ASSUME n \in Bad PROVE FALSE
  OBVIOUS
<1>2. PICK x \in Bad : \A y \in Bad : x <= y
  <2>1. Bad \subseteq Nat /\ Bad # {}
    BY <1>1
  <2> HIDE DEF Bad
  <2> QED
    BY <2>1, LeastNat
<1>3. x \in 0..n /\ ~\E f : IsSum(f, d, x)
  OBVIOUS
<1>4. x # 0
  <2>1. IsSum([k \in 1..1 |-> 0], d, 0)
    BY DEF IsSum
  <2> QED
    BY <1>3, <2>1
<1>5. x - 1 \in 0..n /\ x - 1 \in Nat /\ x - 1 < x
  BY <1>3, <1>4
<1>6. PICK f : IsSum(f, d, x - 1)
  BY <1>2, <1>3, <1>5
<1> DEFINE g == [k \in 1..(x + 1) |-> IF k = x + 1 THEN f[x] + d[x] ELSE f[k]]
<1>7. f \in [1..x -> Nat] /\ f[1] = 0 /\ \A k \in 1..(x - 1) : f[k + 1] = f[k] + d[k]
  <2>1. (x - 1) + 1 = x
    BY <1>5, <1>3
  <2> QED
    BY <1>6, <2>1 DEF IsSum
<1>8. d[x] \in Nat /\ f[x] \in Nat
  BY <1>3, <1>4, <1>7
<1>9. IsSum(g, d, x)
  <2>1. g \in [1..(x + 1) -> Nat]
    BY <1>3, <1>7, <1>8
  <2>2. g[1] = 0
    BY <1>3, <1>4, <1>7
  <2>3. ASSUME NEW k \in 1..x PROVE g[k + 1] = g[k] + d[k]
    BY <1>3, <1>4, <1>7, <1>8
  <2> HIDE DEF g
  <2> QED
    BY <2>1, <2>2, <2>3 DEF IsSum
<1> QED
  BY <1>3, <1>9

\* What RunningSum computes.
LEMMA RunningSumIsSum ==
  ASSUME NEW n \in Nat, NEW d, \A k \in 1..n : d[k] \in Nat
  PROVE  IsSum(RunningSum(d, n), d, n)
<1> DEFINE Rec(f) == f = [k \in 1..(n + 1) |-> IF k = 1 THEN 0 ELSE f[k - 1] + d[k - 1]]
<1>1. PICK f : IsSum(f, d, n)
  BY SumExists
<1>2. Rec(f)
  <2>1. ASSUME NEW k \in 1..(n + 1)
        PROVE  f[k] = IF k = 1 THEN 0 ELSE f[k - 1] + d[k - 1]
    <3>1. CASE k = 1
      BY <1>1, <3>1 DEF IsSum
    <3>2. CASE k # 1
      <4>1. k - 1 \in 1..n /\ (k - 1) + 1 = k
        BY <3>2
      <4> QED
        BY <1>1, <3>2, <4>1 DEF IsSum
    <3> QED
      BY <3>1, <3>2
  <2> QED
    BY <1>1, <2>1 DEF IsSum
<1>3. RunningSum(d, n) = CHOOSE h : Rec(h)
  BY Zenon DEF RunningSum
<1>4. Rec(RunningSum(d, n))
  <2> HIDE DEF Rec
  <2> QED
    BY <1>2, <1>3, Zenon
<1> DEFINE h == RunningSum(d, n)
<1>5. h = [k \in 1..(n + 1) |-> IF k = 1 THEN 0 ELSE h[k - 1] + d[k - 1]]
  BY <1>4
<1> HIDE DEF h
<1>6. \A k \in 1..(n + 1) : h[k] = IF k = 1 THEN 0 ELSE h[k - 1] + d[k - 1]
  BY <1>5, Zenon
<1>7. \A k \in 1..(n + 1) : h[k] = f[k]
  <2> DEFINE Bad == {k \in 1..(n + 1) : h[k] # f[k]}
  <2>1. SUFFICES ASSUME Bad # {} PROVE FALSE
    OBVIOUS
  <2>2. PICK x \in Bad : \A y \in Bad : x <= y
    <3>1. Bad \subseteq Nat
      OBVIOUS
    <3> HIDE DEF Bad
    <3> QED
      BY <2>1, <3>1, LeastNat
  <2>3. x \in 1..(n + 1) /\ h[x] # f[x]
    OBVIOUS
  <2>4. f[x] = IF x = 1 THEN 0 ELSE f[x - 1] + d[x - 1]
    BY <1>2, <2>3
  <2>5. h[x] = IF x = 1 THEN 0 ELSE h[x - 1] + d[x - 1]
    BY <1>6, <2>3
  <2>6. x # 1 /\ x - 1 \in 1..(n + 1) /\ x - 1 < x /\ h[x - 1] # f[x - 1]
    BY <2>3, <2>4, <2>5
  <2> QED
    BY <2>2, <2>3, <2>6
<1>8. DOMAIN h = 1..(n + 1) /\ h = [k \in 1..(n + 1) |-> h[k]]
  BY <1>5
<1>9. h = f
  BY <1>1, <1>7, <1>8 DEF IsSum
<1> QED
  BY <1>1, <1>9 DEF h

\* A running sum, at one place.
LEMMA SumStep ==
  ASSUME NEW n \in Nat, NEW d, NEW f, IsSum(f, d, n), NEW k \in 1..n
  PROVE  f[k] \in Nat /\ f[k + 1] \in Nat /\ f[k + 1] = f[k] + d[k]
<1>1. k \in 1..(n + 1) /\ k + 1 \in 1..(n + 1)
  OBVIOUS
<1> QED
  BY <1>1 DEF IsSum

\* Running sums do not decrease.
LEMMA SumOrdered ==
  ASSUME NEW n \in Nat, NEW d, \A k \in 1..n : d[k] \in Nat, NEW f, IsSum(f, d, n),
         NEW a \in 1..(n + 1), NEW b \in 1..(n + 1), a <= b
  PROVE  f[a] <= f[b]
<1> DEFINE Bad == {k \in 1..(n + 1) : a <= k /\ ~(f[a] <= f[k])}
<1>0. \A k \in 1..(n + 1) : f[k] \in Nat
  BY DEF IsSum
<1>1. SUFFICES ASSUME b \in Bad PROVE FALSE
  OBVIOUS
<1>2. PICK x \in Bad : \A y \in Bad : x <= y
  <2>1. Bad \subseteq Nat /\ Bad # {}
    BY <1>1
  <2> HIDE DEF Bad
  <2> QED
    BY <2>1, LeastNat
<1>3. x \in 1..(n + 1) /\ a <= x /\ ~(f[a] <= f[x])
  OBVIOUS
<1>4. a # x
  BY <1>0, <1>3
<1>5. x - 1 \in 1..n /\ a <= x - 1 /\ x - 1 \in 1..(n + 1) /\ (x - 1) + 1 = x
  BY <1>3, <1>4
<1>6. f[a] <= f[x - 1]
  BY <1>0, <1>2, <1>3, <1>5
<1>7. f[x] = f[x - 1] + d[x - 1] /\ d[x - 1] \in Nat
  BY <1>5, SumStep
<1> QED
  BY <1>0, <1>3, <1>5, <1>6, <1>7

\* A number lies between two neighbours of a running sum at one place only.
LEMMA SumUnique ==
  ASSUME NEW n \in Nat, NEW d, \A k \in 1..n : d[k] \in Nat, NEW f, IsSum(f, d, n),
         NEW o \in Nat, NEW a \in 1..n, NEW b \in 1..n,
         f[a] <= o, o < f[a + 1], f[b] <= o, o < f[b + 1]
  PROVE  a = b
<1>1. ASSUME NEW x \in 1..n, NEW y \in 1..n, x < y, f[y] <= o, o < f[x + 1]
      PROVE  FALSE
  <2>1. x + 1 \in 1..(n + 1) /\ y \in 1..(n + 1) /\ x + 1 <= y
    BY <1>1
  <2>2. f[x + 1] <= f[y]
    BY <2>1, SumOrdered
  <2>3. f[x + 1] \in Nat /\ f[y] \in Nat
    BY SumStep
  <2> QED
    BY <1>1, <2>2, <2>3
<1>2. ~(a < b) /\ ~(b < a)
  BY <1>1
<1> QED
  BY <1>2

\* Below the last one, a number does lie between two neighbours.
LEMMA SumCovers ==
  ASSUME NEW n \in Nat, NEW d, NEW f, IsSum(f, d, n), NEW o \in Nat, o < f[n + 1]
  PROVE  \E k \in 1..n : f[k] <= o /\ o < f[k + 1]
<1> DEFINE Above == {k \in 1..(n + 1) : o < f[k]}
<1>0. f[1] = 0 /\ \A k \in 1..(n + 1) : f[k] \in Nat
  BY DEF IsSum
<1>1. PICK x \in Above : \A y \in Above : x <= y
  <2>1. Above \subseteq Nat /\ n + 1 \in Above
    OBVIOUS
  <2> HIDE DEF Above
  <2> QED
    BY <2>1, LeastNat
<1>2. x \in 1..(n + 1) /\ o < f[x]
  OBVIOUS
<1>3. x - 1 \in 1..n /\ x - 1 \in 1..(n + 1) /\ (x - 1) + 1 = x
  BY <1>0, <1>2
<1>4. ~(o < f[x - 1])
  BY <1>1, <1>2, <1>3
<1> QED
  BY <1>0, <1>2, <1>3, <1>4

\* Sums of the same entries are the same.
LEMMA SumAgree ==
  ASSUME NEW n \in Nat, NEW m \in Nat, NEW d, NEW e, NEW f, NEW g,
         IsSum(f, d, n), IsSum(g, e, m),
         NEW j \in 1..(n + 1), j <= m + 1, \A k \in 1..(j - 1) : d[k] = e[k]
  PROVE  f[j] = g[j]
<1> DEFINE Bad == {k \in 1..j : f[k] # g[k]}
<1>1. SUFFICES ASSUME j \in Bad PROVE FALSE
  OBVIOUS
<1>2. PICK x \in Bad : \A y \in Bad : x <= y
  <2>1. Bad \subseteq Nat /\ Bad # {}
    BY <1>1
  <2> HIDE DEF Bad
  <2> QED
    BY <2>1, LeastNat
<1>3. x \in 1..j /\ f[x] # g[x]
  OBVIOUS
<1>4. x # 1
  BY <1>3 DEF IsSum
<1>5. x - 1 \in 1..n /\ x - 1 \in 1..m /\ x - 1 \in 1..(j - 1) /\ x - 1 \in 1..j /\ (x - 1) + 1 = x
  BY <1>3, <1>4
<1>6. f[x - 1] = g[x - 1]
  BY <1>2, <1>3, <1>5
<1>7. f[x] = f[x - 1] + d[x - 1] /\ g[x] = g[x - 1] + e[x - 1] /\ d[x - 1] = e[x - 1]
  BY <1>5, SumStep
<1> QED
  BY <1>3, <1>6, <1>7

\* Sums of clusters, in bytes.
LEMMA SumScaled ==
  ASSUME NEW n \in Nat, NEW d, \A k \in 1..n : d[k] \in Nat, NEW f, IsSum(f, d, n), NEW c \in Nat
  PROVE  /\ IsSum([k \in 1..(n + 1) |-> f[k] * c], [k \in 1..n |-> d[k] * c], n)
         /\ \A k \in 1..n : [j \in 1..n |-> d[j] * c][k] \in Nat
<1>1. \A x \in Nat : x * c \in Nat
  OBVIOUS
<1>2. \A x, y \in Nat : (x + y) * c = x * c + y * c
  OBVIOUS
<1>3. \A k \in 1..(n + 1) : f[k] \in Nat
  BY DEF IsSum
<1> DEFINE g == [k \in 1..(n + 1) |-> f[k] * c]
           e == [k \in 1..n |-> d[k] * c]
<1>4. g \in [1..(n + 1) -> Nat]
  BY <1>1, <1>3
<1>5. g[1] = 0
  <2>1. 1 \in 1..(n + 1) /\ f[1] = 0 /\ 0 * c = 0
    BY DEF IsSum
  <2> QED
    BY <2>1
<1>6. ASSUME NEW k \in 1..n PROVE g[k + 1] = g[k] + e[k]
  <2>1. k \in 1..(n + 1) /\ k + 1 \in 1..(n + 1) /\ f[k] \in Nat /\ d[k] \in Nat /\ f[k + 1] = f[k] + d[k]
    BY <1>3, SumStep
  <2>2. g[k + 1] = f[k + 1] * c /\ g[k] = f[k] * c /\ e[k] = d[k] * c
    BY <2>1
  <2>3. (f[k] + d[k]) * c = f[k] * c + d[k] * c
    BY <1>2, <2>1
  <2> QED
    BY <2>1, <2>2, <2>3
<1>7. IsSum(g, e, n)
  <2> HIDE DEF g, e
  <2> QED
    BY <1>4, <1>5, <1>6 DEF IsSum
<1> QED
  BY <1>1, <1>7

-----------------------------------------------------------------------------
(* Sector arithmetic *)

\* A sector number times the sector size is an address.
LEMMA AddrNat == ASSUME NEW a \in Nat PROVE Addr(a) \in Nat
  BY SectionsAssumption DEF Addr

\* Addresses of sectors add up.
LEMMA AddrSum == ASSUME NEW a \in Nat, NEW b \in Nat PROVE Addr(a + b) = Addr(a) + Addr(b)
  BY SectionsAssumption DEF Addr

\* Addresses of sectors are ordered like the sectors.
LEMMA AddrOrdered == ASSUME NEW a \in Nat, NEW b \in Nat, a <= b PROVE Addr(a) <= Addr(b)
<1>1. PICK c \in Nat : b = a + c
  <2>1. b - a \in Nat /\ b = a + (b - a)
    OBVIOUS
  <2> QED
    BY <2>1
<1>2. Addr(a + c) = Addr(a) + Addr(c) /\ Addr(a) \in Nat /\ Addr(c) \in Nat
  BY AddrSum, AddrNat
<1>3. Addr(a) <= Addr(a + c)
  BY <1>2
<1> QED
  BY <1>1, <1>3, Zenon

\* The sector at the start of the drive.
LEMMA AddrZero == Addr(0) = 0 /\ Addr(1) = SectorSize
  BY SectionsAssumption DEF Addr

\* Sectors that hold x bytes, rounded down and up.
LEMMA SectorsOf ==
  ASSUME NEW x \in Nat
  PROVE  /\ x \div SectorSize \in Nat
         /\ Addr(x \div SectorSize) <= x /\ x < Addr(x \div SectorSize) + SectorSize
         /\ x % SectorSize = 0 => Addr(x \div SectorSize) = x
<1>1. \E q \in Nat, r \in 0..(SectorSize - 1) :
        x = SectorSize * q + r /\ q = x \div SectorSize /\ r = x % SectorSize
  BY SectionsAssumption
<1>2. \E q \in Nat, r \in 0..(SectorSize - 1) :
        x = Addr(q) + r /\ q = x \div SectorSize /\ r = x % SectorSize
  BY <1>1, Zenon DEF Addr
<1>3. PICK q \in Nat, r \in 0..(SectorSize - 1) :
        x = Addr(q) + r /\ q = x \div SectorSize /\ r = x % SectorSize
  BY <1>2
<1>4. Addr(q) \in Nat
  BY AddrNat
<1> QED
  BY <1>3, <1>4, SectionsAssumption

\* The sectors of a whole number of sectors.
LEMMA SectorsOfAddr ==
  ASSUME NEW a \in Nat PROVE Addr(a) \div SectorSize = a /\ Addr(a) % SectorSize = 0
<1>1. (SectorSize * a) \div SectorSize = a /\ (SectorSize * a) % SectorSize = 0
  BY SectionsAssumption
<1> QED
  BY <1>1, Zenon DEF Addr

\* Sectors of a cluster.
SectorsPerCluster == ClusterSize \div SectorSize

\* Clusters begin and end with a sector.
LEMMA ClusterAddr ==
  ASSUME NEW a \in Nat
  PROVE  /\ SectorsPerCluster \in Nat \ {0}
         /\ a * SectorsPerCluster \in Nat
         /\ a * ClusterSize = Addr(a * SectorsPerCluster)
<1>1. ClusterSize \in Nat /\ ClusterSize % SectorSize = 0
  BY SectionsAssumption
<1>2. SectorsPerCluster \in Nat /\ ClusterSize = Addr(SectorsPerCluster)
  BY <1>1, SectorsOf DEF SectorsPerCluster
<1>3. SectorsPerCluster # 0
  BY <1>2, AddrZero, SectionsAssumption
<1>4. \A x \in Nat : x * SectorsPerCluster \in Nat
  BY <1>2
<1>5. \A s, k \in Nat : a * (s * k) = s * (a * k)
  OBVIOUS
<1>6. a * ClusterSize = Addr(a * SectorsPerCluster)
  BY <1>2, <1>5, SectionsAssumption DEF Addr
<1> QED
  BY <1>2, <1>3, <1>4, <1>6

\* The sectors of a number of clusters.
LEMMA ClusterSectors ==
  ASSUME NEW a \in Nat
  PROVE  (a * ClusterSize) \div SectorSize = a * SectorsPerCluster /\ (a * ClusterSize) % SectorSize = 0
  BY ClusterAddr, SectorsOfAddr

\* A run has at least one sector.
LEMMA ClusterLarge ==
  ASSUME NEW a \in Nat \ {0}
  PROVE  a * ClusterSize \in Nat /\ SectorSize <= a * ClusterSize
<1>1. \A k \in Nat \ {0} : a * k \in Nat \ {0}
  OBVIOUS
<1>2. a * SectorsPerCluster \in Nat \ {0}
  BY <1>1, ClusterAddr
<1>3. PICK b \in Nat : a * SectorsPerCluster = b + 1
  <2>1. a * SectorsPerCluster - 1 \in Nat /\ a * SectorsPerCluster = (a * SectorsPerCluster - 1) + 1
    BY <1>2
  <2> QED
    BY <2>1
<1>4. Addr(b + 1) = Addr(b) + Addr(1) /\ Addr(b) \in Nat
  BY AddrSum, AddrNat
<1> QED
  BY <1>3, <1>4, ClusterAddr, AddrZero, SectionsAssumption

-----------------------------------------------------------------------------
(* The table in the output arrays *)

Bases(n, size) == RunningSum([k \in 1..n |-> Addr(size[k])], n)

\* What a table's first n sections begin at.
LEMMA BasesIsSum ==
  ASSUME NEW n \in Nat, NEW size, \A k \in 1..n : size[k] \in Nat
  PROVE  /\ \A k \in 1..n : [j \in 1..n |-> Addr(size[j])][k] \in Nat
         /\ IsSum(Bases(n, size), [k \in 1..n |-> Addr(size[k])], n)
<1>1. \A k \in 1..n : [j \in 1..n |-> Addr(size[j])][k] \in Nat
  BY AddrNat
<1> QED
  BY <1>1, RunningSumIsSum DEF Bases

\* Section k begins where the one before ends.
LEMMA BasesStep ==
  ASSUME NEW n \in Nat, NEW size, \A k \in 1..n : size[k] \in Nat
  PROVE  /\ Bases(n, size)[1] = 0
         /\ \A k \in 1..(n + 1) : Bases(n, size)[k] \in Nat
         /\ \A k \in 1..n : Bases(n, size)[k + 1] = Bases(n, size)[k] + Addr(size[k])
<1>1. IsSum(Bases(n, size), [k \in 1..n |-> Addr(size[k])], n)
  BY BasesIsSum
<1> QED
  BY <1>1 DEF IsSum

\* Sections that have the same predecessors begin at the same place.
LEMMA BasesAgree ==
  ASSUME NEW n \in Nat, NEW m \in Nat, NEW size, NEW other,
         \A k \in 1..n : size[k] \in Nat, \A k \in 1..m : other[k] \in Nat,
         NEW j \in 1..(n + 1), j <= m + 1, \A k \in 1..(j - 1) : size[k] = other[k]
  PROVE  Bases(n, size)[j] = Bases(m, other)[j]
<1> DEFINE d == [k \in 1..n |-> Addr(size[k])]
           e == [k \in 1..m |-> Addr(other[k])]
<1>1. IsSum(Bases(n, size), d, n) /\ IsSum(Bases(m, other), e, m)
  BY BasesIsSum
<1>2. \A k \in 1..(j - 1) : d[k] = e[k]
  OBVIOUS
<1> HIDE DEF d, e
<1> QED
  BY <1>1, <1>2, SumAgree

\* What a section of the table says its bytes are.
LEMMA ImageIn ==
  ASSUME NEW n \in Nat, NEW start, NEW size, \A k \in 1..n : size[k] \in Nat,
         NEW k \in 1..n, NEW o \in Nat, Bases(n, size)[k] <= o, o < Bases(n, size)[k + 1]
  PROVE  Image(TableOf(n, start, size), o) =
           IF start[k] = Hole THEN Zero ELSE Addr(start[k]) + (o - Bases(n, size)[k])
<1> DEFINE t == TableOf(n, start, size)
           d == [x \in 1..n |-> Addr(size[x])]
<1>1. t.num = n /\ t.base = Bases(n, size) /\ t.start[k] = start[k]
  BY DEF TableOf, Bases
<1>2. IsSum(Bases(n, size), d, n) /\ \A x \in 1..n : d[x] \in Nat
  BY BasesIsSum
<1>3. ASSUME NEW j \in 1..n, Bases(n, size)[j] <= o, o < Bases(n, size)[j + 1] PROVE j = k
  <2> HIDE DEF d
  <2> QED
    BY <1>2, <1>3, SumUnique
<1> HIDE DEF t
<1>4. InSection(t, o, k) /\ \A j \in 1..t.num : InSection(t, o, j) => j = k
  BY <1>1, <1>3 DEF InSection
<1>5. k \in 1..t.num
  BY <1>1
<1>6. SectionOf(t, o) = k
  BY <1>4, <1>5, Zenon DEF SectionOf
<1>7. k # 0
  OBVIOUS
<1>8. Image(t, o) = IF start[k] = Hole THEN Zero ELSE Addr(start[k]) + (o - Bases(n, size)[k])
  BY <1>1, <1>6, <1>7 DEF Image
<1> QED
  BY <1>8 DEF t

\* Behind its last section a table says zero.
LEMMA ImageBehind ==
  ASSUME NEW n \in Nat, NEW start, NEW size, \A k \in 1..n : size[k] \in Nat,
         NEW o \in Nat, Bases(n, size)[n + 1] <= o
  PROVE  Image(TableOf(n, start, size), o) = Zero
<1> DEFINE t == TableOf(n, start, size)
           d == [x \in 1..n |-> Addr(size[x])]
<1>1. t.num = n /\ t.base = Bases(n, size)
  BY DEF TableOf, Bases
<1>2. IsSum(Bases(n, size), d, n) /\ \A x \in 1..n : d[x] \in Nat
  BY BasesIsSum
<1>3. ASSUME NEW j \in 1..n PROVE ~(o < Bases(n, size)[j + 1])
  <2>1. j + 1 \in 1..(n + 1) /\ n + 1 \in 1..(n + 1) /\ j + 1 <= n + 1
    OBVIOUS
  <2>2. Bases(n, size)[j + 1] <= Bases(n, size)[n + 1]
    <3> HIDE DEF d
    <3> QED
      BY <1>2, <2>1, SumOrdered
  <2>3. Bases(n, size)[j + 1] \in Nat /\ Bases(n, size)[n + 1] \in Nat
    BY <2>1, BasesStep
  <2> QED
    BY <2>2, <2>3
<1> HIDE DEF t
<1>4. \A j \in 1..t.num : ~InSection(t, o, j)
  BY <1>1, <1>3 DEF InSection
<1>5. SectionOf(t, o) = 0
  BY <1>4, Zenon DEF SectionOf
<1>6. Image(t, o) = Zero
  BY <1>5, Zenon DEF Image
<1> QED
  BY <1>6 DEF t

\* A byte of the table is in one of its sections.
LEMMA BasesCover ==
  ASSUME NEW n \in Nat, NEW size, \A k \in 1..n : size[k] \in Nat,
         NEW o \in Nat, o < Bases(n, size)[n + 1]
  PROVE  \E k \in 1..n : Bases(n, size)[k] <= o /\ o < Bases(n, size)[k + 1]
<1> DEFINE d == [x \in 1..n |-> Addr(size[x])]
<1>1. IsSum(Bases(n, size), d, n)
  BY BasesIsSum
<1> HIDE DEF d
<1> QED
  BY <1>1, SumCovers

\* What a later table says of the bytes of an earlier one that it continues.
LEMMA ImageKept ==
  ASSUME NEW n \in Nat, NEW start, NEW size, \A k \in 1..n : size[k] \in Nat,
         NEW m \in Nat, NEW start2, NEW size2, \A k \in 1..m : size2[k] \in Nat, n <= m,
         \A k \in 1..n : start2[k] = start[k],
         \A k \in 1..(n - 1) : size2[k] = size[k],
         n > 0 => size[n] <= size2[n],
         NEW o \in Nat, o < Bases(n, size)[n + 1]
  PROVE  Image(TableOf(m, start2, size2), o) = Image(TableOf(n, start, size), o)
<1>1. PICK k \in 1..n : Bases(n, size)[k] <= o /\ o < Bases(n, size)[k + 1]
  BY BasesCover
<1>2. k \in 1..(n + 1) /\ k \in 1..m /\ k <= m + 1 /\ n > 0
  OBVIOUS
<1>3. Bases(n, size)[k] = Bases(m, size2)[k]
  BY <1>2, BasesAgree
<1>4. size[k] <= size2[k] /\ size[k] \in Nat /\ size2[k] \in Nat
  <2>1. CASE k = n
    BY <1>2, <2>1
  <2>2. CASE k # n
    <3>1. k \in 1..(n - 1)
      BY <2>2
    <3> QED
      BY <1>2, <3>1
  <2> QED
    BY <2>1, <2>2
<1>5. Addr(size[k]) <= Addr(size2[k]) /\ Addr(size[k]) \in Nat /\ Addr(size2[k]) \in Nat
  BY <1>4, AddrNat, AddrOrdered
<1>6. Bases(n, size)[k + 1] <= Bases(m, size2)[k + 1]
  <2>1. Bases(n, size)[k + 1] = Bases(n, size)[k] + Addr(size[k]) /\ Bases(n, size)[k] \in Nat
    BY <1>2, BasesStep
  <2>2. Bases(m, size2)[k + 1] = Bases(m, size2)[k] + Addr(size2[k])
    BY <1>2, BasesStep
  <2> QED
    BY <1>3, <1>5, <2>1, <2>2
<1>7. Bases(m, size2)[k] <= o /\ o < Bases(m, size2)[k + 1]
  <2>1. Bases(n, size)[k + 1] \in Nat /\ Bases(m, size2)[k + 1] \in Nat
    <3>1. k + 1 \in 1..(n + 1) /\ k + 1 \in 1..(m + 1)
      BY <1>2
    <3> QED
      BY <3>1, BasesStep
  <2> QED
    BY <1>1, <1>3, <1>6, <2>1
<1>8. Image(TableOf(n, start, size), o) =
        IF start[k] = Hole THEN Zero ELSE Addr(start[k]) + (o - Bases(n, size)[k])
  BY <1>1, ImageIn
<1>9. Image(TableOf(m, start2, size2), o) =
        IF start2[k] = Hole THEN Zero ELSE Addr(start2[k]) + (o - Bases(m, size2)[k])
  BY <1>2, <1>7, ImageIn
<1> QED
  BY <1>3, <1>8, <1>9

Arrays == [1..Max -> Nat]

\* sec_out and size_out get a new entry.
LEMMA ImageAppended ==
  ASSUME NEW n \in 0..(Max - 1), NEW start \in Arrays, NEW size \in Arrays,
         NEW start2 \in Arrays, NEW size2 \in Arrays,
         \A k \in 1..n : start2[k] = start[k] /\ size2[k] = size[k]
  PROVE  /\ Bases(n + 1, size2)[n + 2] = Bases(n, size)[n + 1] + Addr(size2[n + 1])
         /\ \A o \in Nat : o < Bases(n, size)[n + 1] =>
              Image(TableOf(n + 1, start2, size2), o) = Image(TableOf(n, start, size), o)
         /\ \A o \in Nat : Bases(n, size)[n + 1] <= o /\ o < Bases(n, size)[n + 1] + Addr(size2[n + 1]) =>
              Image(TableOf(n + 1, start2, size2), o) =
                IF start2[n + 1] = Hole THEN Zero ELSE Addr(start2[n + 1]) + (o - Bases(n, size)[n + 1])
<1>0. Max \in Nat /\ n \in Nat /\ n + 1 \in 1..Max
  BY SectionsAssumption
<1>2. /\ \A k \in 1..n : size[k] \in Nat
      /\ \A k \in 1..(n + 1) : size2[k] \in Nat
  BY <1>0 DEF Arrays
<1>3. n + 1 \in Nat /\ n + 1 \in 1..(n + 1) /\ (n + 1) + 1 = n + 2
      /\ n <= n + 1 /\ n + 1 <= (n + 1) + 1
  BY <1>0
<1>4. Bases(n, size)[n + 1] = Bases(n + 1, size2)[n + 1]
  <2>1. \A k \in 1..((n + 1) - 1) : size[k] = size2[k]
    BY <1>0, <1>2
  <2> QED
    BY <1>0, <1>2, <1>3, <2>1, BasesAgree
<1>5. Bases(n + 1, size2)[n + 2] = Bases(n, size)[n + 1] + Addr(size2[n + 1])
  BY <1>2, <1>3, <1>4, BasesStep
<1>6. ASSUME NEW o \in Nat, o < Bases(n, size)[n + 1]
      PROVE  Image(TableOf(n + 1, start2, size2), o) = Image(TableOf(n, start, size), o)
  <2>1. \A k \in 1..(n - 1) : size2[k] = size[k]
    BY <1>0, <1>2
  <2>2. n > 0 => size[n] <= size2[n]
    BY <1>0, <1>2
  <2> QED
    BY <1>0, <1>2, <1>3, <1>6, <2>1, <2>2, ImageKept
<1>7. ASSUME NEW o \in Nat, Bases(n, size)[n + 1] <= o, o < Bases(n, size)[n + 1] + Addr(size2[n + 1])
      PROVE  Image(TableOf(n + 1, start2, size2), o) =
               IF start2[n + 1] = Hole THEN Zero ELSE Addr(start2[n + 1]) + (o - Bases(n, size)[n + 1])
  <2>1. Bases(n + 1, size2)[n + 1] <= o /\ o < Bases(n + 1, size2)[(n + 1) + 1]
    BY <1>3, <1>4, <1>5, <1>7
  <2>2. Image(TableOf(n + 1, start2, size2), o) =
          IF start2[n + 1] = Hole THEN Zero ELSE Addr(start2[n + 1]) + (o - Bases(n + 1, size2)[n + 1])
    BY <1>2, <1>3, <2>1, ImageIn
  <2> QED
    BY <1>2, <1>4, <2>2
<1> QED
  BY <1>5, <1>6, <1>7

\* The last entry of size_out grows.
LEMMA ImageExtended ==
  ASSUME NEW n \in 1..Max, NEW start \in Arrays, NEW size \in Arrays,
         NEW x \in Nat, NEW size2 \in Arrays,
         \A k \in 1..(n - 1) : size2[k] = size[k], size2[n] = size[n] + x
  PROVE  /\ Bases(n, size2)[n + 1] = Bases(n, size)[n + 1] + Addr(x)
         /\ \A o \in Nat : o < Bases(n, size)[n + 1] =>
              Image(TableOf(n, start, size2), o) = Image(TableOf(n, start, size), o)
         /\ \A o \in Nat : Bases(n, size)[n + 1] <= o /\ o < Bases(n, size)[n + 1] + Addr(x) =>
              Image(TableOf(n, start, size2), o) =
                IF start[n] = Hole THEN Zero
                ELSE Addr(start[n] + size[n]) + (o - Bases(n, size)[n + 1])
<1>0. Max \in Nat /\ n \in Nat /\ n \in 1..n /\ n + 1 \in 1..(n + 1) /\ n \in 1..(n + 1)
  BY SectionsAssumption
<1>2. /\ \A k \in 1..n : size[k] \in Nat /\ size2[k] \in Nat
      /\ start[n] \in Nat
  BY <1>0 DEF Arrays
<1>3. Bases(n, size)[n] = Bases(n, size2)[n]
  BY <1>0, <1>2, BasesAgree
<1>4. /\ Bases(n, size)[n + 1] = Bases(n, size)[n] + Addr(size[n])
      /\ Bases(n, size2)[n + 1] = Bases(n, size2)[n] + Addr(size2[n])
      /\ Bases(n, size)[n] \in Nat /\ Bases(n, size)[n + 1] \in Nat
  BY <1>0, <1>2, BasesStep
<1>5. Addr(size2[n]) = Addr(size[n]) + Addr(x) /\ Addr(size[n]) \in Nat /\ Addr(x) \in Nat
  BY <1>0, <1>2, AddrSum, AddrNat
<1>6. Bases(n, size2)[n + 1] = Bases(n, size)[n + 1] + Addr(x)
  BY <1>3, <1>4, <1>5
<1>7. ASSUME NEW o \in Nat, o < Bases(n, size)[n + 1]
      PROVE  Image(TableOf(n, start, size2), o) = Image(TableOf(n, start, size), o)
  <2>1. size[n] <= size2[n]
    BY <1>0, <1>2
  <2> QED
    BY <1>0, <1>2, <1>7, <2>1, ImageKept
<1>8. ASSUME NEW o \in Nat, Bases(n, size)[n + 1] <= o, o < Bases(n, size)[n + 1] + Addr(x)
      PROVE  Image(TableOf(n, start, size2), o) =
               IF start[n] = Hole THEN Zero
               ELSE Addr(start[n] + size[n]) + (o - Bases(n, size)[n + 1])
  <2>1. Bases(n, size2)[n] <= o /\ o < Bases(n, size2)[n + 1]
    BY <1>3, <1>4, <1>5, <1>6, <1>8
  <2>2. Image(TableOf(n, start, size2), o) =
          IF start[n] = Hole THEN Zero ELSE Addr(start[n]) + (o - Bases(n, size2)[n])
    BY <1>0, <1>2, <2>1, ImageIn
  <2>3. Addr(start[n] + size[n]) = Addr(start[n]) + Addr(size[n]) /\ Addr(start[n]) \in Nat
    BY <1>0, <1>2, AddrSum, AddrNat
  <2>4. Addr(start[n]) + (o - Bases(n, size2)[n])
          = Addr(start[n] + size[n]) + (o - Bases(n, size)[n + 1])
    BY <1>3, <1>4, <1>5, <2>3
  <2> QED
    BY <2>2, <2>4
<1> QED
  BY <1>6, <1>7, <1>8

-----------------------------------------------------------------------------
(* The runlist *)

\* The byte a run begins at, and the end of the runlist.
RunStart(runs, r) == Vcns(runs)[r] * ClusterSize

\* A run, unpacked.
LEMMA RunFacts ==
  ASSUME NEW runs \in Seq(Run), NEW r \in 1..Len(runs)
  PROVE  /\ Len(runs) \in Nat
         /\ runs[r].length \in Nat \ {0}
         /\ runs[r].lcn # NoLcn => runs[r].lcn \in Nat
<1>1. runs[r] \in Run
  <2> HIDE DEF Run
  <2> QED
    OBVIOUS
<1> QED
  BY <1>1 DEF Run

\* Runs follow each other, in bytes.
LEMMA RunStarts ==
  ASSUME NEW runs \in Seq(Run)
  PROVE  /\ Len(runs) \in Nat
         /\ RunStart(runs, 1) = 0
         /\ \A r \in 1..(Len(runs) + 1) : RunStart(runs, r) \in Nat
         /\ \A r \in 1..Len(runs) :
              RunStart(runs, r + 1) = RunStart(runs, r) + runs[r].length * ClusterSize
         /\ \E d : /\ \A k \in 1..Len(runs) : d[k] \in Nat
                   /\ IsSum([r \in 1..(Len(runs) + 1) |-> RunStart(runs, r)], d, Len(runs))
<1> DEFINE n == Len(runs)
           d == [r \in 1..n |-> runs[r].length]
           e == [r \in 1..n |-> d[r] * ClusterSize]
           f == [r \in 1..(n + 1) |-> Vcns(runs)[r] * ClusterSize]
<1>1. n \in Nat
  OBVIOUS
<1>2. \A r \in 1..n : d[r] \in Nat
  BY RunFacts
<1>3. IsSum(Vcns(runs), d, n)
  <2>1. Vcns(runs) = RunningSum(d, n)
    BY DEF Vcns
  <2> HIDE DEF d, n
  <2> QED
    BY <1>1, <1>2, <2>1, RunningSumIsSum
<1>4. ClusterSize \in Nat
  BY SectionsAssumption
<1>5. IsSum(f, e, n) /\ \A k \in 1..n : e[k] \in Nat
  <2> HIDE DEF d, n
  <2> QED
    BY <1>1, <1>2, <1>3, <1>4, SumScaled
<1>6. f = [r \in 1..(n + 1) |-> RunStart(runs, r)]
  BY DEF RunStart
<1>7. \A r \in 1..(n + 1) : f[r] = RunStart(runs, r)
  BY DEF RunStart
<1>8. \A r \in 1..n : e[r] = runs[r].length * ClusterSize
  OBVIOUS
<1> HIDE DEF n, d, e, f
<1>9. /\ RunStart(runs, 1) = 0
      /\ \A r \in 1..(n + 1) : RunStart(runs, r) \in Nat
      /\ \A r \in 1..n : RunStart(runs, r + 1) = RunStart(runs, r) + e[r]
  BY <1>1, <1>5, <1>7 DEF IsSum
<1>10. /\ \A k \in 1..n : e[k] \in Nat
       /\ IsSum([r \in 1..(n + 1) |-> RunStart(runs, r)], e, n)
  BY <1>5, <1>6
<1>11. \E x : /\ \A k \in 1..n : x[k] \in Nat
              /\ IsSum([r \in 1..(n + 1) |-> RunStart(runs, r)], x, n)
  BY <1>10
<1> QED
  BY <1>1, <1>8, <1>9, <1>11 DEF n

\* No run starts behind the end of the file.
LEMMA RunStartBound ==
  ASSUME NEW runs \in Seq(Run), NEW r \in 1..(Len(runs) + 1)
  PROVE  RunStart(runs, r) <= RunStart(runs, Len(runs) + 1)
<1> DEFINE n == Len(runs)
           f == [k \in 1..(n + 1) |-> RunStart(runs, k)]
<1>1. n \in Nat /\ n + 1 \in 1..(n + 1) /\ r <= n + 1 /\ r \in 1..(n + 1)
  OBVIOUS
<1>2. PICK d : (\A k \in 1..n : d[k] \in Nat) /\ IsSum(f, d, n)
  BY RunStarts
<1>3. f[r] = RunStart(runs, r) /\ f[n + 1] = RunStart(runs, n + 1)
  BY <1>1
<1> HIDE DEF n, f
<1>4. f[r] <= f[n + 1]
  BY <1>1, <1>2, SumOrdered
<1> QED
  BY <1>3, <1>4 DEF n

\* The run of a byte.
LEMMA RunOfByte ==
  ASSUME NEW runs \in Seq(Run), NEW r \in 1..Len(runs), NEW o \in Nat,
         RunStart(runs, r) <= o, o < RunStart(runs, r + 1)
  PROVE  RunOf(runs, o) = r
<1> DEFINE n == Len(runs)
           f == [k \in 1..(n + 1) |-> RunStart(runs, k)]
<1>1. n \in Nat
  OBVIOUS
<1>2. PICK d : (\A k \in 1..n : d[k] \in Nat) /\ IsSum(f, d, n)
  BY RunStarts
<1>3. ASSUME NEW q \in 1..n, RunStart(runs, q) <= o, o < RunStart(runs, q + 1) PROVE q = r
  <2>1. f[q] <= o /\ o < f[q + 1] /\ f[r] <= o /\ o < f[r + 1]
    BY <1>1, <1>3
  <2> HIDE DEF f
  <2> QED
    BY <1>1, <1>2, <2>1, SumUnique
<1> DEFINE At(q) == RunStart(runs, q) <= o /\ o < RunStart(runs, q + 1)
<1>4. RunOf(runs, o) = CHOOSE q \in 1..n : At(q)
  BY Zenon DEF RunOf, RunStart
<1>5. At(r) /\ r \in 1..n /\ \A q \in 1..n : At(q) => q = r
  BY <1>3
<1> HIDE DEF At, n
<1> QED
  BY <1>4, <1>5, Zenon

\* What a file's byte is, from the run that holds it.
LEMMA ByteInRun ==
  ASSUME NEW runs \in Seq(Run), NEW r \in 1..Len(runs), NEW o \in Nat, NEW sector,
         RunStart(runs, r) <= o, o < RunStart(runs, r + 1)
  PROVE  ByteOf(runs, o, sector) =
           IF runs[r].lcn = NoLcn THEN Zero
           ELSE Addr(sector) + runs[r].lcn * ClusterSize + (o - RunStart(runs, r))
<1>1. RunOf(runs, o) = r
  BY RunOfByte
<1> QED
  BY <1>1, Zenon DEF ByteOf, RunStart

\* The run found for a position begins at or before it.
LEMMA FindVcnBefore ==
  ASSUME NEW runs \in Seq(Run), NEW o \in Nat
  PROVE  FindVcn(runs, o) \in 1..(Len(runs) + 1) /\ RunStart(runs, FindVcn(runs, o)) <= o
<1> DEFINE n == Len(runs)
           f == [k \in 1..(n + 1) |-> RunStart(runs, k)]
<1>1. n \in Nat /\ n + 1 \in 1..(n + 1) /\ RunStart(runs, n + 1) \in Nat
  BY RunStarts
<1>2. CASE o < RunStart(runs, n + 1)
  <2>1. PICK d : IsSum(f, d, n)
    BY RunStarts
  <2>2. o < f[n + 1]
    BY <1>1, <1>2
  <2>3. PICK r \in 1..n : f[r] <= o /\ o < f[r + 1]
    <3> HIDE DEF f
    <3> QED
      BY <1>1, <2>1, <2>2, SumCovers
  <2>4. RunStart(runs, r) <= o /\ o < RunStart(runs, r + 1)
    BY <1>1, <2>3
  <2>5. FindVcn(runs, o) = r
    BY <1>2, <2>4, RunOfByte DEF FindVcn, RunStart
  <2> QED
    BY <1>1, <2>4, <2>5
<1>3. CASE ~(o < RunStart(runs, n + 1))
  <2>1. FindVcn(runs, o) = n + 1
    BY <1>3 DEF FindVcn, RunStart
  <2> QED
    BY <1>1, <1>3, <2>1
<1> QED
  BY <1>2, <1>3

\* The walk begins with the first run, or at the end of an empty runlist.
LEMMA FindVcnFirst ==
  ASSUME NEW runs \in Seq(Run) PROVE FindVcn(runs, 0) = 1
<1>1. Len(runs) \in Nat /\ RunStart(runs, 1) = 0
  BY RunStarts
<1>2. CASE Len(runs) = 0
  <2>1. ~(0 < RunStart(runs, Len(runs) + 1))
    BY <1>1, <1>2
  <2> QED
    BY <1>2, <2>1 DEF FindVcn, RunStart
<1>3. CASE Len(runs) # 0
  <2>1. 1 \in 1..Len(runs)
    BY <1>1, <1>3
  <2>2. runs[1].length \in Nat \ {0}
    BY <2>1, RunFacts
  <2>3. RunStart(runs, 2) = runs[1].length * ClusterSize /\ RunStart(runs, 2) >= SectorSize
    BY <1>1, <2>1, <2>2, RunStarts, ClusterLarge
  <2>4. 0 < RunStart(runs, 2) /\ RunStart(runs, 2) \in Nat
    BY <2>2, <2>3, ClusterLarge, SectionsAssumption
  <2>5. RunOf(runs, 0) = 1
    BY <1>1, <2>1, <2>4, RunOfByte
  <2>6. FindVcn(runs, 0) \in 1..(Len(runs) + 1) /\ RunStart(runs, FindVcn(runs, 0)) <= 0
    BY FindVcnBefore
  <2>7. 0 < RunStart(runs, Len(runs) + 1)
    <3> DEFINE n == Len(runs)
               f == [k \in 1..(n + 1) |-> RunStart(runs, k)]
    <3>1. n \in Nat /\ 2 \in 1..(n + 1) /\ n + 1 \in 1..(n + 1) /\ 2 <= n + 1
      BY <1>1, <1>3
    <3>2. PICK d : (\A k \in 1..n : d[k] \in Nat) /\ IsSum(f, d, n)
      BY RunStarts
    <3>3. f[2] <= f[n + 1]
      <4> HIDE DEF f, n
      <4> QED
        BY <3>1, <3>2, SumOrdered
    <3>4. RunStart(runs, n + 1) \in Nat
      BY <3>1, RunStarts
    <3> QED
      BY <2>4, <3>1, <3>3, <3>4
  <2> QED
    BY <2>5, <2>7 DEF FindVcn, RunStart
<1> QED
  BY <1>2, <1>3

-----------------------------------------------------------------------------
(* One run of the runlist *)

\* Byte o is in a run of the file.
InRuns(runs, o) == \E r \in 1..Len(runs) : RunStart(runs, r) <= o /\ o < RunStart(runs, r + 1)

\* The first m bytes are in runs of the file, and the table of n sections says
\* of them what the file has there.
Covers(runs, n, start, size, m) ==
  \A o \in Nat : o < m =>
    InRuns(runs, o) /\ Image(TableOf(n, start, size), o) = ByteOf(runs, o, 0)

\* The second table continues the first one by x sectors, of which the first
\* is s.
Grown(n, start, size, m, start2, size2, s, x) ==
  /\ m \in 1..Max /\ start2 \in Arrays /\ size2 \in Arrays
  /\ Bases(m, size2)[m + 1] = Bases(n, size)[n + 1] + Addr(x)
  /\ \A o \in Nat : o < Bases(n, size)[n + 1] =>
       Image(TableOf(m, start2, size2), o) = Image(TableOf(n, start, size), o)
  /\ \A o \in Nat : Bases(n, size)[n + 1] <= o /\ o < Bases(n, size)[n + 1] + Addr(x) =>
       Image(TableOf(m, start2, size2), o) =
         IF s = Hole THEN Zero ELSE Addr(s) + (o - Bases(n, size)[n + 1])

\* A new entry continues the table.
LEMMA AppendGrows ==
  ASSUME NEW n \in 0..(Max - 1), NEW start \in Arrays, NEW size \in Arrays,
         NEW s \in Nat, NEW x \in Nat
  PROVE  Grown(n, start, size, n + 1, [start EXCEPT ![n + 1] = s], [size EXCEPT ![n + 1] = x], s, x)
<1>0. Max \in Nat /\ n \in Nat /\ n + 1 \in 1..Max /\ (n + 1) + 1 = n + 2
  BY SectionsAssumption
<1> DEFINE start2 == [start EXCEPT ![n + 1] = s]
           size2 == [size EXCEPT ![n + 1] = x]
<1>1. start2 \in Arrays /\ size2 \in Arrays
  BY <1>0 DEF Arrays
<1>2. /\ \A k \in 1..n : start2[k] = start[k] /\ size2[k] = size[k]
      /\ start2[n + 1] = s /\ size2[n + 1] = x
  BY <1>0 DEF Arrays
<1> HIDE DEF start2, size2
<1>3. /\ Bases(n + 1, size2)[n + 2] = Bases(n, size)[n + 1] + Addr(size2[n + 1])
      /\ \A o \in Nat : o < Bases(n, size)[n + 1] =>
           Image(TableOf(n + 1, start2, size2), o) = Image(TableOf(n, start, size), o)
      /\ \A o \in Nat : Bases(n, size)[n + 1] <= o /\ o < Bases(n, size)[n + 1] + Addr(size2[n + 1]) =>
           Image(TableOf(n + 1, start2, size2), o) =
             IF start2[n + 1] = Hole THEN Zero
             ELSE Addr(start2[n + 1]) + (o - Bases(n, size)[n + 1])
  BY <1>1, <1>2, ImageAppended
<1>4. Bases(n + 1, size2)[(n + 1) + 1] = Bases(n, size)[n + 1] + Addr(size2[n + 1])
  BY <1>0, <1>3
<1>5. Grown(n, start, size, n + 1, start2, size2, s, x)
  BY <1>0, <1>1, <1>2, <1>3, <1>4, Zenon DEF Grown
<1> QED
  BY <1>5 DEF start2, size2

\* So does a last entry that grows, at the sector behind it.
LEMMA ExtendGrows ==
  ASSUME NEW n \in 1..Max, NEW start \in Arrays, NEW size \in Arrays,
         NEW x \in Nat, NEW s,
         start[n] = Hole => s = Hole,
         start[n] # Hole => s # Hole /\ s = start[n] + size[n]
  PROVE  Grown(n, start, size, n, start, [size EXCEPT ![n] = @ + x], s, x)
<1>0. Max \in Nat /\ n \in Nat
  BY SectionsAssumption
<1> DEFINE size2 == [size EXCEPT ![n] = @ + x]
<1>1. size2 \in Arrays
  BY <1>0 DEF Arrays
<1>2. (\A k \in 1..(n - 1) : size2[k] = size[k]) /\ size2[n] = size[n] + x
  BY <1>0 DEF Arrays
<1> HIDE DEF size2
<1>3. Grown(n, start, size, n, start, size2, s, x)
  BY <1>0, <1>1, <1>2, ImageExtended DEF Grown
<1> QED
  BY <1>3 DEF size2

\* The arrays of a table that has grown.
LEMMA GrownArrays ==
  ASSUME NEW n, NEW start, NEW size, NEW m, NEW start2, NEW size2, NEW s, NEW x,
         Grown(n, start, size, m, start2, size2, s, x)
  PROVE  m \in Nat /\ (\A k \in 1..m : size2[k] \in Nat) /\ m + 1 \in 1..(m + 1)
         /\ Bases(m, size2)[m + 1] \in Nat
<1>1. m \in 1..Max /\ size2 \in Arrays
  BY Zenon DEF Grown
<1>2. m \in Nat /\ (\A k \in 1..m : size2[k] \in Nat) /\ m + 1 \in 1..(m + 1)
  BY <1>1, SectionsAssumption DEF Arrays
<1> QED
  BY <1>2, BasesStep

\* Where the walk stands before run r: count bytes are left of the
\* initialized ones. Once a hole has been rounded up to a sector, count is
\* negative and the table reaches beyond them.
Walked(runs, init, n, start, size, r, done, left) ==
  /\ done + left = init
  /\ left > 0 => /\ done = RunStart(runs, r)
                 /\ Bases(n, size)[n + 1] = done
                 /\ Covers(runs, n, start, size, done)
  /\ left <= 0 => Covers(runs, n, start, size, init)
  /\ left < 0 => init <= Bases(n, size)[n + 1]

\* What is behind a table is kept, too.
LEMMA GrownKeeps ==
  ASSUME NEW runs, NEW n, NEW start, NEW size, NEW m, NEW start2, NEW size2, NEW s, NEW x,
         Grown(n, start, size, m, start2, size2, s, x),
         NEW b \in Nat, b <= Bases(n, size)[n + 1], Bases(n, size)[n + 1] \in Nat,
         Covers(runs, n, start, size, b)
  PROVE  Covers(runs, m, start2, size2, b)
<1>1. ASSUME NEW o \in Nat, o < b
      PROVE  InRuns(runs, o) /\ Image(TableOf(m, start2, size2), o) = ByteOf(runs, o, 0)
  <2>1. o < Bases(n, size)[n + 1]
    BY <1>1
  <2>2. Image(TableOf(m, start2, size2), o) = Image(TableOf(n, start, size), o)
    BY <2>1 DEF Grown
  <2> QED
    BY <1>1, <2>2 DEF Covers
<1> QED
  BY <1>1 DEF Covers

\* The bytes of one run that a call reads.
LEMMA BytesOfRun ==
  ASSUME NEW runs \in Seq(Run), NEW r \in 1..Len(runs)
  PROVE  /\ runs[r].length * ClusterSize \in Nat
         /\ SectorSize <= runs[r].length * ClusterSize
         /\ Addr((runs[r].length * ClusterSize) \div SectorSize) = runs[r].length * ClusterSize
         /\ (runs[r].length * ClusterSize) % SectorSize = 0
         /\ RunStart(runs, r + 1) = RunStart(runs, r) + runs[r].length * ClusterSize
         /\ RunStart(runs, r) \in Nat /\ RunStart(runs, r + 1) \in Nat
<1>1. Len(runs) \in Nat /\ r \in 1..(Len(runs) + 1) /\ r + 1 \in 1..(Len(runs) + 1)
  BY RunFacts
<1>2. runs[r].length \in Nat \ {0}
  BY RunFacts
<1>3. runs[r].length * ClusterSize \in Nat /\ SectorSize <= runs[r].length * ClusterSize
  BY <1>2, ClusterLarge
<1>4. (runs[r].length * ClusterSize) % SectorSize = 0
  BY <1>2, ClusterSectors
<1>5. Addr((runs[r].length * ClusterSize) \div SectorSize) = runs[r].length * ClusterSize
  BY <1>3, <1>4, SectorsOf
<1> QED
  BY <1>1, <1>3, <1>4, <1>5, RunStarts

\* Bytes of run r that a call reads, and those it accounts for in a hole.
ReadOf(runs, r, left) == Min(left, runs[r].length * ClusterSize)
HoleBytes(runs, r, left) ==
  IF ReadOf(runs, r, left) < SectorSize THEN SectorSize ELSE ReadOf(runs, r, left)

\* A hole that is walked: its bytes are zeros in the table, of its sectors and
\* behind it.
LEMMA HoleWalked ==
  ASSUME NEW runs \in Seq(Run), NEW init \in Nat, NEW n \in 0..Max,
         NEW start, NEW size \in Arrays, NEW r \in 1..Len(runs), runs[r].lcn = NoLcn,
         NEW done \in Nat, NEW left \in Int, left # 0,
         Walked(runs, init, n, start, size, r, done, left),
         NEW m, NEW start2, NEW size2,
         Grown(n, start, size, m, start2, size2, Hole, HoleBytes(runs, r, left) \div SectorSize)
  PROVE  Walked(runs, init, m, start2, size2, r + 1,
                done + HoleBytes(runs, r, left), left - HoleBytes(runs, r, left))
<1> DEFINE E == Bases(n, size)[n + 1]
           E2 == Bases(m, size2)[m + 1]
           L == runs[r].length * ClusterSize
           read == ReadOf(runs, r, left)
           x == HoleBytes(runs, r, left)
<1>0. SectorSize \in Nat \ {0}
  BY SectionsAssumption
<1>1. L \in Nat /\ SectorSize <= L
  BY BytesOfRun
<1>2. /\ Addr(L \div SectorSize) = L
      /\ RunStart(runs, r + 1) = RunStart(runs, r) + L
      /\ RunStart(runs, r) \in Nat /\ RunStart(runs, r + 1) \in Nat
  BY BytesOfRun
<1>3. E \in Nat
  <2>1. n \in Nat /\ n + 1 \in 1..(n + 1) /\ \A k \in 1..n : size[k] \in Nat
    BY SectionsAssumption DEF Arrays
  <2> QED
    BY <2>1, BasesStep
<1>4. (left <= L /\ read = left) \/ (L < left /\ read = L)
  BY <1>1 DEF Min, ReadOf
<1> HIDE DEF L, read
<1>5. (read < SectorSize /\ x = SectorSize) \/ (~(read < SectorSize) /\ x = read)
  BY DEF HoleBytes, read
<1> HIDE DEF x
<1>6. x \in Nat /\ SectorSize <= x
  BY <1>0, <1>1, <1>4, <1>5
<1>7. Addr(x \div SectorSize) \in Nat /\ SectorSize <= Addr(x \div SectorSize)
  <2>1. x \div SectorSize \in Nat /\ x < Addr(x \div SectorSize) + SectorSize
    BY <1>6, SectorsOf
  <2>2. x \div SectorSize # 0
    <3>1. SUFFICES ASSUME x \div SectorSize = 0 PROVE FALSE
      OBVIOUS
    <3>2. x < 0 + SectorSize
      BY <2>1, <3>1, AddrZero
    <3> QED
      BY <1>0, <1>6, <3>2
  <2>3. 1 <= x \div SectorSize
    BY <2>1, <2>2
  <2> QED
    BY <2>1, <2>3, AddrNat, AddrOrdered, AddrZero
<1>8. E2 = E + Addr(x \div SectorSize) /\ E2 \in Nat
  <2>1. E2 = E + Addr(x \div SectorSize)
    BY DEF Grown, x
  <2> QED
    BY <1>3, <1>7, <2>1
<1> HIDE DEF E, E2
<1>9. (done + x) + (left - x) = init
  BY <1>6 DEF Walked
<1>10. CASE left < 0
  <2>1. x = SectorSize /\ left - x < 0
    BY <1>0, <1>1, <1>4, <1>5, <1>10
  <2>2. Covers(runs, n, start, size, init) /\ init <= E
    BY <1>10 DEF Walked, E
  <2>3. Covers(runs, m, start2, size2, init)
    BY <1>3, <2>2, GrownKeeps DEF E
  <2>4. init <= E2
    BY <1>3, <1>7, <1>8, <2>2
  <2> QED
    BY <1>6, <1>9, <2>1, <2>3, <2>4 DEF Walked, E2, x
<1>11. CASE left > 0
  <2>1. done = RunStart(runs, r) /\ E = done /\ Covers(runs, n, start, size, done) /\ done + left = init
    BY <1>11 DEF Walked, E
  <2>2. Covers(runs, m, start2, size2, done)
    BY <1>3, <2>1, GrownKeeps DEF E
  <2>3. ASSUME NEW o \in Nat, o < done + read
        PROVE  InRuns(runs, o) /\ Image(TableOf(m, start2, size2), o) = ByteOf(runs, o, 0)
    <3>1. CASE o < done
      BY <2>2, <3>1 DEF Covers
    <3>2. CASE ~(o < done)
      <4>1. ByteOf(runs, o, 0) = Zero /\ InRuns(runs, o)
        <5>1. RunStart(runs, r) <= o /\ o < RunStart(runs, r + 1)
          <6>1. read \in Int /\ read <= L
            BY <1>1, <1>4
          <6>2. done <= o /\ o < done + L
            BY <1>1, <2>3, <3>2, <6>1
          <6> QED
            BY <1>2, <2>1, <6>2
        <5> QED
          BY <5>1, ByteInRun DEF InRuns
      <4>2. CASE o < E2
        <5>1. E <= o /\ o < E + Addr(x \div SectorSize)
          BY <1>8, <2>1, <3>2, <4>2
        <5>2. Image(TableOf(m, start2, size2), o) = Zero
          BY <5>1 DEF Grown, E, x
        <5> QED
          BY <4>1, <5>2
      <4>3. CASE ~(o < E2)
        <5>1. m \in Nat /\ (\A k \in 1..m : size2[k] \in Nat)
          BY GrownArrays
        <5>2. E2 <= o
          BY <1>8, <4>3
        <5>3. Image(TableOf(m, start2, size2), o) = Zero
          BY <5>1, <5>2, ImageBehind DEF E2
        <5> QED
          BY <4>1, <5>3
      <4> QED
        BY <4>2, <4>3
    <3> QED
      BY <3>1, <3>2
  <2>4. CASE left - x > 0
    <3>1. read = L /\ x = L
      BY <1>0, <1>1, <1>4, <1>5, <1>6, <2>4
    <3>2. E2 = RunStart(runs, r + 1) /\ done + x = RunStart(runs, r + 1)
      BY <1>1, <1>2, <1>8, <2>1, <3>1
    <3>3. Covers(runs, m, start2, size2, done + x)
      BY <2>3, <3>1 DEF Covers
    <3> QED
      BY <1>6, <1>9, <2>4, <3>2, <3>3 DEF Walked, E2, x
  <2>5. CASE left - x <= 0
    <3>1. read = left /\ done + read = init
      BY <1>0, <1>1, <1>4, <1>5, <1>6, <2>1, <2>5
    <3>2. Covers(runs, m, start2, size2, init)
      BY <2>3, <3>1 DEF Covers
    <3>3. ASSUME left - x < 0 PROVE init <= E2
      <4>1. x = SectorSize /\ left < x
        BY <1>6, <1>5, <3>1, <3>3
      <4> QED
        BY <1>0, <1>3, <1>7, <1>8, <2>1, <4>1
    <3> QED
      BY <1>6, <1>9, <2>5, <3>2, <3>3 DEF Walked, E2, x
  <2> QED
    BY <1>6, <2>4, <2>5
<1> QED
  BY <1>10, <1>11

\* First sector of run r.
SectorOf(runs, r) == (runs[r].lcn * ClusterSize) \div SectorSize

\* What is left after a run with data.
DataLeft(runs, r, left) == IF ReadOf(runs, r, left) > 0 THEN left - ReadOf(runs, r, left) ELSE left
DataDone(runs, r, done, left) == IF ReadOf(runs, r, left) > 0 THEN done + ReadOf(runs, r, left) ELSE done

\* Sectors that hold some bytes, rounded up.
LEMMA SectorsUp ==
  ASSUME NEW x \in Nat \ {0}
  PROVE  /\ DataSectors(x) \in Nat
         /\ x <= Addr(DataSectors(x)) /\ Addr(DataSectors(x)) < x + SectorSize
         /\ x % SectorSize = 0 => Addr(DataSectors(x)) = x
<1> DEFINE y == x + SectorSize - 1
<1>0. SectorSize \in Nat \ {0} /\ y \in Nat
  BY SectionsAssumption
<1>1. DataSectors(x) = y \div SectorSize
  BY DEF DataSectors
<1>2. /\ y \div SectorSize \in Nat
      /\ Addr(y \div SectorSize) <= y /\ y < Addr(y \div SectorSize) + SectorSize
  <2> HIDE DEF y
  <2> QED
    BY <1>0, SectorsOf
<1>3. DataSectors(x) \in Nat /\ Addr(DataSectors(x)) <= y /\ y < Addr(DataSectors(x)) + SectorSize
  BY <1>1, <1>2
<1>4. Addr(DataSectors(x)) \in Nat
  BY <1>3, AddrNat
<1>5. x <= Addr(DataSectors(x)) /\ Addr(DataSectors(x)) < x + SectorSize
  BY <1>0, <1>3, <1>4
<1>6. ASSUME x % SectorSize = 0 PROVE Addr(DataSectors(x)) = x
  <2> DEFINE q == x \div SectorSize
             p == DataSectors(x)
  <2>1. q \in Nat /\ Addr(q) = x
    BY <1>6, SectorsOf
  <2> HIDE DEF q, p
  <2>2. p \in Nat /\ Addr(q) <= Addr(p) /\ Addr(p) < Addr(q) + SectorSize
    BY <1>3, <1>5, <2>1 DEF p
  <2>3. ~(q + 1 <= p)
    <3>1. SUFFICES ASSUME q + 1 <= p PROVE FALSE
      OBVIOUS
    <3>2. Addr(q + 1) <= Addr(p)
      BY <2>1, <2>2, <3>1, AddrOrdered
    <3>3. Addr(q + 1) = Addr(q) + SectorSize
      BY <2>1, AddrSum, AddrZero
    <3>4. Addr(q) \in Nat /\ Addr(p) \in Nat
      BY <2>1, <2>2, AddrNat
    <3> QED
      BY <1>0, <2>2, <3>2, <3>3, <3>4
  <2>4. Addr(p) <= Addr(q) /\ Addr(p) \in Nat /\ Addr(q) \in Nat
    <3>1. p <= q
      BY <2>1, <2>2, <2>3
    <3> QED
      BY <2>1, <2>2, <3>1, AddrOrdered, AddrNat
  <2>5. Addr(p) = Addr(q)
    BY <2>2, <2>4
  <2> QED
    BY <2>1, <2>5 DEF p
<1> QED
  BY <1>3, <1>5, <1>6

\* The sectors of a run, as numbers and addresses, and those a call reads.
LEMMA DataFacts ==
  ASSUME NEW runs \in Seq(Run), NEW r \in 1..Len(runs), runs[r].lcn # NoLcn,
         NEW left \in Nat \ {0}
  PROVE  /\ SectorOf(runs, r) \in Nat
         /\ Addr(SectorOf(runs, r)) = runs[r].lcn * ClusterSize
         /\ DataSectors(ReadOf(runs, r, left)) \in Nat
         /\ SectorOf(runs, r) + DataSectors(ReadOf(runs, r, left))
              <= ((runs[r].lcn + runs[r].length) * ClusterSize) \div SectorSize
         /\ ((runs[r].lcn + runs[r].length) * ClusterSize) \div SectorSize \in Nat
<1> DEFINE c == runs[r].lcn
           l == runs[r].length
           K == SectorsPerCluster
           read == ReadOf(runs, r, left)
<1>1. c \in Nat /\ l \in Nat \ {0} /\ c + l \in Nat
  BY RunFacts
<1>2. SectorOf(runs, r) = c * K /\ c * K \in Nat /\ c * ClusterSize = Addr(c * K)
  BY <1>1, ClusterAddr, ClusterSectors DEF SectorOf
<1>3. ((c + l) * ClusterSize) \div SectorSize = (c + l) * K
  <2> HIDE DEF c, l
  <2> QED
    BY <1>1, ClusterSectors
<1>4. K \in Nat \ {0} /\ l * K \in Nat /\ l * ClusterSize = Addr(l * K) /\ l * ClusterSize \in Nat
      /\ SectorSize <= l * ClusterSize
  <2> HIDE DEF l, K
  <2> QED
    BY <1>1, ClusterAddr, ClusterLarge DEF K
<1>5. (c + l) * K = c * K + l * K
  <2> HIDE DEF c, l, K
  <2> QED
    BY <1>1, <1>4
<1>6. read \in Nat \ {0} /\ read <= l * ClusterSize
  BY <1>4, SectionsAssumption DEF ReadOf, Min
<1> HIDE DEF c, l, K, read
<1>7. DataSectors(read) \in Nat /\ Addr(DataSectors(read)) < Addr(l * K) + SectorSize
  <2>1. DataSectors(read) \in Nat /\ Addr(DataSectors(read)) < read + SectorSize
    BY <1>6, SectorsUp
  <2>2. Addr(DataSectors(read)) \in Nat /\ Addr(l * K) \in Nat
    BY <1>4, <2>1, AddrNat
  <2> QED
    BY <1>4, <1>6, <2>1, <2>2, SectionsAssumption
<1>8. DataSectors(read) <= l * K
  <2>1. SUFFICES ASSUME l * K + 1 <= DataSectors(read) PROVE FALSE
    BY <1>4, <1>7
  <2>2. l * K + 1 \in Nat
    BY <1>4
  <2>3. Addr(l * K + 1) <= Addr(DataSectors(read))
    BY <1>7, <2>1, <2>2, AddrOrdered
  <2>4. Addr(l * K + 1) = Addr(l * K) + SectorSize
    BY <1>4, AddrSum, AddrZero
  <2>5. Addr(l * K) \in Nat /\ Addr(DataSectors(read)) \in Nat
    BY <1>4, <1>7, AddrNat
  <2> QED
    BY <1>7, <2>3, <2>4, <2>5, SectionsAssumption
<1>9. c * K + DataSectors(read) <= (c + l) * K /\ (c + l) * K \in Nat
  BY <1>2, <1>4, <1>5, <1>7, <1>8
<1>10. SectorOf(runs, r) \in Nat /\ Addr(SectorOf(runs, r)) = c * ClusterSize
  BY <1>2
<1>11. SectorOf(runs, r) + DataSectors(read) <= ((c + l) * ClusterSize) \div SectorSize
       /\ ((c + l) * ClusterSize) \div SectorSize \in Nat
  BY <1>2, <1>3, <1>9
<1> QED
  BY <1>7, <1>10, <1>11 DEF c, l, read

\* A run with data that is walked, while something is left.
LEMMA DataWalked ==
  ASSUME NEW runs \in Seq(Run), NEW init \in Nat, NEW n \in 0..Max,
         NEW start, NEW size \in Arrays, NEW r \in 1..Len(runs), runs[r].lcn # NoLcn,
         SectorOf(runs, r) # Hole,
         NEW done \in Nat, NEW left \in Nat \ {0},
         Walked(runs, init, n, start, size, r, done, left),
         NEW m, NEW start2, NEW size2,
         Grown(n, start, size, m, start2, size2, SectorOf(runs, r), DataSectors(ReadOf(runs, r, left)))
  PROVE  /\ Walked(runs, init, m, start2, size2, r + 1,
                   DataDone(runs, r, done, left), DataLeft(runs, r, left))
         /\ DataLeft(runs, r, left) \in Int
         /\ DataDone(runs, r, done, left) \in Nat
         /\ ReadOf(runs, r, left) % SectorSize # 0 =>
              init <= DataDone(runs, r, done, left) /\ Covers(runs, m, start2, size2, init)
<1> DEFINE E == Bases(n, size)[n + 1]
           E2 == Bases(m, size2)[m + 1]
           L == runs[r].length * ClusterSize
           read == ReadOf(runs, r, left)
           x == DataSectors(read)
           done2 == DataDone(runs, r, done, left)
           left2 == DataLeft(runs, r, left)
           W == Walked(runs, init, m, start2, size2, r + 1, done2, left2)
           C == Covers(runs, m, start2, size2, init)
<1>0. SectorSize \in Nat \ {0}
  BY SectionsAssumption
<1>1. L \in Nat /\ SectorSize <= L
  BY BytesOfRun
<1>2. L % SectorSize = 0
  BY BytesOfRun
<1>3. /\ RunStart(runs, r + 1) = RunStart(runs, r) + L
      /\ RunStart(runs, r) \in Nat /\ RunStart(runs, r + 1) \in Nat
  BY BytesOfRun
<1>4. E \in Nat
  <2>1. n \in Nat /\ n + 1 \in 1..(n + 1) /\ \A k \in 1..n : size[k] \in Nat
    BY SectionsAssumption DEF Arrays
  <2> QED
    BY <2>1, BasesStep
<1>5. (left <= L /\ read = left) \/ (L < left /\ read = L)
  BY <1>1 DEF Min, ReadOf
<1>6. x \in Nat /\ Addr(x) \in Nat /\ Addr(SectorOf(runs, r)) = runs[r].lcn * ClusterSize
      /\ SectorOf(runs, r) \in Nat
  BY DataFacts, AddrNat
<1>7. E2 = E + Addr(x)
  BY DEF Grown
<1>8. \/ (read > 0 /\ done2 = done + read /\ left2 = left - read)
      \/ (~(read > 0) /\ done2 = done /\ left2 = left)
  BY DEF DataDone, DataLeft
<1>9. done + left = init
  BY DEF Walked
<1> HIDE DEF L, read, x, E, E2, done2, left2
<1>10. left > 0
  OBVIOUS
<1>11. done = RunStart(runs, r) /\ E = done /\ Covers(runs, n, start, size, done)
  BY <1>10 DEF Walked, E
<1>12. Covers(runs, m, start2, size2, done)
  BY <1>4, <1>11, GrownKeeps DEF E
<1>13. read \in Nat \ {0} /\ done2 = done + read /\ left2 = left - read /\ left2 >= 0
  BY <1>0, <1>1, <1>5, <1>8, <1>10
<1>14. read <= Addr(x) /\ (read % SectorSize = 0 => Addr(x) = read)
  BY <1>13, SectorsUp DEF x
<1>15. ASSUME NEW o \in Nat, o < done + read
      PROVE  InRuns(runs, o) /\ Image(TableOf(m, start2, size2), o) = ByteOf(runs, o, 0)
  <2>1. CASE o < done
    BY <1>12, <2>1 DEF Covers
  <2>2. CASE ~(o < done)
    <3>1. RunStart(runs, r) <= o /\ o < RunStart(runs, r + 1)
      <4>1. read \in Int /\ read <= L
        BY <1>1, <1>5
      <4>2. done <= o /\ o < done + L
        BY <1>1, <1>15, <2>2, <4>1
      <4> QED
        BY <1>3, <1>11, <4>2
    <3>2. ByteOf(runs, o, 0) = Addr(0) + runs[r].lcn * ClusterSize + (o - RunStart(runs, r))
      BY <3>1, ByteInRun
    <3>3. E <= o /\ o < E + Addr(x)
      <4>1. Addr(x) \in Nat /\ read \in Nat /\ read <= Addr(x) /\ E = done
        BY <1>6, <1>11, <1>13, <1>14
      <4>2. o < done + Addr(x)
        BY <1>15, <4>1
      <4> QED
        BY <2>2, <4>1, <4>2
    <3>4. Image(TableOf(m, start2, size2), o) = Addr(SectorOf(runs, r)) + (o - E)
      BY <3>3 DEF Grown, E, x, read
    <3>5. Addr(SectorOf(runs, r)) \in Nat
      BY <1>6, AddrNat
    <3>6. Addr(0) + runs[r].lcn * ClusterSize = Addr(SectorOf(runs, r))
      <4>1. Addr(0) + Addr(SectorOf(runs, r)) = Addr(SectorOf(runs, r))
        BY <3>5, AddrZero
      <4> QED
        BY <1>6, <4>1
    <3>7. InRuns(runs, o)
      BY <3>1 DEF InRuns
    <3> QED
      BY <1>11, <3>2, <3>4, <3>6, <3>7
  <2> QED
    BY <2>1, <2>2
<1>16. Covers(runs, m, start2, size2, done2)
  BY <1>13, <1>15 DEF Covers
<1>17. CASE left2 > 0
  <2>1. read = L
    BY <1>1, <1>5, <1>13, <1>17
  <2>2. read % SectorSize = 0
    BY <1>2, <2>1
  <2>3. E2 = done2 /\ done2 = RunStart(runs, r + 1)
    BY <1>1, <1>3, <1>7, <1>11, <1>13, <1>14, <2>1, <2>2
  <2>4. W
    BY <1>9, <1>13, <1>16, <1>17, <2>3 DEF Walked, E2
  <2>5. left2 \in Int /\ done2 \in Nat
    BY <1>13
  <2> QED
    BY <2>2, <2>4, <2>5 DEF done2, left2, read
<1>18. CASE left2 = 0
  <2>1. done2 = init
    BY <1>9, <1>13, <1>18
  <2>2. C
    BY <1>16, <2>1
  <2>3. W
    BY <1>18, <2>1, <2>2 DEF Walked
  <2>4. left2 \in Int /\ done2 \in Nat
    BY <1>13
  <2> QED
    BY <2>1, <2>2, <2>3, <2>4 DEF done2, left2, read
<1> QED
  BY <1>13, <1>17, <1>18

-----------------------------------------------------------------------------
(* Types *)

TypeInv ==
  /\ TypeOK
  /\ mounts \in MountLists
  /\ pc \notin {"volume", "refused"} => i \in 1..Len(mounts)
  /\ pc = "runs" => rl \in 1..(Len(Runs) + 1)

\* The file in turn is one of those the volumes may hold.
LEMMA FileFacts ==
  ASSUME mounts \in MountLists, i \in 1..Len(mounts)
  PROVE  /\ Runs \in Seq(Run) /\ Len(Runs) \in Nat
         /\ File.data_size \in Nat /\ File.init_size \in Nat /\ File.init_size <= File.data_size
         /\ mounts[i].startSector \in Nat
<1>1. mounts[i].startSector \in Nat /\ IsFile(mounts[i].file)
  BY MountsAssumption
<1>2. Runs \in Seq(Run)
  BY <1>1 DEF IsFile, Runs, File
<1> QED
  BY <1>1, <1>2 DEF IsFile, File

\* The arrays as the lemmas above take them.
LEMMA ArraysTyped == ASSUME TypeOK PROVE sections \in Arrays /\ sizes \in Arrays /\ s_count \in Nat
  BY SectionsAssumption DEF TypeOK, Arrays

\* The search starts in states of these types.
LEMMA TypeInit == Init => TypeInv
<1>1. SUFFICES ASSUME Init PROVE TypeInv
  OBVIOUS
<1>2. Len(mounts) \in Nat /\ mounts \in MountLists
  BY <1>1, MountsAssumption DEF Init
<1>3. TypeOK
  BY <1>1, <1>2, SectionsAssumption DEF Init, TypeOK
<1> QED
  BY <1>1, <1>2, <1>3 DEF Init, TypeInv

\* Bytes of the request in a run: an integer, negative behind a rounded hole.
LEMMA ToReadInt ==
  ASSUME TypeInv, InRun PROVE ToRead \in Int
<1>1. i \in 1..Len(mounts) /\ mounts \in MountLists /\ rl \in 1..Len(Runs)
  <2>1. pc = "runs" /\ rl <= Len(Runs)
    BY DEF InRun
  <2>2. i \in 1..Len(mounts) /\ mounts \in MountLists /\ rl \in 1..(Len(Runs) + 1)
    BY <2>1 DEF TypeInv
  <2>3. Len(Runs) \in Nat
    BY <2>2, FileFacts
  <2> QED
    BY <2>1, <2>2, <2>3
<1>2. Runs[rl].length * ClusterSize \in Nat
  BY <1>1, FileFacts, BytesOfRun
<1>3. count \in Int /\ ofs \in Nat
  BY DEF TypeInv, TypeOK
<1> QED
  BY <1>2, <1>3 DEF ToRead, Min

\* The run in turn exists.
LEMMA RunInTurn ==
  ASSUME TypeInv, InRun
  PROVE  /\ pc = "runs" /\ i \in 1..Len(mounts) /\ mounts \in MountLists
         /\ Runs \in Seq(Run) /\ Len(Runs) \in Nat /\ rl \in 1..Len(Runs)
<1>1. pc = "runs" /\ rl <= Len(Runs)
  BY DEF InRun
<1>2. i \in 1..Len(mounts) /\ mounts \in MountLists /\ rl \in 1..(Len(Runs) + 1)
  BY <1>1 DEF TypeInv
<1>3. Runs \in Seq(Run) /\ Len(Runs) \in Nat
  BY <1>2, FileFacts
<1> QED
  BY <1>1, <1>2, <1>3

\* Writing an entry behind the last one.
LEMMA AppendTyped ==
  ASSUME TypeOK, s_count < Max, NEW s \in 0..(Word - 1), NEW x \in Int, Append1(s, x)
  PROVE  /\ sections' \in [1..Max -> 0..(Word - 1)] /\ sizes' \in [1..Max -> 0..(Word - 1)]
         /\ s_count' \in 0..Max
<1>1. x % Word \in 0..(Word - 1)
  BY SectionsAssumption
<1> QED
  BY <1>1, SectionsAssumption DEF TypeOK, Append1

\* Growing the last entry.
LEMMA ExtendTyped ==
  ASSUME TypeOK, NEW x \in Int, Extend(x)
  PROVE  /\ sections' \in [1..Max -> 0..(Word - 1)] /\ sizes' \in [1..Max -> 0..(Word - 1)]
         /\ s_count' \in 0..Max
<1>1. sections' = sections /\ s_count' = s_count
  BY DEF Extend
<1>2. sizes' = [sizes EXCEPT ![s_count] = (@ + x) % Word]
  BY DEF Extend
<1>3. sizes' \in [1..Max -> 0..(Word - 1)]
  <2>1. CASE s_count \in 1..Max
    <3>1. sizes[s_count] + x \in Int
      BY <2>1, SectionsAssumption DEF TypeOK
    <3>2. (sizes[s_count] + x) % Word \in 0..(Word - 1)
      BY <3>1, SectionsAssumption
    <3> QED
      BY <1>2, <2>1, <3>2 DEF TypeOK
  <2>2. CASE s_count \notin 1..Max
    BY <1>2, <2>2 DEF TypeOK
  <2> QED
    BY <2>1, <2>2
<1> QED
  BY <1>1, <1>3 DEF TypeOK

\* The handlers that leave the arrays alone.
LEMMA TypeQuiet ==
  ASSUME TypeInv, OpenFile \/ OpenFails \/ CallUninitialized \/ MapFails \/ ZeroRun \/ RunsDone
                  \/ CallFailed \/ CallReturned \/ TooManyParts \/ NoParts \/ ReadCue
                  \/ TooManyPsxParts \/ LoadPlugin \/ NotFound \/ UNCHANGED vars
  PROVE  TypeInv'
<1> USE SectionsAssumption DEF TypeInv, TypeOK, arrays, walk, place, args
<1>0. Len(mounts) \in Nat
  BY MountsAssumption
<1>1. CASE OpenFile
  <2>1. i \in 1..Len(mounts)
    BY <1>0, <1>1 DEF OpenFile
  <2>2. File.data_size \in Nat
    BY <2>1, FileFacts
  <2> QED
    BY <1>0, <1>1, <2>1, <2>2 DEF OpenFile
<1>2. CASE OpenFails
  BY <1>0, <1>2 DEF OpenFails
<1>3. CASE CallUninitialized
  BY <1>0, <1>3 DEF CallUninitialized
<1>4. CASE MapFails
  BY <1>0, <1>4 DEF MapFails, ErrOut
<1>5. CASE ZeroRun
  BY <1>0, <1>5 DEF ZeroRun, ErrOut
<1>6. CASE RunsDone
  BY <1>0, <1>6 DEF RunsDone
<1>7. CASE CallFailed
  BY <1>0, <1>7 DEF CallFailed
<1>8. CASE CallReturned
  BY <1>0, <1>8 DEF CallReturned, Progress, BadCount
<1>9. CASE TooManyParts
  BY <1>0, <1>9 DEF TooManyParts
<1>10. CASE NoParts
  BY <1>0, <1>10 DEF NoParts
<1>11. CASE ReadCue
  BY SMTT(30), <1>0, <1>11 DEF ReadCue
<1>12. CASE TooManyPsxParts
  BY <1>0, <1>12 DEF TooManyPsxParts
<1>13. CASE LoadPlugin
  BY <1>0, <1>13 DEF LoadPlugin
<1>14. CASE NotFound
  BY <1>0, <1>14 DEF NotFound
<1>15. CASE UNCHANGED vars
  BY <1>0, <1>15 DEF vars, Runs, File
<1> QED
  BY <1>1, <1>2, <1>3, <1>4, <1>5, <1>6, <1>7, <1>8, <1>9, <1>10, <1>11, <1>12, <1>13, <1>14, <1>15

\* A call of ntfs_attr_to_sectors starts at or behind the run it finds.
LEMMA TypeCallAttr == ASSUME TypeInv, CallAttr PROVE TypeInv'
<1>1. pc = "file" /\ i \in 1..Len(mounts) /\ mounts \in MountLists
  BY DEF CallAttr, TypeInv
<1>2. /\ Runs \in Seq(Run) /\ Len(Runs) \in Nat
      /\ File.data_size \in Nat /\ File.init_size \in Nat
  BY <1>1, FileFacts
<1>3. mounts' = mounts /\ i' = i /\ Runs' = Runs
  BY DEF CallAttr, Runs, File
<1>4. rl' = FindVcn(Runs, pos) /\ ofs' = pos - Vcns(Runs)[rl'] * ClusterSize
  BY DEF CallAttr
<1>5. pos \in Nat /\ len \in Nat /\ pos < File.init_size
  BY DEF CallAttr, TypeInv, TypeOK
<1>6. rl' \in 1..(Len(Runs) + 1) /\ RunStart(Runs, rl') <= pos
  BY <1>2, <1>4, <1>5, FindVcnBefore
<1>7. RunStart(Runs, rl') \in Nat
  BY <1>2, <1>6, RunStarts
<1>8. ofs' \in Nat
  BY <1>4, <1>5, <1>6, <1>7 DEF RunStart
<1>9. count' = Min(len, File.init_size - pos) /\ total2' = len - count' /\ total' = 0
  BY DEF CallAttr
<1>10. count' \in Int /\ total2' \in Nat /\ total' \in Nat
  BY <1>2, <1>5, <1>9 DEF Min
<1>11. UNCHANGED <<mounts, i, sections, sizes, s_count, pos, len, ret, num_tracks>>
  BY DEF CallAttr, arrays, place, args
<1>12. TypeOK'
  BY <1>8, <1>10, <1>11 DEF TypeInv, TypeOK
<1> QED
  BY <1>1, <1>3, <1>6, <1>12 DEF TypeInv

\* A hole.
LEMMA TypeHoleRun == ASSUME TypeInv, HoleRun PROVE TypeInv'
<1> DEFINE x == IF ToRead < SectorSize THEN SectorSize ELSE ToRead
<1>0. InRun /\ TypeOK
  BY DEF HoleRun, TypeInv
<1>1. pc = "runs" /\ i \in 1..Len(mounts) /\ mounts \in MountLists /\ Len(Runs) \in Nat /\ rl \in 1..Len(Runs)
  BY <1>0, RunInTurn
<1>2. ToRead \in Int
  BY <1>0, ToReadInt
<1>3. x \in Nat /\ SectorSize <= x
  BY <1>2, SectionsAssumption
<1>4. x \div SectorSize \in Nat
  <2> HIDE DEF x
  <2> QED
    BY <1>3, SectorsOf
<1>5. Extend(x \div SectorSize) \/ Append1(Hole, x \div SectorSize)
  BY DEF HoleRun
<1>6. total' = total + x /\ count' = count - x /\ rl' = rl + 1 /\ ofs' = 0
  BY DEF HoleRun
<1>7. UNCHANGED <<mounts, i, pc, pos, len, total2, ret, num_tracks>>
  BY DEF HoleRun, place, args
<1> HIDE DEF x
<1>8. sections' \in [1..Max -> 0..(Word - 1)] /\ sizes' \in [1..Max -> 0..(Word - 1)] /\ s_count' \in 0..Max
  <2>1. s_count < Max /\ Hole \in 0..(Word - 1)
    BY <1>0, SectionsAssumption DEF InRun
  <2> QED
    BY <1>0, <1>4, <1>5, <2>1, AppendTyped, ExtendTyped
<1>9. TypeOK'
  BY <1>0, <1>3, <1>6, <1>7, <1>8 DEF TypeOK
<1>10. Runs' = Runs
  BY <1>7 DEF Runs, File
<1>11. rl' \in 1..(Len(Runs) + 1)
  BY <1>1, <1>6
<1> QED
  BY <1>1, <1>7, <1>9, <1>10, <1>11 DEF TypeInv

\* A rounded number of bytes is a number of sectors, maybe a negative one.
LEMMA DataSectorsInt == ASSUME NEW x \in Int PROVE DataSectors(x) \in Int
<1>1. CASE x > 0
  <2>1. x \in Nat \ {0}
    BY <1>1
  <2> QED
    BY <2>1, SectorsUp
<1>2. CASE ~(x > 0)
  <2>1. -x \in Nat
    BY <1>2
  <2>2. (-x) \div SectorSize \in Nat
    BY <2>1, SectorsOf
  <2> QED
    BY <1>2, <2>2 DEF DataSectors
<1> QED
  BY <1>1, <1>2

\* A run with data.
LEMMA TypeDataRun == ASSUME TypeInv, DataRun PROVE TypeInv'
<1> DEFINE x == DataSectors(ToRead)
           cur == (Runs[rl].lcn * ClusterSize + ofs) \div SectorSize
<1>0. InRun /\ TypeOK
  BY DEF DataRun, TypeInv
<1>1. /\ pc = "runs" /\ i \in 1..Len(mounts) /\ mounts \in MountLists
      /\ Runs \in Seq(Run) /\ Len(Runs) \in Nat /\ rl \in 1..Len(Runs)
  BY <1>0, RunInTurn
<1>2. ToRead \in Int
  BY <1>0, ToReadInt
<1>3. x \in Int
  BY <1>2, DataSectorsInt
<1>4. cur % Word \in 0..(Word - 1)
  <2>1. Runs[rl].lcn \in Nat
    BY <1>1, RunFacts DEF DataRun
  <2>2. Runs[rl].lcn * ClusterSize \in Nat
    BY <2>1, ClusterAddr, AddrNat
  <2>3. Runs[rl].lcn * ClusterSize + ofs \in Nat
    BY <1>0, <2>2 DEF TypeOK
  <2>4. cur \in Nat
    BY <2>3, SectorsOf
  <2> HIDE DEF cur
  <2> QED
    BY <2>4, SectionsAssumption
<1>5. Extend(x) \/ Append1(cur % Word, x)
  BY DEF DataRun
<1>6. /\ total' = IF ToRead > 0 THEN total + ToRead ELSE total
      /\ count' = IF ToRead > 0 THEN count - ToRead ELSE count
      /\ rl' = rl + 1 /\ ofs' = 0
  BY DEF DataRun
<1>7. UNCHANGED <<mounts, i, pos, len, total2, num_tracks>>
  BY DEF DataRun, place, args
<1>8. pc' \in {"runs", "returned"} /\ (ret' = ret \/ ret' = total')
  BY <1>1 DEF DataRun
<1> HIDE DEF x, cur
<1>9. sections' \in [1..Max -> 0..(Word - 1)] /\ sizes' \in [1..Max -> 0..(Word - 1)] /\ s_count' \in 0..Max
  <2>1. s_count < Max
    BY <1>0 DEF InRun
  <2> QED
    BY <1>0, <1>3, <1>4, <1>5, <2>1, AppendTyped, ExtendTyped
<1>10. total' \in Nat /\ count' \in Int
  BY <1>0, <1>2, <1>6 DEF TypeOK
<1>11. TypeOK'
  BY <1>0, <1>6, <1>7, <1>8, <1>9, <1>10 DEF TypeOK
<1>12. Runs' = Runs
  BY <1>7 DEF Runs, File
<1>13. rl' \in 1..(Len(Runs) + 1)
  BY <1>1, <1>6
<1> QED
  BY <1>1, <1>7, <1>8, <1>11, <1>12, <1>13 DEF TypeInv

\* The volume's start is added modulo the word.
LEMMA TypeAddStartSector == ASSUME TypeInv, AddStartSector PROVE TypeInv'
<1>1. pc = "file" /\ pc' = "parts" /\ TypeOK /\ i \in 1..Len(mounts) /\ mounts \in MountLists
  BY DEF AddStartSector, TypeInv
<1>2. ASSUME NEW k \in 1..Max PROVE Physical(k) \in 0..(Word - 1)
  <2>1. sections[k] \in 0..(Word - 1) /\ mounts[i].startSector \in Nat
    BY <1>1, FileFacts DEF TypeOK
  <2>2. (sections[k] + mounts[i].startSector) % Word \in 0..(Word - 1)
    BY <2>1, SectionsAssumption
  <2> QED
    BY <2>1, <2>2 DEF Physical
<1>3. sections' \in [1..Max -> 0..(Word - 1)]
  BY <1>2 DEF AddStartSector
<1>4. UNCHANGED <<mounts, i, sizes, s_count, pos, len, ofs, count, total, total2, ret, num_tracks>>
  BY DEF AddStartSector, place, walk, args
<1>5. TypeOK'
  BY <1>1, <1>3, <1>4 DEF TypeOK
<1> QED
  BY <1>1, <1>4, <1>5 DEF TypeInv

\* Every step keeps the types.
LEMMA TypeStep == TypeInv /\ [Next]_vars => TypeInv'
<1>1. SUFFICES ASSUME TypeInv, [Next]_vars PROVE TypeInv'
  OBVIOUS
<1>2. CASE Exited
  BY <1>1, <1>2, TypeQuiet DEF Exited
<1> QED
  BY <1>1, <1>2, TypeQuiet, TypeCallAttr, TypeHoleRun, TypeDataRun, TypeAddStartSector DEF Next, Step

\* The counters of ntfs_file_to_sectors and ntfs_attr_to_sectors stay in their
\* types: what is left of a file is never negative, and no more sections are
\* counted than the arrays have room for.
THEOREM SectionsTypeOK == Spec => []TypeOK
<1>1. TypeInv => TypeOK
  BY DEF TypeInv
<1> QED
  BY <1>1, TypeInit, TypeStep, PTL DEF Spec

-----------------------------------------------------------------------------
(* The inductive invariant *)

\* Nothing has gone wrong with the file in turn.
Sound == ~retried /\ FitsTable

\* Where the last section ends before run r: what prev_sector is for. A hole
\* is not longer than the runs so far.
LastEnds(runs, r, n, start, size, sector) ==
  /\ n = 0 => sector = Hole
  /\ n # 0 /\ start[n] = Hole => sector = Hole /\ Addr(size[n]) <= RunStart(runs, r)
  /\ n # 0 /\ start[n] # Hole => sector = start[n] + size[n] /\ sector < Hole

\* Behind a hole that was rounded up, count is negative and no whole number of
\* sectors: a run with data would end the call.
RoundedUp(left, sector) ==
  left < 0 => sector = Hole /\ \E k \in Nat : Addr(k) < -left /\ -left < Addr(k + 1)

\* A section is marked as a hole only if the file has one; others start at a
\* sector of the drive once the start of the volume is added.
Marked(runs, sector, n, start) ==
  \A k \in 1..n : \/ start[k] = Hole /\ \E r \in 1..Len(runs) : runs[r].lcn = NoLcn
                  \/ start[k] # Hole /\ start[k] + sector < Hole

\* The table describes the file on a drive.
Placed(runs, sector, init, n, start, size) ==
  \A o \in Nat : o < init => Image(TableOf(n, start, size), o) = ByteOf(runs, o, sector)

\* What is done and what is left make up the file.
PlaceInv == pc \in {"file", "runs", "returned"} => pos + len = File.data_size

\* Between two calls: nothing has been done, or the table is complete.
FileInv ==
  pc = "file" /\ Sound /\ s_count < Max =>
    \/ pos = 0 /\ s_count = 0
    \/ File.init_size <= pos /\ Covers(Runs, s_count, sections, sizes, File.init_size)

\* During a call, which is the first one.
WalkInv ==
  pc = "runs" /\ Sound =>
    /\ pos = 0 /\ ofs = 0 /\ total2 = len - File.init_size
    /\ Walked(Runs, File.init_size, s_count, sections, sizes, rl, total, count)
    /\ LastEnds(Runs, rl, s_count, sections, sizes, prev_sector)
    /\ RoundedUp(count, prev_sector)

\* After a call: it got to the end of the initialized part.
ReturnedInv ==
  pc = "returned" /\ Sound /\ s_count < Max =>
    /\ ret \in Nat /\ File.init_size <= pos + ret
    /\ Covers(Runs, s_count, sections, sizes, File.init_size)

MarksInv ==
  pc \in {"file", "runs", "returned"} /\ Sound =>
    Marked(Runs, mounts[i].startSector, s_count, sections)

\* With the start of the volume added.
PlacedInv ==
  pc \in {"parts", "pack", "loaded"} /\ Sound /\ ~HasHole /\ s_count \in 1..(Max - 1) =>
    Placed(Runs, mounts[i].startSector, File.init_size, s_count, sections, sizes)

LimitInv == pc \in {"pack", "loaded"} => s_count \in 1..(Max - 1)

\* The file in turn is the same after a step that stays with its volume.
LEMMA SameFile ==
  ASSUME mounts' = mounts, i' = i
  PROVE  /\ Runs' = Runs /\ File' = File /\ (mounts[i].startSector)' = mounts[i].startSector
         /\ FitsTable' = FitsTable /\ HasHole' = HasHole
  BY DEF Runs, File, FitsTable, HasHole

\* A negative number strictly between two sectors is no whole number of them.
LEMMA BetweenSectors ==
  ASSUME NEW x \in Int, NEW k \in Nat, Addr(k) < -x, -x < Addr(k + 1)
  PROVE  x % SectorSize # 0
<1>1. SUFFICES ASSUME x % SectorSize = 0 PROVE FALSE
  OBVIOUS
<1>2. Addr(k) \in Nat /\ Addr(k + 1) \in Nat
  BY AddrNat
<1>3. -x \in Nat
  BY <1>2
<1>4. PICK q \in Int : x = SectorSize * q
  <2>1. \E q \in Int, y \in 0..(SectorSize - 1) : x = SectorSize * q + y /\ y = x % SectorSize
    BY SectionsAssumption
  <2>2. PICK q \in Int, y \in 0..(SectorSize - 1) : x = SectorSize * q + y /\ y = x % SectorSize
    BY <2>1
  <2>3. SectorSize * q \in Int
    BY SectionsAssumption
  <2>4. x = SectorSize * q
    BY <1>1, <2>2, <2>3
  <2> QED
    BY <2>4
<1>5. -x = SectorSize * (-q)
  BY <1>4, SectionsAssumption
<1>6. -q \in Nat
  <2>1. SUFFICES ASSUME q > 0 PROVE FALSE
    OBVIOUS
  <2>2. SectorSize * q > 0
    BY <2>1, SectionsAssumption
  <2> QED
    BY <1>3, <1>4, <2>2
<1> DEFINE p == -q
<1>7. p \in Nat /\ -x = Addr(p)
  BY <1>5, <1>6 DEF Addr
<1> HIDE DEF p
<1>8. CASE p <= k
  <2>1. Addr(p) <= Addr(k)
    BY <1>7, <1>8, AddrOrdered
  <2> QED
    BY <1>2, <1>7, <2>1
<1>9. CASE k + 1 <= p
  <2>1. Addr(k + 1) <= Addr(p)
    BY <1>7, <1>9, AddrOrdered
  <2> QED
    BY <1>2, <1>7, <2>1
<1> QED
  BY <1>7, <1>8, <1>9

\* Sectors of a run are less than the mark of a hole.
LEMMA FitsRun ==
  ASSUME TypeInv, InRun, FitsTable, Runs[rl].lcn # NoLcn, NEW left \in Nat \ {0}
  PROVE  /\ SectorOf(Runs, rl) \in Nat
         /\ DataSectors(ReadOf(Runs, rl, left)) \in Nat
         /\ SectorOf(Runs, rl) + DataSectors(ReadOf(Runs, rl, left)) + mounts[i].startSector < Hole
         /\ mounts[i].startSector \in Nat
<1> DEFINE top == ((Runs[rl].lcn + Runs[rl].length) * ClusterSize) \div SectorSize
           x == DataSectors(ReadOf(Runs, rl, left))
<1>1. /\ i \in 1..Len(mounts) /\ mounts \in MountLists
      /\ Runs \in Seq(Run) /\ Len(Runs) \in Nat /\ rl \in 1..Len(Runs)
  BY RunInTurn
<1>2. mounts[i].startSector \in Nat
  BY <1>1, FileFacts
<1>4. SectorOf(Runs, rl) \in Nat /\ x \in Nat /\ SectorOf(Runs, rl) + x <= top /\ top \in Nat
  BY <1>1, DataFacts
<1>5. mounts[i].startSector + top < Hole
  BY <1>1 DEF FitsTable
<1>6. Hole \in Nat
  BY SectionsAssumption
<1> HIDE DEF top, x
<1>7. SectorOf(Runs, rl) + x + mounts[i].startSector < Hole
  BY <1>2, <1>4, <1>5, <1>6
<1> QED
  BY <1>2, <1>4, <1>7 DEF x

\* A number of sectors that do not go beyond the word is kept as it is.
LEMMA SmallMod ==
  ASSUME NEW b \in Nat, b < Addr(Word), NEW z \in Nat, Addr(z) <= b
  PROVE  z % Word = z
<1>1. Word \in Nat \ {0}
  BY SectionsAssumption
<1>2. z < Word
  <2>1. SUFFICES ASSUME Word <= z PROVE FALSE
    BY <1>1
  <2>2. Addr(Word) <= Addr(z) /\ Addr(Word) \in Nat /\ Addr(z) \in Nat
    BY <1>1, <2>1, AddrOrdered, AddrNat
  <2> QED
    BY <2>2
<1> QED
  BY <1>1, <1>2

\* The sectors a hole adds to the table are in its run.
LEMMA HoleFits ==
  ASSUME Runs \in Seq(Run), rl \in 1..Len(Runs), count \in Int, FitsTable
  PROVE  LET y == HoleBytes(Runs, rl, count) \div SectorSize
         IN  /\ RunStart(Runs, rl) \in Nat /\ RunStart(Runs, rl + 1) \in Nat
             /\ Addr(y) \in Nat /\ RunStart(Runs, rl) + Addr(y) <= RunStart(Runs, rl + 1)
             /\ RunStart(Runs, rl + 1) < Addr(Word)
<1> DEFINE L == Runs[rl].length * ClusterSize
           x == HoleBytes(Runs, rl, count)
           y == x \div SectorSize
<1>0. SectorSize \in Nat \ {0} /\ Word \in Nat /\ Addr(Word) \in Nat
  BY SectionsAssumption, AddrNat
<1>1. /\ L \in Nat /\ SectorSize <= L
      /\ RunStart(Runs, rl + 1) = RunStart(Runs, rl) + L
      /\ RunStart(Runs, rl) \in Nat /\ RunStart(Runs, rl + 1) \in Nat
  BY BytesOfRun
<1>2. x \in Nat /\ x <= L
  <2> HIDE DEF L
  <2>1. ReadOf(Runs, rl, count) \in Int /\ ReadOf(Runs, rl, count) <= L
    BY <1>1 DEF ReadOf, Min, L
  <2> QED
    BY <1>0, <1>1, <2>1 DEF HoleBytes
<1> HIDE DEF x, L
<1>3. y \in Nat /\ Addr(y) \in Nat /\ Addr(y) <= x
  BY <1>2, SectorsOf, AddrNat
<1>4. RunStart(Runs, rl + 1) <= RunStart(Runs, Len(Runs) + 1) /\ RunStart(Runs, Len(Runs) + 1) \in Nat
  <2>1. Len(Runs) \in Nat
    BY RunStarts
  <2>2. rl + 1 \in 1..(Len(Runs) + 1) /\ Len(Runs) + 1 \in 1..(Len(Runs) + 1)
    BY <2>1
  <2> QED
    BY <2>2, RunStartBound, RunStarts
<1>5. RunStart(Runs, Len(Runs) + 1) < Addr(Word)
  BY DEF FitsTable, RunStart
<1>6. RunStart(Runs, rl) + Addr(y) <= RunStart(Runs, rl + 1) /\ RunStart(Runs, rl + 1) < Addr(Word)
  <2> HIDE DEF y
  <2> QED
    BY <1>0, <1>1, <1>2, <1>3, <1>4, <1>5
<1> QED
  BY <1>1, <1>3, <1>6 DEF x

\* A hole is walked.
LEMMA WalkHole ==
  ASSUME TypeInv, WalkInv, MarksInv, HoleRun, Sound
  PROVE  /\ Walked(Runs, File.init_size, s_count', sections', sizes', rl', total', count')
         /\ LastEnds(Runs, rl', s_count', sections', sizes', prev_sector')
         /\ RoundedUp(count', prev_sector')
         /\ Marked(Runs, mounts[i].startSector, s_count', sections')
<1> DEFINE x == HoleBytes(Runs, rl, count)
<1>0. InRun /\ TypeOK /\ Runs[rl].lcn = NoLcn
  BY DEF HoleRun, TypeInv
<1>1. /\ pc = "runs" /\ i \in 1..Len(mounts) /\ mounts \in MountLists
      /\ Runs \in Seq(Run) /\ Len(Runs) \in Nat /\ rl \in 1..Len(Runs)
  BY <1>0, RunInTurn
<1>2. sections \in Arrays /\ sizes \in Arrays /\ s_count \in 0..(Max - 1) /\ s_count \in 0..Max /\ Max \in Nat
  BY <1>0, ArraysTyped, SectionsAssumption DEF InRun, TypeOK
<1>3. /\ ofs = 0 /\ Walked(Runs, File.init_size, s_count, sections, sizes, rl, total, count)
      /\ LastEnds(Runs, rl, s_count, sections, sizes, prev_sector)
  BY <1>1 DEF WalkInv
<1>4. Marked(Runs, mounts[i].startSector, s_count, sections)
  BY <1>1 DEF MarksInv
<1>5. count # 0 /\ count \in Int /\ total \in Nat /\ File.init_size \in Nat
  BY <1>0, <1>1, FileFacts DEF InRun, TypeOK
<1>6. ToRead = ReadOf(Runs, rl, count) /\ ReadOf(Runs, rl, count) \in Int
  <2>1. Runs[rl].length * ClusterSize \in Nat
    BY <1>1, BytesOfRun
  <2>2. Runs[rl].length * ClusterSize - ofs = Runs[rl].length * ClusterSize
    BY <1>3, <2>1
  <2>3. ToRead = ReadOf(Runs, rl, count)
    BY <2>2 DEF ToRead, ReadOf
  <2> QED
    BY <1>0, <2>3, ToReadInt
<1>7. /\ IF s_count > 0 /\ prev_sector = Hole
         THEN Extend(x \div SectorSize) ELSE Append1(Hole, x \div SectorSize)
      /\ total' = total + x /\ count' = count - x /\ rl' = rl + 1 /\ prev_sector' = Hole
  BY <1>6 DEF HoleRun, HoleBytes, HoleEnd
<1>8. x \in Nat /\ x \div SectorSize \in Nat
  <2>1. x \in Nat
    BY <1>6, SectionsAssumption DEF HoleBytes
  <2> HIDE DEF x
  <2> QED
    BY <2>1, SectorsOf
<1>9. Hole \in Nat
  BY SectionsAssumption
<1> HIDE DEF x
<1> DEFINE y == x \div SectorSize
<1>10. /\ RunStart(Runs, rl) \in Nat /\ RunStart(Runs, rl + 1) \in Nat
       /\ Addr(y) \in Nat /\ RunStart(Runs, rl) + Addr(y) <= RunStart(Runs, rl + 1)
       /\ RunStart(Runs, rl + 1) < Addr(Word)
  BY <1>1, <1>5, HoleFits DEF x, Sound
<1>11. \A z \in Nat : Addr(z) <= RunStart(Runs, rl + 1) => z % Word = z
  BY <1>10, SmallMod
<1>12. /\ Grown(s_count, sections, sizes, s_count', sections', sizes', Hole, x \div SectorSize)
       /\ LastEnds(Runs, rl', s_count', sections', sizes', prev_sector')
       /\ Marked(Runs, mounts[i].startSector, s_count', sections')
  <2>1. CASE s_count > 0 /\ prev_sector = Hole
    <3>1. sections[s_count] = Hole /\ Addr(sizes[s_count]) <= RunStart(Runs, rl)
      BY <1>2, <1>3, <1>9, <2>1 DEF LastEnds
    <3>2. s_count \in 1..Max /\ sizes[s_count] \in Nat
      BY <1>2, <2>1 DEF Arrays
    <3>3. Addr(sizes[s_count] + y) <= RunStart(Runs, rl + 1) /\ sizes[s_count] + y \in Nat
      <4>1. Addr(sizes[s_count] + y) = Addr(sizes[s_count]) + Addr(y) /\ Addr(sizes[s_count]) \in Nat
        BY <1>8, <3>2, AddrSum, AddrNat
      <4> QED
        BY <1>8, <1>10, <3>1, <3>2, <4>1
    <3>4. (sizes[s_count] + y) % Word = sizes[s_count] + y
      BY <1>11, <3>3
    <3>5. /\ sizes' = [sizes EXCEPT ![s_count] = @ + (x \div SectorSize)]
          /\ sections' = sections /\ s_count' = s_count
      BY <1>7, <2>1, <3>4 DEF Extend
    <3>6. Grown(s_count, sections, sizes, s_count, sections,
                [sizes EXCEPT ![s_count] = @ + (x \div SectorSize)], Hole, x \div SectorSize)
      BY <1>2, <1>8, <3>1, <3>2, ExtendGrows
    <3>7. sizes'[s_count'] = sizes[s_count] + y
      BY <1>2, <3>5, <3>2 DEF Arrays
    <3>8. LastEnds(Runs, rl', s_count', sections', sizes', prev_sector')
      BY <1>2, <1>7, <2>1, <3>5, <3>1, <3>3, <3>7 DEF LastEnds
    <3> QED
      BY <1>4, <3>5, <3>6, <3>8
  <2>2. CASE ~(s_count > 0 /\ prev_sector = Hole)
    <3>1. Addr(y) <= RunStart(Runs, rl + 1)
      BY <1>10
    <3>2. y % Word = y
      BY <1>8, <1>11, <3>1
    <3>3. /\ sections' = [sections EXCEPT ![s_count + 1] = Hole]
          /\ sizes' = [sizes EXCEPT ![s_count + 1] = x \div SectorSize]
          /\ s_count' = s_count + 1
      BY <1>7, <2>2, <3>2 DEF Append1
    <3>4. Grown(s_count, sections, sizes, s_count + 1, [sections EXCEPT ![s_count + 1] = Hole],
                [sizes EXCEPT ![s_count + 1] = x \div SectorSize], Hole, x \div SectorSize)
      BY <1>2, <1>8, <1>9, AppendGrows
    <3>5. /\ sections'[s_count'] = Hole /\ sizes'[s_count'] = y /\ s_count' # 0
          /\ \A k \in 1..s_count : sections'[k] = sections[k]
      BY <1>2, <3>3 DEF Arrays
    <3>6. LastEnds(Runs, rl', s_count', sections', sizes', prev_sector')
      BY <1>7, <3>5, <3>1 DEF LastEnds
    <3>7. \A k \in 1..s_count' : k \in 1..s_count \/ k = s_count'
      BY <1>2, <3>3
    <3>8. Marked(Runs, mounts[i].startSector, s_count', sections')
      BY <1>0, <1>1, <1>4, <3>5, <3>7 DEF Marked
    <3> QED
      BY <3>3, <3>4, <3>6, <3>8
  <2> QED
    BY <2>1, <2>2
<1>13. Walked(Runs, File.init_size, s_count', sections', sizes', rl + 1, total + x, count - x)
  BY <1>0, <1>1, <1>2, <1>3, <1>5, <1>12, HoleWalked DEF x
<1>14. RoundedUp(count', prev_sector')
  <2>1. SUFFICES ASSUME count - x < 0 PROVE \E k \in Nat : Addr(k) < -(count - x) /\ -(count - x) < Addr(k + 1)
    BY <1>7 DEF RoundedUp
  <2>2. Runs[rl].length * ClusterSize \in Nat /\ SectorSize <= Runs[rl].length * ClusterSize
    BY <1>1, BytesOfRun
  <2>3. SectorSize \in Nat \ {0} /\ x \in Nat
    BY <1>8, SectionsAssumption
  <2>4. x = SectorSize /\ count < SectorSize
    BY <1>5, <2>1, <2>2, <2>3 DEF x, HoleBytes, ReadOf, Min
  <2>5. CASE count > 0
    <3>1. Addr(0) < -(count - x) /\ -(count - x) < Addr(0 + 1)
      BY <1>5, <2>1, <2>3, <2>4, <2>5, AddrZero
    <3> QED
      BY <3>1
  <2>6. CASE count < 0
    <3>1. PICK k \in Nat : Addr(k) < -count /\ -count < Addr(k + 1)
      BY <1>1, <2>6 DEF WalkInv, RoundedUp
    <3>2. /\ Addr(k + 1) = Addr(k) + SectorSize /\ Addr((k + 1) + 1) = Addr(k + 1) + SectorSize
          /\ Addr(k) \in Nat /\ Addr(k + 1) \in Nat
      <4>1. k \in Nat /\ k + 1 \in Nat /\ 1 \in Nat
        OBVIOUS
      <4> QED
        BY <4>1, AddrSum, AddrZero, AddrNat
    <3>3. Addr(k + 1) < -(count - x) /\ -(count - x) < Addr((k + 1) + 1)
      BY <1>5, <2>3, <2>4, <3>1, <3>2
    <3> QED
      BY <3>3
  <2> QED
    BY <1>5, <2>5, <2>6
<1> QED
  BY <1>7, <1>12, <1>13, <1>14

\* A run with data is walked, while something is left; a call that ends with it
\* has got to the end of the initialized part.
LEMMA WalkDataLeft ==
  ASSUME TypeInv, WalkInv, MarksInv, DataRun, Sound, count > 0
  PROVE  /\ Walked(Runs, File.init_size, s_count', sections', sizes', rl', total', count')
         /\ LastEnds(Runs, rl', s_count', sections', sizes', prev_sector')
         /\ RoundedUp(count', prev_sector')
         /\ Marked(Runs, mounts[i].startSector, s_count', sections')
         /\ pc' # "runs" => /\ ret' = total' /\ total' \in Nat /\ File.init_size <= total'
                            /\ Covers(Runs, s_count', sections', sizes', File.init_size)
<1> DEFINE read == ReadOf(Runs, rl, count)
           x == DataSectors(read)
           cur == SectorOf(Runs, rl)
           sector == mounts[i].startSector
<1>0. InRun /\ TypeOK /\ Runs[rl].lcn # NoLcn
  BY DEF DataRun, TypeInv
<1>1. /\ pc = "runs" /\ i \in 1..Len(mounts) /\ mounts \in MountLists
      /\ Runs \in Seq(Run) /\ Len(Runs) \in Nat /\ rl \in 1..Len(Runs)
  BY <1>0, RunInTurn
<1>2. sections \in Arrays /\ sizes \in Arrays /\ s_count \in 0..(Max - 1) /\ s_count \in 0..Max /\ Max \in Nat
  BY <1>0, ArraysTyped, SectionsAssumption DEF InRun, TypeOK
<1>3. /\ ofs = 0 /\ Walked(Runs, File.init_size, s_count, sections, sizes, rl, total, count)
      /\ LastEnds(Runs, rl, s_count, sections, sizes, prev_sector)
  BY <1>1 DEF WalkInv
<1>4. Marked(Runs, sector, s_count, sections)
  BY <1>1 DEF MarksInv
<1>5. count \in Nat \ {0} /\ total \in Nat /\ File.init_size \in Nat
  BY <1>0, <1>1, FileFacts DEF InRun, TypeOK
<1>6. cur \in Nat /\ x \in Nat /\ cur + x + sector < Hole /\ sector \in Nat
  BY <1>0, <1>5, FitsRun DEF Sound
<1>7. Hole \in Nat /\ Word \in Nat \ {0} /\ Hole = Word - 1
  BY SectionsAssumption
<1>8. ToRead = read
  <2>1. Runs[rl].length * ClusterSize \in Nat
    BY <1>1, BytesOfRun
  <2>2. Runs[rl].length * ClusterSize - ofs = Runs[rl].length * ClusterSize
    BY <1>3, <2>1
  <2> QED
    BY <2>2 DEF ToRead, ReadOf
<1>9. (Runs[rl].lcn * ClusterSize + ofs) \div SectorSize = cur
  <2>1. Runs[rl].lcn \in Nat
    BY <1>0, <1>1, RunFacts
  <2>2. Runs[rl].lcn * ClusterSize \in Nat
    BY <2>1, ClusterAddr, AddrNat
  <2>3. Runs[rl].lcn * ClusterSize + ofs = Runs[rl].lcn * ClusterSize
    BY <1>3, <2>2
  <2> QED
    BY <2>3 DEF SectorOf
<1>10. /\ IF prev_sector = cur
          THEN Extend(x) /\ prev_sector' = prev_sector + x
          ELSE Append1(cur % Word, x) /\ prev_sector' = (cur + x) % Word
       /\ total' = DataDone(Runs, rl, total, count)
       /\ count' = DataLeft(Runs, rl, count)
       /\ rl' = rl + 1
  BY <1>8, <1>9 DEF DataRun, DataDone, DataLeft
<1>11. pc' # "runs" => ret' = total' /\ read % SectorSize # 0
  BY <1>8 DEF DataRun
<1> HIDE DEF cur, x, read, sector
<1>12. /\ cur % Word = cur /\ (cur + x) % Word = cur + x /\ x % Word = x
       /\ cur # Hole /\ cur + sector < Hole /\ cur + x < Hole
  <2>1. cur < Word /\ cur + x < Word /\ x < Word /\ cur \in Nat /\ cur + x \in Nat /\ x \in Nat
    BY <1>6, <1>7
  <2>2. \A y \in Nat : y < Word => y % Word = y
    BY <1>7
  <2> QED
    BY <1>6, <1>7, <2>1, <2>2
<1>13. /\ Grown(s_count, sections, sizes, s_count', sections', sizes', cur, x)
       /\ LastEnds(Runs, rl', s_count', sections', sizes', prev_sector')
       /\ Marked(Runs, sector, s_count', sections')
  <2>1. CASE prev_sector = cur
    <3>1. s_count # 0 /\ sections[s_count] # Hole /\ cur = sections[s_count] + sizes[s_count]
      BY <1>3, <1>12, <2>1 DEF LastEnds
    <3>2. s_count \in 1..Max
      BY <1>2, <3>1
    <3>3. sizes[s_count] \in Nat /\ sections[s_count] \in Nat
      BY <1>2, <3>2 DEF Arrays
    <3>4. (sizes[s_count] + x) % Word = sizes[s_count] + x
      <4>1. sizes[s_count] + x < Word /\ sizes[s_count] + x \in Nat
        BY <1>6, <1>7, <1>12, <3>1, <3>3
      <4> QED
        BY <1>7, <4>1
    <3>5. /\ sizes' = [sizes EXCEPT ![s_count] = @ + x] /\ sections' = sections /\ s_count' = s_count
          /\ prev_sector' = cur + x
      BY <1>10, <2>1, <3>4 DEF Extend
    <3>6. Grown(s_count, sections, sizes, s_count, sections, [sizes EXCEPT ![s_count] = @ + x], cur, x)
      BY <1>2, <1>6, <1>12, <3>1, <3>2, ExtendGrows
    <3>7. sizes'[s_count] = sizes[s_count] + x /\ sizes[s_count] \in Nat /\ sections[s_count] \in Nat
      BY <1>2, <3>5, <3>2 DEF Arrays
    <3>8. prev_sector' = sections[s_count] + sizes'[s_count]
      BY <1>6, <3>5, <3>1, <3>7
    <3>9. LastEnds(Runs, rl', s_count', sections', sizes', prev_sector')
      BY <1>12, <3>5, <3>1, <3>8 DEF LastEnds
    <3> QED
      BY <1>4, <3>5, <3>6, <3>9
  <2>2. CASE prev_sector # cur
    <3>1. /\ sections' = [sections EXCEPT ![s_count + 1] = cur]
          /\ sizes' = [sizes EXCEPT ![s_count + 1] = x]
          /\ s_count' = s_count + 1 /\ prev_sector' = cur + x
      BY <1>10, <1>12, <2>2 DEF Append1
    <3>2. Grown(s_count, sections, sizes, s_count + 1, [sections EXCEPT ![s_count + 1] = cur],
                [sizes EXCEPT ![s_count + 1] = x], cur, x)
      BY <1>2, <1>6, AppendGrows
    <3>3. /\ sections'[s_count'] = cur /\ sizes'[s_count'] = x /\ s_count' # 0
          /\ \A k \in 1..s_count : sections'[k] = sections[k]
      BY <1>2, <3>1 DEF Arrays
    <3>4. LastEnds(Runs, rl', s_count', sections', sizes', prev_sector')
      BY <1>12, <3>1, <3>3 DEF LastEnds
    <3>5. \A k \in 1..s_count' : k \in 1..s_count \/ k = s_count'
      BY <1>2, <3>1
    <3>6. Marked(Runs, sector, s_count', sections')
      BY <1>4, <1>12, <3>3, <3>5 DEF Marked
    <3> QED
      BY <3>1, <3>2, <3>4, <3>6
  <2> QED
    BY <2>1, <2>2
<1>14. cur # Hole
  BY <1>12
<1>15. /\ Walked(Runs, File.init_size, s_count', sections', sizes', rl + 1,
                 DataDone(Runs, rl, total, count), DataLeft(Runs, rl, count))
       /\ DataDone(Runs, rl, total, count) \in Nat
       /\ read % SectorSize # 0 =>
            /\ File.init_size <= DataDone(Runs, rl, total, count)
            /\ Covers(Runs, s_count', sections', sizes', File.init_size)
  BY <1>0, <1>1, <1>2, <1>3, <1>5, <1>13, <1>14, DataWalked DEF cur, x, read
<1>16. RoundedUp(count', prev_sector')
  <2>1. Runs[rl].length * ClusterSize \in Nat
    BY <1>1, BytesOfRun
  <2>2. ~(count' < 0)
    BY <1>5, <1>10, <2>1 DEF DataLeft, ReadOf, Min
  <2> QED
    BY <2>2 DEF RoundedUp
<1> QED
  BY <1>10, <1>11, <1>13, <1>15, <1>16 DEF sector

\* A run with data behind a hole that was rounded up: whatever size its entry
\* gets, it is behind the initialized part, and the call ends.
LEMMA WalkDataBehind ==
  ASSUME TypeInv, WalkInv, MarksInv, DataRun, Sound, count < 0
  PROVE  /\ pc' # "runs"
         /\ Marked(Runs, mounts[i].startSector, s_count', sections')
         /\ ret' = total' /\ total' \in Nat /\ File.init_size <= total'
         /\ Covers(Runs, s_count', sections', sizes', File.init_size)
<1> DEFINE x == DataSectors(ToRead) % Word
           cur == SectorOf(Runs, rl)
           sector == mounts[i].startSector
           E == Bases(s_count, sizes)[s_count + 1]
<1>0. InRun /\ TypeOK /\ Runs[rl].lcn # NoLcn
  BY DEF DataRun, TypeInv
<1>1. /\ pc = "runs" /\ i \in 1..Len(mounts) /\ mounts \in MountLists
      /\ Runs \in Seq(Run) /\ Len(Runs) \in Nat /\ rl \in 1..Len(Runs)
  BY <1>0, RunInTurn
<1>2. sections \in Arrays /\ sizes \in Arrays /\ s_count \in 0..(Max - 1) /\ s_count \in Nat /\ Max \in Nat
  BY <1>0, ArraysTyped, SectionsAssumption DEF InRun, TypeOK
<1>3. /\ ofs = 0 /\ Walked(Runs, File.init_size, s_count, sections, sizes, rl, total, count)
      /\ prev_sector = Hole /\ \E k \in Nat : Addr(k) < -count /\ -count < Addr(k + 1)
  BY <1>1 DEF WalkInv, RoundedUp
<1>4. Marked(Runs, sector, s_count, sections)
  BY <1>1 DEF MarksInv
<1>5. count \in Int /\ total \in Nat /\ File.init_size \in Nat
  BY <1>0, <1>1, FileFacts DEF TypeOK
<1>6. cur \in Nat /\ cur + sector < Hole /\ sector \in Nat
  <2>1. 1 \in Nat \ {0}
    OBVIOUS
  <2>2. /\ SectorOf(Runs, rl) \in Nat /\ DataSectors(ReadOf(Runs, rl, 1)) \in Nat
        /\ SectorOf(Runs, rl) + DataSectors(ReadOf(Runs, rl, 1)) + mounts[i].startSector < Hole
        /\ mounts[i].startSector \in Nat
    BY <1>0, <2>1, FitsRun DEF Sound
  <2>3. Hole \in Nat
    BY SectionsAssumption
  <2> QED
    BY <2>2, <2>3
<1>7. Hole \in Nat /\ Word \in Nat \ {0} /\ Hole = Word - 1
  BY SectionsAssumption
<1>8. ToRead = count /\ ~(ToRead > 0) /\ ToRead % SectorSize # 0
  <2>1. Runs[rl].length * ClusterSize \in Nat
    BY <1>1, BytesOfRun
  <2>2. Runs[rl].length * ClusterSize - ofs = Runs[rl].length * ClusterSize
    BY <1>3, <2>1
  <2>3. ToRead = count
    BY <1>5, <2>1, <2>2 DEF ToRead, Min
  <2>4. count % SectorSize # 0
    BY <1>3, <1>5, BetweenSectors
  <2> QED
    BY <1>5, <2>3, <2>4
<1>9. (Runs[rl].lcn * ClusterSize + ofs) \div SectorSize = cur
  <2>1. Runs[rl].lcn \in Nat
    BY <1>0, <1>1, RunFacts
  <2>2. Runs[rl].lcn * ClusterSize \in Nat
    BY <2>1, ClusterAddr, AddrNat
  <2>3. Runs[rl].lcn * ClusterSize + ofs = Runs[rl].lcn * ClusterSize
    BY <1>3, <2>2
  <2> QED
    BY <2>3 DEF SectorOf
<1>10. cur # Hole /\ cur % Word = cur
  BY <1>6, <1>7
<1>11. /\ Append1(cur % Word, DataSectors(ToRead)) /\ total' = total
       /\ pc' = "returned" /\ ret' = total'
  BY <1>3, <1>8, <1>9, <1>10 DEF DataRun
<1>12. x \in Nat
  <2>1. DataSectors(ToRead) \in Int
    BY <1>5, <1>8, DataSectorsInt
  <2> HIDE DEF x
  <2> QED
    BY <1>7, <2>1 DEF x
<1>13. /\ sections' = [sections EXCEPT ![s_count + 1] = cur]
       /\ sizes' = [sizes EXCEPT ![s_count + 1] = x]
       /\ s_count' = s_count + 1
  BY <1>10, <1>11 DEF Append1
<1> HIDE DEF x, cur, sector
<1>14. Grown(s_count, sections, sizes, s_count', sections', sizes', cur, x)
  BY <1>2, <1>6, <1>12, <1>13, AppendGrows
<1>15. Covers(Runs, s_count, sections, sizes, File.init_size) /\ File.init_size <= E
       /\ total + count = File.init_size
  BY <1>3, <1>5 DEF Walked
<1>16. E \in Nat
  <2>1. s_count + 1 \in 1..(s_count + 1) /\ \A k \in 1..s_count : sizes[k] \in Nat
    BY <1>2 DEF Arrays
  <2> QED
    BY <1>2, <2>1, BasesStep
<1>17. Covers(Runs, s_count', sections', sizes', File.init_size)
  BY <1>5, <1>14, <1>15, <1>16, GrownKeeps
<1>18. Marked(Runs, sector, s_count', sections')
  <2>1. sections'[s_count'] = cur /\ \A k \in 1..s_count : sections'[k] = sections[k]
    BY <1>2, <1>13 DEF Arrays
  <2>2. \A k \in 1..s_count' : k \in 1..s_count \/ k = s_count'
    BY <1>2, <1>13
  <2> QED
    BY <1>4, <1>6, <1>10, <2>1, <2>2 DEF Marked
<1> QED
  BY <1>5, <1>11, <1>15, <1>17, <1>18 DEF sector

\* A run with data.
LEMMA WalkData ==
  ASSUME TypeInv, WalkInv, MarksInv, DataRun, Sound
  PROVE  /\ pc' = "runs" =>
              /\ Walked(Runs, File.init_size, s_count', sections', sizes', rl', total', count')
              /\ LastEnds(Runs, rl', s_count', sections', sizes', prev_sector')
              /\ RoundedUp(count', prev_sector')
         /\ Marked(Runs, mounts[i].startSector, s_count', sections')
         /\ pc' # "runs" => /\ ret' = total' /\ total' \in Nat /\ File.init_size <= total'
                            /\ Covers(Runs, s_count', sections', sizes', File.init_size)
<1>1. count > 0 \/ count < 0
  BY DEF DataRun, InRun, TypeInv, TypeOK
<1>2. CASE count > 0
  BY <1>2, WalkDataLeft
<1>3. CASE count < 0
  BY <1>3, WalkDataBehind
<1> QED
  BY <1>1, <1>2, <1>3

\* Section k holds byte o of every table with these sizes.
HeldBy(n, size, o, k) ==
  /\ Bases(n, size)[k] \in Nat
  /\ \A start : Image(TableOf(n, start, size), o) =
                  IF start[k] = Hole THEN Zero ELSE Addr(start[k]) + (o - Bases(n, size)[k])

\* A byte of the table is in the same section whatever the sections start at.
LEMMA ImageSomewhere ==
  ASSUME NEW n \in Nat, NEW size, \A k \in 1..n : size[k] \in Nat,
         NEW o \in Nat, o < Bases(n, size)[n + 1]
  PROVE  \E k \in 1..n : HeldBy(n, size, o, k)
<1>1. PICK k \in 1..n : Bases(n, size)[k] <= o /\ o < Bases(n, size)[k + 1]
  BY BasesCover
<1>2. k \in 1..(n + 1)
  OBVIOUS
<1>3. Bases(n, size)[k] \in Nat
  BY <1>2, BasesStep
<1>4. ASSUME NEW start
      PROVE  Image(TableOf(n, start, size), o) =
               IF start[k] = Hole THEN Zero ELSE Addr(start[k]) + (o - Bases(n, size)[k])
  BY <1>1, ImageIn
<1> QED
  BY <1>3, <1>4 DEF HeldBy

\* Sums in the order in which they are needed.
LEMMA Reordered ==
  ASSUME NEW u \in Int, NEW v \in Int, NEW w \in Int PROVE (u + v) + w = (u + w) + v
  OBVIOUS

\* A table without holes, moved by the start of the volume.
LEMMA MovedTable ==
  ASSUME NEW runs \in Seq(Run), NEW init \in Nat, NEW sector \in Nat,
         NEW n \in Nat, NEW start, NEW start2, NEW size, \A k \in 1..n : size[k] \in Nat,
         Covers(runs, n, start, size, init),
         \A r \in 1..Len(runs) : runs[r].lcn # NoLcn,
         \A k \in 1..n : /\ start[k] \in Nat /\ start[k] # Hole
                         /\ start2[k] # Hole /\ start2[k] = start[k] + sector
  PROVE  Placed(runs, sector, init, n, start2, size)
<1>1. ASSUME NEW o \in Nat, o < init
      PROVE  Image(TableOf(n, start2, size), o) = ByteOf(runs, o, sector)
  <2>1. InRuns(runs, o) /\ Image(TableOf(n, start, size), o) = ByteOf(runs, o, 0)
    BY <1>1 DEF Covers
  <2>2. PICK r \in 1..Len(runs) : RunStart(runs, r) <= o /\ o < RunStart(runs, r + 1)
    BY <2>1 DEF InRuns
  <2>3. runs[r].lcn # NoLcn
    OBVIOUS
  <2>4. ByteOf(runs, o, 0) = Addr(0) + runs[r].lcn * ClusterSize + (o - RunStart(runs, r))
    BY <2>2, <2>3, ByteInRun
  <2>5. ByteOf(runs, o, sector) = Addr(sector) + runs[r].lcn * ClusterSize + (o - RunStart(runs, r))
    BY <2>2, <2>3, ByteInRun
  <2>6. /\ runs[r].lcn * ClusterSize \in Nat /\ Addr(sector) \in Nat /\ Addr(0) = 0
        /\ RunStart(runs, r) \in Nat
    <3>1. runs[r].lcn \in Nat
      BY <2>3, RunFacts
    <3>2. runs[r].lcn * ClusterSize \in Nat
      BY <3>1, ClusterAddr, AddrNat
    <3> QED
      BY <3>2, AddrNat, AddrZero, BytesOfRun
  <2>7. ByteOf(runs, o, sector) = ByteOf(runs, o, 0) + Addr(sector) /\ ByteOf(runs, o, 0) \in Nat
    <3> DEFINE c == runs[r].lcn * ClusterSize
               d == o - RunStart(runs, r)
    <3>1. c \in Nat /\ d \in Nat
      BY <2>2, <2>6
    <3>2. ByteOf(runs, o, 0) = Addr(0) + c + d /\ ByteOf(runs, o, sector) = Addr(sector) + c + d
      BY <2>4, <2>5
    <3>3. Addr(sector) \in Nat /\ Addr(0) = 0
      BY <2>6
    <3> HIDE DEF c, d
    <3>4. ByteOf(runs, o, 0) = c + d
      BY <3>1, <3>2, <3>3
    <3>5. Addr(sector) + c + d = (c + d) + Addr(sector) /\ c + d \in Nat
      BY <3>1, <3>3
    <3> QED
      BY <3>2, <3>4, <3>5
  <2>8. Image(TableOf(n, start, size), o) # Zero
    BY <2>1, <2>7 DEF Zero
  <2>9. n + 1 \in 1..(n + 1) /\ Bases(n, size)[n + 1] \in Nat
    BY BasesStep
  <2>10. o < Bases(n, size)[n + 1]
    BY <2>8, <2>9, ImageBehind
  <2>11. PICK k \in 1..n : HeldBy(n, size, o, k)
    BY <2>10, ImageSomewhere, Zenon
  <2>12. Image(TableOf(n, start, size), o) = Addr(start[k]) + (o - Bases(n, size)[k])
    BY <2>11, Zenon DEF HeldBy
  <2>13. Image(TableOf(n, start2, size), o) = Addr(start2[k]) + (o - Bases(n, size)[k])
    BY <2>11, Zenon DEF HeldBy
  <2>14. Addr(start[k] + sector) = Addr(start[k]) + Addr(sector) /\ Addr(start[k]) \in Nat
    BY AddrSum, AddrNat
  <2>15. Image(TableOf(n, start2, size), o) = Image(TableOf(n, start, size), o) + Addr(sector)
    <3>1. Addr(start2[k]) = Addr(start[k]) + Addr(sector)
      BY <2>14
    <3>2. Addr(start[k]) \in Int /\ Addr(sector) \in Int /\ o - Bases(n, size)[k] \in Int
      BY <2>6, <2>11, <2>14 DEF HeldBy
    <3>3. (Addr(start[k]) + Addr(sector)) + (o - Bases(n, size)[k]) =
            (Addr(start[k]) + (o - Bases(n, size)[k])) + Addr(sector)
      BY <3>2, Reordered
    <3> QED
      BY <2>12, <2>13, <3>1, <3>3
  <2> QED
    BY <2>1, <2>7, <2>15
<1> QED
  BY <1>1 DEF Placed

-----------------------------------------------------------------------------
(* Every step keeps the invariant. The parts of it that speak of other      *)
(* places of the program are true because the program is elsewhere.         *)

\* The parts that follow the file through the program.
Parts == PlaceInv /\ FileInv /\ WalkInv /\ ReturnedInv /\ MarksInv /\ PlacedInv /\ LimitInv

\* Before the first volume.
LEMMA PartsInit == Init => Parts
  BY DEF Init, Parts, PlaceInv, FileInv, WalkInv, ReturnedInv, MarksInv, PlacedInv, LimitInv

\* Leaving the file, without a plugin.
LEMMA PartsLeave ==
  ASSUME pc' \in {"volume", "refused"} PROVE Parts'
  BY DEF Parts, PlaceInv, FileInv, WalkInv, ReturnedInv, MarksInv, PlacedInv, LimitInv

\* A file is opened: nothing has been done.
LEMMA PartsOpenFile == ASSUME TypeInv, OpenFile PROVE Parts'
<1>1. pc' = "file" /\ pos' = 0 /\ s_count' = 0 /\ len' = File.data_size /\ mounts' = mounts /\ i' = i
  BY DEF OpenFile
<1>2. i \in 1..Len(mounts) /\ mounts \in MountLists
  BY MountsAssumption DEF OpenFile, TypeInv, TypeOK
<1>3. File' = File /\ File.data_size \in Nat
  BY <1>1, <1>2, SameFile, FileFacts
<1>4. PlaceInv'
  BY <1>1, <1>3 DEF PlaceInv
<1>5. FileInv'
  BY <1>1 DEF FileInv
<1>6. MarksInv'
  BY <1>1 DEF MarksInv, Marked
<1> QED
  BY <1>1, <1>4, <1>5, <1>6 DEF Parts, WalkInv, ReturnedInv, PlacedInv, LimitInv

\* The rest of the file is not initialized.
LEMMA PartsCallUninitialized == ASSUME TypeInv, Parts, CallUninitialized PROVE Parts'
<1>1. /\ pc = "file" /\ s_count < Max /\ File.init_size <= pos /\ pos \in Nat /\ len \in Nat
      /\ i \in 1..Len(mounts) /\ mounts \in MountLists
  <2>1. /\ pc = "file" /\ s_count < Max /\ pos >= File.init_size
    BY DEF CallUninitialized
  <2>2. i \in 1..Len(mounts) /\ mounts \in MountLists /\ pos \in Nat /\ len \in Nat
    BY <2>1 DEF TypeInv, TypeOK
  <2>3. File.init_size \in Nat
    BY <2>2, FileFacts
  <2> QED
    BY <2>1, <2>2, <2>3
<1>2. /\ pc' = "returned" /\ ret' = len
      /\ UNCHANGED <<mounts, i, sections, sizes, s_count, pos, len, retried>>
  BY DEF CallUninitialized, arrays, place
<1>3. /\ File.init_size \in Nat /\ File.data_size \in Nat /\ File.init_size <= File.data_size
      /\ pos + len = File.data_size
  BY <1>1, FileFacts DEF Parts, PlaceInv
<1>4. /\ Runs' = Runs /\ File' = File /\ (mounts[i].startSector)' = mounts[i].startSector
      /\ Sound' = Sound
  BY <1>2, SameFile DEF Sound
<1>5. Sound => Covers(Runs, s_count, sections, sizes, File.init_size)
  <2>1. ASSUME Sound, pos = 0 PROVE Covers(Runs, s_count, sections, sizes, File.init_size)
    <3>1. \A o \in Nat : ~(o < File.init_size)
      BY <1>1, <1>3, <2>1
    <3> QED
      BY <3>1 DEF Covers
  <2> QED
    BY <1>1, <2>1 DEF Parts, FileInv
<1>6. PlaceInv'
  BY <1>1, <1>2, <1>4 DEF Parts, PlaceInv
<1>7. ReturnedInv'
  BY <1>1, <1>2, <1>3, <1>4, <1>5 DEF ReturnedInv
<1>8. MarksInv'
  BY <1>1, <1>2, <1>4 DEF Parts, MarksInv
<1> QED
  BY <1>2, <1>6, <1>7, <1>8 DEF Parts, FileInv, WalkInv, PlacedInv, LimitInv

\* The first call begins with the first run.
LEMMA PartsCallAttr == ASSUME TypeInv, Parts, CallAttr PROVE Parts'
<1>1. /\ pc = "file" /\ s_count < Max /\ pos < File.init_size /\ pos \in Nat /\ len \in Nat
      /\ i \in 1..Len(mounts) /\ mounts \in MountLists
  BY DEF CallAttr, TypeInv, TypeOK
<1>2. /\ pc' = "runs" /\ total' = 0 /\ count' = Min(len, File.init_size - pos)
      /\ total2' = len - count' /\ rl' = FindVcn(Runs, pos)
      /\ ofs' = pos - Vcns(Runs)[rl'] * ClusterSize /\ prev_sector' = PrevSector
      /\ UNCHANGED <<mounts, i, sections, sizes, s_count, pos, len, retried>>
  BY DEF CallAttr, arrays, place
<1>3. /\ File.init_size \in Nat /\ File.data_size \in Nat /\ File.init_size <= File.data_size
      /\ pos + len = File.data_size /\ Runs \in Seq(Run)
  BY <1>1, FileFacts DEF Parts, PlaceInv
<1>4. /\ Runs' = Runs /\ File' = File /\ (mounts[i].startSector)' = mounts[i].startSector
      /\ Sound' = Sound
  BY <1>2, SameFile DEF Sound
<1>5. PlaceInv'
  BY <1>1, <1>2, <1>4 DEF Parts, PlaceInv
<1>6. MarksInv'
  BY <1>1, <1>2, <1>4 DEF Parts, MarksInv
<1>7. ASSUME Sound
      PROVE  /\ pos' = 0 /\ ofs' = 0 /\ total2' = len' - File.init_size
             /\ Walked(Runs, File.init_size, s_count', sections', sizes', rl', total', count')
             /\ LastEnds(Runs, rl', s_count', sections', sizes', prev_sector')
             /\ RoundedUp(count', prev_sector')
  <2>1. pos = 0 /\ s_count = 0
    BY <1>1, <1>3, <1>7 DEF Parts, FileInv
  <2>2. count' = File.init_size /\ total2' = len - File.init_size /\ count' > 0
    BY <1>1, <1>2, <1>3, <2>1 DEF Min
  <2>3. rl' = 1
    BY <1>2, <1>3, <2>1, FindVcnFirst
  <2>4. RunStart(Runs, 1) = 0
    BY <1>3, RunStarts
  <2>5. ofs' = 0
    BY <1>2, <2>1, <2>3, <2>4 DEF RunStart
  <2>6. prev_sector' = Hole
    BY <1>2, <2>1 DEF PrevSector
  <2>7. LastEnds(Runs, rl', s_count', sections', sizes', prev_sector')
    BY <1>2, <2>1, <2>6 DEF LastEnds
  <2>8. Bases(0, sizes)[1] = 0
    <3>1. 0 \in Nat /\ \A k \in 1..0 : sizes[k] \in Nat
      OBVIOUS
    <3> QED
      BY <3>1, BasesStep
  <2>9. Covers(Runs, 0, sections, sizes, 0)
    BY DEF Covers
  <2>10. Walked(Runs, File.init_size, 0, sections, sizes, 1, 0, File.init_size)
    BY <1>3, <2>2, <2>4, <2>8, <2>9 DEF Walked
  <2>11. RoundedUp(count', prev_sector')
    BY <1>3, <2>2 DEF RoundedUp
  <2> QED
    BY <1>2, <2>1, <2>2, <2>3, <2>5, <2>7, <2>10, <2>11
<1>8. WalkInv'
  BY <1>4, <1>7 DEF WalkInv
<1> QED
  BY <1>2, <1>5, <1>6, <1>8 DEF Parts, FileInv, ReturnedInv, PlacedInv, LimitInv

\* A run that cannot be mapped, or the end of the runlist.
LEMMA PartsErrOut == ASSUME Parts, pc = "runs", ErrOut PROVE Parts'
<1>1. pc' = "returned" /\ retried' = TRUE /\ UNCHANGED <<mounts, i, pos, len>>
  BY DEF ErrOut, place
<1>2. File' = File
  BY <1>1, SameFile
<1>3. PlaceInv'
  BY <1>1, <1>2 DEF Parts, PlaceInv
<1> QED
  BY <1>1, <1>3 DEF Parts, FileInv, WalkInv, ReturnedInv, MarksInv, PlacedInv, LimitInv, Sound

\* A hole.
LEMMA PartsHoleRun == ASSUME TypeInv, Parts, HoleRun PROVE Parts'
<1>1. pc = "runs" /\ pc' = "runs" /\ UNCHANGED <<mounts, i, pos, len, total2, retried>> /\ ofs' = 0
  BY DEF HoleRun, InRun, place
<1>2. /\ Runs' = Runs /\ File' = File /\ (mounts[i].startSector)' = mounts[i].startSector
      /\ Sound' = Sound
  BY <1>1, SameFile DEF Sound
<1>3. ASSUME Sound
      PROVE  /\ Walked(Runs, File.init_size, s_count', sections', sizes', rl', total', count')
             /\ LastEnds(Runs, rl', s_count', sections', sizes', prev_sector')
             /\ RoundedUp(count', prev_sector')
             /\ Marked(Runs, mounts[i].startSector, s_count', sections')
             /\ pos' = 0 /\ total2' = len' - File.init_size
  <2>1. pos = 0 /\ total2 = len - File.init_size
    BY <1>1, <1>3 DEF Parts, WalkInv
  <2> QED
    BY <1>1, <1>3, <2>1, WalkHole DEF Parts
<1>4. PlaceInv'
  BY <1>1, <1>2 DEF Parts, PlaceInv
<1>5. WalkInv'
  BY <1>1, <1>2, <1>3 DEF WalkInv
<1>6. MarksInv'
  BY <1>2, <1>3 DEF MarksInv
<1> QED
  BY <1>1, <1>4, <1>5, <1>6 DEF Parts, FileInv, ReturnedInv, PlacedInv, LimitInv

\* A run with data.
LEMMA PartsDataRun == ASSUME TypeInv, Parts, DataRun PROVE Parts'
<1>1. /\ pc = "runs" /\ pc' \in {"runs", "returned"}
      /\ UNCHANGED <<mounts, i, pos, len, total2, retried>> /\ ofs' = 0
  BY DEF DataRun, InRun, place
<1>2. /\ Runs' = Runs /\ File' = File /\ (mounts[i].startSector)' = mounts[i].startSector
      /\ Sound' = Sound
  BY <1>1, SameFile DEF Sound
<1>3. ASSUME Sound
      PROVE  /\ pc' = "runs" =>
                  /\ Walked(Runs, File.init_size, s_count', sections', sizes', rl', total', count')
                  /\ LastEnds(Runs, rl', s_count', sections', sizes', prev_sector')
                  /\ RoundedUp(count', prev_sector')
             /\ Marked(Runs, mounts[i].startSector, s_count', sections')
             /\ pos' = 0 /\ total2' = len' - File.init_size
             /\ pc' # "runs" => /\ ret' \in Nat /\ File.init_size <= pos' + ret'
                                /\ Covers(Runs, s_count', sections', sizes', File.init_size)
  <2>1. pos = 0 /\ total2 = len - File.init_size
    BY <1>1, <1>3 DEF Parts, WalkInv
  <2>2. /\ pc' = "runs" =>
             /\ Walked(Runs, File.init_size, s_count', sections', sizes', rl', total', count')
             /\ LastEnds(Runs, rl', s_count', sections', sizes', prev_sector')
             /\ RoundedUp(count', prev_sector')
        /\ Marked(Runs, mounts[i].startSector, s_count', sections')
        /\ pc' # "runs" => /\ ret' = total' /\ total' \in Nat /\ File.init_size <= total'
                           /\ Covers(Runs, s_count', sections', sizes', File.init_size)
    BY <1>3, WalkData DEF Parts
  <2>3. pc' # "runs" => ret' \in Nat /\ File.init_size <= pos' + ret'
    <3>1. ASSUME pc' # "runs" PROVE ret' \in Nat /\ pos' + ret' = total'
      BY <1>1, <2>1, <2>2, <3>1
    <3> QED
      BY <2>2, <3>1
  <2> QED
    BY <1>1, <2>1, <2>2, <2>3
<1>4. PlaceInv'
  BY <1>1, <1>2 DEF Parts, PlaceInv
<1>5. WalkInv'
  BY <1>1, <1>2, <1>3 DEF WalkInv
<1>6. MarksInv'
  BY <1>2, <1>3 DEF MarksInv
<1>7. ReturnedInv'
  BY <1>2, <1>3 DEF ReturnedInv
<1> QED
  BY <1>1, <1>4, <1>5, <1>6, <1>7 DEF Parts, FileInv, PlacedInv, LimitInv

\* The walk ends with the initialized part, or with a full table.
LEMMA PartsRunsDone == ASSUME TypeInv, Parts, RunsDone PROVE Parts'
<1>1. /\ pc = "runs" /\ (count = 0 \/ s_count >= Max) /\ pc' = "returned" /\ ret' = total + total2
      /\ UNCHANGED <<mounts, i, sections, sizes, s_count, pos, len, retried>>
  BY DEF RunsDone, arrays, place
<1>2. /\ Runs' = Runs /\ File' = File /\ (mounts[i].startSector)' = mounts[i].startSector
      /\ Sound' = Sound
  BY <1>1, SameFile DEF Sound
<1>3. i \in 1..Len(mounts) /\ mounts \in MountLists /\ len \in Nat /\ total \in Nat /\ s_count \in Nat
  BY <1>1 DEF TypeInv, TypeOK
<1>4. File.init_size \in Nat /\ Max \in Nat /\ File.data_size \in Nat /\ File.init_size <= File.data_size
  BY <1>3, FileFacts, SectionsAssumption
<1>5. ASSUME Sound, s_count < Max
      PROVE  /\ ret' \in Nat /\ File.init_size <= pos + ret'
             /\ Covers(Runs, s_count, sections, sizes, File.init_size)
  <2>1. count = 0
    BY <1>1, <1>3, <1>4, <1>5
  <2>2. /\ pos = 0 /\ total2 = len - File.init_size
        /\ Walked(Runs, File.init_size, s_count, sections, sizes, rl, total, count)
    BY <1>1, <1>5 DEF Parts, WalkInv
  <2>3. total = File.init_size /\ Covers(Runs, s_count, sections, sizes, File.init_size)
    BY <1>3, <2>1, <2>2 DEF Walked
  <2>4. len = File.data_size
    BY <1>1, <1>3, <2>2 DEF Parts, PlaceInv
  <2>5. ret' = len
    BY <1>1, <1>3, <1>4, <2>2, <2>3
  <2> QED
    BY <1>3, <1>4, <2>2, <2>3, <2>4, <2>5
<1>6. PlaceInv'
  BY <1>1, <1>2 DEF Parts, PlaceInv
<1>7. ReturnedInv'
  BY <1>1, <1>2, <1>5 DEF ReturnedInv
<1>8. MarksInv'
  BY <1>1, <1>2 DEF Parts, MarksInv
<1> QED
  BY <1>1, <1>6, <1>7, <1>8 DEF Parts, FileInv, WalkInv, PlacedInv, LimitInv

\* What a call did is accounted for.
LEMMA PartsCallReturned == ASSUME TypeInv, Parts, CallReturned PROVE Parts'
<1>1. /\ pc = "returned" /\ ~BadCount /\ pc' = "file" /\ len' = len - Progress /\ pos' = pos + Progress
      /\ UNCHANGED <<mounts, i, sections, sizes, s_count, retried>>
  BY DEF CallReturned, arrays
<1>2. /\ Runs' = Runs /\ File' = File /\ (mounts[i].startSector)' = mounts[i].startSector
      /\ Sound' = Sound
  BY <1>1, SameFile DEF Sound
<1>3. pos \in Nat /\ len \in Nat /\ ret \in Nat \union {-1}
  BY DEF TypeInv, TypeOK
<1>4. Progress = ret /\ ret \in Nat
  BY <1>1, <1>3 DEF BadCount, Progress
<1>5. PlaceInv'
  <2>1. pos + len = File.data_size
    BY <1>1 DEF Parts, PlaceInv
  <2>2. pos' + len' = pos + len
    BY <1>1, <1>3, <1>4
  <2> QED
    BY <1>2, <2>1, <2>2 DEF PlaceInv
<1>6. FileInv'
  BY <1>1, <1>2, <1>4 DEF Parts, ReturnedInv, FileInv
<1>7. MarksInv'
  BY <1>1, <1>2 DEF Parts, MarksInv
<1> QED
  BY <1>1, <1>5, <1>6, <1>7 DEF Parts, WalkInv, ReturnedInv, PlacedInv, LimitInv

\* The start of the volume is added to every section.
LEMMA PartsAddStartSector == ASSUME TypeInv, Parts, AddStartSector PROVE Parts'
<1>1. /\ pc = "file" /\ (len = 0 \/ s_count >= Max) /\ pc' = "parts"
      /\ sections' = [k \in 1..Max |-> Physical(k)]
      /\ UNCHANGED <<mounts, i, sizes, s_count, retried>>
  BY DEF AddStartSector
<1>2. /\ Runs' = Runs /\ File' = File /\ (mounts[i].startSector)' = mounts[i].startSector
      /\ Sound' = Sound /\ HasHole' = HasHole
  BY <1>1, SameFile DEF Sound
<1>3. /\ i \in 1..Len(mounts) /\ mounts \in MountLists /\ len \in Nat /\ pos \in Nat /\ s_count \in 0..Max
      /\ TypeOK
  BY <1>1 DEF TypeInv, TypeOK
<1>4. /\ File.init_size \in Nat /\ Max \in Nat /\ File.init_size <= File.data_size
      /\ Runs \in Seq(Run) /\ mounts[i].startSector \in Nat
  BY <1>3, FileFacts, SectionsAssumption
<1>5. ASSUME Sound, ~HasHole, s_count \in 1..(Max - 1)
      PROVE  Placed(Runs, mounts[i].startSector, File.init_size, s_count, sections', sizes)
  <2>1. s_count < Max /\ s_count # 0 /\ s_count \in Nat
    BY <1>3, <1>4, <1>5
  <2>2. Covers(Runs, s_count, sections, sizes, File.init_size)
    BY <1>1, <1>5, <2>1 DEF Parts, FileInv
  <2>3. \A r \in 1..Len(Runs) : Runs[r].lcn # NoLcn
    BY <1>5 DEF HasHole
  <2>4. Marked(Runs, mounts[i].startSector, s_count, sections)
    BY <1>1, <1>5 DEF Parts, MarksInv
  <2>5. ASSUME NEW k \in 1..s_count
        PROVE  /\ sections[k] \in Nat /\ sections[k] # Hole
               /\ sections'[k] # Hole /\ sections'[k] = sections[k] + mounts[i].startSector
    <3>1. k \in 1..Max /\ ~(k > s_count)
      BY <1>3, <1>4
    <3>2. sections[k] # Hole /\ sections[k] + mounts[i].startSector < Hole
      BY <2>3, <2>4 DEF Marked
    <3>3. sections[k] \in Nat
      BY <1>3, <3>1, SectionsAssumption DEF TypeOK
    <3>4. sections'[k] = (sections[k] + mounts[i].startSector) % Word
      BY <1>1, <3>1 DEF Physical
    <3>5. \A y \in Nat : y < Word => y % Word = y
      BY SectionsAssumption
    <3>6. /\ sections[k] + mounts[i].startSector \in Nat
          /\ sections[k] + mounts[i].startSector < Word /\ Hole \in Nat
      BY <1>4, <3>2, <3>3, SectionsAssumption
    <3>7. sections'[k] = sections[k] + mounts[i].startSector
      BY <3>4, <3>5, <3>6
    <3> QED
      BY <3>2, <3>3, <3>6, <3>7
  <2>6. \A k \in 1..s_count : sizes[k] \in Nat
    BY <1>3, <1>4 DEF TypeOK
  <2> QED
    BY <1>4, <2>1, <2>2, <2>3, <2>5, <2>6, MovedTable
<1>6. PlacedInv'
  BY <1>1, <1>2, <1>5 DEF PlacedInv
<1> QED
  BY <1>1, <1>6 DEF Parts, PlaceInv, FileInv, WalkInv, ReturnedInv, MarksInv, LimitInv

\* main goes on with the table as it is.
LEMMA PartsMain == ASSUME TypeInv, Parts, ReadCue \/ LoadPlugin PROVE Parts'
<1>1. UNCHANGED <<mounts, i, sections, sizes, s_count, retried>>
  BY DEF ReadCue, LoadPlugin, arrays
<1>2. /\ Runs' = Runs /\ File' = File /\ (mounts[i].startSector)' = mounts[i].startSector
      /\ Sound' = Sound /\ HasHole' = HasHole
  BY <1>1, SameFile DEF Sound
<1>3. pc \in {"parts", "pack"} /\ pc' \in {"pack", "loaded", "refused"}
  BY DEF ReadCue, LoadPlugin
<1>4. PlacedInv'
  BY <1>1, <1>2, <1>3 DEF Parts, PlacedInv
<1>5. pc' \in {"pack", "loaded"} => s_count \in 1..(Max - 1)
  <2>1. CASE ReadCue
    <3>1. s_count > 0 /\ s_count # Max /\ s_count \in 0..Max /\ Max \in Nat
      BY <2>1, SectionsAssumption DEF ReadCue, LimitReached, TypeInv, TypeOK
    <3> QED
      BY <3>1
  <2>2. CASE LoadPlugin
    BY <2>2 DEF LoadPlugin, Parts, LimitInv
  <2> QED
    BY <2>1, <2>2
<1>6. LimitInv'
  BY <1>1, <1>5 DEF LimitInv
<1> QED
  BY <1>3, <1>4, <1>6 DEF Parts, PlaceInv, FileInv, WalkInv, ReturnedInv, MarksInv

\* Nothing happens.
LEMMA PartsStutter == ASSUME Parts, UNCHANGED vars PROVE Parts'
<1>1. UNCHANGED <<mounts, i, pc, sections, sizes, s_count, pos, len, rl, ofs, count, total, total2,
                  prev_sector, ret, retried>>
  BY DEF vars, arrays, place, walk
<1>2. /\ Runs' = Runs /\ File' = File /\ (mounts[i].startSector)' = mounts[i].startSector
      /\ Sound' = Sound /\ HasHole' = HasHole
  BY <1>1, SameFile DEF Sound
<1>3. PlaceInv'
  BY <1>1, <1>2 DEF Parts, PlaceInv
<1>4. FileInv'
  BY <1>1, <1>2 DEF Parts, FileInv
<1>5. WalkInv'
  BY <1>1, <1>2 DEF Parts, WalkInv
<1>6. ReturnedInv'
  BY <1>1, <1>2 DEF Parts, ReturnedInv
<1>7. MarksInv'
  BY <1>1, <1>2 DEF Parts, MarksInv
<1>8. PlacedInv'
  BY <1>1, <1>2 DEF Parts, PlacedInv
<1>9. LimitInv'
  BY <1>1 DEF Parts, LimitInv
<1> QED
  BY <1>3, <1>4, <1>5, <1>6, <1>7, <1>8, <1>9 DEF Parts

\* Every step keeps the parts.
LEMMA PartsStep == TypeInv /\ Parts /\ [Next]_vars => Parts'
<1>1. SUFFICES ASSUME TypeInv, Parts, [Next]_vars PROVE Parts'
  OBVIOUS
<1>2. CASE OpenFails \/ CallFailed \/ TooManyParts \/ NoParts \/ TooManyPsxParts \/ NotFound
  <2>1. pc' \in {"volume", "refused"}
    BY <1>2 DEF OpenFails, CallFailed, TooManyParts, NoParts, TooManyPsxParts, NotFound
  <2> QED
    BY <2>1, PartsLeave
<1>3. CASE OpenFile \/ CallUninitialized \/ CallAttr \/ HoleRun \/ DataRun
  BY <1>1, <1>3, PartsOpenFile, PartsCallUninitialized, PartsCallAttr, PartsHoleRun, PartsDataRun
<1>4. CASE RunsDone \/ CallReturned \/ AddStartSector \/ ReadCue \/ LoadPlugin
  BY <1>1, <1>4, PartsRunsDone, PartsCallReturned, PartsAddStartSector, PartsMain
<1>5. CASE MapFails \/ ZeroRun
  <2>1. pc = "runs" /\ ErrOut
    BY <1>5 DEF MapFails, ZeroRun
  <2> QED
    BY <1>1, <2>1, PartsErrOut
<1>6. CASE UNCHANGED vars
  BY <1>1, <1>6, PartsStutter
<1>7. CASE Exited
  BY <1>6, <1>7 DEF Exited
<1> QED
  BY <1>1, <1>2, <1>3, <1>4, <1>5, <1>6, <1>7 DEF Next, Step

\* The inductive invariant.
LEMMA SectionsIInv == Spec => [](TypeInv /\ Parts)
  BY TypeInit, TypeStep, PartsInit, PartsStep, PTL DEF Spec

\* When the runs of a file have been walked without a failure, the table of
\* ntfs_file_to_sectors describes the initialized part of the file within its
\* volume, for every runlist: runs that merge, holes, and a last sector that
\* is used in part only (ntfsfile.c:562-806).
THEOREM SectionsTableDescribesFile == Spec => []TableDescribesFile
<1>1. TypeInv /\ Parts => TableDescribesFile
  <2>1. SUFFICES ASSUME TypeInv, Parts, pc = "file", ~retried, FitsTable, s_count \in 1..(Max - 1),
                        NEW o \in 0..(Min(pos, File.init_size) - 1)
                 PROVE  Image(Table, o) = FileByte(o, 0)
    BY DEF TableDescribesFile
  <2>2. i \in 1..Len(mounts) /\ mounts \in MountLists /\ pos \in Nat /\ Max \in Nat
    BY <2>1, SectionsAssumption DEF TypeInv, TypeOK
  <2>3. File.init_size \in Nat
    BY <2>2, FileFacts
  <2>4. o \in Nat /\ o < File.init_size
    BY <2>2, <2>3 DEF Min
  <2>5. s_count < Max /\ s_count # 0
    BY <2>1, <2>2
  <2>6. Covers(Runs, s_count, sections, sizes, File.init_size)
    BY <2>1, <2>5 DEF Parts, FileInv, Sound
  <2> QED
    BY <2>4, <2>6 DEF Covers, Table, FileByte
<1> QED
  BY <1>1, SectionsIInv, PTL

\* What the plugin is loaded with describes a file without holes on the drive,
\* up to its last initialized byte, on every volume of every drive whose
\* sectors the table can number (ntfsfile.c:808-825, main.c:134-252).
THEOREM SectionsLoadedDescribesFile == Spec => []LoadedDescribesFile
<1>1. TypeInv /\ Parts => LoadedDescribesFile
  <2>1. SUFFICES ASSUME TypeInv, Parts, pc = "loaded", ~retried, FitsTable, ~HasHole,
                        NEW o \in 0..(File.init_size - 1)
                 PROVE  Image(Table, o) = FileByte(o, mounts[i].startSector)
    BY DEF LoadedDescribesFile
  <2>2. i \in 1..Len(mounts) /\ mounts \in MountLists
    BY <2>1 DEF TypeInv
  <2>3. File.init_size \in Nat
    BY <2>2, FileFacts
  <2>4. o \in Nat /\ o < File.init_size
    BY <2>3
  <2>5. Placed(Runs, mounts[i].startSector, File.init_size, s_count, sections, sizes)
    BY <2>1 DEF Parts, PlacedInv, LimitInv, Sound
  <2> QED
    BY <2>4, <2>5 DEF Placed, Table, FileByte
<1> QED
  BY <1>1, SectionsIInv, PTL

\* At every moment the output arrays are a section table as rawseciso takes
\* one for granted: so is, in particular, the one it is loaded with.
THEOREM SectionsAreATable == Spec => []IsTable(Table)
<1>1. TypeInv => IsTable(Table)
  <2>1. SUFFICES ASSUME TypeInv PROVE IsTable(Table)
    OBVIOUS
  <2>2. sections \in Arrays /\ sizes \in Arrays /\ s_count \in Nat /\ s_count \in 0..Max
    BY <2>1, ArraysTyped DEF TypeInv, TypeOK
  <2>3. \A k \in 1..s_count : sections[k] \in Nat /\ sizes[k] \in Nat
    BY <2>2, SectionsAssumption DEF Arrays
  <2> DEFINE b == Bases(s_count, sizes)
             d == [k \in 1..s_count |-> Addr(sizes[k])]
  <2>4. IsSum(b, d, s_count)
    BY <2>2, <2>3, BasesIsSum
  <2>5. b \in [1..(s_count + 1) -> Nat] /\ b[1] = 0
        /\ \A k \in 1..s_count : b[k + 1] = b[k] + Addr(sizes[k])
    <3>1. \A k \in 1..s_count : d[k] = Addr(sizes[k])
      OBVIOUS
    <3> HIDE DEF b, d
    <3> QED
      BY <2>4, <3>1 DEF IsSum
  <2>6. /\ Table.num = s_count /\ Table.base = b
        /\ Table.start = [k \in 1..s_count |-> sections[k]]
        /\ Table.size = [k \in 1..s_count |-> sizes[k]]
    BY DEF Table, TableOf, Bases
  <2> HIDE DEF b
  <2>7. \A k \in 1..s_count : Table.size[k] = sizes[k]
    BY <2>6
  <2>8. Table.start \in [1..s_count -> Nat] /\ Table.size \in [1..s_count -> Nat]
    BY <2>3, <2>6
  <2> QED
    BY <2>2, <2>5, <2>6, <2>7, <2>8 DEF IsTable
<1> QED
  BY <1>1, SectionsIInv, PTL
=============================================================================
