--------------------------- MODULE FileApiProofs ---------------------------
(***************************************************************************)
(* Safety of the file calls of libntfs_ext for any number of handles,      *)
(* names, inodes and mounts and for files of any length: the list of open  *)
(* files, what unmounting closes, what a rename can lose, and what reads   *)
(* and writes that succeed have done.                                      *)
(***************************************************************************)
EXTENDS FileApi, TLAPS, FiniteSetTheorems, SequenceTheorems, WellFoundedInduction

-----------------------------------------------------------------------------
(* The inductive invariant *)

Bytes == {Zero} \union UNION {{b[i] : i \in DOMAIN b} : b \in Buffers}

Link == Slots \union {0}

Handle == [vd : 0..MaxMounts, ni : Inodes \union {None}, read : BOOLEAN, write : BOOLEAN,
           append : BOOLEAN, pos : 0..MaxLen, len : 0..MaxLen, next : Link, prev : Link]

Contents == {d \in Seq(Bytes) : Len(d) <= MaxLen}

VolumeType == mounts \in 0..MaxMounts /\ vd \in {0, mounts}

ListType ==
  /\ my_files \subseteq Slots /\ file \in [Slots -> Handle]
  /\ first \in Link /\ count \in Nat

DataType == names \in [Names -> Inodes \union {None}] /\ data \in [Inodes -> Contents]

Loops == {"write", "read", "unmount"}

Call == [op : {"none", "unlink", "rename"} \union Loops, busy : BOOLEAN, ok : BOOLEAN, m : Link,
         left : Nat, at : 0..MaxLen, buf : Seq(Bytes), old_pos : 0..MaxLen, short : BOOLEAN,
         before : Seq(Bytes), want : 0..MaxLen, new : Names \union {None},
         nomem : BOOLEAN]

CallType ==
  /\ call \in Call
  /\ call.busy <=> call.op \in Loops
  /\ call.busy => vd # 0

TypeInv == VolumeType /\ ListType /\ DataType /\ CallType

\* s is the list of open files of the volume, of which those before p are
\* closed again.
Chain(s, p) ==
  /\ s \in [1..count -> Slots] /\ p \in 1..(count + 1)
  /\ \A i, n \in 1..count : s[i] = s[n] => i = n
  /\ \A m \in Slots : m \in Opened <=> \E i \in p..count : s[i] = m
  /\ first = IF count = 0 THEN 0 ELSE s[1]
  /\ \A i \in 1..count :
       /\ file[s[i]].next = IF i = count THEN 0 ELSE s[i + 1]
       /\ file[s[i]].prev = IF i = 1 THEN 0 ELSE s[i - 1]

\* The list is whole, or ntfsDeinitVolume is on its way through it.
ListInv ==
  /\ call.op # "unmount" => \E s : Chain(s, 1)
  /\ call.op = "unmount" =>
       \E s, p : Chain(s, p) /\ call.m = IF p = count + 1 THEN 0 ELSE s[p]
  /\ vd = 0 => count = 0

\* The handles of the volume are open, and no others.
HandleInv ==
  /\ UnmountClosesFiles
  /\ \A m \in Slots : file[m].vd <= mounts
  /\ call.op # "unmount" /\ vd # 0 => \A m \in Handles : file[m].ni # None

\* A write in progress: its first pwrite is still to come, or wrote less than
\* all, or it wrote the buffer.
WriteInv ==
  Writing =>
    /\ call.m \in Slots /\ file[call.m].ni \in Inodes /\ file[call.m].write
    /\ call.left <= Len(call.buf) /\ Len(call.buf) > 0
    /\ file[call.m].pos + call.left <= MaxLen
    /\ ~call.short =>
         LET f == file[call.m] IN
         \/ /\ call.left = Len(call.buf)
            /\ data[f.ni] = call.before /\ f.pos = call.at
         \/ /\ call.left = 0
            /\ data[f.ni] = Patched(call.before, call.at, call.buf)
            /\ f.pos = call.at + Len(call.buf)

\* What ntfs_read_r asks for, at a position of a file it takes to be so long.
AskedFor(at, len, n) == IF at + n > len THEN (len - at) % SizeMod ELSE n

\* A read in progress: what it returned up to now, and what is left of the
\* length it asks for.
ReadInv ==
  Reading =>
    LET f == file[call.m]
        d == data[f.ni]
    IN  /\ call.m \in Slots /\ f.ni \in Inodes
        /\ call.buf = SubSeq(d, call.at + 1, call.at + Len(call.buf))
        /\ f.pos = call.at + Len(call.buf)
        /\ Len(call.buf) > 0 => f.pos <= Len(d)
        /\ Len(call.buf) + call.left = AskedFor(call.at, f.len, call.want)

Inv == TypeInv /\ ListInv /\ HandleInv /\ WriteInv /\ ReadInv

-----------------------------------------------------------------------------
(* Names *)

\* What ntfsLink and ntfsUnlink can answer.
LEMMA LinkCases ==
  ASSUME NEW f \in [Names -> Inodes \union {None}], NEW old \in Names, NEW new \in Names,
         NEW l \in ntfsLink(f, old, new)
  PROVE  /\ l.names \in [Names -> Inodes \union {None}]
         /\ \/ l.names = f
            \/ /\ new \notin Unconvertible
               /\ \A n \in Names : l.names[n] = IF n = new THEN f[old] ELSE f[n]
         /\ new \notin Unconvertible /\ l.names = f => l.res = -1 \/ (l.nomem /\ NoMemory)
         /\ new \in Unconvertible => l.names = f
         /\ l.res \in {0, -1} /\ l.nomem \in BOOLEAN
<1>. DEFINE g == [f EXCEPT ![new] = f[old]]
<1>0. g \in [Names -> Inodes \union {None}] /\ \A n \in Names : g[n] = IF n = new THEN f[old] ELSE f[n]
  OBVIOUS
<1>1. \/ new \in Unconvertible /\ l = Outcome(f, 0)
      \/ new \notin Unconvertible /\ l = Outcome(f, -1)
      \/ new \notin Unconvertible /\ f[old] # None /\ f[new] = None /\ l = Outcome(g, 0)
      \/ NoMemory /\ l = [names |-> f, res |-> 0, nomem |-> TRUE]
  BY DEF ntfsLink, NoPath
<1>. HIDE DEF g
<1>2. f[old] # None /\ f[new] = None => g # f
  BY <1>0
<1>3. \/ new \in Unconvertible /\ l.names = f /\ l.res = 0
      \/ new \notin Unconvertible /\ l.names = f /\ l.res = -1
      \/ new \notin Unconvertible /\ l.names = g /\ l.res = 0 /\ g # f
      \/ l.names = f /\ l.res = 0 /\ l.nomem /\ NoMemory
  BY <1>1, <1>2 DEF Outcome
<1>4. l.nomem = TRUE \/ l.nomem = FALSE
  BY <1>1 DEF Outcome
<1>. QED
  BY <1>0, <1>3, <1>4

LEMMA UnlinkCases ==
  ASSUME NEW f, NEW n, NEW u \in ntfsUnlink(f, n)
  PROVE  \/ n \in Unconvertible /\ u.names = f /\ u.res = 0
         \/ n \notin Unconvertible /\ u.names = f /\ u.res = -1
         \/ n \notin Unconvertible /\ u.names = [f EXCEPT ![n] = None] /\ u.res = 0
         \/ n \notin Unconvertible /\ u.names = [f EXCEPT ![n] = None] /\ u.res = -1 /\ LateFailure
         \/ u.names = f /\ u.res = 0
<1>1. \/ n \in Unconvertible /\ u = Outcome(f, 0)
      \/ n \notin Unconvertible /\ u = Outcome(f, -1)
      \/ n \notin Unconvertible /\ u = Outcome([f EXCEPT ![n] = None], 0)
      \/ n \notin Unconvertible /\ u = Outcome([f EXCEPT ![n] = None], -1) /\ LateFailure
      \/ u = [names |-> f, res |-> 0, nomem |-> TRUE]
  BY DEF ntfsUnlink, NoPath
<1>. QED
  BY <1>1 DEF Outcome

\* What ntfs_rename_r answers, step by step.
LEMMA RenameCases ==
  ASSUME NEW f, NEW old, NEW new, f[new] = None, NEW o \in ntfs_rename_r(f, old, new)
  PROVE  \E l \in ntfsLink(f, old, new) :
           \/ l.res # 0 /\ o = Outcome(l.names, -1)
           \/ /\ l.res = 0
              /\ \E u \in ntfsUnlink(l.names, old) :
                   \/ u.res = 0 /\ o = [Outcome(u.names, 0) EXCEPT !.nomem = l.nomem]
                   \/ u.res # 0 /\ \E w \in ntfsUnlink(u.names, new) : o = Outcome(w.names, -1)
<1>1. PICK l \in ntfsLink(f, old, new) :
        o \in IF l.res # 0 THEN {Outcome(l.names, -1)}
              ELSE UNION {IF u.res = 0 THEN {[Outcome(u.names, 0) EXCEPT !.nomem = l.nomem]}
                          ELSE {Outcome(w.names, -1) : w \in ntfsUnlink(u.names, new)}
                          : u \in ntfsUnlink(l.names, old)}
  BY DEF ntfs_rename_r
<1>2. CASE l.res # 0
  BY <1>1, <1>2
<1>3. CASE l.res = 0
  <2>1. PICK u \in ntfsUnlink(l.names, old) :
          o \in IF u.res = 0 THEN {[Outcome(u.names, 0) EXCEPT !.nomem = l.nomem]}
                ELSE {Outcome(w.names, -1) : w \in ntfsUnlink(u.names, new)}
    BY <1>1, <1>3
  <2>2. \/ u.res = 0 /\ o = [Outcome(u.names, 0) EXCEPT !.nomem = l.nomem]
        \/ u.res # 0 /\ \E w \in ntfsUnlink(u.names, new) : o = Outcome(w.names, -1)
    BY <2>1
  <2>. QED
    BY <1>3, <2>2
<1>. QED
  BY <1>2, <1>3

\* Whatever the link, the unlink and the undo of ntfs_rename_r answer, a file
\* loses its last name only when the new name has no Unicode form, or there is
\* no memory for it, and the rename is reported as done, or when an unlink
\* failed after the name was gone and the rename is reported as failed.
LEMMA RenameOutcome ==
  ASSUME NEW f \in [Names -> Inodes \union {None}], NEW old \in Names, NEW new \in Names,
         old # new, NEW o \in ntfs_rename_r(f, old, new), NEW i \in Inodes,
         Named(f, i), ~Named(o.names, i)
  PROVE  \/ o.res = 0 /\ new \in Unconvertible
         \/ o.res = 0 /\ o.nomem /\ NoMemory
         \/ o.res # 0 /\ LateFailure
<1>. USE FileApiAssumption
<1>1. f[new] = None /\ i # None
  BY DEF ntfs_rename_r, Outcome
<1>2. PICK l \in ntfsLink(f, old, new) :
        \/ l.res # 0 /\ o = Outcome(l.names, -1)
        \/ /\ l.res = 0
           /\ \E u \in ntfsUnlink(l.names, old) :
                \/ u.res = 0 /\ o = [Outcome(u.names, 0) EXCEPT !.nomem = l.nomem]
                \/ u.res # 0 /\ \E w \in ntfsUnlink(u.names, new) : o = Outcome(w.names, -1)
  BY <1>1, RenameCases
<1>3. /\ l.names \in [Names -> Inodes \union {None}]
      /\ \/ l.names = f
         \/ \A n \in Names : l.names[n] = IF n = new THEN f[old] ELSE f[n]
      /\ l.names = f => l.res = -1 \/ new \in Unconvertible \/ (l.nomem /\ NoMemory)
  BY <1>2, LinkCases
<1>4. CASE l.res # 0
  <2>1. o.names = l.names
    BY <1>2, <1>4 DEF Outcome
  <2>2. \A n \in Names : f[n] = i => l.names[n] = i
    BY <1>1, <1>3
  <2>. QED
    BY <2>1, <2>2 DEF Named
<1>5. CASE l.res = 0
  <2>1. PICK u \in ntfsUnlink(l.names, old) :
          \/ u.res = 0 /\ o = [Outcome(u.names, 0) EXCEPT !.nomem = l.nomem]
          \/ u.res # 0 /\ \E w \in ntfsUnlink(u.names, new) : o = Outcome(w.names, -1)
    BY <1>2, <1>5
  <2>2. \/ u.names = l.names
        \/ u.names = [l.names EXCEPT ![old] = None] /\ (u.res = 0 \/ LateFailure)
    BY UnlinkCases, Zenon
  <2>3. \A n \in Names : f[n] = i => l.names[n] = i
    BY <1>1, <1>3
  <2>4. CASE u.res = 0 /\ l.names = f
    <3>1. o.res = 0 /\ o.nomem = l.nomem
      BY <2>1, <2>4 DEF Outcome
    <3>. QED
      BY <1>3, <1>5, <2>4, <3>1
  <2>5. CASE u.res = 0 /\ l.names # f
    <3>1. o.names = u.names
      BY <2>1, <2>5 DEF Outcome
    <3>2. PICK n \in Names : f[n] = i
      BY DEF Named
    <3>3. u.names[IF n = old THEN new ELSE n] = i
      BY <1>1, <1>3, <2>2, <2>3, <2>5, <3>2
    <3>. QED
      BY <3>1, <3>3 DEF Named
  <2>6. CASE u.res # 0 /\ LateFailure
    <3>1. o.res = -1
      BY <2>1, <2>6 DEF Outcome
    <3>. QED
      BY <2>6, <3>1
  <2>7. CASE u.res # 0 /\ u.names = l.names
    <3>1. PICK w \in ntfsUnlink(l.names, new) : o = Outcome(w.names, -1)
      BY <2>1, <2>7
    <3>2. w.names = l.names \/ w.names = [l.names EXCEPT ![new] = None]
      BY <3>1, UnlinkCases
    <3>3. \A n \in Names : f[n] = i => w.names[n] = i
      BY <1>1, <1>3, <2>3, <3>2
    <3>4. o.names = w.names
      BY <3>1 DEF Outcome
    <3>. QED
      BY <3>3, <3>4 DEF Named
  <2>. QED
    BY <2>2, <2>4, <2>5, <2>6, <2>7
<1>. QED
  BY <1>4, <1>5

\* ntfsCreate takes no name away.
LEMMA CreateOutcome ==
  ASSUME NEW f \in [Names -> Inodes \union {None}], NEW n \in Names, NEW o \in ntfsCreate(f, n)
  PROVE  /\ o.names \in [Names -> Inodes \union {None}] /\ o.res \in {0, -1}
         /\ \A i \in Inodes : Named(f, i) => Named(o.names, i)
<1>1. \/ o = Outcome(f, -1)
      \/ f[n] = None /\ \E i \in Inodes : o = Outcome([f EXCEPT ![n] = i], 0)
  BY DEF ntfsCreate
<1>2. CASE o = Outcome(f, -1)
  BY <1>2 DEF Outcome
<1>3. ASSUME NEW i \in Inodes, f[n] = None, o = Outcome([f EXCEPT ![n] = i], 0)
      PROVE  /\ o.names \in [Names -> Inodes \union {None}] /\ o.res \in {0, -1}
             /\ \A j \in Inodes : Named(f, j) => Named(o.names, j)
  <2>1. o.names = [f EXCEPT ![n] = i] /\ o.res = 0
    BY <1>3 DEF Outcome
  <2>2. ASSUME NEW j \in Inodes, Named(f, j) PROVE Named(o.names, j)
    BY <1>3, <2>1, <2>2, FileApiAssumption DEF Named
  <2>. QED
    BY <2>1, <2>2
<1>. QED
  BY <1>1, <1>2, <1>3

LEMMA UnlinkType ==
  ASSUME NEW f \in [Names -> Inodes \union {None}], NEW n \in Names, NEW o \in ntfsUnlink(f, n)
  PROVE  o.names \in [Names -> Inodes \union {None}] /\ o.res \in {0, -1}
<1>1. (o.names = f \/ o.names = [f EXCEPT ![n] = None]) /\ o.res \in {0, -1}
  BY UnlinkCases
<1>. QED
  BY <1>1

LEMMA RenameType ==
  ASSUME NEW f \in [Names -> Inodes \union {None}], NEW old \in Names, NEW new \in Names,
         NEW o \in ntfs_rename_r(f, old, new)
  PROVE  o.names \in [Names -> Inodes \union {None}] /\ o.res \in {0, -1} /\ o.nomem \in BOOLEAN
<1>1. CASE f[new] # None
  <2>1. o = Outcome(f, -1)
    BY <1>1 DEF ntfs_rename_r
  <2>. QED
    BY <2>1 DEF Outcome
<1>2. CASE f[new] = None
  <2>1. PICK l \in ntfsLink(f, old, new) :
          \/ l.res # 0 /\ o = Outcome(l.names, -1)
          \/ /\ l.res = 0
             /\ \E u \in ntfsUnlink(l.names, old) :
                  \/ u.res = 0 /\ o = [Outcome(u.names, 0) EXCEPT !.nomem = l.nomem]
                  \/ u.res # 0 /\ \E w \in ntfsUnlink(u.names, new) : o = Outcome(w.names, -1)
    BY <1>2, RenameCases
  <2>2. l.names \in [Names -> Inodes \union {None}] /\ l.nomem \in BOOLEAN
    BY <2>1, LinkCases
  <2>3. CASE l.res # 0
    <3>1. o.names = l.names /\ o.res = -1 /\ o.nomem = FALSE
      BY <2>1, <2>3 DEF Outcome
    <3>. QED
      BY <2>2, <3>1
  <2>4. CASE l.res = 0
    <3>1. PICK u \in ntfsUnlink(l.names, old) :
            \/ u.res = 0 /\ o = [Outcome(u.names, 0) EXCEPT !.nomem = l.nomem]
            \/ u.res # 0 /\ \E w \in ntfsUnlink(u.names, new) : o = Outcome(w.names, -1)
      BY <2>1, <2>4
    <3>2. u.names \in [Names -> Inodes \union {None}]
      BY <2>2, <3>1, UnlinkType
    <3>3. \A w \in ntfsUnlink(u.names, new) : w.names \in [Names -> Inodes \union {None}]
      BY <3>2, UnlinkType
    <3>4. CASE u.res = 0
      <4>1. o.names = u.names /\ o.res = 0 /\ o.nomem = l.nomem
        BY <3>1, <3>4 DEF Outcome
      <4>. QED
        BY <2>2, <3>2, <4>1
    <3>5. CASE u.res # 0
      <4>1. PICK w \in ntfsUnlink(u.names, new) : o = Outcome(w.names, -1)
        BY <3>1, <3>5
      <4>2. o.names = w.names /\ o.res = -1 /\ o.nomem = FALSE
        BY <4>1 DEF Outcome
      <4>. QED
        BY <3>3, <4>1, <4>2
    <3>. QED
      BY <3>4, <3>5
  <2>. QED
    BY <2>3, <2>4
<1>. QED
  BY <1>1, <1>2

-----------------------------------------------------------------------------
(* Data *)

LEMMA BufferType ==
  ASSUME NEW b \in Buffers PROVE b \in Seq(Bytes) /\ Len(b) > 0
<1>1. b # <<>> /\ b \in Seq({b[i] : i \in DOMAIN b})
  BY FileApiAssumption
<1>2. \A i \in DOMAIN b : b[i] \in Bytes
  BY DEF Bytes
<1>3. Len(b) \in Nat /\ DOMAIN b = 1..Len(b) /\ b = [i \in 1..Len(b) |-> b[i]]
  BY <1>1
<1>4. b \in Seq(Bytes)
  BY <1>2, <1>3
<1>. QED
  BY <1>1, <1>4

\* Patched, byte by byte.
PatchedByte(d, p, b, i) ==
  IF i \in p + 1..p + Len(b) THEN b[i - p] ELSE IF i <= Len(d) THEN d[i] ELSE Zero

LEMMA PatchedFacts ==
  ASSUME NEW d \in Seq(Bytes), NEW p \in Nat, NEW b \in Seq(Bytes)
  PROVE  /\ Patched(d, p, b) \in Seq(Bytes)
         /\ Len(Patched(d, p, b)) = Upper(Len(d), p + Len(b))
         /\ \A i \in 1..Upper(Len(d), p + Len(b)) : Patched(d, p, b)[i] = PatchedByte(d, p, b, i)
<1>. DEFINE n == Upper(Len(d), p + Len(b))
<1>1. n \in Nat
  BY DEF Upper
<1>2. \A i \in 1..n : PatchedByte(d, p, b, i) \in Bytes
  <2>. TAKE i \in 1..n
  <2>1. CASE i \in p + 1..p + Len(b)
    BY <2>1 DEF PatchedByte
  <2>2. CASE i \notin p + 1..p + Len(b) /\ i <= Len(d)
    BY <1>1, <2>2 DEF PatchedByte
  <2>3. CASE i \notin p + 1..p + Len(b) /\ ~(i <= Len(d))
    BY <2>3 DEF PatchedByte, Bytes
  <2>. QED
    BY <2>1, <2>2, <2>3
<1>3. Patched(d, p, b) = [i \in 1..n |-> PatchedByte(d, p, b, i)]
  BY DEF Patched, PatchedByte
<1>. HIDE DEF n
<1>4. Patched(d, p, b) \in Seq(Bytes) /\ Len(Patched(d, p, b)) = n
  BY <1>1, <1>2, <1>3
<1>5. \A i \in 1..n : Patched(d, p, b)[i] = PatchedByte(d, p, b, i)
  BY <1>3
<1>. QED
  BY <1>4, <1>5 DEF n

\* A pwrite of the whole request does what was asked for: extending the file
\* first leaves no trace.
LEMMA WholePwrite ==
  ASSUME NEW d \in Seq(Bytes), NEW p \in Nat, NEW b \in Seq(Bytes)
  PROVE  ntfs_attr_pwrite(d, p, Len(b), b) = Patched(d, p, b)
<1>. DEFINE e == p + Len(b)
            x == Patched(d, e, <<>>)
            y == Patched(x, p, b)
            z == Patched(d, p, b)
<1>1. Len(b) \in Nat /\ Len(d) \in Nat /\ <<>> \in Seq(Bytes) /\ Len(<<>>) = 0 /\ e \in Nat
  OBVIOUS
<1>2. /\ x \in Seq(Bytes) /\ Len(x) = Upper(Len(d), e)
      /\ \A i \in 1..Len(x) : x[i] = PatchedByte(d, e, <<>>, i)
  <2>1. e + Len(<<>>) = e
    BY <1>1
  <2>. HIDE DEF e
  <2>2. /\ x \in Seq(Bytes) /\ Len(x) = Upper(Len(d), e + Len(<<>>))
        /\ \A i \in 1..Upper(Len(d), e + Len(<<>>)) : x[i] = PatchedByte(d, e, <<>>, i)
    BY <1>1, PatchedFacts, Zenon
  <2>. QED
    BY <2>1, <2>2, Zenon
<1>3. /\ z \in Seq(Bytes) /\ Len(z) = Upper(Len(d), e)
      /\ \A i \in 1..Len(z) : z[i] = PatchedByte(d, p, b, i)
  <2>1. /\ z \in Seq(Bytes) /\ Len(z) = Upper(Len(d), p + Len(b))
        /\ \A i \in 1..Upper(Len(d), p + Len(b)) : z[i] = PatchedByte(d, p, b, i)
    BY PatchedFacts, Zenon
  <2>. QED
    BY <2>1, Zenon
<1>. HIDE DEF x, z
<1>4. /\ y \in Seq(Bytes) /\ Len(y) = Upper(Len(x), e)
      /\ \A i \in 1..Len(y) : y[i] = PatchedByte(x, p, b, i)
  <2>1. /\ y \in Seq(Bytes) /\ Len(y) = Upper(Len(x), p + Len(b))
        /\ \A i \in 1..Upper(Len(x), p + Len(b)) : y[i] = PatchedByte(x, p, b, i)
    BY <1>2, PatchedFacts, Zenon
  <2>. QED
    BY <2>1, Zenon
<1>. HIDE DEF y
<1>5. Len(y) = Len(z) /\ Len(x) = Len(z) /\ Len(z) \in Nat
  BY <1>1, <1>2, <1>3, <1>4 DEF Upper
<1>6. ASSUME NEW i \in 1..Len(z) PROVE y[i] = z[i]
  <2>1. y[i] = PatchedByte(x, p, b, i) /\ z[i] = PatchedByte(d, p, b, i)
    BY <1>3, <1>4, <1>5
  <2>2. x[i] = IF i <= Len(d) THEN d[i] ELSE Zero
    BY <1>1, <1>2, <1>5 DEF PatchedByte
  <2>. QED
    BY <1>5, <2>1, <2>2 DEF PatchedByte
<1>7. y = z
  BY <1>3, <1>4, <1>5, <1>6, SeqEqual
<1>. QED
  BY <1>7 DEF ntfs_attr_pwrite, x, y, z

\* A pwrite keeps files within the bound the model has for them.
LEMMA PwriteType ==
  ASSUME NEW d \in Contents, NEW p \in Nat, NEW n \in Nat, p + n <= MaxLen,
         NEW b \in Seq(Bytes), Len(b) <= n
  PROVE  ntfs_attr_pwrite(d, p, n, b) \in Contents
<1>. DEFINE x == Patched(d, p + n, <<>>)
<1>1. d \in Seq(Bytes) /\ Len(d) <= MaxLen /\ MaxLen \in Nat
  BY FileApiAssumption DEF Contents
<1>2. x \in Seq(Bytes) /\ Len(x) = Upper(Len(d), p + n + Len(<<>>))
  <2>1. <<>> \in Seq(Bytes) /\ p + n \in Nat
    OBVIOUS
  <2>. QED
    BY <1>1, <2>1, PatchedFacts
<1>. HIDE DEF x
<1>3. Len(x) <= MaxLen
  BY <1>1, <1>2 DEF Upper
<1>4. Patched(x, p, b) \in Seq(Bytes) /\ Len(Patched(x, p, b)) = Upper(Len(x), p + Len(b))
  BY <1>2, PatchedFacts
<1>5. Len(Patched(x, p, b)) <= MaxLen
  BY <1>1, <1>2, <1>3, <1>4 DEF Upper
<1>. QED
  BY <1>4, <1>5 DEF ntfs_attr_pwrite, Contents, x

\* What ntfs_read_r appends continues what it has.
LEMMA SubSeqJoin ==
  ASSUME NEW d \in Seq(Bytes), NEW at \in Nat, NEW l \in Nat, NEW k \in Nat,
         at + l + k <= Len(d)
  PROVE  /\ SubSeq(d, at + 1, at + l) \o SubSeq(d, at + l + 1, at + l + k)
              = SubSeq(d, at + 1, at + l + k)
         /\ SubSeq(d, at + 1, at + l + k) \in Seq(Bytes)
         /\ Len(SubSeq(d, at + 1, at + l + k)) = l + k
<1>1. /\ at + 1 \in 1..(Len(d) + 1) /\ at + l \in (at + 1) - 1..Len(d)
      /\ at + l + k \in at + l..Len(d) /\ at + l + k \in Int
  OBVIOUS
<1>2. \A i \in at + 1..at + l + k : d[i] \in Bytes
  OBVIOUS
<1>3. /\ SubSeq(d, at + 1, at + l + k) \in Seq(Bytes)
      /\ Len(SubSeq(d, at + 1, at + l + k))
           = IF at + 1 <= at + l + k THEN (at + l + k) - (at + 1) + 1 ELSE 0
  BY <1>1, <1>2, SubSeqProperties
<1>. QED
  BY <1>1, <1>3, ConcatAdjacentSubSeq

\* ps3ntfs_open finds the first free slot.
LEMMA MinOfFacts ==
  ASSUME NEW T, T \subseteq Nat, T # {}
  PROVE  MinOf(T) \in T
<1>. DEFINE R == {ss \in Nat \X Nat : ss[1] < ss[2]}
<1>1. IsWellFoundedOn(R, Nat)
  BY NatLessThanWellFounded DEF OpToRel
<1>2. PICK n \in T : \A m \in T : ~(<<m, n>> \in R)
  <2>. HIDE DEF R
  <2>. QED  BY <1>1, WFMin
<1>3. ASSUME NEW m \in T, ~(n <= m) PROVE FALSE
  <2>1. n \in Nat /\ m \in Nat
    OBVIOUS
  <2>2. <<m, n>> \in R
    BY <1>3, <2>1
  <2>. QED
    BY <1>2, <2>2
<1>4. n \in T /\ \A m \in T : n <= m
  BY <1>3
<1>. QED
  BY <1>4 DEF MinOf

-----------------------------------------------------------------------------
(* Steps *)

\* A step leaves inodes, volumes and links of all handles alone.
LinksKept ==
  \A m \in Slots :
    /\ file'[m].ni = file[m].ni /\ file'[m].vd = file[m].vd
    /\ file'[m].next = file[m].next /\ file'[m].prev = file[m].prev
    /\ file'[m].write = file[m].write

\* Sums as the loops of ntfs_read_r and ntfs_write_r regroup them.
LEMMA Regroup == ASSUME NEW a \in Nat, NEW b \in Nat, NEW c \in Nat PROVE a + b + (c - b) = a + c
  OBVIOUS

LEMMA Associate == ASSUME NEW a \in Nat, NEW b \in Nat, NEW c \in Nat PROVE c + (a + b) = c + a + b
  OBVIOUS

\* A step changes at most where handle m is and how long it takes its file for.
Moves(m) ==
  \E p, l \in 0..MaxLen : file' = [file EXCEPT ![m] = [file[m] EXCEPT !.pos = p, !.len = l]]

LEMMA MovesKeep ==
  ASSUME TypeInv, NEW m \in Slots, Moves(m)
  PROVE  file' \in [Slots -> Handle] /\ LinksKept
<1>1. PICK p, l \in 0..MaxLen : file' = [file EXCEPT ![m] = [file[m] EXCEPT !.pos = p, !.len = l]]
  BY DEF Moves
<1>2. file \in [Slots -> Handle] /\ file[m] \in Handle
  BY DEF TypeInv, ListType
<1>. DEFINE h == [file[m] EXCEPT !.pos = p, !.len = l]
<1>3. h \in Handle
  BY <1>2 DEF Handle
<1>4. /\ h.ni = file[m].ni /\ h.vd = file[m].vd /\ h.next = file[m].next /\ h.prev = file[m].prev
      /\ h.write = file[m].write
  BY <1>2 DEF Handle
<1>. HIDE DEF h
<1>5. file' = [file EXCEPT ![m] = h]
  BY <1>1 DEF h
<1>. QED
  BY <1>2, <1>3, <1>4, <1>5 DEF LinksKept

\* The record ntfs_open_r fills in.
LEMMA NewHandle ==
  ASSUME NEW v \in 0..MaxMounts, NEW i \in Inodes, NEW rd \in BOOLEAN, NEW wr \in BOOLEAN,
         NEW ap \in BOOLEAN, NEW l \in 0..MaxLen
  PROVE  [NoFile EXCEPT !.vd = v, !.ni = i, !.read = rd, !.write = wr, !.append = ap, !.len = l]
           \in Handle
<1>1. NoFile \in Handle
  BY FileApiAssumption DEF NoFile, Handle, Link
<1>. QED
  BY <1>1 DEF Handle

\* A file is opened: its handle goes into a free slot and to the front.
OpensFile(m) ==
  /\ m \in Slots \ my_files /\ my_files' = my_files \union {m}
  /\ \E new \in Handle : new.vd = vd /\ new.ni # None /\ new.prev = 0 /\ Insert(m, new)

LEMMA OpenCases ==
  ASSUME TypeInv, NEW n \in Names, NEW mode \in {"r", "rw", "a"}, NEW creat \in BOOLEAN,
         NEW trunc \in BOOLEAN, Open(n, mode, creat, trunc)
  PROVE  /\ DataType' /\ UNCHANGED vol /\ Idle
         /\ \A i \in Inodes : Named(names, i) => Named(names', i)
         /\ call' \in {[NoCall EXCEPT !.op = "none", !.ok = x] : x \in BOOLEAN}
         /\ UNCHANGED <<list, file>> \/ \E m : OpensFile(m)
<1>. USE FileApiAssumption
<1>0. Idle /\ UNCHANGED vol
  BY DEF Open
<1>1. names \in [Names -> Inodes \union {None}] /\ data \in [Inodes -> Contents] /\ DataType
  BY DEF TypeInv, DataType
<1>2. CASE Slots \subseteq my_files
  BY <1>0, <1>1, <1>2 DEF Open, Return, DataType
<1>3. CASE ~(Slots \subseteq my_files)
  <2>. DEFINE m == MinOf(Slots \ my_files)
  <2>1. m \in Slots \ my_files
    <3>1. Slots \ my_files \subseteq Nat /\ Slots \ my_files # {}
      BY <1>3
    <3>. QED
      BY <3>1, MinOfFacts
  <2>. HIDE DEF m
  <2>2. PICK o \in IF names[n] = None /\ creat THEN ntfsCreate(names, n) ELSE {Outcome(names, 0)},
             cut \in BOOLEAN :
            /\ names' = o.names
            /\ cut => trunc /\ mode # "r"
            /\ data' = [i \in Inodes |->
                          IF o.names[n] = i /\ (names[n] = None \/ cut) THEN <<>> ELSE data[i]]
            /\ dirs' = IF names[n] = None THEN dirs \ {o.names[n]} ELSE dirs
            /\ \/ /\ trunc /\ mode # "r" => cut
                  /\ o.res = 0 /\ o.names[n] # None /\ o.names[n] \notin dirs'
                  /\ my_files' = my_files \union {m}
                  /\ Insert(m, [NoFile EXCEPT !.vd = vd, !.ni = o.names[n],
                                  !.read = mode \in {"r", "rw"}, !.write = mode # "r",
                                  !.append = mode = "a", !.len = Len(data'[o.names[n]])])
                  /\ Return("open", 0)
               \/ /\ Return("open", -1)
                  /\ UNCHANGED <<list, file>>
    BY <1>3 DEF Open, m
  <2>3. /\ o.names \in [Names -> Inodes \union {None}]
        /\ \A i \in Inodes : Named(names, i) => Named(o.names, i)
    <3>1. CASE names[n] = None /\ creat
      BY <1>1, <2>2, <3>1, CreateOutcome
    <3>2. CASE ~(names[n] = None /\ creat)
      BY <1>1, <2>2, <3>2 DEF Outcome
    <3>. QED
      BY <3>1, <3>2
  <2>4. data' \in [Inodes -> Contents]
    <3>1. <<>> \in Contents
      BY DEF Contents
    <3>. QED
      BY <1>1, <2>2, <3>1
  <2>5. DataType' /\ \A i \in Inodes : Named(names, i) => Named(names', i)
    BY <2>2, <2>3, <2>4 DEF DataType
  <2>6. call' \in {[NoCall EXCEPT !.op = "none", !.ok = x] : x \in BOOLEAN}
    BY <2>2 DEF Return
  <2>7. UNCHANGED <<list, file>> \/ \E mm : OpensFile(mm)
    <3>. DEFINE new == [NoFile EXCEPT !.vd = vd, !.ni = o.names[n],
                          !.read = mode \in {"r", "rw"}, !.write = mode # "r",
                          !.append = mode = "a", !.len = Len(data'[o.names[n]])]
    <3>1. CASE UNCHANGED <<list, file>>
      BY <3>1
    <3>2. CASE o.names[n] # None /\ my_files' = my_files \union {m} /\ Insert(m, new)
      <4>1. o.names[n] \in Inodes /\ vd \in 0..MaxMounts
        BY <2>3, <3>2 DEF TypeInv, VolumeType
      <4>2. Len(data'[o.names[n]]) \in 0..MaxLen
        BY <2>4, <4>1 DEF Contents
      <4>3. new \in Handle
        <5>1. (mode \in {"r", "rw"}) \in BOOLEAN /\ (mode # "r") \in BOOLEAN /\ (mode = "a") \in BOOLEAN
          OBVIOUS
        <5>. QED
          BY <4>1, <4>2, <5>1, NewHandle, Zenon
      <4>4. new.vd = vd /\ new.ni # None /\ new.prev = 0
        BY <3>2 DEF NoFile
      <4>. HIDE DEF new
      <4>. QED
        BY <2>1, <3>2, <4>3, <4>4 DEF OpensFile
    <3>. QED
      BY <2>2, <3>1, <3>2
  <2>. QED
    BY <1>0, <2>5, <2>6, <2>7
<1>. QED
  BY <1>2, <1>3

\* The records a call leaves behind, or starts with.
LEMMA NoCallType == NoCall \in Call
  BY FileApiAssumption DEF NoCall, Call, Link

LEMMA ReturnFacts ==
  ASSUME NEW op, NEW res, Return(op, res)
  PROVE  call' \in Call /\ ~call'.busy /\ call'.op \in {"none", "unlink"}
<1>. DEFINE o == IF op = "unlink" THEN op ELSE "none"
            x == res = 0
<1>1. o \in {"none", "unlink"} /\ x \in BOOLEAN
  OBVIOUS
<1>2. call' = [NoCall EXCEPT !.op = o, !.ok = x]
  BY DEF Return
<1>. HIDE DEF o, x
<1>3. call' \in Call
  BY <1>1, <1>2, NoCallType DEF Call
<1>4. call'.op = o /\ call'.busy = FALSE
  BY <1>2 DEF NoCall
<1>. QED
  BY <1>1, <1>3, <1>4

LEMMA EndFacts ==
  ASSUME NEW ok \in BOOLEAN, End(ok)
  PROVE  call' \in Call /\ ~call'.busy /\ call'.op = "none" /\ call'.ok = ok
<1>1. call' = [NoCall EXCEPT !.ok = ok]
  BY DEF End
<1>2. call' \in Call
  BY <1>1, NoCallType DEF Call
<1>. QED
  BY <1>1, <1>2 DEF NoCall

LEMMA BeginFacts ==
  ASSUME NEW m \in Link, NEW op \in Loops
  PROVE  /\ Begin(m, op) \in Call
         /\ Begin(m, op).busy /\ Begin(m, op).op = op /\ Begin(m, op).m = m
         /\ Begin(m, op).buf = <<>> /\ Begin(m, op).short = FALSE
<1>1. Begin(m, op) \in Call
  BY NoCallType DEF Begin, Call
<1>. QED
  BY <1>1 DEF Begin, NoCall

\* ntfs_write_r and ntfs_read_r, as far as they get at once.
LEMMA StartWriteFacts ==
  ASSUME TypeInv, NEW m \in Slots, NEW b \in Buffers, StartWrite(m, b), file[m].write,
         file[m].ni \in Inodes
  PROVE  /\ Moves(m) /\ call' \in Call /\ call'.busy /\ call'.op = "write" /\ call'.m = m
         /\ call'.buf = b /\ call'.left = Len(b) /\ ~call'.short
         /\ call'.before = data[file[m].ni] /\ call'.at = file'[m].pos
         /\ call'.at + Len(b) <= MaxLen
<1>. DEFINE at == IF file[m].append THEN file[m].len ELSE file[m].pos
<1>1. /\ at + Len(b) <= MaxLen
      /\ file' = [file EXCEPT ![m].pos = at]
      /\ call' = [Begin(m, "write") EXCEPT !.buf = b, !.left = Len(b), !.at = at,
                    !.old_pos = file[m].pos, !.before = data[file[m].ni]]
  BY DEF StartWrite
<1>2. file \in [Slots -> Handle] /\ file[m] \in Handle /\ data[file[m].ni] \in Seq(Bytes)
  BY DEF TypeInv, ListType, DataType, Contents
<1>3. at \in 0..MaxLen /\ file[m].pos \in 0..MaxLen /\ file[m].len \in 0..MaxLen
  BY <1>2 DEF Handle
<1>. HIDE DEF at
<1>4. [file[m] EXCEPT !.pos = at] = [file[m] EXCEPT !.pos = at, !.len = file[m].len]
  BY <1>2 DEF Handle
<1>5. file' = [file EXCEPT ![m] = [file[m] EXCEPT !.pos = at, !.len = file[m].len]]
  BY <1>1, <1>2, <1>4
<1>6. Moves(m) /\ file'[m].pos = at
  <2>1. Moves(m)
    BY <1>3, <1>5 DEF Moves
  <2>2. file'[m].pos = at
    BY <1>1, <1>2 DEF Handle
  <2>. QED
    BY <2>1, <2>2
<1>7. b \in Seq(Bytes) /\ Len(b) \in Nat
  BY BufferType
<1>8. /\ Begin(m, "write") \in Call
      /\ Begin(m, "write").busy /\ Begin(m, "write").op = "write" /\ Begin(m, "write").m = m
      /\ Begin(m, "write").short = FALSE
  BY BeginFacts DEF Link, Loops
<1>. DEFINE c == Begin(m, "write")
<1>9. c \in Call /\ c.busy /\ c.op = "write" /\ c.m = m /\ c.short = FALSE
  BY <1>8
<1>. HIDE DEF c
<1>10. call' = [c EXCEPT !.buf = b, !.left = Len(b), !.at = at,
                  !.old_pos = file[m].pos, !.before = data[file[m].ni]]
  BY <1>1 DEF c
<1>11. call' \in Call
  BY <1>2, <1>3, <1>7, <1>9, <1>10 DEF Call
<1>12. /\ call'.busy /\ call'.op = "write" /\ call'.m = m
       /\ call'.buf = b /\ call'.left = Len(b) /\ call'.short = FALSE
       /\ call'.before = data[file[m].ni] /\ call'.at = at
  BY <1>9, <1>10 DEF Call
<1>. QED
  BY <1>1, <1>6, <1>11, <1>12

LEMMA StartReadFacts ==
  ASSUME TypeInv, NEW m \in Slots, NEW n \in 1..MaxLen, StartRead(m, n), file[m].read
  PROVE  /\ call' \in Call /\ call'.busy /\ call'.op = "read" /\ call'.m = m
         /\ call'.want = n /\ call'.at = file[m].pos /\ call'.left = ReadLength(file[m], n)
         /\ call'.buf = <<>>
<1>. USE FileApiAssumption
<1>1. call' = [Begin(m, "read") EXCEPT !.want = n, !.at = file[m].pos, !.left = ReadLength(file[m], n)]
  BY DEF StartRead
<1>2. file[m].pos \in 0..MaxLen /\ file[m].len \in 0..MaxLen
  BY DEF TypeInv, ListType, Handle
<1>3. ReadLength(file[m], n) \in Nat
  BY SMTT(30), <1>2 DEF ReadLength
<1>. DEFINE c == Begin(m, "read")
<1>4. c \in Call /\ c.busy /\ c.op = "read" /\ c.m = m /\ c.buf = <<>>
  BY BeginFacts DEF Link, Loops
<1>. HIDE DEF c
<1>5. call' = [c EXCEPT !.want = n, !.at = file[m].pos, !.left = ReadLength(file[m], n)]
  BY <1>1 DEF c
<1>6. call' \in Call
  <2>1. n \in 0..MaxLen
    OBVIOUS
  <2>. QED
    BY <1>2, <1>3, <1>4, <1>5, <2>1 DEF Call
<1>7. /\ call'.busy /\ call'.op = "read" /\ call'.m = m /\ call'.buf = <<>>
      /\ call'.want = n /\ call'.at = file[m].pos /\ call'.left = ReadLength(file[m], n)
  BY <1>4, <1>5 DEF Call
<1>. QED
  BY <1>6, <1>7

\* A pwrite that writes k bytes.
PWrites(k) ==
  LET f == file[call.m] IN
  /\ data' = [data EXCEPT ![f.ni] = ntfs_attr_pwrite(@, f.pos, call.left, SubSeq(call.buf, 1, k))]
  /\ file' = [file EXCEPT ![call.m].pos = @ + k]
  /\ call' = [call EXCEPT !.left = @ - k, !.short = @ \/ k < call.left]

LEMMA PWriteFacts ==
  ASSUME TypeInv, WriteInv, Writing, NEW k \in 1..call.left, PWrites(k), UNCHANGED names
  PROVE  /\ Moves(call.m) /\ DataType' /\ call' \in Call /\ call'.op = call.op /\ call'.busy
         /\ WriteInv'
<1>. USE FileApiAssumption
<1>. DEFINE m == call.m
            f == file[m]
            b == SubSeq(call.buf, 1, k)
            d == data[f.ni]
            e == ntfs_attr_pwrite(d, f.pos, call.left, b)
<1>1. /\ m \in Slots /\ f.ni \in Inodes /\ f.write
      /\ call.left <= Len(call.buf) /\ Len(call.buf) > 0 /\ f.pos + call.left <= MaxLen
  BY DEF WriteInv
<1>2. /\ call \in Call /\ call.left \in Nat /\ call.buf \in Seq(Bytes) /\ Len(call.buf) \in Nat
      /\ call.short \in BOOLEAN /\ call.at \in 0..MaxLen
  BY DEF TypeInv, CallType, Call
<1>3. /\ file \in [Slots -> Handle] /\ f \in Handle /\ f.pos \in 0..MaxLen /\ f.len \in 0..MaxLen
      /\ d \in Contents /\ data \in [Inodes -> Contents]
  BY <1>1 DEF TypeInv, ListType, DataType, Handle
<1>4. b \in Seq(Bytes) /\ Len(b) = k
  <2>1. \A i \in 1..k : call.buf[i] \in Bytes
    BY <1>1, <1>2
  <2>2. b \in Seq(Bytes) /\ Len(b) = IF 1 <= k THEN k - 1 + 1 ELSE 0
    BY <1>2, <2>1, SubSeqProperties
  <2>. HIDE DEF b
  <2>. QED
    BY <1>2, <2>2
<1>. HIDE DEF b
<1>5. e \in Contents
  BY <1>1, <1>2, <1>3, <1>4, PwriteType
<1>6. data' = [data EXCEPT ![f.ni] = e] /\ file' = [file EXCEPT ![m].pos = f.pos + k]
  BY <1>1, <1>3 DEF PWrites, b
<1>. HIDE DEF e
<1>7. DataType'
  BY <1>1, <1>3, <1>5, <1>6 DEF DataType, TypeInv
<1>8. Moves(m)
  <2>1. f.pos + k \in 0..MaxLen
    BY <1>1, <1>2, <1>3
  <2>2. [f EXCEPT !.pos = f.pos + k] = [f EXCEPT !.pos = f.pos + k, !.len = f.len]
    BY <1>3 DEF Handle
  <2>3. file' = [file EXCEPT ![m] = [file[m] EXCEPT !.pos = f.pos + k, !.len = f.len]]
    BY <1>6, <2>2
  <2>. QED
    BY <1>3, <2>1, <2>3 DEF Moves
<1>. DEFINE sh == call.short \/ k < call.left
<1>9. call' = [call EXCEPT !.left = call.left - k, !.short = sh] /\ sh \in BOOLEAN
  BY <1>2 DEF PWrites
<1>10. (~sh => k = call.left /\ ~call.short)
  BY <1>2
<1>. HIDE DEF sh
<1>11. call' \in Call
  <2>1. call.left - k \in Nat
    BY <1>2
  <2>. QED
    BY <1>2, <1>9, <2>1 DEF Call
<1>12. /\ call'.left = call.left - k /\ call'.short = sh /\ call'.op = call.op /\ call'.m = m
       /\ call'.busy = call.busy /\ call'.buf = call.buf /\ call'.at = call.at
       /\ call'.before = call.before
  BY <1>2, <1>9 DEF Call
<1>13. /\ file'[m].ni = f.ni /\ file'[m].write = f.write /\ file'[m].pos = f.pos + k
       /\ data'[f.ni] = e
  BY <1>1, <1>3, <1>6 DEF Handle
<1>14. ASSUME ~sh
       PROVE  /\ call'.left = 0 /\ data'[f.ni] = Patched(call.before, call.at, call.buf)
              /\ file'[m].pos = call.at + Len(call.buf)
  <2>1. k = call.left /\ ~call.short
    BY <1>10, <1>14
  <2>2. call.left = Len(call.buf) /\ d = call.before /\ f.pos = call.at
    BY <1>2, <2>1 DEF WriteInv
  <2>3. b = call.buf
    BY <1>2, <2>1, <2>2, SubSeqFull DEF b
  <2>4. e = Patched(d, f.pos, call.buf)
    BY <1>2, <1>3, <2>2, <2>3, WholePwrite DEF e, Contents
  <2>. QED
    BY <1>2, <1>12, <1>13, <2>1, <2>2, <2>4
<1>15. WriteInv'
  <2>1. /\ call'.m \in Slots /\ file'[call'.m].ni \in Inodes /\ file'[call'.m].write
        /\ call'.left <= Len(call'.buf) /\ Len(call'.buf) > 0
        /\ file'[call'.m].pos + call'.left <= MaxLen
    <3>0. f.pos \in Nat /\ k \in Nat /\ call.left \in Nat
      BY <1>2, <1>3, FileApiAssumption
    <3>1. f.pos + k + (call.left - k) = f.pos + call.left
      BY <3>0, Regroup, Zenon
    <3>2. call.left - k <= Len(call.buf)
      BY <1>1, <1>2
    <3>. HIDE DEF f, m
    <3>. QED
      BY <1>1, <1>12, <1>13, <3>1, <3>2
  <2>2. ~call'.short =>
          /\ call'.left = 0
          /\ data'[file'[call'.m].ni] = Patched(call'.before, call'.at, call'.buf)
          /\ file'[call'.m].pos = call'.at + Len(call'.buf)
    BY <1>12, <1>13, <1>14
  <2>. QED
    BY <2>1, <2>2 DEF WriteInv
<1>. QED
  BY <1>7, <1>8, <1>11, <1>12, <1>15 DEF Writing

LEMMA WriteEndFacts ==
  ASSUME TypeInv, WriteInv, WriteEnd
  PROVE  LET f == file[call.m]
             g == file'[call.m]
         IN  /\ Moves(call.m) /\ g.ni = f.ni /\ g.append = f.append
             /\ g.len = Len(data[f.ni])
             /\ g.pos = IF f.append THEN call.old_pos ELSE f.pos
<1>. DEFINE m == call.m
            f == file[m]
            p == IF f.append THEN call.old_pos ELSE f.pos
            l == Len(data[f.ni])
<1>1. m \in Slots /\ f.ni \in Inodes
  BY DEF WriteInv, WriteEnd
<1>2. file \in [Slots -> Handle] /\ f \in Handle /\ p \in 0..MaxLen
  BY <1>1 DEF TypeInv, ListType, CallType, Call, Handle
<1>3. l \in 0..MaxLen
  BY <1>1, FileApiAssumption DEF TypeInv, DataType, Contents
<1>4. file' = [file EXCEPT ![m] = [f EXCEPT !.pos = p, !.len = l]]
  <2>1. file' = [file EXCEPT ![m].len = l, ![m].pos = IF f.append THEN call.old_pos ELSE @]
    BY DEF WriteEnd
  <2>2. file' = [file EXCEPT ![m] = [[f EXCEPT !.len = l] EXCEPT !.pos = p]]
    BY <1>1, <1>2, <2>1 DEF Handle
  <2>3. [[f EXCEPT !.len = l] EXCEPT !.pos = p] = [f EXCEPT !.pos = p, !.len = l]
    BY <1>2 DEF Handle
  <2>. QED
    BY <2>2, <2>3
<1>5. Moves(m)
  BY <1>2, <1>3, <1>4 DEF Moves
<1>6. file'[m] = [f EXCEPT !.pos = p, !.len = l]
  BY <1>1, <1>2, <1>4
<1>7. file'[m].ni = f.ni /\ file'[m].append = f.append /\ file'[m].len = l /\ file'[m].pos = p
  BY <1>2, <1>6 DEF Handle
<1>. QED
  BY <1>5, <1>7

\* A pread that returns k bytes.
PReads(k) ==
  LET f == file[call.m] IN
  /\ file' = [file EXCEPT ![call.m].pos = @ + k]
  /\ call' = [call EXCEPT !.left = @ - k, !.buf = @ \o SubSeq(data[f.ni], f.pos + 1, f.pos + k)]

LEMMA PReadFacts ==
  ASSUME TypeInv, ReadInv, Reading,
         NEW k \in 1..Lower(call.left, Len(data[file[call.m].ni]) - file[call.m].pos),
         PReads(k), UNCHANGED data
  PROVE  /\ Moves(call.m) /\ call' \in Call /\ call'.op = call.op /\ call'.busy
         /\ ReadInv'
<1>. DEFINE m == call.m
            f == file[m]
            d == data[f.ni]
            l == Len(call.buf)
            b == SubSeq(d, call.at + 1, call.at + l + k)
<1>1. /\ m \in Slots /\ f.ni \in Inodes
      /\ call.buf = SubSeq(d, call.at + 1, call.at + l) /\ f.pos = call.at + l
      /\ l + call.left = AskedFor(call.at, f.len, call.want)
  BY DEF ReadInv
<1>2. call \in Call /\ call.left \in Nat /\ call.buf \in Seq(Bytes) /\ l \in Nat /\ call.at \in Nat
  BY FileApiAssumption DEF TypeInv, CallType, Call
<1>3. /\ file \in [Slots -> Handle] /\ f \in Handle /\ f.pos \in 0..MaxLen /\ f.len \in 0..MaxLen
      /\ d \in Seq(Bytes) /\ Len(d) \in 0..MaxLen /\ MaxLen \in Nat
  <2>1. file \in [Slots -> Handle] /\ f \in Handle /\ d \in Contents
    BY <1>1 DEF TypeInv, ListType, DataType
  <2>2. d \in Seq(Bytes) /\ Len(d) \in Nat /\ Len(d) <= MaxLen /\ MaxLen \in Nat
    BY <2>1, FileApiAssumption DEF Contents
  <2>. QED
    BY <2>1, <2>2 DEF Handle
<1>4. k \in Nat /\ k > 0 /\ k <= call.left /\ f.pos + k <= Len(d)
  <2>1. k \in 1..Lower(call.left, Len(d) - f.pos)
    OBVIOUS
  <2>2. call.left \in Nat /\ Len(d) \in Nat /\ f.pos \in Nat
    BY <1>2, <1>3
  <2>. HIDE DEF d, f
  <2>. QED
    BY <2>1, <2>2 DEF Lower
<1>5. call.buf \o SubSeq(d, f.pos + 1, f.pos + k) = b /\ b \in Seq(Bytes) /\ Len(b) = l + k
  <2>1. call.at + l + k <= Len(d)
    BY <1>1, <1>4
  <2>2. /\ SubSeq(d, call.at + 1, call.at + l) \o SubSeq(d, call.at + l + 1, call.at + l + k) = b
        /\ b \in Seq(Bytes) /\ Len(b) = l + k
    <3>1. d \in Seq(Bytes) /\ call.at \in Nat /\ l \in Nat /\ k \in Nat
      BY <1>2, <1>3, <1>4
    <3>. HIDE DEF d, l
    <3>. QED
      BY <2>1, <3>1, SubSeqJoin
  <2>. QED
    BY <1>1, <2>2
<1>. HIDE DEF b
<1>6. call' = [call EXCEPT !.left = call.left - k, !.buf = b] /\ call.left - k \in Nat
  <2>1. call' = [call EXCEPT !.left = call.left - k,
                             !.buf = call.buf \o SubSeq(d, f.pos + 1, f.pos + k)]
    BY DEF PReads
  <2>2. call.left - k \in Nat
    BY <1>2, <1>4
  <2>. QED
    BY <2>1, <2>2, <1>5
<1>7. call' \in Call
  BY <1>2, <1>5, <1>6 DEF Call
<1>8. /\ call'.left = call.left - k /\ call'.buf = b /\ call'.op = call.op /\ call'.m = m
      /\ call'.busy = call.busy /\ call'.at = call.at /\ call'.want = call.want
  BY <1>2, <1>6 DEF Call
<1>9. file' = [file EXCEPT ![m].pos = f.pos + k]
  BY DEF PReads
<1>10. Moves(m)
  <2>1. f.pos + k \in 0..MaxLen
    BY <1>3, <1>4
  <2>2. [f EXCEPT !.pos = f.pos + k] = [f EXCEPT !.pos = f.pos + k, !.len = f.len]
    BY <1>3 DEF Handle
  <2>3. file' = [file EXCEPT ![m] = [file[m] EXCEPT !.pos = f.pos + k, !.len = f.len]]
    BY <1>9, <2>2
  <2>. QED
    BY <1>3, <2>1, <2>3 DEF Moves
<1>11. /\ file'[m].ni = f.ni /\ file'[m].len = f.len /\ file'[m].pos = f.pos + k
       /\ data'[f.ni] = d
  BY <1>1, <1>3, <1>9 DEF Handle
<1>12. Len(b) + call'.left = AskedFor(call.at, f.len, call.want)
  <2>0. Len(b) = l + k /\ call'.left = call.left - k /\ l \in Nat /\ k \in Nat /\ call.left \in Nat
    BY <1>2, <1>4, <1>5, <1>8, Zenon
  <2>. HIDE DEF b, l
  <2>1. Len(b) + call'.left = l + call.left
    <3>1. l + k + (call.left - k) = l + call.left
      BY <2>0, Regroup, Zenon
    <3>2. Len(b) + call'.left = l + k + (call.left - k)
      BY <2>0, Zenon
    <3>. QED
      BY <3>1, <3>2, Zenon
  <2>. QED
    BY <1>1, <2>1
<1>13. b = SubSeq(d, call.at + 1, call.at + Len(b)) /\ f.pos + k = call.at + Len(b)
  <2>1. call.at + Len(b) = call.at + l + k
    <3>0. Len(b) = l + k /\ l \in Nat /\ k \in Nat /\ call.at \in Nat
      BY <1>2, <1>4, <1>5, Zenon
    <3>. HIDE DEF b, l
    <3>1. call.at + (l + k) = call.at + l + k
      BY <3>0, Associate, Zenon
    <3>. QED
      BY <3>0, <3>1, Zenon
  <2>. QED
    BY <1>1, <1>2, <1>4, <1>5, <2>1 DEF b
<1>14. ReadInv'
  BY <1>1, <1>4, <1>8, <1>11, <1>12, <1>13 DEF ReadInv
<1>. QED
  BY <1>7, <1>8, <1>10, <1>14 DEF Reading

LEMMA SeekFacts ==
  ASSUME TypeInv, NEW m \in Slots, NEW base \in {"set", "cur", "end"},
         NEW off \in {-MaxLen, -1, 1}, Seek(m, base, off)
  PROVE  Moves(m)
<1>. USE FileApiAssumption
<1>. DEFINE f  == file[m]
            to == CASE base = "set" -> Upper(off, 0)
                    [] base = "cur" -> Upper(f.pos + off, 0)
                    [] base = "end" -> (f.len + off) % SizeMod
            p  == Lower(to, f.len)
<1>1. file \in [Slots -> Handle] /\ f \in Handle /\ f.pos \in 0..MaxLen /\ f.len \in 0..MaxLen
  BY DEF TypeInv, ListType, Handle
<1>2. to \in Nat
  <2>1. CASE base = "set"
    BY <2>1 DEF Upper
  <2>2. CASE base = "cur"
    BY <1>1, <2>2 DEF Upper
  <2>3. CASE base = "end"
    <3>1. f.len + off \in Int
      BY <1>1
    <3>2. \A x \in Int : x % SizeMod \in Nat
      OBVIOUS
    <3>. QED
      BY <2>3, <3>1, <3>2
  <2>. QED
    BY <2>1, <2>2, <2>3
<1>3. file' = [file EXCEPT ![m].pos = p]
  BY DEF Seek
<1>. HIDE DEF to
<1>4. p \in 0..MaxLen
  BY <1>1, <1>2 DEF Lower
<1>. HIDE DEF p
<1>5. [f EXCEPT !.pos = p] = [f EXCEPT !.pos = p, !.len = f.len]
  BY <1>1 DEF Handle
<1>6. file' = [file EXCEPT ![m] = [file[m] EXCEPT !.pos = p, !.len = f.len]]
  BY <1>3, <1>5
<1>. QED
  BY <1>1, <1>4, <1>6 DEF Moves

LEMMA FtruncateFacts ==
  ASSUME TypeInv, NEW m \in Slots, NEW n \in 0..MaxLen, Ftruncate(m, n), file[m].ni \in Inodes
  PROVE  (file' = file \/ Moves(m)) /\ DataType'
<1>. USE FileApiAssumption
<1>. DEFINE f == file[m]
            d == data[f.ni]
            e == [i \in 1..n |-> IF i <= Len(d) THEN d[i] ELSE Zero]
<1>1. /\ file \in [Slots -> Handle] /\ f \in Handle /\ f.pos \in 0..MaxLen
      /\ data \in [Inodes -> Contents] /\ d \in Contents /\ DataType
  BY DEF TypeInv, ListType, DataType, Handle
<1>2. names' = names
  BY DEF Ftruncate
<1>3. CASE data' = data /\ file' = file
  BY <1>1, <1>2, <1>3 DEF DataType
<1>4. CASE data' = [data EXCEPT ![f.ni] = e] /\ file' = [file EXCEPT ![m].len = n]
  <2>1. e \in Contents
    <3>1. \A i \in 1..n : (IF i <= Len(d) THEN d[i] ELSE Zero) \in Bytes
      BY <1>1 DEF Contents, Bytes
    <3>2. e \in Seq(Bytes) /\ Len(e) = n
      BY <3>1
    <3>. QED
      BY <3>2 DEF Contents
  <2>. HIDE DEF e
  <2>2. DataType'
    BY <1>1, <1>2, <1>4, <2>1 DEF DataType
  <2>3. [f EXCEPT !.len = n] = [f EXCEPT !.pos = f.pos, !.len = n]
    BY <1>1 DEF Handle
  <2>4. file' = [file EXCEPT ![m] = [file[m] EXCEPT !.pos = f.pos, !.len = n]]
    BY <1>4, <2>3
  <2>5. Moves(m)
    BY <1>1, <2>4 DEF Moves
  <2>. QED
    BY <2>2, <2>5
<1>. QED
  BY <1>3, <1>4 DEF Ftruncate

-----------------------------------------------------------------------------
(* Calls that leave the list of open files alone *)

\* A step of a call that neither opens nor closes a file.
Quiet ==
  /\ UNCHANGED <<vol, list>>
  /\ file' = file \/ \E m \in Slots : Moves(m)
  /\ call.op # "unmount" /\ call'.op # "unmount"
  /\ DataType' /\ CallType'

\* The list stays as long as the links do.
LEMMA ChainKept ==
  ASSUME NEW s, NEW p, Chain(s, p), LinksKept, UNCHANGED <<first, count>>
  PROVE  Chain(s, p)'
<1>1. \A m \in Slots : m \in Opened' <=> m \in Opened
  BY DEF Opened, LinksKept
<1>2. /\ s \in [1..count -> Slots] /\ p \in 1..(count + 1)
      /\ \A i, n \in 1..count : s[i] = s[n] => i = n
      /\ \A m \in Slots : m \in Opened <=> \E i \in p..count : s[i] = m
      /\ first = IF count = 0 THEN 0 ELSE s[1]
  BY DEF Chain
<1>3. ASSUME NEW i \in 1..count
      PROVE  /\ file'[s[i]].next = IF i = count THEN 0 ELSE s[i + 1]
             /\ file'[s[i]].prev = IF i = 1 THEN 0 ELSE s[i - 1]
  <2>1. /\ file[s[i]].next = IF i = count THEN 0 ELSE s[i + 1]
        /\ file[s[i]].prev = IF i = 1 THEN 0 ELSE s[i - 1]
    BY DEF Chain
  <2>2. s[i] \in Slots
    BY <1>2
  <2>. QED
    BY <2>1, <2>2 DEF LinksKept
<1>4. count' = count /\ first' = first
  OBVIOUS
<1>. QED
  BY <1>1, <1>2, <1>3, <1>4 DEF Chain

LEMMA QuietKeeps ==
  ASSUME TypeInv, ListInv, HandleInv, Quiet
  PROVE  TypeInv' /\ ListInv' /\ HandleInv'
<1>1. file' \in [Slots -> Handle] /\ LinksKept
  <2>1. CASE file' = file
    BY <2>1 DEF TypeInv, ListType, LinksKept
  <2>2. CASE \E m \in Slots : Moves(m)
    BY <2>2, MovesKeep
  <2>. QED
    BY <2>1, <2>2 DEF Quiet
<1>2. UNCHANGED <<vd, mounts, my_files, first, count>>
  BY DEF Quiet, vol, list
<1>3. TypeInv'
  <2>1. VolumeType' /\ ListType'
    BY <1>1, <1>2 DEF TypeInv, VolumeType, ListType
  <2>. QED
    BY <2>1 DEF TypeInv, Quiet
<1>4. ListInv'
  <2>1. PICK s : Chain(s, 1)
    BY DEF ListInv, Quiet
  <2>2. Chain(s, 1)'
    BY <1>1, <1>2, <2>1, ChainKept
  <2>3. \E t : Chain(t, 1)'
    BY <2>2
  <2>. QED
    BY <1>2, <2>3 DEF ListInv, Quiet
<1>5. HandleInv'
  BY <1>1, <1>2 DEF HandleInv, UnmountClosesFiles, Handles, LinksKept, Quiet, TypeInv, ListType
<1>. QED
  BY <1>3, <1>4, <1>5

\* A program uses handles that are open.
LEMMA HandleOpen ==
  ASSUME TypeInv, HandleInv, Idle, NEW m \in Handles
  PROVE  m \in Slots /\ file[m].ni \in Inodes
<1>1. m \in Slots /\ file[m] \in Handle
  BY DEF Handles, TypeInv, ListType
<1>2. file[m].ni # None
  BY DEF HandleInv, Idle, TypeInv, CallType, Loops
<1>. QED
  BY <1>1, <1>2 DEF Handle

\* A call that is over leaves nothing in progress.
LEMMA OverFacts ==
  ASSUME call' \in Call, ~call'.busy, call'.op \notin Loops
  PROVE  CallType' /\ call'.op # "unmount" /\ WriteInv' /\ ReadInv'
  BY DEF CallType, Loops, WriteInv, Writing, ReadInv, Reading

LEMMA IdleFacts ==
  ASSUME TypeInv, Idle PROVE call.op # "unmount" /\ vd # 0 /\ call.op \notin Loops
  BY DEF TypeInv, CallType, Idle, Loops

\* mkdir, unlink and rename.
LEMMA MkdirQuiet ==
  ASSUME Inv, NEW n \in Names, Mkdir(n)
  PROVE  Quiet /\ WriteInv' /\ ReadInv' /\ \A i \in Inodes : Named(names, i) => Named(names', i)
<1>1. TypeInv /\ Idle /\ names \in [Names -> Inodes \union {None}] /\ data \in [Inodes -> Contents]
  BY DEF Inv, TypeInv, DataType, Mkdir
<1>2. PICK o \in ntfsCreate(names, n) :
        /\ names' = o.names
        /\ data' = [i \in Inodes |-> IF o.res = 0 /\ o.names[n] = i THEN <<>> ELSE data[i]]
        /\ Return("mkdir", o.res)
  BY DEF Mkdir
<1>3. /\ o.names \in [Names -> Inodes \union {None}]
      /\ \A i \in Inodes : Named(names, i) => Named(o.names, i)
  BY <1>1, <1>2, CreateOutcome
<1>4. data' \in [Inodes -> Contents]
  <2>1. <<>> \in Contents
    BY FileApiAssumption DEF Contents
  <2>. QED
    BY <1>1, <1>2, <2>1
<1>5. call' \in Call /\ ~call'.busy /\ call'.op \notin Loops
  BY <1>2, ReturnFacts DEF Loops
<1>6. DataType'
  BY <1>2, <1>3, <1>4 DEF DataType
<1>7. file' = file /\ UNCHANGED <<vol, list>>
  BY DEF Mkdir
<1>. QED
  BY <1>1, <1>2, <1>3, <1>5, <1>6, <1>7, OverFacts, IdleFacts DEF Quiet

LEMMA UnlinkQuiet ==
  ASSUME Inv, NEW n \in Names, Unlink(n)
  PROVE  Quiet /\ WriteInv' /\ ReadInv' /\ call'.op = "unlink"
<1>1. TypeInv /\ Idle /\ names \in [Names -> Inodes \union {None}] /\ data \in [Inodes -> Contents]
  BY DEF Inv, TypeInv, DataType, Unlink
<1>2. PICK o \in ntfsUnlink(names, n) : names' = o.names /\ Return("unlink", o.res)
  BY DEF Unlink
<1>3. o.names \in [Names -> Inodes \union {None}]
  BY <1>1, <1>2, UnlinkType
<1>4. call' \in Call /\ ~call'.busy /\ call'.op \notin Loops
  BY <1>2, ReturnFacts DEF Loops
<1>5. DataType' /\ file' = file /\ UNCHANGED <<vol, list>>
  BY <1>1, <1>2, <1>3 DEF DataType, Unlink
<1>6. call'.op = "unlink"
  <2>1. call' = [NoCall EXCEPT !.op = "unlink", !.ok = (o.res = 0)]
    BY <1>2 DEF Return
  <2>. QED
    BY <2>1 DEF NoCall
<1>. QED
  BY <1>1, <1>4, <1>5, <1>6, OverFacts, IdleFacts DEF Quiet

LEMMA RenameQuiet ==
  ASSUME Inv, NEW old \in Names, NEW new \in Names, Rename(old, new)
  PROVE  /\ Quiet /\ WriteInv' /\ ReadInv'
         /\ call'.op = "rename" /\ call'.new = new
         /\ \E o \in ntfs_rename_r(names, old, new) :
              names' = o.names /\ (call'.ok <=> o.res = 0) /\ call'.nomem = o.nomem /\ old # new
<1>1. TypeInv /\ Idle /\ names \in [Names -> Inodes \union {None}] /\ data \in [Inodes -> Contents]
  BY DEF Inv, TypeInv, DataType, Rename
<1>2. PICK o \in ntfs_rename_r(names, old, new) :
        /\ names' = o.names
        /\ call' = [NoCall EXCEPT !.op = "rename", !.ok = o.res = 0, !.new = new, !.nomem = o.nomem]
  BY DEF Rename
<1>3. o.names \in [Names -> Inodes \union {None}] /\ o.nomem \in BOOLEAN
  BY <1>1, <1>2, RenameType
<1>. DEFINE x == o.res = 0
            y == o.nomem
<1>4. /\ x \in BOOLEAN /\ y \in BOOLEAN
      /\ call' = [NoCall EXCEPT !.op = "rename", !.ok = x, !.new = new, !.nomem = y]
  BY <1>2, <1>3
<1>. HIDE DEF x, y
<1>5. call' \in Call
  BY <1>4, NoCallType DEF Call
<1>6. ~call'.busy /\ call'.op = "rename" /\ call'.new = new /\ call'.ok = x /\ call'.nomem = y
  BY <1>4 DEF NoCall
<1>7. DataType' /\ file' = file /\ UNCHANGED <<vol, list>> /\ old # new
  BY <1>1, <1>2, <1>3 DEF DataType, Rename
<1>8. Quiet /\ WriteInv' /\ ReadInv'
  <2>1. call'.op \notin Loops
    BY <1>6 DEF Loops
  <2>. QED
    BY <1>1, <1>5, <1>6, <1>7, <2>1, OverFacts, IdleFacts DEF Quiet
<1>9. (call'.ok <=> o.res = 0) /\ call'.nomem = o.nomem
  BY <1>6 DEF x, y
<1>. QED
  BY <1>2, <1>6, <1>7, <1>8, <1>9

\* Reading, writing, seeking and truncating.
LEMMA StartWriteQuiet ==
  ASSUME Inv, NEW m \in Slots, NEW b \in Buffers, StartWrite(m, b)
  PROVE  Quiet /\ WriteInv' /\ ReadInv'
<1>1. TypeInv /\ Idle /\ UNCHANGED <<vol, list, names, data>> /\ DataType
  BY DEF Inv, TypeInv, StartWrite
<1>2. file[m].ni \in Inodes
  BY <1>1, HandleOpen DEF Inv, StartWrite
<1>3. DataType' /\ call.op # "unmount" /\ vd' # 0
  BY <1>1, IdleFacts DEF DataType, vol
<1>4. CASE ~file[m].write
  <2>1. Return("write", -1) /\ file' = file
    BY <1>4 DEF StartWrite
  <2>2. call' \in Call /\ ~call'.busy /\ call'.op \notin Loops
    BY <2>1, ReturnFacts DEF Loops
  <2>. QED
    BY <1>1, <1>3, <2>1, <2>2, OverFacts DEF Quiet
<1>5. CASE file[m].write
  <2>1. /\ Moves(m) /\ call' \in Call /\ call'.busy /\ call'.op = "write" /\ call'.m = m
        /\ call'.buf = b /\ call'.left = Len(b) /\ ~call'.short
        /\ call'.before = data[file[m].ni] /\ call'.at = file'[m].pos
        /\ call'.at + Len(b) <= MaxLen
    BY <1>1, <1>2, <1>5, StartWriteFacts
  <2>2. CallType'
    BY <1>3, <2>1 DEF CallType, Loops
  <2>3. file'[m].ni = file[m].ni /\ file'[m].write = file[m].write
    BY <1>1, <2>1, MovesKeep DEF LinksKept
  <2>4. Len(b) \in Nat /\ Len(b) > 0
    BY BufferType
  <2>5. WriteInv'
    BY <1>1, <1>2, <1>5, <2>1, <2>3, <2>4 DEF WriteInv
  <2>6. ReadInv'
    BY <2>1 DEF ReadInv, Reading
  <2>. QED
    BY <1>1, <1>3, <2>1, <2>2, <2>5, <2>6 DEF Quiet
<1>. QED
  BY <1>4, <1>5

LEMMA StartReadQuiet ==
  ASSUME Inv, NEW m \in Slots, NEW n \in 1..MaxLen, StartRead(m, n)
  PROVE  Quiet /\ WriteInv' /\ ReadInv'
<1>1. TypeInv /\ Idle /\ UNCHANGED <<vol, list, file, names, data>> /\ DataType
  BY DEF Inv, TypeInv, StartRead
<1>2. file[m].ni \in Inodes /\ file[m].pos \in Nat
  <2>1. file[m].ni \in Inodes
    BY <1>1, HandleOpen DEF Inv, StartRead
  <2>2. file[m].pos \in Nat
    BY <1>1, FileApiAssumption DEF TypeInv, ListType, Handle
  <2>. QED
    BY <2>1, <2>2
<1>3. DataType' /\ call.op # "unmount" /\ vd' # 0
  BY <1>1, IdleFacts DEF DataType, vol
<1>4. CASE ~file[m].read
  <2>1. Return("read", -1)
    BY <1>4 DEF StartRead
  <2>2. call' \in Call /\ ~call'.busy /\ call'.op \notin Loops
    BY <2>1, ReturnFacts DEF Loops
  <2>. QED
    BY <1>1, <1>3, <2>2, OverFacts DEF Quiet
<1>5. CASE file[m].read
  <2>1. /\ call' \in Call /\ call'.busy /\ call'.op = "read" /\ call'.m = m
        /\ call'.want = n /\ call'.at = file[m].pos /\ call'.left = ReadLength(file[m], n)
        /\ call'.buf = <<>>
    BY <1>1, <1>5, StartReadFacts
  <2>2. CallType'
    BY <1>3, <2>1 DEF CallType, Loops
  <2>3. call'.left \in Nat
    BY <2>1 DEF Call
  <2>4. Len(call'.buf) = 0 /\ call'.buf = SubSeq(data[file[m].ni], call'.at + 1, call'.at + 0)
    <3>1. call'.at + 0 < call'.at + 1 /\ call'.at + 0 \in Int /\ call'.at + 1 \in Int
      BY <1>2, <2>1
    <3>. QED
      BY <2>1, <3>1, SubSeqEmpty
  <2>5. Len(call'.buf) + call'.left = AskedFor(call'.at, file[m].len, call'.want)
    BY <2>1, <2>3, <2>4 DEF ReadLength, AskedFor
  <2>6. ReadInv'
    BY <1>1, <1>2, <2>1, <2>4, <2>5 DEF ReadInv
  <2>7. WriteInv'
    BY <2>1 DEF WriteInv, Writing
  <2>. QED
    BY <1>1, <1>3, <2>1, <2>2, <2>6, <2>7 DEF Quiet
<1>. QED
  BY <1>4, <1>5

LEMMA PWriteQuiet ==
  ASSUME Inv, PWrite
  PROVE  Quiet /\ WriteInv' /\ ReadInv'
<1>1. /\ TypeInv /\ WriteInv /\ Writing /\ UNCHANGED <<vol, list, names>> /\ DataType
      /\ vd # 0 /\ call.op = "write"
  BY DEF Inv, TypeInv, CallType, PWrite, Writing
<1>2. ASSUME NEW k \in 1..call.left, PWrites(k) PROVE Quiet /\ WriteInv' /\ ReadInv'
  <2>1. /\ Moves(call.m) /\ DataType' /\ call' \in Call /\ call'.op = call.op /\ call'.busy
        /\ WriteInv'
    BY <1>1, <1>2, PWriteFacts
  <2>2. call.m \in Slots
    BY <1>1 DEF WriteInv
  <2>3. CallType' /\ ReadInv'
    BY <1>1, <2>1 DEF CallType, Loops, ReadInv, Reading, vol
  <2>. QED
    BY <1>1, <2>1, <2>2, <2>3 DEF Quiet
<1>3. CASE End(FALSE) /\ UNCHANGED <<data, file>>
  <2>1. call' \in Call /\ ~call'.busy /\ call'.op \notin Loops
    BY <1>3, EndFacts DEF Loops
  <2>2. DataType'
    BY <1>1, <1>3 DEF DataType
  <2>. QED
    BY <1>1, <1>3, <2>1, <2>2, OverFacts DEF Quiet
<1>. QED
  BY <1>2, <1>3 DEF PWrite, PWrites

LEMMA WriteEndQuiet ==
  ASSUME Inv, WriteEnd
  PROVE  Quiet /\ WriteInv' /\ ReadInv'
<1>1. /\ TypeInv /\ WriteInv /\ UNCHANGED <<vol, list, names, data>> /\ DataType
      /\ call.op = "write" /\ End(TRUE) /\ call.m \in Slots
  BY DEF Inv, TypeInv, WriteEnd, WriteInv, Writing
<1>2. Moves(call.m)
  BY <1>1, WriteEndFacts
<1>3. call' \in Call /\ ~call'.busy /\ call'.op \notin Loops
  BY <1>1, EndFacts DEF Loops
<1>4. DataType'
  BY <1>1 DEF DataType
<1>. QED
  BY <1>1, <1>2, <1>3, <1>4, OverFacts DEF Quiet

LEMMA PReadQuiet ==
  ASSUME Inv, PRead
  PROVE  Quiet /\ WriteInv' /\ ReadInv'
<1>1. /\ TypeInv /\ ReadInv /\ Reading /\ UNCHANGED <<vol, list, names, data>> /\ DataType
      /\ vd # 0 /\ call.op = "read"
  BY DEF Inv, TypeInv, CallType, PRead, Reading
<1>2. DataType'
  BY <1>1 DEF DataType
<1>3. ASSUME NEW k \in 1..Lower(call.left, Len(data[file[call.m].ni]) - file[call.m].pos), PReads(k)
      PROVE  Quiet /\ WriteInv' /\ ReadInv'
  <2>1. Moves(call.m) /\ call' \in Call /\ call'.op = call.op /\ call'.busy /\ ReadInv'
    BY <1>1, <1>3, PReadFacts
  <2>2. call.m \in Slots
    BY <1>1 DEF ReadInv
  <2>3. CallType' /\ WriteInv'
    BY <1>1, <2>1 DEF CallType, Loops, WriteInv, Writing, vol
  <2>. QED
    BY <1>1, <1>2, <2>1, <2>2, <2>3 DEF Quiet
<1>4. CASE End(FALSE) /\ UNCHANGED file
  <2>1. call' \in Call /\ ~call'.busy /\ call'.op \notin Loops
    BY <1>4, EndFacts DEF Loops
  <2>. QED
    BY <1>1, <1>2, <1>4, <2>1, OverFacts DEF Quiet
<1>. QED
  BY <1>3, <1>4 DEF PRead, PReads

LEMMA ReadEndQuiet ==
  ASSUME Inv, ReadEnd
  PROVE  Quiet /\ WriteInv' /\ ReadInv'
<1>1. /\ UNCHANGED <<vol, list, file, names, data>> /\ DataType /\ call.op = "read" /\ End(TRUE)
  BY DEF Inv, TypeInv, ReadEnd, Reading
<1>2. call' \in Call /\ ~call'.busy /\ call'.op \notin Loops
  BY <1>1, EndFacts DEF Loops
<1>3. DataType'
  BY <1>1 DEF DataType
<1>. QED
  BY <1>1, <1>2, <1>3, OverFacts DEF Quiet

LEMMA SeekQuiet ==
  ASSUME Inv, NEW m \in Slots, NEW base \in {"set", "cur", "end"},
         NEW off \in {-MaxLen, -1, 1}, Seek(m, base, off)
  PROVE  Quiet /\ WriteInv' /\ ReadInv'
<1>1. /\ TypeInv /\ Idle /\ UNCHANGED <<vol, list, names, data>> /\ DataType /\ Return("seek", 0)
  BY DEF Inv, TypeInv, Seek
<1>2. Moves(m)
  BY <1>1, SeekFacts
<1>3. call' \in Call /\ ~call'.busy /\ call'.op \notin Loops
  BY <1>1, ReturnFacts DEF Loops
<1>4. DataType'
  BY <1>1 DEF DataType
<1>. QED
  BY <1>1, <1>2, <1>3, <1>4, OverFacts, IdleFacts DEF Quiet

LEMMA FtruncateQuiet ==
  ASSUME Inv, NEW m \in Slots, NEW n \in 0..MaxLen, Ftruncate(m, n)
  PROVE  Quiet /\ WriteInv' /\ ReadInv'
<1>1. /\ TypeInv /\ Idle /\ UNCHANGED <<vol, list, names>>
  BY DEF Inv, Ftruncate
<1>2. file[m].ni \in Inodes
  BY <1>1, HandleOpen DEF Inv, Ftruncate
<1>3. (file' = file \/ Moves(m)) /\ DataType'
  BY <1>1, <1>2, FtruncateFacts
<1>4. call' \in Call /\ ~call'.busy /\ call'.op \notin Loops
  <2>1. Return("ftruncate", 0) \/ Return("ftruncate", -1)
    BY DEF Ftruncate
  <2>. QED
    BY <2>1, ReturnFacts DEF Loops
<1>. QED
  BY <1>1, <1>3, <1>4, OverFacts, IdleFacts DEF Quiet

-----------------------------------------------------------------------------
(* Opening and closing *)

\* The file that is opened becomes the first of the list.
LEMMA OpensKeeps ==
  ASSUME TypeInv, ListInv, HandleInv, NEW m, OpensFile(m), Idle, UNCHANGED vol,
         call'.op # "unmount"
  PROVE  ListType' /\ ListInv' /\ HandleInv'
<1>. USE FileApiAssumption
<1>1. PICK new \in Handle : new.vd = vd /\ new.ni # None /\ new.prev = 0 /\ Insert(m, new)
  BY DEF OpensFile
<1>2. /\ m \in Slots \ my_files /\ my_files' = my_files \union {m}
      /\ first' = m /\ count' = count + 1 /\ UNCHANGED <<vd, mounts>> /\ vd # 0
      /\ file \in [Slots -> Handle] /\ first \in Link /\ count \in Nat /\ my_files \subseteq Slots
      /\ vd <= mounts
  BY <1>1 DEF OpensFile, Insert, vol, Idle, TypeInv, ListType, VolumeType
<1>3. file' = [n \in Slots |-> IF n = m THEN [new EXCEPT !.next = first]
                               ELSE IF n = first THEN [file[n] EXCEPT !.prev = m]
                               ELSE file[n]]
  BY <1>1 DEF Insert
<1>4. /\ file'[m] \in Handle /\ file'[m].next = first /\ file'[m].prev = 0
      /\ file'[m].ni # None /\ file'[m].vd = vd
  <2>1. file'[m] = [new EXCEPT !.next = first]
    BY <1>2, <1>3
  <2>. QED
    BY <1>1, <1>2, <2>1 DEF Handle
<1>5. ASSUME NEW n \in Slots, n # m
      PROVE  /\ file'[n] \in Handle /\ file'[n].ni = file[n].ni /\ file'[n].vd = file[n].vd
             /\ file'[n].next = file[n].next
             /\ file'[n].prev = IF n = first THEN m ELSE file[n].prev
  <2>1. file'[n] = IF n = first THEN [file[n] EXCEPT !.prev = m] ELSE file[n]
    BY <1>3, <1>5
  <2>2. m \in Link /\ file[n] \in Handle
    BY <1>2 DEF Link
  <2>. QED
    BY <2>1, <2>2 DEF Handle
<1>6. ListType'
  <2>1. file' \in [Slots -> Handle]
    <3>1. file' = [n \in Slots |-> file'[n]]
      BY <1>3
    <3>2. \A n \in Slots : file'[n] \in Handle
      BY <1>4, <1>5
    <3>. QED
      BY <3>1, <3>2
  <2>. QED
    BY <1>2, <2>1 DEF ListType, Link
<1>7. PICK s : Chain(s, 1)
  BY IdleFacts DEF ListInv
<1>8. /\ s \in [1..count -> Slots]
      /\ \A i, n \in 1..count : s[i] = s[n] => i = n
      /\ \A n \in Slots : n \in Opened <=> \E i \in 1..count : s[i] = n
      /\ first = IF count = 0 THEN 0 ELSE s[1]
      /\ \A i \in 1..count :
           /\ file[s[i]].next = IF i = count THEN 0 ELSE s[i + 1]
           /\ file[s[i]].prev = IF i = 1 THEN 0 ELSE s[i - 1]
  BY <1>7 DEF Chain
<1>9. m \notin Opened
  BY <1>2 DEF HandleInv, UnmountClosesFiles, Opened
<1>10. \A i \in 1..count : s[i] # m /\ s[i] \in Slots
  BY <1>2, <1>8, <1>9
<1>11. PICK t :
         /\ t \in [1..(count + 1) -> Slots] /\ t[1] = m
         /\ \A i \in 1..count : t[i + 1] = s[i]
         /\ \A i \in 2..(count + 1) : t[i] = s[i - 1] /\ i - 1 \in 1..count
  <2>. DEFINE u == [i \in 1..(count + 1) |-> IF i = 1 THEN m ELSE s[i - 1]]
  <2>1. /\ u \in [1..(count + 1) -> Slots] /\ u[1] = m
        /\ \A i \in 1..count : u[i + 1] = s[i]
        /\ \A i \in 2..(count + 1) : u[i] = s[i - 1] /\ i - 1 \in 1..count
    BY <1>2, <1>10
  <2>. HIDE DEF u
  <2>. QED
    BY <2>1
<1>12. \A i, n \in 1..(count + 1) : t[i] = t[n] => i = n
  <2>1. SUFFICES ASSUME NEW i \in 1..(count + 1), NEW n \in 1..(count + 1), t[i] = t[n]
                 PROVE  i = n
    OBVIOUS
  <2>2. CASE i = 1 \/ n = 1
    <3>1. \A k \in 1..(count + 1) : k # 1 => t[k] # m
      <4>1. ASSUME NEW k \in 1..(count + 1), k # 1 PROVE t[k] # m
        <5>1. k \in 2..(count + 1)
          BY <1>2, <4>1
        <5>. QED
          BY <1>10, <1>11, <5>1
      <4>. QED
        BY <4>1
    <3>. QED
      BY <1>11, <2>1, <2>2, <3>1
  <2>3. CASE i # 1 /\ n # 1
    <3>1. i \in 2..(count + 1) /\ n \in 2..(count + 1)
      BY <1>2, <2>3
    <3>2. i - 1 = n - 1
      BY <1>8, <1>11, <2>1, <3>1
    <3>. QED
      BY <3>1, <3>2
  <2>. QED
    BY <2>2, <2>3
<1>13. ASSUME NEW n \in Slots
       PROVE  n \in Opened' <=> \E i \in 1..(count + 1) : t[i] = n
  <2>1. CASE n = m
    BY <1>2, <1>4, <1>11, <2>1 DEF Opened
  <2>2. CASE n # m
    <3>1. n \in Opened' <=> n \in Opened
      BY <1>5, <2>2 DEF Opened
    <3>2. (\E i \in 1..count : s[i] = n) <=> \E i \in 1..(count + 1) : t[i] = n
      <4>1. ASSUME NEW i \in 1..count, s[i] = n PROVE \E k \in 1..(count + 1) : t[k] = n
        BY <1>2, <1>11, <4>1
      <4>2. ASSUME NEW i \in 1..(count + 1), t[i] = n PROVE \E k \in 1..count : s[k] = n
        <5>1. i \in 2..(count + 1)
          BY <1>2, <1>11, <2>2, <4>2
        <5>. QED
          BY <1>11, <4>2, <5>1
      <4>. QED
        BY <4>1, <4>2
    <3>. QED
      BY <1>8, <3>1, <3>2
  <2>. QED
    BY <2>1, <2>2
<1>14. ASSUME NEW i \in 1..(count + 1)
       PROVE  /\ file'[t[i]].next = IF i = count + 1 THEN 0 ELSE t[i + 1]
              /\ file'[t[i]].prev = IF i = 1 THEN 0 ELSE t[i - 1]
  <2>1. CASE i = 1
    <3>1. first = IF i = count + 1 THEN 0 ELSE t[i + 1]
      <4>1. CASE count = 0
        BY <1>8, <2>1, <4>1
      <4>2. CASE count # 0
        <5>1. 1 \in 1..count
          BY <1>2, <4>2
        <5>2. t[1 + 1] = s[1]
          BY <1>11, <5>1
        <5>. QED
          BY <1>2, <1>8, <2>1, <4>2, <5>2
      <4>. QED
        BY <4>1, <4>2
    <3>. QED
      BY <1>4, <1>11, <2>1, <3>1
  <2>2. CASE i # 1
    <3>. DEFINE k == i - 1
    <3>1. k \in 1..count /\ t[i] = s[k] /\ i = k + 1
      BY <1>2, <1>11, <2>2
    <3>2. s[k] # m /\ s[k] \in Slots
      BY <1>10, <3>1
    <3>3. file'[s[k]].next = file[s[k]].next /\ file'[s[k]].prev = IF s[k] = first THEN m ELSE file[s[k]].prev
      BY <1>5, <3>2
    <3>4. s[k] = first <=> k = 1
      <4>1. 1 \in 1..count /\ first = s[1]
        BY <1>2, <1>8, <3>1
      <4>. QED
        BY <1>8, <3>1, <4>1
    <3>. HIDE DEF k
    <3>5. file[s[k]].next = IF i = count + 1 THEN 0 ELSE t[i + 1]
      <4>1. CASE k = count
        BY <1>2, <1>8, <3>1, <4>1
      <4>2. CASE k # count
        <5>1. k + 1 \in 1..count
          BY <1>2, <3>1, <4>2
        <5>2. t[(k + 1) + 1] = s[k + 1]
          BY <1>11, <5>1
        <5>. QED
          BY <1>2, <1>8, <3>1, <4>2, <5>2
      <4>. QED
        BY <4>1, <4>2
    <3>6. file'[s[k]].prev = t[i - 1]
      <4>1. CASE k = 1
        BY <1>11, <3>1, <3>3, <3>4, <4>1
      <4>2. CASE k # 1
        <5>1. k - 1 \in 1..count /\ t[(k - 1) + 1] = s[k - 1]
          BY <1>2, <1>11, <3>1, <4>2
        <5>2. i - 1 = (k - 1) + 1
          BY <1>2, <3>1
        <5>. QED
          BY <1>8, <3>1, <3>3, <3>4, <4>2, <5>1, <5>2
      <4>. QED
        BY <4>1, <4>2
    <3>. QED
      BY <2>2, <3>1, <3>3, <3>5, <3>6
  <2>. QED
    BY <2>1, <2>2
<1>15. Chain(t, 1)'
  <2>1. first' = IF count' = 0 THEN 0 ELSE t[1]
    BY <1>2, <1>11
  <2>2. t \in [1..count' -> Slots] /\ 1 \in 1..(count' + 1)
    BY <1>2, <1>11
  <2>3. \A i, n \in 1..count' : t[i] = t[n] => i = n
    BY <1>2, <1>12
  <2>4. \A n \in Slots : n \in Opened' <=> \E i \in 1..count' : t[i] = n
    BY <1>2, <1>13
  <2>5. \A i \in 1..count' :
          /\ file'[t[i]].next = IF i = count' THEN 0 ELSE t[i + 1]
          /\ file'[t[i]].prev = IF i = 1 THEN 0 ELSE t[i - 1]
    BY <1>2, <1>14
  <2>. QED
    BY <2>1, <2>2, <2>3, <2>4, <2>5 DEF Chain
<1>16. ListInv'
  <2>1. \E r : Chain(r, 1)'
    BY <1>15
  <2>. QED
    BY <1>2, <2>1 DEF ListInv
<1>17. HandleInv'
  <2>1. \A n \in Slots : file'[n].ni # None => file'[n].vd = vd' /\ n \in my_files'
    BY <1>2, <1>4, <1>5 DEF HandleInv, UnmountClosesFiles
  <2>2. \A n \in Slots : file'[n].vd <= mounts'
    BY <1>2, <1>4, <1>5 DEF HandleInv
  <2>3. ASSUME NEW n \in my_files', file'[n].vd = vd' PROVE file'[n].ni # None
    <3>1. CASE n = m
      BY <1>4, <3>1
    <3>2. CASE n # m
      <4>1. n \in Slots /\ n \in my_files /\ file[n].vd = vd
        BY <1>2, <1>5, <2>3, <3>2
      <4>. QED
        BY <1>2, <1>5, <3>2, <4>1, IdleFacts DEF HandleInv, Handles
    <3>. QED
      BY <3>1, <3>2
  <2>. QED
    BY <2>1, <2>2, <2>3 DEF HandleInv, UnmountClosesFiles, Handles
<1>. QED
  BY <1>6, <1>16, <1>17

LEMMA OpenKeeps ==
  ASSUME Inv, NEW n \in Names, NEW mode \in {"r", "rw", "a"}, NEW creat \in BOOLEAN,
         NEW trunc \in BOOLEAN, Open(n, mode, creat, trunc)
  PROVE  Inv'
<1>1. /\ TypeInv /\ DataType' /\ UNCHANGED vol /\ Idle
      /\ call' \in {[NoCall EXCEPT !.op = "none", !.ok = x] : x \in BOOLEAN}
      /\ UNCHANGED <<list, file>> \/ \E m : OpensFile(m)
  BY OpenCases DEF Inv
<1>2. call' \in Call /\ ~call'.busy /\ call'.op \notin Loops
  <2>1. PICK x \in BOOLEAN : call' = [NoCall EXCEPT !.op = "none", !.ok = x]
    BY <1>1
  <2>2. call' \in Call
    BY <2>1, NoCallType DEF Call
  <2>3. call'.busy = FALSE /\ call'.op = "none"
    BY <2>1 DEF NoCall
  <2>. QED
    BY <2>2, <2>3 DEF Loops
<1>3. CallType' /\ call'.op # "unmount" /\ WriteInv' /\ ReadInv'
  BY <1>2, OverFacts
<1>4. CASE UNCHANGED <<list, file>>
  <2>1. Quiet
    BY <1>1, <1>3, <1>4, IdleFacts DEF Quiet
  <2>. QED
    BY <1>3, <2>1, QuietKeeps DEF Inv
<1>5. CASE \E m : OpensFile(m)
  <2>1. PICK m : OpensFile(m)
    BY <1>5
  <2>2. ListType' /\ ListInv' /\ HandleInv'
    BY <1>1, <1>3, <2>1, OpensKeeps DEF Inv
  <2>3. VolumeType'
    BY <1>1 DEF TypeInv, VolumeType, vol
  <2>. QED
    BY <1>1, <1>3, <2>2, <2>3 DEF Inv, TypeInv
<1>. QED
  BY <1>1, <1>4, <1>5

\* The files before and after the one that is closed become neighbours.
LEMMA CloseLists ==
  ASSUME Inv, NEW m \in Slots, Close(m), call'.op # "unmount"
  PROVE  ListType' /\ ListInv' /\ HandleInv'
<1>. USE FileApiAssumption
<1>. DEFINE f == file[m]
<1>1. /\ TypeInv /\ ListInv /\ HandleInv /\ Idle /\ m \in Handles
      /\ my_files' = my_files \ {m} /\ count' = count - 1 /\ UNCHANGED <<vd, mounts>> /\ vd # 0
      /\ first' = IF f.prev = 0 THEN f.next ELSE first
  BY DEF Inv, Close, vol, Idle
<1>2. file' = [n \in Slots |-> IF n = m THEN NoFile
                               ELSE IF n = f.next THEN [file[n] EXCEPT !.prev = f.prev]
                               ELSE IF n = f.prev THEN [file[n] EXCEPT !.next = f.next]
                               ELSE file[n]]
  BY DEF Close
<1>3. /\ file \in [Slots -> Handle] /\ first \in Link /\ count \in Nat /\ my_files \subseteq Slots
      /\ f \in Handle /\ f.ni # None
  BY <1>1, HandleOpen DEF TypeInv, ListType
<1>4. f.next \in Link /\ f.prev \in Link
  BY <1>3 DEF Handle
<1>. HIDE DEF f
<1>5. file'[m] \in Handle /\ file'[m].ni = None /\ file'[m].vd = 0
  <2>1. file'[m] = NoFile
    BY <1>2
  <2>. QED
    BY <2>1 DEF NoFile, Handle, Link
<1>6. ASSUME NEW n \in Slots, n # m
      PROVE  /\ file'[n] \in Handle /\ file'[n].ni = file[n].ni /\ file'[n].vd = file[n].vd
             /\ file'[n].next = IF n = f.prev /\ n # f.next THEN f.next ELSE file[n].next
             /\ file'[n].prev = IF n = f.next THEN f.prev ELSE file[n].prev
  <2>1. file[n] \in Handle
    BY <1>3
  <2>2. CASE n = f.next
    <3>1. file'[n] = [file[n] EXCEPT !.prev = f.prev]
      BY <1>2, <1>6, <2>2
    <3>. QED
      BY <1>4, <2>1, <2>2, <3>1 DEF Handle
  <2>3. CASE n # f.next /\ n = f.prev
    <3>1. file'[n] = [file[n] EXCEPT !.next = f.next]
      BY <1>2, <1>6, <2>3
    <3>. QED
      BY <1>4, <2>1, <2>3, <3>1 DEF Handle
  <2>4. CASE n # f.next /\ n # f.prev
    BY <1>2, <1>6, <2>1, <2>4
  <2>. QED
    BY <2>2, <2>3, <2>4
<1>7. PICK s : Chain(s, 1)
  BY <1>1, IdleFacts DEF ListInv
<1>8. /\ s \in [1..count -> Slots]
      /\ \A i, n \in 1..count : s[i] = s[n] => i = n
      /\ \A n \in Slots : n \in Opened <=> \E i \in 1..count : s[i] = n
      /\ first = IF count = 0 THEN 0 ELSE s[1]
      /\ \A i \in 1..count :
           /\ file[s[i]].next = IF i = count THEN 0 ELSE s[i + 1]
           /\ file[s[i]].prev = IF i = 1 THEN 0 ELSE s[i - 1]
  BY <1>7 DEF Chain
<1>9. m \in Opened
  BY <1>3 DEF Opened, f
<1>10. PICK p \in 1..count : s[p] = m
  BY <1>8, <1>9
<1>11. /\ f.next = IF p = count THEN 0 ELSE s[p + 1]
       /\ f.prev = IF p = 1 THEN 0 ELSE s[p - 1]
       /\ 0 \notin Slots
  BY <1>8, <1>10 DEF f
<1>12. ASSUME NEW i \in 1..count, i # p
       PROVE  /\ s[i] \in Slots /\ s[i] # m
              /\ s[i] = f.next <=> i = p + 1
              /\ s[i] = f.prev <=> i = p - 1
  <2>1. s[i] \in Slots /\ s[i] # m
    BY <1>8, <1>10, <1>12
  <2>2. s[i] = f.next <=> i = p + 1
    <3>1. CASE p = count
      BY <1>3, <1>11, <2>1, <3>1
    <3>2. CASE p # count
      <4>1. p + 1 \in 1..count
        BY <1>3, <1>10, <3>2
      <4>. QED
        BY <1>8, <1>11, <3>2, <4>1
    <3>. QED
      BY <3>1, <3>2
  <2>3. s[i] = f.prev <=> i = p - 1
    <3>1. CASE p = 1
      BY <1>3, <1>11, <2>1, <3>1
    <3>2. CASE p # 1
      <4>1. p - 1 \in 1..count
        BY <1>3, <1>10, <3>2
      <4>. QED
        BY <1>8, <1>11, <3>2, <4>1
    <3>. QED
      BY <3>1, <3>2
  <2>. QED
    BY <2>1, <2>2, <2>3
<1>13. ListType'
  <2>1. file' \in [Slots -> Handle]
    <3>1. file' = [n \in Slots |-> file'[n]]
      BY <1>2
    <3>2. \A n \in Slots : file'[n] \in Handle
      BY <1>5, <1>6
    <3>. QED
      BY <3>1, <3>2
  <2>2. count - 1 \in Nat
    BY <1>3, <1>10
  <2>. QED
    BY <1>1, <1>3, <1>4, <2>1, <2>2 DEF ListType
<1>14. PICK t :
         /\ t \in [1..(count - 1) -> Slots]
         /\ \A i \in 1..(count - 1) : t[i] = IF i < p THEN s[i] ELSE s[i + 1]
  <2>. DEFINE u == [i \in 1..(count - 1) |-> IF i < p THEN s[i] ELSE s[i + 1]]
  <2>1. \A i \in 1..(count - 1) : i \in 1..count /\ i + 1 \in 1..count
    BY <1>3
  <2>2. /\ u \in [1..(count - 1) -> Slots]
        /\ \A i \in 1..(count - 1) : u[i] = IF i < p THEN s[i] ELSE s[i + 1]
    BY <1>8, <2>1
  <2>. HIDE DEF u
  <2>. QED
    BY <2>2
\* Place i of the shorter list is place At(i) of the longer one.
<1>. DEFINE At(i) == IF i < p THEN i ELSE i + 1
<1>15. \A i \in 1..(count - 1) : At(i) \in 1..count /\ At(i) # p /\ t[i] = s[At(i)]
  BY <1>3, <1>10, <1>14
<1>16. \A i, n \in 1..(count - 1) : t[i] = t[n] => i = n
  <2>1. SUFFICES ASSUME NEW i \in 1..(count - 1), NEW n \in 1..(count - 1), t[i] = t[n]
                 PROVE  i = n
    OBVIOUS
  <2>2. At(i) = At(n)
    BY <1>8, <1>15, <2>1
  <2>. QED
    BY <1>3, <1>10, <2>2
<1>17. ASSUME NEW n \in Slots
       PROVE  n \in Opened' <=> \E i \in 1..(count - 1) : t[i] = n
  <2>1. ASSUME n \in Opened' PROVE \E i \in 1..(count - 1) : t[i] = n
    <3>1. n # m /\ n \in Opened
      BY <1>5, <1>6, <2>1 DEF Opened
    <3>2. PICK k \in 1..count : s[k] = n
      BY <1>8, <3>1
    <3>3. k # p
      BY <1>10, <3>1, <3>2
    <3>. DEFINE i == IF k < p THEN k ELSE k - 1
    <3>4. i \in 1..(count - 1) /\ At(i) = k
      BY <1>3, <1>10, <3>2, <3>3
    <3>. HIDE DEF i
    <3>. QED
      BY <1>15, <3>2, <3>4
  <2>2. ASSUME NEW i \in 1..(count - 1), t[i] = n PROVE n \in Opened'
    <3>1. At(i) \in 1..count /\ At(i) # p /\ n = s[At(i)]
      BY <1>15, <2>2
    <3>2. n \in Opened /\ n # m
      BY <1>8, <1>12, <3>1
    <3>. QED
      BY <1>6, <3>2 DEF Opened
  <2>. QED
    BY <2>1, <2>2
<1>18. ASSUME NEW i \in 1..(count - 1)
       PROVE  file'[t[i]].next = IF i = count - 1 THEN 0 ELSE t[i + 1]
  <2>. DEFINE k == At(i)
  <2>1. /\ k \in 1..count /\ k # p /\ t[i] = s[k] /\ k = IF i < p THEN i ELSE i + 1
        /\ i \in Nat /\ p \in Nat /\ count \in Nat /\ i <= count - 1 /\ 1 <= i /\ 1 <= p /\ p <= count
    BY <1>3, <1>10, <1>15
  <2>. HIDE DEF k
  <2>2. /\ s[k] \in Slots /\ s[k] # m
        /\ s[k] = f.next <=> k = p + 1
        /\ s[k] = f.prev <=> k = p - 1
    BY <1>12, <2>1
  <2>3. file'[s[k]].next = IF k = p - 1 /\ k # p + 1 THEN f.next ELSE file[s[k]].next
    BY <1>6, <2>2
  <2>4. file[s[k]].next = IF k = count THEN 0 ELSE s[k + 1]
    BY <1>8, <2>1
  <2>5. CASE i = count - 1
    BY <1>11, <2>1, <2>3, <2>4, <2>5
  <2>6. CASE i # count - 1
    <3>1. i + 1 \in 1..(count - 1)
      BY <2>1, <2>6
    <3>2. t[i + 1] = IF i + 1 < p THEN s[i + 1] ELSE s[(i + 1) + 1]
      BY <1>14, <3>1
    <3>3. CASE k = p - 1
      <4>1. i = p - 1 /\ i + 1 = p /\ (i + 1) + 1 = p + 1 /\ p # count
        BY <2>1, <2>6, <3>3
      <4>. QED
        BY <1>11, <2>1, <2>3, <2>6, <3>2, <3>3, <4>1
    <3>4. CASE k # p - 1
      <4>1. k # count
        BY <2>1, <2>6, <3>4
      <4>2. CASE i < p
        BY <2>1, <2>3, <2>4, <2>6, <3>2, <3>4, <4>1, <4>2
      <4>3. CASE ~(i < p)
        BY <2>1, <2>3, <2>4, <2>6, <3>2, <3>4, <4>1, <4>3
      <4>. QED
        BY <4>2, <4>3
    <3>. QED
      BY <3>3, <3>4
  <2>. QED
    BY <2>5, <2>6
<1>19. ASSUME NEW i \in 1..(count - 1)
       PROVE  file'[t[i]].prev = IF i = 1 THEN 0 ELSE t[i - 1]
  <2>. DEFINE k == At(i)
  <2>1. /\ k \in 1..count /\ k # p /\ t[i] = s[k] /\ k = IF i < p THEN i ELSE i + 1
        /\ i \in Nat /\ p \in Nat /\ count \in Nat /\ i <= count - 1 /\ 1 <= i /\ 1 <= p /\ p <= count
    BY <1>3, <1>10, <1>15
  <2>. HIDE DEF k
  <2>2. /\ s[k] \in Slots /\ s[k] # m
        /\ s[k] = f.next <=> k = p + 1
    BY <1>12, <2>1
  <2>3. file'[s[k]].prev = IF k = p + 1 THEN f.prev ELSE file[s[k]].prev
    BY <1>6, <2>2
  <2>4. file[s[k]].prev = IF k = 1 THEN 0 ELSE s[k - 1]
    BY <1>8, <2>1
  <2>5. CASE i = 1
    BY <1>11, <2>1, <2>3, <2>4, <2>5
  <2>6. CASE i # 1
    <3>1. i - 1 \in 1..(count - 1)
      BY <2>1, <2>6
    <3>2. t[i - 1] = IF i - 1 < p THEN s[i - 1] ELSE s[(i - 1) + 1]
      BY <1>14, <3>1
    <3>3. CASE k = p + 1
      <4>1. i = p /\ p # 1
        BY <2>1, <2>6, <3>3
      <4>. QED
        BY <1>11, <2>1, <2>3, <2>6, <3>2, <3>3, <4>1
    <3>4. CASE k # p + 1
      <4>1. k # 1
        BY <2>1, <2>6, <3>4
      <4>2. CASE i < p
        BY <2>1, <2>3, <2>4, <2>6, <3>2, <3>4, <4>1, <4>2
      <4>3. CASE ~(i < p)
        <5>1. i > p /\ k - 1 = (i - 1) + 1 /\ ~(i - 1 < p)
          BY <2>1, <3>4, <4>3
        <5>. QED
          BY <2>1, <2>3, <2>4, <2>6, <3>2, <3>4, <4>1, <5>1
      <4>. QED
        BY <4>2, <4>3
    <3>. QED
      BY <3>3, <3>4
  <2>. QED
    BY <2>5, <2>6
<1>20. first' = IF count - 1 = 0 THEN 0 ELSE t[1]
  <2>1. CASE p = 1
    <3>1. first' = IF 1 = count THEN 0 ELSE s[2]
      BY <1>1, <1>11, <2>1
    <3>2. CASE count = 1
      BY <3>1, <3>2
    <3>3. CASE count # 1
      <4>1. 1 \in 1..(count - 1) /\ ~(1 < p)
        BY <1>3, <1>10, <2>1, <3>3
      <4>2. t[1] = s[2]
        BY <1>14, <4>1
      <4>. QED
        BY <1>3, <3>1, <3>3, <4>2
    <3>. QED
      BY <3>2, <3>3
  <2>2. CASE p # 1
    <3>1. p - 1 \in 1..count /\ 1 \in 1..(count - 1) /\ 1 < p /\ count # 0
      BY <1>3, <1>10, <2>2
    <3>2. f.prev # 0
      BY <1>8, <1>11, <2>2, <3>1
    <3>3. t[1] = s[1]
      BY <1>14, <3>1
    <3>. QED
      BY <1>1, <1>3, <1>8, <3>1, <3>2, <3>3
  <2>. QED
    BY <2>1, <2>2
<1>21. Chain(t, 1)'
  <2>1. first' = IF count' = 0 THEN 0 ELSE t[1]
    BY <1>1, <1>20
  <2>2. t \in [1..count' -> Slots] /\ 1 \in 1..(count' + 1)
    <3>1. count' = count - 1 /\ count - 1 \in Nat
      BY <1>1, <1>3, <1>10
    <3>. QED
      BY <1>14, <3>1
  <2>3. \A i, n \in 1..count' : t[i] = t[n] => i = n
    BY <1>1, <1>16
  <2>4. \A n \in Slots : n \in Opened' <=> \E i \in 1..count' : t[i] = n
    BY <1>1, <1>17
  <2>5. \A i \in 1..count' :
          /\ file'[t[i]].next = IF i = count' THEN 0 ELSE t[i + 1]
          /\ file'[t[i]].prev = IF i = 1 THEN 0 ELSE t[i - 1]
    BY <1>1, <1>18, <1>19
  <2>. QED
    BY <2>1, <2>2, <2>3, <2>4, <2>5 DEF Chain
<1>22. ListInv'
  <2>1. \E r : Chain(r, 1)'
    BY <1>21
  <2>. QED
    BY <1>1, <2>1 DEF ListInv
<1>23. HandleInv'
  <2>1. \A n \in Slots : file'[n].ni # None => file'[n].vd = vd' /\ n \in my_files'
    BY <1>1, <1>5, <1>6 DEF HandleInv, UnmountClosesFiles
  <2>2. \A n \in Slots : file'[n].vd <= mounts'
    <3>1. mounts \in Nat
      BY <1>1 DEF TypeInv, VolumeType
    <3>. QED
      BY <1>1, <1>5, <1>6, <3>1 DEF HandleInv
  <2>3. ASSUME NEW n \in my_files', file'[n].vd = vd' PROVE file'[n].ni # None
    <3>1. n \in Slots /\ n \in my_files /\ n # m
      BY <1>1, <1>3
    <3>2. file[n].vd = vd
      BY <1>1, <1>6, <2>3, <3>1
    <3>. QED
      BY <1>1, <1>6, <3>1, <3>2, IdleFacts DEF HandleInv, Handles
  <2>. QED
    BY <2>1, <2>2, <2>3 DEF HandleInv, UnmountClosesFiles, Handles
<1>. QED
  BY <1>13, <1>22, <1>23

LEMMA CloseKeeps ==
  ASSUME Inv, NEW m \in Slots, Close(m)
  PROVE  Inv' /\ UNCHANGED names
<1>1. UNCHANGED <<vol, names, data>> /\ TypeInv /\ Return("close", 0)
  BY DEF Close, Inv
<1>2. call' \in Call /\ ~call'.busy /\ call'.op \notin Loops
  BY <1>1, ReturnFacts DEF Loops
<1>3. CallType' /\ call'.op # "unmount" /\ WriteInv' /\ ReadInv'
  BY <1>2, OverFacts
<1>4. ListType' /\ ListInv' /\ HandleInv'
  BY <1>3, CloseLists
<1>5. VolumeType' /\ DataType'
  BY <1>1 DEF TypeInv, VolumeType, DataType, vol
<1>. QED
  BY <1>1, <1>3, <1>4, <1>5 DEF Inv, TypeInv

-----------------------------------------------------------------------------
(* Mounting and unmounting *)

\* ntfsDeinitVolume starts at the first open file.
LEMMA StartUnmountKeeps ==
  ASSUME Inv, StartUnmount
  PROVE  Inv'
<1>1. /\ Idle /\ UNCHANGED <<vol, list, file, names, data>> /\ call' = Begin(first, "unmount")
      /\ TypeInv /\ ListInv /\ HandleInv /\ vd # 0
  BY DEF StartUnmount, Inv, Idle
<1>2. call' \in Call /\ call'.busy /\ call'.op = "unmount" /\ call'.m = first
  <2>1. first \in Link /\ "unmount" \in Loops
    BY <1>1 DEF TypeInv, ListType, Loops
  <2>. QED
    BY <1>1, <2>1, BeginFacts
<1>3. UNCHANGED <<vd, mounts, my_files, first, count>>
  BY <1>1 DEF vol, list
<1>4. TypeInv'
  <2>1. VolumeType' /\ ListType' /\ DataType'
    BY <1>1, <1>3 DEF TypeInv, VolumeType, ListType, DataType
  <2>2. CallType'
    BY <1>1, <1>2, <1>3 DEF CallType, Loops
  <2>. QED
    BY <2>1, <2>2 DEF TypeInv
<1>5. ListInv'
  <2>1. PICK s : Chain(s, 1)
    BY <1>1, IdleFacts DEF ListInv
  <2>2. LinksKept
    BY <1>1 DEF LinksKept
  <2>3. Chain(s, 1)'
    BY <1>1, <1>3, <2>1, <2>2, ChainKept
  <2>4. call'.m = IF 1 = count' + 1 THEN 0 ELSE s[1]
    <3>1. first = IF count = 0 THEN 0 ELSE s[1]
      BY <2>1 DEF Chain
    <3>2. count \in Nat
      BY <1>1 DEF TypeInv, ListType
    <3>. QED
      BY <1>2, <1>3, <3>1, <3>2
  <2>5. \E r, q : Chain(r, q)' /\ call'.m = IF q = count' + 1 THEN 0 ELSE r[q]
    BY <2>3, <2>4
  <2>. QED
    BY <1>1, <1>2, <1>3, <2>5 DEF ListInv
<1>6. HandleInv'
  BY <1>1, <1>2, <1>3 DEF HandleInv, UnmountClosesFiles
<1>7. WriteInv' /\ ReadInv'
  BY <1>2 DEF WriteInv, Writing, ReadInv, Reading
<1>. QED
  BY <1>4, <1>5, <1>6, <1>7 DEF Inv

\* One file is closed, and the next one of the list is looked up in what
\* ntfsCloseFile leaves of its handle.
LEMMA CloseOpenKeeps ==
  ASSUME Inv, CloseOpen
  PROVE  Inv'
<1>. USE FileApiAssumption
<1>. DEFINE m == call.m
<1>1. /\ call.busy /\ call.op = "unmount" /\ m # 0 /\ UNCHANGED <<vol, list, names, data>>
      /\ file' = [file EXCEPT ![m] = ntfsCloseFile(file[m])]
      /\ call' = [call EXCEPT !.m = file'[m].next]
      /\ TypeInv /\ ListInv /\ HandleInv /\ vd # 0
  BY DEF CloseOpen, Inv, TypeInv, CallType
<1>2. UNCHANGED <<vd, mounts, my_files, first, count>>
  BY <1>1 DEF vol, list
<1>3. /\ file \in [Slots -> Handle] /\ count \in Nat /\ call \in Call /\ m \in Slots
  BY <1>1 DEF TypeInv, ListType, CallType, Call, Link
<1>4. /\ file'[m] \in Handle /\ file'[m].ni = None /\ file'[m].vd = file[m].vd
      /\ file'[m].next = file[m].next /\ file'[m].prev = file[m].prev
  <2>1. file'[m] = [NoFile EXCEPT !.vd = file[m].vd, !.next = file[m].next, !.prev = file[m].prev]
    BY <1>1, <1>3 DEF ntfsCloseFile
  <2>2. file[m] \in Handle /\ NoFile \in Handle /\ NoFile.ni = None
    <3>1. NoFile \in Handle /\ NoFile.ni = None
      BY DEF NoFile, Handle, Link
    <3>. QED
      BY <1>3, <3>1
  <2>. QED
    BY <2>1, <2>2 DEF Handle
<1>5. \A n \in Slots : n # m => file'[n] = file[n]
  BY <1>1, <1>3
<1>6. /\ call' \in Call /\ call'.m = file[m].next /\ call'.busy /\ call'.op = "unmount"
  <2>1. file[m].next \in Link
    BY <1>3 DEF Handle
  <2>. QED
    BY <1>1, <1>3, <1>4, <2>1 DEF Call
<1>7. TypeInv'
  <2>1. VolumeType' /\ DataType'
    BY <1>1, <1>2 DEF TypeInv, VolumeType, DataType
  <2>2. file' \in [Slots -> Handle]
    <3>1. file' = [n \in Slots |-> file'[n]]
      BY <1>1, <1>3
    <3>2. \A n \in Slots : file'[n] \in Handle
      BY <1>3, <1>4, <1>5
    <3>. QED
      BY <3>1, <3>2
  <2>3. ListType'
    BY <1>1, <1>2, <2>2 DEF TypeInv, ListType
  <2>4. CallType'
    BY <1>1, <1>2, <1>6 DEF CallType, Loops
  <2>. QED
    BY <2>1, <2>3, <2>4 DEF TypeInv
<1>8. PICK s, p : Chain(s, p) /\ m = IF p = count + 1 THEN 0 ELSE s[p]
  BY <1>1 DEF ListInv
<1>9. /\ s \in [1..count -> Slots] /\ p \in 1..(count + 1)
      /\ \A i, n \in 1..count : s[i] = s[n] => i = n
      /\ \A n \in Slots : n \in Opened <=> \E i \in p..count : s[i] = n
      /\ first = IF count = 0 THEN 0 ELSE s[1]
      /\ \A i \in 1..count :
           /\ file[s[i]].next = IF i = count THEN 0 ELSE s[i + 1]
           /\ file[s[i]].prev = IF i = 1 THEN 0 ELSE s[i - 1]
  BY <1>8 DEF Chain
<1>10. p \in 1..count /\ m = s[p]
  BY <1>1, <1>3, <1>8, <1>9
<1>. HIDE DEF m
<1>11. ASSUME NEW n \in Slots
       PROVE  n \in Opened' <=> \E i \in (p + 1)..count : s[i] = n
  <2>1. CASE n = m
    <3>1. n \notin Opened'
      BY <1>4, <2>1 DEF Opened
    <3>2. ASSUME NEW i \in (p + 1)..count, s[i] = n PROVE FALSE
      <4>1. i \in 1..count /\ i # p
        BY <1>3, <1>10
      <4>. QED
        BY <1>9, <1>10, <2>1, <3>2, <4>1
    <3>. QED
      BY <3>1, <3>2
  <2>2. CASE n # m
    <3>1. n \in Opened' <=> n \in Opened
      BY <1>5, <2>2 DEF Opened
    <3>2. (\E i \in p..count : s[i] = n) <=> \E i \in (p + 1)..count : s[i] = n
      <4>1. ASSUME NEW i \in p..count, s[i] = n PROVE \E k \in (p + 1)..count : s[k] = n
        <5>1. i \in (p + 1)..count
          BY <1>3, <1>10, <2>2, <4>1
        <5>. QED
          BY <4>1, <5>1
      <4>2. ASSUME NEW i \in (p + 1)..count, s[i] = n PROVE \E k \in p..count : s[k] = n
        <5>1. i \in p..count
          BY <1>3, <1>10
        <5>. QED
          BY <4>2, <5>1
      <4>. QED
        BY <4>1, <4>2
    <3>. QED
      BY <1>9, <3>1, <3>2
  <2>. QED
    BY <2>1, <2>2
<1>12. ASSUME NEW i \in 1..count
       PROVE  /\ file'[s[i]].next = IF i = count THEN 0 ELSE s[i + 1]
              /\ file'[s[i]].prev = IF i = 1 THEN 0 ELSE s[i - 1]
  <2>1. s[i] \in Slots
    BY <1>9
  <2>2. file'[s[i]].next = file[s[i]].next /\ file'[s[i]].prev = file[s[i]].prev
    <3>1. CASE s[i] = m
      BY <1>4, <3>1
    <3>2. CASE s[i] # m
      BY <1>5, <2>1, <3>2
    <3>. QED
      BY <3>1, <3>2
  <2>. QED
    BY <1>9, <2>2
<1>13. PICK q : q = p + 1
  OBVIOUS
<1>14. Chain(s, q)'
  <2>1. q \in 1..(count' + 1)
    BY <1>2, <1>3, <1>10, <1>13
  <2>2. \A n \in Slots : n \in Opened' <=> \E i \in q..count' : s[i] = n
    BY <1>2, <1>11, <1>13
  <2>3. /\ s \in [1..count' -> Slots]
        /\ \A i, n \in 1..count' : s[i] = s[n] => i = n
        /\ first' = IF count' = 0 THEN 0 ELSE s[1]
    BY <1>2, <1>9
  <2>4. \A i \in 1..count' :
          /\ file'[s[i]].next = IF i = count' THEN 0 ELSE s[i + 1]
          /\ file'[s[i]].prev = IF i = 1 THEN 0 ELSE s[i - 1]
    BY <1>2, <1>12
  <2>. QED
    BY <2>1, <2>2, <2>3, <2>4 DEF Chain
<1>15. ListInv'
  <2>1. call'.m = IF q = count' + 1 THEN 0 ELSE s[q]
    <3>1. file[m].next = IF p = count THEN 0 ELSE s[p + 1]
      BY <1>9, <1>10
    <3>2. p = count <=> q = count' + 1
      BY <1>2, <1>3, <1>10, <1>13
    <3>. QED
      BY <1>6, <1>13, <3>1, <3>2
  <2>2. \E r, k : Chain(r, k)' /\ call'.m = IF k = count' + 1 THEN 0 ELSE r[k]
    BY <1>14, <2>1
  <2>. QED
    BY <1>1, <1>2, <1>6, <2>2 DEF ListInv
<1>16. HandleInv'
  <2>1. \A n \in Slots : file'[n].ni # None => file'[n].vd = vd' /\ n \in my_files'
    BY <1>1, <1>2, <1>4, <1>5 DEF HandleInv, UnmountClosesFiles
  <2>2. \A n \in Slots : file'[n].vd = file[n].vd
    BY <1>4, <1>5
  <2>. QED
    BY <1>1, <1>2, <1>6, <2>1, <2>2 DEF HandleInv, UnmountClosesFiles
<1>17. WriteInv' /\ ReadInv'
  BY <1>6 DEF WriteInv, Writing, ReadInv, Reading
<1>. QED
  BY <1>7, <1>15, <1>16, <1>17 DEF Inv

\* An empty list, with no handle open.
LEMMA NoneOpen ==
  ASSUME first' = 0, count' = 0, Opened' = {} PROVE \E s : Chain(s, 1)'
<1>1. PICK s : s \in [1..0 -> Slots]
  <2>1. [i \in 1..0 |-> 0] \in [1..0 -> Slots]
    OBVIOUS
  <2>. QED
    BY <2>1
<1>2. /\ s \in [1..count' -> Slots] /\ 1 \in 1..(count' + 1)
      /\ \A i \in 1..count' : FALSE
  BY <1>1
<1>3. Chain(s, 1)'
  BY <1>2 DEF Chain
<1>. QED
  BY <1>3

LEMMA FreeVolumeKeeps ==
  ASSUME Inv, FreeVolume
  PROVE  Inv'
<1>. USE FileApiAssumption
<1>1. /\ call.op = "unmount" /\ call.m = 0 /\ vd' = 0 /\ first' = 0 /\ count' = 0 /\ call' = NoCall
      /\ UNCHANGED <<mounts, my_files, file, names, data>>
      /\ TypeInv /\ ListInv /\ HandleInv
  BY DEF FreeVolume, Inv
<1>2. PICK s, p : Chain(s, p) /\ call.m = IF p = count + 1 THEN 0 ELSE s[p]
  BY <1>1 DEF ListInv
<1>3. p = count + 1
  <2>1. /\ s \in [1..count -> Slots] /\ p \in 1..(count + 1) /\ count \in Nat
    BY <1>1, <1>2 DEF Chain, TypeInv, ListType
  <2>2. CASE p # count + 1
    <3>1. p \in 1..count
      BY <2>1, <2>2
    <3>2. s[p] \in Slots
      BY <2>1, <3>1
    <3>. QED
      BY <1>1, <1>2, <2>2, <3>2
  <2>. QED
    BY <2>2
<1>4. Opened = {}
  <2>1. \A m \in Slots : m \in Opened <=> \E i \in p..count : s[i] = m
    BY <1>2 DEF Chain
  <2>2. \A i \in p..count : FALSE
    BY <1>1, <1>3 DEF TypeInv, ListType
  <2>. QED
    BY <2>1, <2>2 DEF Opened
<1>5. Opened' = {}
  BY <1>1, <1>4 DEF Opened
<1>6. call' \in Call /\ ~call'.busy /\ call'.op = "none"
  BY <1>1, NoCallType DEF NoCall
<1>7. CallType' /\ WriteInv' /\ ReadInv' /\ call'.op # "unmount"
  BY <1>6, OverFacts DEF Loops
<1>8. TypeInv'
  <2>1. VolumeType' /\ ListType' /\ DataType'
    BY <1>1 DEF TypeInv, VolumeType, ListType, DataType, Link
  <2>. QED
    BY <1>7, <2>1 DEF TypeInv
<1>9. ListInv'
  <2>1. \E r : Chain(r, 1)'
    BY <1>1, <1>5, NoneOpen
  <2>. QED
    BY <1>1, <1>7, <2>1 DEF ListInv
<1>10. HandleInv'
  <2>1. \A m \in Slots : file'[m].ni = None
    BY <1>5 DEF Opened
  <2>2. \A m \in Slots : file'[m].vd <= mounts'
    BY <1>1 DEF HandleInv
  <2>. QED
    BY <1>1, <2>1, <2>2 DEF HandleInv, UnmountClosesFiles
<1>. QED
  BY <1>7, <1>8, <1>9, <1>10 DEF Inv

\* The handles that earlier mounts left behind are not those of the new one.
LEMMA MountKeeps ==
  ASSUME Inv, Mount
  PROVE  Inv'
<1>. USE FileApiAssumption
<1>1. /\ vd = 0 /\ mounts < MaxMounts /\ mounts' = mounts + 1 /\ vd' = mounts + 1
      /\ first' = 0 /\ count' = 0 /\ call' = NoCall
      /\ UNCHANGED <<my_files, file, names, data>>
      /\ TypeInv /\ ListInv /\ HandleInv
  BY DEF Mount, Inv
<1>2. call.op # "unmount" /\ count = 0 /\ mounts \in 0..MaxMounts
  BY <1>1 DEF TypeInv, CallType, Loops, ListInv, VolumeType
<1>3. PICK s : Chain(s, 1)
  BY <1>1, <1>2 DEF ListInv
<1>4. Opened = {}
  <2>1. \A m \in Slots : m \in Opened <=> \E i \in 1..count : s[i] = m
    BY <1>3 DEF Chain
  <2>2. \A i \in 1..count : FALSE
    BY <1>2
  <2>. QED
    BY <2>1, <2>2 DEF Opened
<1>5. Opened' = {}
  BY <1>1, <1>4 DEF Opened
<1>6. call' \in Call /\ ~call'.busy /\ call'.op = "none"
  BY <1>1, NoCallType DEF NoCall
<1>7. CallType' /\ WriteInv' /\ ReadInv' /\ call'.op # "unmount"
  BY <1>6, OverFacts DEF Loops
<1>8. TypeInv'
  <2>1. VolumeType'
    BY <1>1, <1>2 DEF VolumeType
  <2>2. ListType' /\ DataType'
    BY <1>1 DEF TypeInv, ListType, DataType, Link
  <2>. QED
    BY <1>7, <2>1, <2>2 DEF TypeInv
<1>9. ListInv'
  <2>1. \E r : Chain(r, 1)'
    BY <1>1, <1>5, NoneOpen
  <2>. QED
    BY <1>1, <1>7, <2>1 DEF ListInv
<1>10. HandleInv'
  <2>1. \A m \in Slots : file'[m].ni = None
    BY <1>5 DEF Opened
  <2>2. \A m \in Slots : file'[m].vd \in Nat /\ file'[m].vd < vd' /\ file'[m].vd <= mounts'
    <3>1. ASSUME NEW m \in Slots PROVE file[m].vd \in Nat /\ file[m].vd <= mounts
      BY <1>1 DEF HandleInv, TypeInv, ListType, Handle
    <3>. QED
      BY <1>1, <1>2, <3>1
  <2>3. \A m \in Slots : file'[m].vd # vd'
    BY <1>1, <1>2, <2>2
  <2>4. Handles' = {}
    BY <1>1, <2>3 DEF Handles, TypeInv, ListType
  <2>. QED
    BY <2>1, <2>2, <2>4 DEF HandleInv, UnmountClosesFiles
<1>. QED
  BY <1>7, <1>8, <1>9, <1>10 DEF Inv

-----------------------------------------------------------------------------
(* Every step *)

LEMMA Start == Init => Inv
<1>. USE FileApiAssumption
<1>1. SUFFICES ASSUME Init PROVE Inv
  OBVIOUS
<1>2. /\ vd = 0 /\ mounts = 0 /\ my_files = {} /\ file = [m \in Slots |-> NoFile]
      /\ first = 0 /\ count = 0 /\ names = [n \in Names |-> None]
      /\ data = [i \in Inodes |-> <<>>] /\ call = NoCall
  BY <1>1 DEF Init
<1>3. call \in Call /\ ~call.busy /\ call.op = "none"
  BY <1>2, NoCallType DEF NoCall
<1>4. NoFile \in Handle /\ NoFile.ni = None /\ NoFile.vd = 0
  BY DEF NoFile, Handle, Link
<1>5. VolumeType /\ ListType
  BY <1>2, <1>4 DEF VolumeType, ListType, Link
<1>6. DataType
  <2>1. <<>> \in Contents
    BY DEF Contents
  <2>. QED
    BY <1>2, <2>1 DEF DataType
<1>7. CallType
  BY <1>3 DEF CallType, Loops
<1>8. Opened = {}
  BY <1>2, <1>4 DEF Opened
<1>9. ListInv
  <2>1. PICK s : s \in [1..0 -> Slots]
    <3>1. [i \in 1..0 |-> 0] \in [1..0 -> Slots]
      OBVIOUS
    <3>. QED
      BY <3>1
  <2>2. /\ s \in [1..count -> Slots] /\ 1 \in 1..(count + 1)
        /\ \A i \in 1..count : FALSE
    BY <1>2, <2>1
  <2>3. Chain(s, 1)
    BY <1>2, <1>8, <2>2 DEF Chain
  <2>4. \E r : Chain(r, 1)
    BY <2>3
  <2>. QED
    BY <1>2, <1>3, <2>4 DEF ListInv
<1>10. HandleInv
  BY <1>2, <1>4 DEF HandleInv, UnmountClosesFiles
<1>11. WriteInv /\ ReadInv
  BY <1>3 DEF WriteInv, Writing, ReadInv, Reading
<1>. QED
  BY <1>5, <1>6, <1>7, <1>9, <1>10, <1>11 DEF Inv, TypeInv

\* What a quiet step needs to show.
LEMMA QuietInv ==
  ASSUME Inv, Quiet, WriteInv', ReadInv' PROVE Inv'
  BY QuietKeeps DEF Inv

\* A step that changes nothing.
LEMMA StutterKeeps ==
  ASSUME Inv, UNCHANGED vars PROVE Inv'
<1>1. /\ UNCHANGED <<vd, mounts, my_files, first, count, file, names, data, call>>
  BY DEF vars, vol, list
<1>2. TypeInv'
  BY <1>1 DEF Inv, TypeInv, VolumeType, ListType, DataType, CallType
<1>3. HandleInv'
  BY <1>1 DEF Inv, HandleInv, UnmountClosesFiles, Handles
<1>4. WriteInv' /\ ReadInv'
  <2>1. WriteInv'
    BY <1>1 DEF Inv, WriteInv, Writing
  <2>2. ReadInv'
    BY <1>1 DEF Inv, ReadInv, Reading
  <2>. QED
    BY <2>1, <2>2
<1>5. ASSUME NEW s, NEW q, Chain(s, q) PROVE Chain(s, q)'
  <2>1. LinksKept
    BY <1>1 DEF LinksKept
  <2>. QED
    BY <1>1, <1>5, <2>1, ChainKept
<1>6. ListInv'
  <2>1. CASE call.op = "unmount"
    <3>1. PICK s, q : Chain(s, q) /\ call.m = IF q = count + 1 THEN 0 ELSE s[q]
      BY <2>1 DEF Inv, ListInv
    <3>2. Chain(s, q)' /\ call'.m = IF q = count' + 1 THEN 0 ELSE s[q]
      BY <1>1, <1>5, <3>1
    <3>3. \E r, k : Chain(r, k)' /\ call'.m = IF k = count' + 1 THEN 0 ELSE r[k]
      BY <3>2
    <3>. QED
      BY <1>1, <2>1, <3>3 DEF Inv, ListInv
  <2>2. CASE call.op # "unmount"
    <3>1. PICK s : Chain(s, 1)
      BY <2>2 DEF Inv, ListInv
    <3>2. \E r : Chain(r, 1)'
      BY <1>5, <3>1
    <3>. QED
      BY <1>1, <2>2, <3>2 DEF Inv, ListInv
  <2>. QED
    BY <2>1, <2>2
<1>. QED
  BY <1>2, <1>3, <1>4, <1>6 DEF Inv

LEMMA NextKeeps == Inv /\ [Next]_vars => Inv'
<1>1. SUFFICES ASSUME Inv, [Next]_vars PROVE Inv'
  OBVIOUS
<1>2. ASSUME NEW n \in Names, Mkdir(n) PROVE Inv'
  BY <1>1, <1>2, MkdirQuiet, QuietInv
<1>3. ASSUME NEW n \in Names, Unlink(n) PROVE Inv'
  BY <1>1, <1>3, UnlinkQuiet, QuietInv
<1>4. ASSUME NEW n \in Names, NEW new \in Names, Rename(n, new) PROVE Inv'
  BY <1>1, <1>4, RenameQuiet, QuietInv
<1>5. ASSUME NEW n \in Names, NEW mode \in {"r", "rw", "a"}, NEW creat \in BOOLEAN,
             NEW trunc \in BOOLEAN, Open(n, mode, creat, trunc)
      PROVE  Inv'
  BY <1>1, <1>5, OpenKeeps
<1>6. ASSUME NEW m \in Slots, Close(m) PROVE Inv'
  BY <1>1, <1>6, CloseKeeps
<1>7. ASSUME NEW m \in Slots, NEW b \in Buffers, StartWrite(m, b) PROVE Inv'
  BY <1>1, <1>7, StartWriteQuiet, QuietInv
<1>8. ASSUME NEW m \in Slots, NEW n \in 1..MaxLen, StartRead(m, n) PROVE Inv'
  BY <1>1, <1>8, StartReadQuiet, QuietInv
<1>9. ASSUME NEW m \in Slots, NEW base \in {"set", "cur", "end"}, NEW off \in {-MaxLen, -1, 1},
             Seek(m, base, off)
      PROVE  Inv'
  BY <1>1, <1>9, SeekQuiet, QuietInv
<1>10. ASSUME NEW m \in Slots, NEW n \in 0..MaxLen, Ftruncate(m, n) PROVE Inv'
  BY <1>1, <1>10, FtruncateQuiet, QuietInv
<1>11. CASE PWrite
  BY <1>1, <1>11, PWriteQuiet, QuietInv
<1>12. CASE WriteEnd
  BY <1>1, <1>12, WriteEndQuiet, QuietInv
<1>13. CASE PRead
  BY <1>1, <1>13, PReadQuiet, QuietInv
<1>14. CASE ReadEnd
  BY <1>1, <1>14, ReadEndQuiet, QuietInv
<1>15. CASE CloseOpen
  BY <1>1, <1>15, CloseOpenKeeps
<1>16. CASE FreeVolume
  BY <1>1, <1>16, FreeVolumeKeeps
<1>17. CASE Mount
  BY <1>1, <1>17, MountKeeps
<1>18. CASE StartUnmount
  BY <1>1, <1>18, StartUnmountKeeps
<1>19. CASE UNCHANGED vars
  BY <1>1, <1>19, StutterKeeps
<1>20. CASE NameCall
  BY <1>2, <1>3, <1>4, <1>5, <1>20 DEF NameCall
<1>21. CASE FileCall
  BY <1>6, <1>7, <1>8, <1>9, <1>10, <1>21 DEF FileCall
<1>. QED
  BY <1>1, <1>11, <1>12, <1>13, <1>14, <1>15, <1>16, <1>17, <1>18, <1>19, <1>20, <1>21 DEF Next, Step

\* The inductive invariant holds throughout.
THEOREM Invariance == Spec => []Inv
  BY Start, NextKeeps, PTL DEF Spec

\* Directories are inodes.
DirsInv == dirs \subseteq Inodes

LEMMA DirsType == DirsInv /\ [Next]_vars => DirsInv'
<1>1. SUFFICES ASSUME dirs \subseteq Inodes, [Next]_vars PROVE dirs' \subseteq Inodes
  BY DEF DirsInv
<1>2. ASSUME NEW n \in Names, Mkdir(n) PROVE dirs' \subseteq Inodes
  BY <1>1, <1>2 DEF Mkdir
<1>3. ASSUME NEW n \in Names, NEW mode \in {"r", "rw", "a"}, NEW creat \in BOOLEAN,
             NEW trunc \in BOOLEAN, Open(n, mode, creat, trunc)
      PROVE  dirs' \subseteq Inodes
  <2>1. dirs' = dirs \/ \E i : dirs' = dirs \ {i}
    BY <1>3 DEF Open
  <2>. QED
    BY <1>1, <2>1
<1>4. CASE NameCall
  BY <1>1, <1>2, <1>3, <1>4 DEF NameCall, Unlink, Rename
<1>5. CASE FileCall
  BY <1>1, <1>5 DEF FileCall, Close, StartWrite, StartRead, Seek, Ftruncate
<1>6. CASE Step
  BY <1>1, <1>6 DEF Step, PWrite, WriteEnd, PRead, ReadEnd, CloseOpen, FreeVolume
<1>7. CASE Mount \/ StartUnmount \/ UNCHANGED vars
  BY <1>1, <1>7 DEF Mount, StartUnmount, vars
<1>. QED
  BY <1>1, <1>4, <1>5, <1>6, <1>7 DEF Next

\* Positions and lengths of handles stay within the files' bound, links and
\* openFileCount within the table of handles.
THEOREM TypesHold == Spec => []TypeOK
<1>. USE FileApiAssumption
<1>1. Init => DirsInv
  BY DEF Init, DirsInv
<1>2. Inv /\ DirsInv => TypeOK
  <2>1. SUFFICES ASSUME Inv, dirs \subseteq Inodes PROVE TypeOK
    BY DEF DirsInv
  <2>2. vd \in 0..MaxMounts /\ mounts \in 0..MaxMounts
    BY <2>1 DEF Inv, TypeInv, VolumeType
  <2>3. /\ my_files \subseteq Slots /\ first \in Slots \union {0} /\ count \in Nat
        /\ file \in [Slots -> Handle]
    BY <2>1 DEF Inv, TypeInv, ListType, Link
  <2>4. ASSUME NEW m \in Slots
        PROVE  /\ file[m].vd \in 0..MaxMounts /\ file[m].ni \in Inodes \union {None}
               /\ {file[m].pos, file[m].len} \subseteq 0..MaxLen
               /\ {file[m].next, file[m].prev} \subseteq Slots \union {0}
    BY <2>3 DEF Handle, Link
  <2>5. count <= Cardinality(Slots) /\ Cardinality(Slots) \in Nat
    <3>1. PICK s, q : Chain(s, q)
      BY <2>1 DEF Inv, ListInv
    <3>2. s \in Injection(1..count, Slots)
      BY <3>1 DEF Chain, Injection, IsInjective
    <3>3. Cardinality(1..count) <= Cardinality(Slots)
      BY <3>2, FS_Injection
    <3>4. Cardinality(1..count) = count
      BY <2>3, FS_Interval
    <3>. QED
      BY <3>3, <3>4, FS_CardinalityType
  <2>6. names \in [Names -> Inodes \union {None}] /\ \A i \in Inodes : Len(data[i]) <= MaxLen
    BY <2>1 DEF Inv, TypeInv, DataType, Contents
  <2>. QED
    BY <2>1, <2>2, <2>3, <2>4, <2>5, <2>6 DEF TypeOK
<1>. QED
  BY <1>1, <1>2, DirsType, Invariance, PTL DEF Spec

-----------------------------------------------------------------------------
(* Open files *)

\* ntfsDeinitVolume closes every file that was left open: a handle that holds
\* an inode is in use and belongs to the volume that is mounted.
THEOREM FilesAreClosed == Spec => []UnmountClosesFiles
<1>1. Inv => UnmountClosesFiles
  BY DEF Inv, HandleInv
<1>. QED
  BY <1>1, Invariance, PTL

\* A whole chain counts the open files and leads through all of them.
LEMMA ChainMatches ==
  ASSUME TypeInv, NEW s, Chain(s, 1)
  PROVE  /\ count = Cardinality(Opened)
         /\ s \in [1..count -> Opened] /\ {s[i] : i \in 1..count} = Opened
<1>1. /\ count \in Nat /\ s \in [1..count -> Slots]
      /\ \A i, n \in 1..count : s[i] = s[n] => i = n
      /\ \A m \in Slots : m \in Opened <=> \E i \in 1..count : s[i] = m
  BY DEF Chain, TypeInv, ListType
<1>2. Opened \subseteq Slots
  BY DEF Opened
<1>3. \A i \in 1..count : s[i] \in Opened
  BY <1>1
<1>4. s \in [1..count -> Opened]
  BY <1>1, <1>3
<1>5. {s[i] : i \in 1..count} = Opened
  BY <1>1, <1>2, <1>3
<1>6. s \in Bijection(1..count, Opened)
  <2>1. s \in Injection(1..count, Opened)
    BY <1>1, <1>4 DEF Injection, IsInjective
  <2>2. s \in Surjection(1..count, Opened)
    BY <1>1, <1>2, <1>4 DEF Surjection
  <2>. QED
    BY <2>1, <2>2 DEF Bijection
<1>7. Cardinality(Opened) = count
  <2>1. ExistsBijection(1..count, Opened)
    BY <1>6 DEF ExistsBijection
  <2>. QED
    BY <1>1, <2>1, FS_CountingElements
<1>. QED
  BY <1>4, <1>5, <1>7

\* firstOpenFile leads through nextOpenFile to every open file, prevOpenFile
\* leads back, and openFileCount counts them.
THEOREM OpenFilesListed == Spec => []ListsMatch
<1>1. Inv => ListsMatch
  <2>1. SUFFICES ASSUME Inv, call.op # "unmount"
                 PROVE  /\ count = Cardinality(Opened)
                        /\ \E s \in [1..count -> Opened] :
                             /\ {s[i] : i \in 1..count} = Opened
                             /\ first = IF count = 0 THEN 0 ELSE s[1]
                             /\ \A i \in 1..count :
                                  /\ file[s[i]].next = IF i = count THEN 0 ELSE s[i + 1]
                                  /\ file[s[i]].prev = IF i = 1 THEN 0 ELSE s[i - 1]
    BY DEF ListsMatch
  <2>2. PICK s : Chain(s, 1)
    BY <2>1 DEF Inv, ListInv
  <2>3. /\ count = Cardinality(Opened)
        /\ s \in [1..count -> Opened] /\ {s[i] : i \in 1..count} = Opened
    BY <2>1, <2>2, ChainMatches DEF Inv
  <2>4. /\ first = IF count = 0 THEN 0 ELSE s[1]
        /\ \A i \in 1..count :
             /\ file[s[i]].next = IF i = count THEN 0 ELSE s[i + 1]
             /\ file[s[i]].prev = IF i = 1 THEN 0 ELSE s[i - 1]
    BY <2>2 DEF Chain
  <2>. QED
    BY <2>3, <2>4
<1>. QED
  BY <1>1, Invariance, PTL

-----------------------------------------------------------------------------
(* What the calls do *)

\* The names a step takes away.
RenameStep ==
  \A i \in Inodes : Named(names, i) /\ ~Named(names', i) =>
       \/ call'.op = "unlink"
       \/ call'.op = "rename" /\ call'.ok /\ call'.new \in Unconvertible
       \/ call'.op = "rename" /\ call'.ok /\ call'.nomem /\ NoMemory
       \/ call'.op = "rename" /\ ~call'.ok /\ LateFailure

LEMMA StepRenames == Inv /\ [Next]_vars => RenameStep
<1>1. SUFFICES ASSUME Inv, [Next]_vars PROVE RenameStep
  OBVIOUS
<1>2. CASE UNCHANGED names
  BY <1>2 DEF RenameStep
<1>3. ASSUME NEW n \in Names, Mkdir(n) PROVE RenameStep
  BY <1>1, <1>3, MkdirQuiet DEF RenameStep
<1>4. ASSUME NEW n \in Names, Unlink(n) PROVE RenameStep
  BY <1>1, <1>4, UnlinkQuiet DEF RenameStep
<1>5. ASSUME NEW n \in Names, NEW new \in Names, Rename(n, new) PROVE RenameStep
  <2>1. PICK o \in ntfs_rename_r(names, n, new) :
          names' = o.names /\ (call'.ok <=> o.res = 0) /\ call'.nomem = o.nomem /\ n # new
    BY <1>1, <1>5, RenameQuiet
  <2>2. call'.op = "rename" /\ call'.new = new
    BY <1>1, <1>5, RenameQuiet
  <2>3. names \in [Names -> Inodes \union {None}]
    BY <1>1 DEF Inv, TypeInv, DataType
  <2>4. ASSUME NEW i \in Inodes, Named(names, i), ~Named(names', i)
        PROVE  \/ o.res = 0 /\ new \in Unconvertible
               \/ o.res = 0 /\ o.nomem /\ NoMemory
               \/ o.res # 0 /\ LateFailure
    BY <2>1, <2>3, <2>4, RenameOutcome
  <2>. QED
    BY <2>1, <2>2, <2>4 DEF RenameStep
<1>6. ASSUME NEW n \in Names, NEW mode \in {"r", "rw", "a"}, NEW creat \in BOOLEAN,
             NEW trunc \in BOOLEAN, Open(n, mode, creat, trunc)
      PROVE  RenameStep
  BY <1>1, <1>6, OpenCases DEF RenameStep, Inv
<1>7. CASE NameCall
  BY <1>3, <1>4, <1>5, <1>6, <1>7 DEF NameCall
<1>8. CASE FileCall
  <2>1. UNCHANGED names
    BY <1>8 DEF FileCall, Close, StartWrite, StartRead, Seek, Ftruncate
  <2>. QED
    BY <1>2, <2>1
<1>9. CASE Step
  BY <1>2, <1>9 DEF Step, PWrite, WriteEnd, PRead, ReadEnd, CloseOpen, FreeVolume
<1>10. CASE Mount \/ StartUnmount \/ UNCHANGED vars
  BY <1>2, <1>10 DEF Mount, StartUnmount, vars
<1>. QED
  BY <1>1, <1>7, <1>8, <1>9, <1>10 DEF Next

\* Whatever the link, the unlink and the undo of a rename answer, a file is
\* left without a name only in the three cases ntfs_rename_r does not see.
THEOREM RenamesLoseOnlyThen == Spec => RenameLosesOnlyThen
<1>1. Inv /\ [Next]_vars => [RenameStep]_vars
  BY StepRenames
<1>. QED
  BY <1>1, Invariance, PTL DEF Spec, RenameLosesOnlyThen, RenameStep

\* While a write or a read is in progress the program makes no other call.
LEMMA OnlyItsSteps ==
  ASSUME Inv, [Next]_vars, call.busy, call.op # "unmount"
  PROVE  \/ call.op = "write" /\ (PWrite \/ WriteEnd)
         \/ call.op = "read" /\ (PRead \/ ReadEnd)
         \/ UNCHANGED vars
<1>1. ~Idle /\ vd # 0
  BY DEF Idle, Inv, TypeInv, CallType
<1>2. ~NameCall
  BY <1>1 DEF NameCall, Mkdir, Unlink, Rename, Open
<1>3. ~FileCall
  BY <1>1 DEF FileCall, Close, StartWrite, StartRead, Seek, Ftruncate
<1>4. ~Mount /\ ~StartUnmount /\ ~CloseOpen /\ ~FreeVolume
  BY <1>1 DEF Mount, StartUnmount, CloseOpen, FreeVolume
<1>. QED
  BY <1>2, <1>3, <1>4 DEF Next, Step, PWrite, WriteEnd, PRead, ReadEnd, Writing, Reading

\* What a write that succeeds without a short write has done.
WriteStep ==
  Writing /\ ~call'.busy /\ call'.ok /\ ~call.short =>
       LET f == file'[call.m] IN
       /\ data[f.ni] = Patched(call.before, call.at, call.buf)
       /\ f.len = Len(data[f.ni])
       /\ f.pos = IF f.append THEN call.old_pos ELSE call.at + Len(call.buf)

LEMMA StepWrites == Inv /\ [Next]_vars => WriteStep
<1>1. SUFFICES ASSUME Inv, [Next]_vars, Writing, ~call'.busy, call'.ok, ~call.short
               PROVE  LET f == file'[call.m] IN
                      /\ data[f.ni] = Patched(call.before, call.at, call.buf)
                      /\ f.len = Len(data[f.ni])
                      /\ f.pos = IF f.append THEN call.old_pos ELSE call.at + Len(call.buf)
  BY DEF WriteStep
<1>2. TypeInv /\ WriteInv /\ call.busy /\ call.op = "write"
  BY <1>1 DEF Inv, Writing
<1>3. ~UNCHANGED vars
  BY <1>1, <1>2 DEF vars
<1>4. ~PWrite
  <2>1. SUFFICES ASSUME PWrite PROVE FALSE
    OBVIOUS
  <2>2. ASSUME NEW k \in 1..call.left, PWrites(k) PROVE FALSE
    BY <1>1, <1>2, <2>1, <2>2, PWriteFacts DEF PWrite
  <2>3. CASE End(FALSE)
    BY <1>1, <2>3, EndFacts
  <2>. QED
    BY <2>1, <2>2, <2>3 DEF PWrite, PWrites
<1>5. WriteEnd
  BY <1>1, <1>2, <1>3, <1>4, OnlyItsSteps
<1>6. LET f == file[call.m]
          g == file'[call.m]
      IN  /\ g.ni = f.ni /\ g.append = f.append
          /\ g.len = Len(data[f.ni])
          /\ g.pos = IF f.append THEN call.old_pos ELSE f.pos
  BY <1>2, <1>5, WriteEndFacts
<1>7. LET f == file[call.m] IN
      /\ data[f.ni] = Patched(call.before, call.at, call.buf)
      /\ f.pos = call.at + Len(call.buf)
  <2>1. call.left = 0 /\ Len(call.buf) > 0
    BY <1>1, <1>2, <1>5 DEF WriteEnd, WriteInv
  <2>2. call.left # Len(call.buf)
    BY <1>2, <2>1 DEF TypeInv, CallType, Call
  <2>. QED
    BY <1>1, <1>2, <2>1, <2>2 DEF WriteInv
<1>. QED
  BY <1>6, <1>7

\* A write that succeeds without a short write leaves the buffer where it was
\* to go, the rest of the file as it was, and a handle that knows the length.
THEOREM WritesAreWhole == Spec => WriteWhole
<1>1. Inv /\ [Next]_vars => [WriteStep]_vars
  BY StepWrites
<1>. QED
  BY <1>1, Invariance, PTL DEF Spec, WriteWhole, WriteStep

\* A position beyond the length makes the length ntfs_read_r asks for larger
\* than any file.
LEMMA AskedFacts ==
  ASSUME NEW at \in 0..MaxLen, NEW len \in 0..MaxLen, NEW n \in 0..MaxLen
  PROVE  \/ AskedFor(at, len, n) = Lower(n, len - at)
         \/ AskedFor(at, len, n) > MaxLen
<1>. USE FileApiAssumption
<1>1. CASE at + n <= len
  BY <1>1 DEF AskedFor, Lower
<1>2. CASE at + n > len /\ at <= len
  <2>1. (len - at) % SizeMod = len - at
    BY <1>2
  <2>. QED
    BY <1>2, <2>1 DEF AskedFor, Lower
<1>3. CASE at > len
  <2>1. (len - at) % SizeMod = SizeMod + (len - at)
    BY <1>3
  <2>. QED
    BY <1>3, <2>1 DEF AskedFor
<1>. QED
  BY <1>1, <1>2, <1>3

\* What a read that succeeds has returned.
ReadStep ==
  Reading /\ ~call'.busy /\ call'.ok =>
       LET f == file[call.m] IN
       /\ call.buf = SubSeq(data[f.ni], call.at + 1, call.at + Len(call.buf))
       /\ f.pos = call.at + Len(call.buf)
       /\ Len(call.buf) = Lower(call.want, f.len - call.at)

LEMMA StepReads == Inv /\ [Next]_vars => ReadStep
<1>. USE FileApiAssumption
<1>1. SUFFICES ASSUME Inv, [Next]_vars, Reading, ~call'.busy, call'.ok
               PROVE  LET f == file[call.m] IN
                      /\ call.buf = SubSeq(data[f.ni], call.at + 1, call.at + Len(call.buf))
                      /\ f.pos = call.at + Len(call.buf)
                      /\ Len(call.buf) = Lower(call.want, f.len - call.at)
  BY DEF ReadStep
<1>2. TypeInv /\ ReadInv /\ call.busy /\ call.op = "read"
  BY <1>1 DEF Inv, Reading
<1>3. ~UNCHANGED vars
  BY <1>1, <1>2 DEF vars
<1>4. ~PRead
  <2>1. SUFFICES ASSUME PRead PROVE FALSE
    OBVIOUS
  <2>2. ASSUME NEW k \in 1..Lower(call.left, Len(data[file[call.m].ni]) - file[call.m].pos), PReads(k)
        PROVE  FALSE
    BY <1>1, <1>2, <2>1, <2>2, PReadFacts DEF PRead
  <2>3. CASE End(FALSE)
    BY <1>1, <2>3, EndFacts
  <2>. QED
    BY <2>1, <2>2, <2>3 DEF PRead, PReads
<1>5. ReadEnd
  BY <1>1, <1>2, <1>3, <1>4, OnlyItsSteps
<1>. DEFINE f == file[call.m]
            d == data[f.ni]
            l == Len(call.buf)
<1>6. /\ call.m \in Slots /\ f.ni \in Inodes
      /\ call.buf = SubSeq(d, call.at + 1, call.at + l) /\ f.pos = call.at + l
      /\ l > 0 => f.pos <= Len(d)
      /\ l + call.left = AskedFor(call.at, f.len, call.want)
  BY <1>1, <1>2 DEF ReadInv
<1>7. /\ call.at \in 0..MaxLen /\ call.want \in 0..MaxLen /\ f.len \in 0..MaxLen /\ l \in Nat
      /\ call.left = 0
  <2>1. call.left = 0
    BY <1>5 DEF ReadEnd
  <2>2. call.at \in 0..MaxLen /\ call.want \in 0..MaxLen /\ call.buf \in Seq(Bytes)
    BY <1>2 DEF TypeInv, CallType, Call
  <2>3. l \in Nat
    BY <2>2, LenProperties
  <2>4. f.len \in 0..MaxLen
    BY <1>2, <1>6 DEF TypeInv, ListType, Handle
  <2>. QED
    BY <2>1, <2>2, <2>3, <2>4
<1>8. Len(d) <= MaxLen /\ Len(d) \in Nat
  BY <1>2, <1>6 DEF TypeInv, DataType, Contents
<1>. HIDE DEF l, d, f
<1>9. ~(AskedFor(call.at, f.len, call.want) > MaxLen)
  BY <1>6, <1>7, <1>8
<1>10. l = Lower(call.want, f.len - call.at)
  BY <1>6, <1>7, <1>9, AskedFacts
<1>. QED
  BY <1>6, <1>10 DEF f, d, l

\* A read that succeeds has returned the bytes at the position it started at,
\* as many as were asked for or up to the length the handle knows.
THEOREM ReadsAreCorrect == Spec => ReadCorrect
<1>1. Inv /\ [Next]_vars => [ReadStep]_vars
  BY StepReads
<1>. QED
  BY <1>1, Invariance, PTL DEF Spec, ReadCorrect, ReadStep
=============================================================================
