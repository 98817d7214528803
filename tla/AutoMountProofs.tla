-------------------------- MODULE AutoMountProofs --------------------------
(***************************************************************************)
(* Safety of the list generator's automount for any number of ports,       *)
(* names, polls and drives: descriptors and mounted volumes agree, volumes  *)
(* stay on their own drive, a drive is mounted only once it has settled,    *)
(* and a drive that every poll has seen is not missed.                       *)
(***************************************************************************)
EXTENDS AutoMount, TLAPS, WellFoundedInduction

-----------------------------------------------------------------------------
(* The inductive invariant *)

Polling == {"poll", "mount", "partition", "test", "list"}

Calling == {"mount", "partition"}

\* Types, part by part, and the locals outside of ntfsMountDevice.
EnvType ==
  /\ drive \in Drives
  /\ inserted \in [Port -> BOOLEAN] /\ plugs \in [Port -> 0..MaxPlugs]
  /\ \A p \in Port : inserted[p] => plugs[p] >= 1
  /\ steady \subseteq Port /\ \A p \in steady : inserted[p]

MainType ==
  /\ pc \in Polling \union {"unmount", "finished", "endless"}
  /\ i \in Port /\ nTry \in 0..MaxTry
  /\ pc \in Polling => nTry < MaxTry
  /\ cur_device \in (0..(Tested - 1)) \union {None}

CountType ==
  /\ ports_cnt \subseteq Port
  /\ automountCount \in [Port -> 0..(Delay - 1)] /\ seen \in [Port -> 0..Delay]

TableType ==
  /\ mounts \in [Port -> Seq(Volume)] /\ devoptab \subseteq Volume
  /\ dev_fd \in [Port -> 0..MaxPlugs]

CallType ==
  /\ j \in Nat \ {0} /\ k \in 0..(MaxMounts - 1) /\ new \in Seq(Volume)
  /\ pc # "partition" => new = <<>> /\ j = 1 /\ k = 0

HistType == failed \subseteq Port \X Nat /\ leaked \in BOOLEAN /\ pulled \subseteq Port

TypeInv == EnvType /\ MainType /\ CountType /\ TableType /\ CallType /\ HistType

\* The descriptor of port p, or the call in progress, names volume v.
Named(v) == (\E p \in Port : v \in Range(mounts[p])) \/ (InCall /\ v \in Range(new))

\* EveryMountKnown volume by volume. A descriptor names volumes of its own
\* port, and a port is mounted only when nothing of it is.
KnownInv ==
  /\ ~leaked => \A v : v \in devoptab <=> Named(v)
  /\ \A p \in Port : \A v \in Range(mounts[p]) : v.port = p
  /\ \A v \in Range(new) : v.port = i
  /\ pc \in Calling => mounts[i] = <<>>

\* The call mounts volumes of the drive that is there, unless it was pulled.
DriveInv ==
  /\ OwnDrive
  /\ pc = "partition" /\ i \notin pulled =>
       inserted[i] /\ dev_fd[i] \in {0, plugs[i]} /\ \A v \in Range(new) : v.plug = plugs[i]

\* The delay counter and the polls that found the drive add up.
CountInv ==
  /\ \A p \in Port : p \notin ports_cnt =>
       seen[p] = 0 /\ automountCount[p] = 0 /\ mounts[p] = <<>>
  /\ \A p \in ports_cnt : seen[p] >= 1 /\ seen[p] + automountCount[p] = Delay
  /\ \A p \in Port : mounts[p] # <<>> => seen[p] = Delay
  /\ pc \in Calling => seen[i] = Delay

\* This round has polled the port.
Polled(p) ==
  \/ pc = "poll" /\ p < i
  \/ pc \in Calling /\ p <= i
  \/ pc \in {"test", "list"}

\* A drive that was there, and seen, all the time was seen once in every round.
RoundInv ==
  pc \in Polling =>
    \A p \in steady : seen[p] = Delay \/ seen[p] >= nTry + (IF Polled(p) THEN 1 ELSE 0)

\* A volume that is looked for.
Good(v) == v.kind = "ntfs" /\ v.n < Tested

Hit == \E v \in devoptab : Good(v)

AllNtfs(p, q) == \A m \in 1..q : drive[p][m] = "ntfs"

\* The drive has no volume that should have been found.
Settled(p) ==
  \A q \in 1..Len(drive[p]) :
    q <= Tested /\ AllNtfs(p, q) => {<<p, 0>>, <<p, q>>} \intersect failed # {}

\* A volume that is looked for was mounted in this round, so that no poll of
\* this round unmounts it.
HitInv ==
  /\ pc = "poll" => \A v \in devoptab : Good(v) => v.port < i
  /\ pc \in Calling => \A v \in devoptab : Good(v) => v.port <= i

\* A drive whose delay is over had its turn.
TurnInv ==
  pc \in {"poll", "mount", "partition", "test"} =>
    \A p \in steady : seen[p] = Delay /\ ~(pc \in Calling /\ i = p) => Settled(p) \/ Hit

\* So had the partitions in front of the one that is mounted, under names
\* that count from 0.
CallInv ==
  pc = "partition" =>
    /\ \A q \in 1..(j - 1) :
         i \in steady /\ q <= Tested /\ q <= Len(drive[i]) /\ AllNtfs(i, q) =>
           <<i, q>> \in failed \/ Hit
    /\ ~Hit /\ j - 1 <= Tested /\ AllNtfs(i, j - 1) => k = j - 1

EndInv ==
  /\ pc = "list" => cur_device # None
  /\ pc \in {"unmount", "finished"} /\ cur_device = None => \A p \in steady : Settled(p)

FoundInv == ~leaked => HitInv /\ TurnInv /\ CallInv /\ EndInv

Inv == TypeInv /\ KnownInv /\ DriveInv /\ CountInv /\ RoundInv /\ FoundInv

-----------------------------------------------------------------------------
(* Sequences and names *)

\* What Range returns for the sequences ntfsMountDevice builds.
LEMMA RangeEmpty == Range(<<>>) = {}
  BY DEF Range

LEMMA RangeType == ASSUME NEW S, NEW s \in Seq(S) PROVE Range(s) \subseteq S
  BY DEF Range

LEMMA RangeAppend ==
  ASSUME NEW S, NEW s \in Seq(S), NEW v \in S
  PROVE  Range(Append(s, v)) = Range(s) \union {v}
<1>1. Len(Append(s, v)) = Len(s) + 1 /\ Len(s) \in Nat
  OBVIOUS
<1>2. \A n \in 1..Len(s) : Append(s, v)[n] = s[n]
  OBVIOUS
<1>3. Append(s, v)[Len(s) + 1] = v
  OBVIOUS
<1>4. \A x \in Range(Append(s, v)) : x \in Range(s) \union {v}
  BY <1>1, <1>2, <1>3 DEF Range
<1>5. \A x \in Range(s) : x \in Range(Append(s, v))
  BY <1>1, <1>2 DEF Range
<1>6. v \in Range(Append(s, v))
  BY <1>1, <1>3 DEF Range
<1>. QED
  BY <1>4, <1>5, <1>6

\* A nonempty set of naturals has a least element.
LEMMA LeastNatural ==
  ASSUME NEW S \in SUBSET Nat, S # {}
  PROVE  \E n \in S : \A m \in S : n <= m
<1>. DEFINE R == {ss \in Nat \X Nat : ss[1] < ss[2]}
<1>1. IsWellFoundedOn(R, Nat)
  BY NatLessThanWellFounded DEF OpToRel
<1>2. PICK n \in S : \A m \in S : ~(<<m, n>> \in R)
  <2>. HIDE DEF R
  <2>. QED  BY <1>1, WFMin
<1>3. ASSUME NEW m \in S, ~(n <= m) PROVE FALSE
  <2>1. n \in Nat /\ m \in Nat
    OBVIOUS
  <2>2. <<m, n>> \in R
    BY <1>3, <2>1
  <2>. QED
    BY <1>2, <2>2
<1>. QED
  BY <1>3

\* NextName exists, is the first name from k on that is not taken, or says
\* that there is none.
LEMMA NextNameFacts ==
  ASSUME k \in 0..(MaxMounts - 1), NEW kind
  PROVE  /\ NextName(kind) \in k..(MaxMounts - 1)
         /\ NextName(kind) = NoName \/ ~NameTaken(kind, NextName(kind))
         /\ \A m \in k..(NextName(kind) - 1) : NameTaken(kind, m)
<1>. DEFINE T == {n \in k..(MaxMounts - 1) : n = MaxMounts - 1 \/ ~NameTaken(kind, n)}
<1>1. T \in SUBSET Nat /\ T # {}
  <2>1. MaxMounts - 1 \in T /\ T \subseteq Nat
    BY AutoMountAssumption
  <2>. QED  BY <2>1
<1>2. PICK n \in T : \A m \in T : n <= m
  <2>. HIDE DEF T
  <2>. QED  BY <1>1, LeastNatural
<1>3. \A m \in k..(n - 1) : NameTaken(kind, m)
  <2>. TAKE m \in k..(n - 1)
  <2>1. m \in k..(MaxMounts - 1) /\ m < n
    BY <1>2, AutoMountAssumption
  <2>. QED
    BY <1>2, <2>1
<1>4. /\ n \in k..(MaxMounts - 1)
      /\ n = MaxMounts - 1 \/ ~NameTaken(kind, n)
      /\ \A m \in k..(n - 1) : NameTaken(kind, m)
  BY <1>2, <1>3
<1>. QED
  BY <1>4 DEF NextName, NoName

-----------------------------------------------------------------------------
(* The outcomes of a poll, and of a partition *)

\* A poll of port i: whether it has a drive, and the two counters.
PollTo(ports, count, s) ==
  /\ pc = "poll"
  /\ ports_cnt' = ports
  /\ automountCount' = [automountCount EXCEPT ![i] = count]
  /\ seen' = [seen EXCEPT ![i] = s]
  /\ UNCHANGED <<drive, inserted, plugs, nTry, call, cur_device, failed, leaked>>

PollMounts ==
  /\ inserted[i] /\ seen[i] < Delay
  /\ PollTo(ports_cnt \union {i}, 0, Delay) /\ steady' = steady
  /\ Unmount(i) /\ i' = i /\ pc' = "mount"

PollUnmounts ==
  /\ i \in ports_cnt
  /\ PollTo(ports_cnt \ {i}, 0, 0) /\ steady' = steady \ {i}
  /\ Unmount(i) /\ Advance

PollAbsent ==
  /\ i \notin ports_cnt
  /\ PollTo(ports_cnt \ {i}, 0, 0) /\ steady' = steady \ {i}
  /\ UNCHANGED dev_fd \/ Shutdown(i)
  /\ UNCHANGED <<mounts, devoptab, pulled>> /\ Advance

PollWaits ==
  /\ inserted[i] /\ seen[i] + 1 < Delay
  /\ PollTo(ports_cnt \union {i}, Delay - (seen[i] + 1), seen[i] + 1) /\ steady' = steady
  /\ UNCHANGED <<mounts, devoptab, pulled, dev_fd>> /\ Advance

PollSettled ==
  /\ inserted[i] /\ i \in ports_cnt /\ seen[i] = Delay
  /\ PollTo(ports_cnt \union {i}, 0, Delay) /\ steady' = steady
  /\ UNCHANGED <<mounts, devoptab, pulled, dev_fd>> /\ Advance

\* The poll mounts exactly when the last Delay polls have all seen the drive.
LEMMA PollCases ==
  ASSUME TypeInv, CountInv, Poll
  PROVE  PollMounts \/ PollUnmounts \/ PollAbsent \/ PollWaits \/ PollSettled
<1>. USE AutoMountAssumption
<1>0. PICK now \in {inserted[i], FALSE} :
        LET was   == i \in ports_cnt
            ticks == Ticks(now, was, automountCount[i])
            rr    == Event(now, was, ticks)
        IN  /\ ports_cnt' = IF now THEN ports_cnt \union {i} ELSE ports_cnt \ {i}
            /\ automountCount' = [automountCount EXCEPT ![i] = CountLeft(now, was, ticks)]
            /\ seen' = [seen EXCEPT ![i] = IF ~now THEN 0 ELSE IF @ < Delay THEN @ + 1 ELSE Delay]
            /\ steady' = IF now THEN steady ELSE steady \ {i}
            /\ \/ rr = "mount" /\ Unmount(i) /\ i' = i /\ pc' = "mount"
               \/ rr = "unmount" /\ Unmount(i) /\ Advance
               \/ /\ rr = "nothing" /\ Advance
                  /\ UNCHANGED dev_fd \/ (~inserted[i] /\ Shutdown(i))
                  /\ UNCHANGED <<mounts, devoptab, pulled>>
  BY DEF Poll
<1>. DEFINE was   == i \in ports_cnt
            ticks == Ticks(now, was, automountCount[i])
            rr    == Event(now, was, ticks)
            s     == IF ~now THEN 0 ELSE IF seen[i] < Delay THEN seen[i] + 1 ELSE Delay
<1>1. /\ i \in Port /\ now \in BOOLEAN /\ (now => inserted[i]) /\ seen[i] \in 0..Delay
      /\ automountCount[i] \in 0..(Delay - 1)
      /\ ~was => seen[i] = 0 /\ automountCount[i] = 0
      /\ was => seen[i] >= 1 /\ seen[i] + automountCount[i] = Delay
      /\ automountCount \in [Port -> 0..(Delay - 1)] /\ seen \in [Port -> 0..Delay]
  BY <1>0 DEF TypeInv, EnvType, MainType, CountType, CountInv
<1>2. /\ pc = "poll"
      /\ ports_cnt' = IF now THEN ports_cnt \union {i} ELSE ports_cnt \ {i}
      /\ automountCount' = [automountCount EXCEPT ![i] = CountLeft(now, was, ticks)]
      /\ seen' = [seen EXCEPT ![i] = s]
      /\ steady' = IF now THEN steady ELSE steady \ {i}
      /\ UNCHANGED <<drive, inserted, plugs, nTry, call, cur_device, failed, leaked>>
      /\ \/ rr = "mount" /\ Unmount(i) /\ i' = i /\ pc' = "mount"
         \/ rr = "unmount" /\ Unmount(i) /\ Advance
         \/ /\ rr = "nothing" /\ Advance
            /\ UNCHANGED dev_fd \/ (~inserted[i] /\ Shutdown(i))
            /\ UNCHANGED <<mounts, devoptab, pulled>>
  BY <1>0, <1>1 DEF Poll
<1>3. CASE ~now /\ was
  <2>1. rr = "unmount" /\ CountLeft(now, was, ticks) = 0 /\ s = 0
    BY <1>3 DEF Event, CountLeft
  <2>. QED
    BY <1>2, <2>1, <1>3 DEF PollUnmounts, PollTo
<1>4. CASE ~now /\ ~was
  <2>1. rr = "nothing" /\ CountLeft(now, was, ticks) = 0 /\ s = 0
    BY <1>1, <1>4 DEF Event, CountLeft, Ticks
  <2>. QED
    BY <1>2, <2>1, <1>4 DEF PollAbsent, PollTo
<1>5. CASE now /\ seen[i] = Delay
  <2>1. rr = "nothing" /\ CountLeft(now, was, ticks) = 0 /\ s = Delay /\ was
    BY <1>1, <1>5 DEF Event, CountLeft, Ticks
  <2>. QED
    BY <1>2, <2>1, <1>5 DEF PollSettled, PollTo
<1>6. CASE now /\ seen[i] + 1 = Delay
  <2>1. rr = "mount" /\ CountLeft(now, was, ticks) = 0 /\ s = Delay
    BY <1>1, <1>6 DEF Event, CountLeft, Ticks
  <2>2. inserted[i] /\ seen[i] < Delay /\ ports_cnt' = ports_cnt \union {i}
    BY <1>1, <1>2, <1>6
  <2>3. Unmount(i) /\ i' = i /\ pc' = "mount"
    BY <1>2, <2>1
  <2>. QED
    BY <1>2, <2>1, <2>2, <2>3 DEF PollMounts, PollTo
<1>7. CASE now /\ seen[i] + 1 < Delay
  <2>1. rr = "nothing" /\ s = seen[i] + 1 /\ CountLeft(now, was, ticks) = Delay - (seen[i] + 1)
    BY <1>1, <1>7 DEF Event, CountLeft, Ticks
  <2>. QED
    BY <1>2, <2>1, <1>1, <1>7 DEF PollWaits, PollTo
<1>. QED
  BY <1>1, <1>3, <1>4, <1>5, <1>6, <1>7

\* Volume v, of the partition that is next, is mounted; or it is not.
MountsVolume(v) ==
  /\ pc = "partition" /\ j <= Len(drive[i]) /\ Reads(i)
  /\ v = [kind |-> drive[i][j], n |-> NextName(drive[i][j]), port |-> i, plug |-> plugs[i]]
  /\ v \in Volume /\ ~NameTaken(v.kind, v.n)
  /\ dev_fd' = [dev_fd EXCEPT ![i] = Startup(i)]
  /\ devoptab' = devoptab \union {v} /\ new' = Append(new, v) /\ failed' = failed
  /\ k' = v.n + 1 /\ j' = j + 1
  /\ UNCHANGED <<env, pc, i, nTry, ports_cnt, automountCount, mounts, cur_device, seen, leaked,
                 pulled>>

MountFails(n) ==
  /\ pc = "partition" /\ j <= Len(drive[i])
  /\ n = NextName(drive[i][j]) /\ n \in 0..(MaxMounts - 2)
  /\ MayClose(i) /\ Fails(j) /\ UNCHANGED <<devoptab, new>>
  /\ k' = n + 1 /\ j' = j + 1
  /\ UNCHANGED <<env, pc, i, nTry, ports_cnt, automountCount, mounts, cur_device, seen, leaked,
                 pulled>>

\* The drives, seen from the code.
LEMMA DriveType ==
  ASSUME TypeInv, NEW p \in Port
  PROVE  /\ drive[p] \in Seq({"ntfs", "ext"}) /\ Len(drive[p]) \in Nat
         /\ \A q \in 1..Len(drive[p]) : drive[p][q] \in {"ntfs", "ext"}
<1>1. drive[p] \in Seq({"ntfs", "ext"})
  BY AutoMountAssumption DEF TypeInv, EnvType, Port
<1>. QED
  BY <1>1

LEMMA PartitionCases ==
  ASSUME TypeInv, MountPartition
  PROVE  (\E v : MountsVolume(v)) \/ (\E n : MountFails(n))
<1>. DEFINE kind == drive[i][j]
            n    == NextName(kind)
            v    == [kind |-> kind, n |-> n, port |-> i, plug |-> plugs[i]]
<1>1. /\ i \in Port /\ j \in Nat \ {0} /\ k \in 0..(MaxMounts - 1) /\ MaxMounts \in Nat
      /\ plugs[i] \in 0..MaxPlugs /\ (inserted[i] => plugs[i] >= 1)
  BY AutoMountAssumption DEF TypeInv, EnvType, MainType, CallType
<1>2. pc = "partition" /\ j <= Len(drive[i]) /\ n # NoName /\ k' = n + 1 /\ j' = j + 1
  BY DEF MountPartition
<1>3. kind \in {"ntfs", "ext"}
  BY <1>1, <1>2, DriveType
<1>4. n \in 0..(MaxMounts - 2) /\ ~NameTaken(kind, n)
  <2>. HIDE DEF n, kind
  <2>1. n \in k..(MaxMounts - 1) /\ (n = NoName \/ ~NameTaken(kind, n))
    BY <1>1, NextNameFacts DEF n
  <2>. QED
    BY <2>1, <1>1, <1>2 DEF NoName
<1>5. \/ /\ Reads(i)
         /\ dev_fd' = [dev_fd EXCEPT ![i] = Startup(i)]
         /\ devoptab' = devoptab \union {v} /\ new' = Append(new, v) /\ UNCHANGED failed
      \/ MayClose(i) /\ Fails(j) /\ UNCHANGED <<devoptab, new>>
  BY DEF MountPartition
<1>6. UNCHANGED <<env, pc, i, nTry, ports_cnt, automountCount, mounts, cur_device, seen, leaked,
                  pulled>>
  BY DEF MountPartition
<1>7. CASE Reads(i) /\ dev_fd' = [dev_fd EXCEPT ![i] = Startup(i)]
           /\ devoptab' = devoptab \union {v} /\ new' = Append(new, v) /\ UNCHANGED failed
  <2>1. plugs[i] \in 1..MaxPlugs
    BY <1>1, <1>7, AutoMountAssumption DEF Reads
  <2>2. v \in Volume
    <3>. HIDE DEF n, kind
    <3>. QED  BY <2>1, <1>1, <1>3, <1>4 DEF Volume
  <2>3. v.kind = kind /\ v.n = n
    OBVIOUS
  <2>4. MountsVolume(v)
    <3>. HIDE DEF v
    <3>1. v = [kind |-> drive[i][j], n |-> NextName(drive[i][j]), port |-> i, plug |-> plugs[i]]
      BY DEF v
    <3>2. ~NameTaken(v.kind, v.n) /\ k' = v.n + 1
      BY <2>3, <1>4, <1>2
    <3>. QED
      BY <1>2, <1>6, <1>7, <2>2, <3>1, <3>2 DEF MountsVolume
  <2>. QED
    BY <2>4
<1>8. CASE MayClose(i) /\ Fails(j) /\ UNCHANGED <<devoptab, new>>
  BY <1>2, <1>4, <1>6, <1>8 DEF MountFails
<1>. QED
  BY <1>5, <1>7, <1>8

\* Every step is one of these.
LEMMA StepCases ==
  ASSUME TypeInv, CountInv, [Next]_vars
  PROVE  \/ UNCHANGED vars
         \/ \E p \in Port : Plug(p) \/ Unplug(p)
         \/ PollMounts \/ PollUnmounts \/ PollAbsent \/ PollWaits \/ PollSettled
         \/ FindPartitions \/ FindNoPartitions \/ SearchEndless
         \/ (\E v : MountsVolume(v)) \/ (\E n : MountFails(n))
         \/ NamesExhausted \/ MountDone \/ MountNoMemory
         \/ TestFound \/ TestNone \/ GenerateLists \/ UnmountNext
  BY PollCases, PartitionCases DEF Next, Main

-----------------------------------------------------------------------------
(* Types *)

\* Advance, GenerateLists and the accesses of a port, as far as types go.
LEMMA AdvanceType ==
  ASSUME i \in Port, Advance
  PROVE  i' \in Port /\ pc' \in {"poll", "test"}
  BY AutoMountAssumption DEF Advance, Port

LEMMA FoundLeast ==
  ASSUME Found # {}
  PROVE  (CHOOSE n \in Found : \A m \in Found : n <= m) \in Found
<1>1. Found \in SUBSET Nat
  BY AutoMountAssumption DEF Found
<1>2. \E n \in Found : \A m \in Found : n <= m
  <2>. QED  BY <1>1, LeastNatural
<1>. QED
  BY <1>2

LEMMA TypeStart == ASSUME Init PROVE TypeInv
<1>. USE AutoMountAssumption
<1>1. EnvType
  <2>1. /\ drive \in Drives /\ inserted \in [Port -> BOOLEAN]
        /\ plugs = [p \in Port |-> IF inserted[p] THEN 1 ELSE 0]
        /\ steady = {p \in Port : inserted[p]}
    BY DEF Init
  <2>2. \A p \in Port : plugs[p] \in 0..MaxPlugs /\ (inserted[p] => plugs[p] >= 1)
    BY <2>1
  <2>. QED
    BY <2>1, <2>2 DEF EnvType
<1>5. HistType
  BY DEF Init, HistType
<1>2. MainType
  BY DEF Init, MainType, Polling, Port, None
<1>3. CountType /\ CallType
  BY DEF Init, CountType, CallType
<1>4. TableType
  BY DEF Init, TableType
<1>. QED
  BY <1>1, <1>2, <1>3, <1>4, <1>5 DEF TypeInv

\* Every step keeps the types.
LEMMA TypeStep ==
  ASSUME TypeInv, CountInv, [Next]_vars
  PROVE  TypeInv'
<1>. USE AutoMountAssumption
<1>0. /\ EnvType /\ MainType /\ CountType /\ TableType /\ CallType /\ HistType
      /\ i \in Port /\ plugs \in [Port -> 0..MaxPlugs]
  BY DEF TypeInv, EnvType, MainType
<1>1. CASE UNCHANGED vars
  <2>1. EnvType' /\ MainType' /\ CountType' /\ TableType' /\ CallType' /\ HistType'
    BY <1>0, <1>1 DEF EnvType, MainType, CountType, TableType, CallType, HistType, vars, env, call
  <2>. QED
    BY <2>1 DEF TypeInv
<1>2. ASSUME NEW p \in Port, Plug(p) PROVE TypeInv'
  <2>1. MainType' /\ CountType' /\ TableType' /\ CallType' /\ HistType'
    BY <1>0, <1>2 DEF MainType, CountType, TableType, CallType, HistType, Plug, call
  <2>2. EnvType'
    BY <1>0, <1>2 DEF EnvType, Plug
  <2>. QED
    BY <2>1, <2>2 DEF TypeInv
<1>3. ASSUME NEW p \in Port, Unplug(p) PROVE TypeInv'
  <2>1. MainType' /\ CountType' /\ TableType' /\ CallType'
    BY <1>0, <1>3 DEF MainType, CountType, TableType, CallType, Unplug, call
  <2>2. EnvType'
    BY <1>0, <1>3 DEF EnvType, Unplug
  <2>3. HistType'
    BY <1>0, <1>3 DEF HistType, Unplug
  <2>. QED
    BY <2>1, <2>2, <2>3 DEF TypeInv
<1>4. CASE PollMounts
  <2>1. EnvType'
    BY <1>0, <1>4 DEF EnvType, PollMounts, PollTo, env, call
  <2>2. MainType'
    BY <1>0, <1>4 DEF MainType, Polling, PollMounts, PollTo
  <2>3. CountType'
    BY <1>0, <1>4 DEF CountType, PollMounts, PollTo
  <2>4. TableType'
    BY <1>0, <1>4 DEF TableType, PollMounts, Unmount, Shutdown
  <2>5. CallType'
    BY <1>0, <1>4 DEF CallType, PollMounts, PollTo, call
  <2>6. HistType'
    BY <1>0, <1>4 DEF HistType, PollMounts, PollTo, Unmount
  <2>. QED
    BY <2>1, <2>2, <2>3, <2>4, <2>5, <2>6 DEF TypeInv
<1>5. CASE PollUnmounts
  <2>1. EnvType'
    BY <1>0, <1>5 DEF EnvType, PollUnmounts, PollTo, env, call
  <2>2. MainType'
    BY <1>0, <1>5, AdvanceType DEF MainType, Polling, PollUnmounts, PollTo
  <2>3. CountType'
    BY <1>0, <1>5 DEF CountType, PollUnmounts, PollTo
  <2>4. TableType'
    BY <1>0, <1>5 DEF TableType, PollUnmounts, Unmount, Shutdown
  <2>5. CallType'
    BY <1>0, <1>5, AdvanceType DEF CallType, PollUnmounts, PollTo, call
  <2>6. HistType'
    BY <1>0, <1>5 DEF HistType, PollUnmounts, PollTo, Unmount
  <2>. QED
    BY <2>1, <2>2, <2>3, <2>4, <2>5, <2>6 DEF TypeInv
<1>6. CASE PollAbsent
  <2>1. EnvType' /\ HistType'
    BY <1>0, <1>6 DEF EnvType, HistType, PollAbsent, PollTo, env, call
  <2>2. MainType'
    BY <1>0, <1>6, AdvanceType DEF MainType, Polling, PollAbsent, PollTo
  <2>3. CountType'
    BY <1>0, <1>6 DEF CountType, PollAbsent, PollTo
  <2>4. TableType'
    <3>1. dev_fd' = dev_fd \/ dev_fd' = [dev_fd EXCEPT ![i] = 0]
      BY <1>6 DEF PollAbsent, Shutdown
    <3>2. dev_fd' \in [Port -> 0..MaxPlugs]
      <4>1. [dev_fd EXCEPT ![i] = 0] \in [Port -> 0..MaxPlugs] /\ dev_fd \in [Port -> 0..MaxPlugs]
        BY <1>0 DEF TableType
      <4>. QED  BY <3>1, <4>1
    <3>. QED
      BY <1>0, <1>6, <3>2 DEF TableType, PollAbsent
  <2>5. CallType'
    BY <1>0, <1>6, AdvanceType DEF CallType, PollAbsent, PollTo, call
  <2>. QED
    BY <2>1, <2>2, <2>3, <2>4, <2>5 DEF TypeInv
<1>7. CASE PollWaits
  <2>1. EnvType' /\ TableType' /\ HistType'
    BY <1>0, <1>7 DEF EnvType, TableType, HistType, PollWaits, PollTo, env, call
  <2>2. MainType'
    BY <1>0, <1>7, AdvanceType DEF MainType, Polling, PollWaits, PollTo
  <2>3. CountType'
    BY <1>0, <1>7 DEF CountType, PollWaits, PollTo
  <2>4. CallType'
    BY <1>0, <1>7, AdvanceType DEF CallType, PollWaits, PollTo, call
  <2>. QED
    BY <2>1, <2>2, <2>3, <2>4 DEF TypeInv
<1>8. CASE PollSettled
  <2>1. EnvType' /\ TableType' /\ HistType'
    BY <1>0, <1>8 DEF EnvType, TableType, HistType, PollSettled, PollTo, env, call
  <2>2. MainType'
    BY <1>0, <1>8, AdvanceType DEF MainType, Polling, PollSettled, PollTo
  <2>3. CountType'
    BY <1>0, <1>8 DEF CountType, PollSettled, PollTo
  <2>4. CallType'
    BY <1>0, <1>8, AdvanceType DEF CallType, PollSettled, PollTo, call
  <2>. QED
    BY <2>1, <2>2, <2>3, <2>4 DEF TypeInv
<1>9. CASE FindPartitions
  <2>1. EnvType' /\ CountType' /\ HistType'
    BY <1>0, <1>9 DEF EnvType, CountType, HistType, FindPartitions, env, call
  <2>2. MainType'
    BY <1>0, <1>9 DEF MainType, Polling, FindPartitions
  <2>3. TableType'
    BY <1>0, <1>9 DEF TableType, FindPartitions, Startup
  <2>4. CallType'
    BY <1>0, <1>9 DEF CallType, FindPartitions, call
  <2>. QED
    BY <2>1, <2>2, <2>3, <2>4 DEF TypeInv
<1>10. CASE FindNoPartitions
  <2>1. EnvType' /\ CountType'
    BY <1>0, <1>10 DEF EnvType, CountType, FindNoPartitions, env, call
  <2>2. MainType'
    BY <1>0, <1>10, AdvanceType DEF MainType, Polling, FindNoPartitions
  <2>3. TableType'
    BY <1>0, <1>10 DEF TableType, FindNoPartitions, MayClose, Startup
  <2>4. CallType'
    BY <1>0, <1>10, AdvanceType DEF CallType, FindNoPartitions, call
  <2>5. HistType'
    BY <1>0, <1>10 DEF HistType, FindNoPartitions, Fails
  <2>. QED
    BY <2>1, <2>2, <2>3, <2>4, <2>5 DEF TypeInv
<1>11. ASSUME NEW v, MountsVolume(v) PROVE TypeInv'
  <2>0. v \in Volume /\ v.n \in 0..(MaxMounts - 2)
    BY <1>11 DEF MountsVolume, Volume
  <2>1. EnvType' /\ MainType' /\ CountType' /\ HistType'
    BY <1>0, <1>11 DEF EnvType, MainType, CountType, HistType, MountsVolume, env
  <2>2. TableType'
    BY <1>0, <1>11 DEF TableType, MountsVolume, Startup
  <2>3. CallType'
    BY <1>0, <1>11, <2>0 DEF CallType, MountsVolume
  <2>. QED
    BY <2>1, <2>2, <2>3 DEF TypeInv
<1>12. ASSUME NEW n, MountFails(n) PROVE TypeInv'
  <2>1. EnvType' /\ MainType' /\ CountType'
    BY <1>0, <1>12 DEF EnvType, MainType, CountType, MountFails, env
  <2>2. TableType'
    BY <1>0, <1>12 DEF TableType, MountFails, MayClose, Startup
  <2>3. CallType'
    BY <1>0, <1>12 DEF CallType, MountFails
  <2>4. HistType'
    BY <1>0, <1>12 DEF HistType, CallType, MountFails, Fails
  <2>. QED
    BY <2>1, <2>2, <2>3, <2>4 DEF TypeInv
<1>13. CASE NamesExhausted
  <2>1. EnvType' /\ CountType' /\ TableType'
    BY <1>0, <1>13 DEF EnvType, CountType, TableType, NamesExhausted, env
  <2>2. MainType'
    BY <1>0, <1>13, AdvanceType DEF MainType, Polling, NamesExhausted
  <2>3. CallType'
    BY <1>0, <1>13, AdvanceType DEF CallType, NamesExhausted, Forget
  <2>4. HistType'
    BY <1>0, <1>13 DEF HistType, NamesExhausted
  <2>. QED
    BY <2>1, <2>2, <2>3, <2>4 DEF TypeInv
<1>14. CASE MountDone
  <2>1. EnvType' /\ CountType' /\ HistType'
    BY <1>0, <1>14 DEF EnvType, CountType, HistType, MountDone, env
  <2>2. MainType'
    BY <1>0, <1>14, AdvanceType DEF MainType, Polling, MountDone
  <2>3. TableType'
    BY <1>0, <1>14 DEF TableType, CallType, MountDone
  <2>4. CallType'
    BY <1>0, <1>14, AdvanceType DEF CallType, MountDone, Forget
  <2>. QED
    BY <2>1, <2>2, <2>3, <2>4 DEF TypeInv
<1>15. CASE MountNoMemory
  <2>1. EnvType' /\ CountType' /\ TableType'
    BY <1>0, <1>15 DEF EnvType, CountType, TableType, MountNoMemory, env
  <2>2. MainType'
    BY <1>0, <1>15, AdvanceType DEF MainType, Polling, MountNoMemory
  <2>3. CallType'
    BY <1>0, <1>15, AdvanceType DEF CallType, MountNoMemory, Forget
  <2>4. HistType'
    BY <1>0, <1>15 DEF HistType, MountNoMemory
  <2>. QED
    BY <2>1, <2>2, <2>3, <2>4 DEF TypeInv
<1>16. CASE TestFound
  <2>0. cur_device' \in 0..(Tested - 1)
    BY <1>16, FoundLeast DEF TestFound, Found
  <2>1. EnvType' /\ CountType' /\ TableType' /\ HistType'
    BY <1>0, <1>16 DEF EnvType, CountType, TableType, HistType, TestFound, env, call
  <2>2. MainType'
    BY <1>0, <1>16, <2>0 DEF MainType, Polling, TestFound
  <2>3. CallType'
    BY <1>0, <1>16 DEF CallType, TestFound, call
  <2>. QED
    BY <2>1, <2>2, <2>3 DEF TypeInv
<1>17. CASE TestNone
  <2>1. EnvType' /\ CountType' /\ TableType' /\ HistType'
    BY <1>0, <1>17 DEF EnvType, CountType, TableType, HistType, TestNone, env, call
  <2>2. MainType'
    BY <1>0, <1>17 DEF MainType, Polling, Port, TestNone
  <2>3. CallType'
    BY <1>0, <1>17 DEF CallType, TestNone, call
  <2>. QED
    BY <2>1, <2>2, <2>3 DEF TypeInv
<1>18. CASE GenerateLists
  <2>0. dev_fd' = dev_fd \/ \E p : dev_fd' = [dev_fd EXCEPT ![p] = 0]
    BY <1>18 DEF GenerateLists, Shutdown
  <2>1. EnvType' /\ CountType' /\ HistType'
    BY <1>0, <1>18 DEF EnvType, CountType, HistType, GenerateLists, env, call
  <2>2. MainType'
    BY <1>0, <1>18 DEF MainType, Polling, Port, GenerateLists
  <2>3. TableType'
    <3>1. dev_fd' \in [Port -> 0..MaxPlugs]
      <4>1. dev_fd \in [Port -> 0..MaxPlugs] /\ 0 \in 0..MaxPlugs
        BY <1>0 DEF TableType
      <4>2. ASSUME NEW p PROVE [dev_fd EXCEPT ![p] = 0] \in [Port -> 0..MaxPlugs]
        BY <4>1, Zenon
      <4>. QED  BY <2>0, <4>1, <4>2
    <3>. QED
      BY <1>0, <1>18, <3>1 DEF TableType, GenerateLists
  <2>4. CallType'
    BY <1>0, <1>18 DEF CallType, GenerateLists, call
  <2>. QED
    BY <2>1, <2>2, <2>3, <2>4 DEF TypeInv
<1>19. CASE UnmountNext
  <2>1. EnvType' /\ CountType'
    BY <1>0, <1>19 DEF EnvType, CountType, UnmountNext, env, call
  <2>2. MainType'
    BY <1>0, <1>19 DEF MainType, Polling, Port, UnmountNext
  <2>3. TableType'
    BY <1>0, <1>19 DEF TableType, UnmountNext, Unmount, Shutdown
  <2>4. CallType'
    BY <1>0, <1>19 DEF CallType, UnmountNext, call
  <2>5. HistType'
    BY <1>0, <1>19 DEF HistType, UnmountNext, Unmount
  <2>. QED
    BY <2>1, <2>2, <2>3, <2>4, <2>5 DEF TypeInv
<1>20. CASE SearchEndless
  <2>1. EnvType' /\ CountType' /\ HistType'
    BY <1>0, <1>20 DEF EnvType, CountType, HistType, SearchEndless, env, call
  <2>2. MainType'
    BY <1>0, <1>20 DEF MainType, Polling, SearchEndless
  <2>3. TableType'
    BY <1>0, <1>20 DEF TableType, SearchEndless, MayClose, Startup
  <2>4. CallType'
    BY <1>0, <1>20 DEF CallType, SearchEndless, call
  <2>. QED
    BY <2>1, <2>2, <2>3, <2>4 DEF TypeInv
<1>. QED
  BY <1>1, <1>2, <1>3, <1>4, <1>5, <1>6, <1>7, <1>8, <1>9, <1>10, <1>11, <1>12,
     <1>13, <1>14, <1>15, <1>16, <1>17, <1>18, <1>19, <1>20, StepCases

-----------------------------------------------------------------------------
(* Descriptors and volumes *)

\* Every step keeps descriptors and volumes in agreement.
LEMMA KnownStep ==
  ASSUME TypeInv, CountInv, KnownInv, [Next]_vars
  PROVE  KnownInv'
<1>. USE RangeEmpty
<1>0. /\ i \in Port /\ mounts \in [Port -> Seq(Volume)] /\ new \in Seq(Volume)
      /\ pc # "partition" => new = <<>>
  BY DEF TypeInv, MainType, TableType, CallType
<1>1. CASE UNCHANGED vars
  BY <1>0, <1>1 DEF KnownInv, Named, InCall, Calling, vars, call
<1>2. ASSUME NEW p \in Port, Plug(p) PROVE KnownInv'
  BY <1>0, <1>2 DEF KnownInv, Named, InCall, Calling, Plug, call
<1>3. ASSUME NEW p \in Port, Unplug(p) PROVE KnownInv'
  BY <1>0, <1>3 DEF KnownInv, Named, InCall, Calling, Unplug, call
<1>4. CASE PollMounts
  BY <1>0, <1>4 DEF KnownInv, Named, InCall, Calling, PollMounts, PollTo, Unmount, call
<1>5. CASE PollUnmounts
  <2>1. pc' \in {"poll", "test"}
    BY <1>0, <1>5, AdvanceType DEF PollUnmounts
  <2>. QED
    BY <1>0, <1>5, <2>1 DEF KnownInv, Named, InCall, Calling, PollUnmounts, PollTo, Unmount, call
<1>6. CASE PollAbsent
  <2>1. pc' \in {"poll", "test"}
    BY <1>0, <1>6, AdvanceType DEF PollAbsent
  <2>. QED
    BY <1>0, <1>6, <2>1 DEF KnownInv, Named, InCall, Calling, PollAbsent, PollTo, call
<1>7. CASE PollWaits
  <2>1. pc' \in {"poll", "test"}
    BY <1>0, <1>7, AdvanceType DEF PollWaits
  <2>. QED
    BY <1>0, <1>7, <2>1 DEF KnownInv, Named, InCall, Calling, PollWaits, PollTo, call
<1>8. CASE PollSettled
  <2>1. pc' \in {"poll", "test"}
    BY <1>0, <1>8, AdvanceType DEF PollSettled
  <2>. QED
    BY <1>0, <1>8, <2>1 DEF KnownInv, Named, InCall, Calling, PollSettled, PollTo, call
<1>9. CASE FindPartitions
  BY <1>0, <1>9 DEF KnownInv, Named, InCall, Calling, FindPartitions, call
<1>10. CASE FindNoPartitions
  <2>1. pc' \in {"poll", "test"}
    BY <1>0, <1>10, AdvanceType DEF FindNoPartitions
  <2>. QED
    BY <1>0, <1>10, <2>1 DEF KnownInv, Named, InCall, Calling, FindNoPartitions, call
<1>11. ASSUME NEW v, MountsVolume(v) PROVE KnownInv'
  <2>1. Range(new') = Range(new) \union {v} /\ v.port = i
    BY <1>0, <1>11, RangeAppend DEF MountsVolume
  <2>. QED
    BY <1>0, <1>11, <2>1 DEF KnownInv, Named, InCall, Calling, MountsVolume
<1>12. ASSUME NEW n, MountFails(n) PROVE KnownInv'
  BY <1>0, <1>12 DEF KnownInv, Named, InCall, Calling, MountFails
<1>13. CASE NamesExhausted
  <2>1. pc' \in {"poll", "test"}
    BY <1>0, <1>13, AdvanceType DEF NamesExhausted
  <2>. QED
    BY <1>0, <1>13, <2>1 DEF KnownInv, Named, InCall, Calling, NamesExhausted, Forget
<1>14. CASE MountDone
  <2>1. pc' \in {"poll", "test"}
    BY <1>0, <1>14, AdvanceType DEF MountDone
  <2>. QED
    BY <1>0, <1>14, <2>1 DEF KnownInv, Named, InCall, Calling, MountDone, Forget
<1>15. CASE MountNoMemory
  <2>1. pc' \in {"poll", "test"}
    BY <1>0, <1>15, AdvanceType DEF MountNoMemory
  <2>. QED
    BY <1>0, <1>15, <2>1 DEF KnownInv, Named, InCall, Calling, MountNoMemory, Forget
<1>16. CASE TestFound
  BY <1>0, <1>16 DEF KnownInv, Named, InCall, Calling, TestFound, call
<1>17. CASE TestNone
  BY <1>0, <1>17 DEF KnownInv, Named, InCall, Calling, TestNone, call
<1>18. CASE GenerateLists
  BY <1>0, <1>18 DEF KnownInv, Named, InCall, Calling, GenerateLists, call
<1>19. CASE UnmountNext
  BY <1>0, <1>19 DEF KnownInv, Named, InCall, Calling, UnmountNext, Unmount, call
<1>20. CASE SearchEndless
  BY <1>0, <1>20 DEF KnownInv, Named, InCall, Calling, SearchEndless, call
<1>. QED
  BY <1>1, <1>2, <1>3, <1>4, <1>5, <1>6, <1>7, <1>8, <1>9, <1>10, <1>11, <1>12,
     <1>13, <1>14, <1>15, <1>16, <1>17, <1>18, <1>19, <1>20, StepCases

-----------------------------------------------------------------------------
(* Volumes and drives *)

\* Every step keeps the volumes on their own drives.
LEMMA DriveStep ==
  ASSUME TypeInv, CountInv, KnownInv, DriveInv, [Next]_vars
  PROVE  DriveInv'
<1>. USE RangeEmpty
<1>0. /\ i \in Port /\ new \in Seq(Volume) /\ devoptab \subseteq Volume
      /\ inserted \in [Port -> BOOLEAN] /\ plugs \in [Port -> 0..MaxPlugs]
      /\ dev_fd \in [Port -> 0..MaxPlugs]
      /\ pc # "partition" => new = <<>>
      /\ \A v \in Volume : v.port \in Port
  BY DEF TypeInv, EnvType, MainType, TableType, CallType, Volume
<1>00. ~leaked /\ pc \in Calling => \A v \in devoptab : v.port = i => InCall /\ v \in Range(new)
  BY DEF KnownInv, Named
<1>1. CASE UNCHANGED vars
  BY <1>0, <1>00, <1>1 DEF DriveInv, OwnDrive, InCall, Calling, vars, env, call
<1>2. ASSUME NEW p \in Port, Plug(p) PROVE DriveInv'
  BY <1>0, <1>00, <1>2 DEF DriveInv, OwnDrive, InCall, Calling, Plug, call
<1>3. ASSUME NEW p \in Port, Unplug(p) PROVE DriveInv'
  BY <1>0, <1>00, <1>3 DEF DriveInv, OwnDrive, InCall, Calling, Unplug, call
<1>4. CASE PollMounts
  BY <1>0, <1>00, <1>4 DEF DriveInv, OwnDrive, InCall, Calling, PollMounts, PollTo, Unmount, Shutdown, env, call
<1>5. CASE PollUnmounts
  <2>1. pc' \in {"poll", "test"}
    BY <1>0, <1>5, AdvanceType DEF PollUnmounts
  <2>. QED
    BY <1>0, <1>00, <1>5, <2>1 DEF DriveInv, OwnDrive, InCall, Calling, PollUnmounts, PollTo, Unmount, Shutdown, env, call
<1>6. CASE PollAbsent
  <2>1. pc' \in {"poll", "test"}
    BY <1>0, <1>6, AdvanceType DEF PollAbsent
  <2>. QED
    BY <1>0, <1>00, <1>6, <2>1 DEF DriveInv, OwnDrive, InCall, Calling, PollAbsent, PollTo, Shutdown, env, call
<1>7. CASE PollWaits
  <2>1. pc' \in {"poll", "test"}
    BY <1>0, <1>7, AdvanceType DEF PollWaits
  <2>. QED
    BY <1>0, <1>00, <1>7, <2>1 DEF DriveInv, OwnDrive, InCall, Calling, PollWaits, PollTo, env, call
<1>8. CASE PollSettled
  <2>1. pc' \in {"poll", "test"}
    BY <1>0, <1>8, AdvanceType DEF PollSettled
  <2>. QED
    BY <1>0, <1>00, <1>8, <2>1 DEF DriveInv, OwnDrive, InCall, Calling, PollSettled, PollTo, env, call
<1>9. CASE FindPartitions
  BY <1>0, <1>00, <1>9 DEF DriveInv, OwnDrive, InCall, Calling, FindPartitions, Reads, Startup, env, call
<1>10. CASE FindNoPartitions
  <2>1. pc' \in {"poll", "test"}
    BY <1>0, <1>10, AdvanceType DEF FindNoPartitions
  <2>. QED
    BY <1>0, <1>00, <1>10, <2>1 DEF DriveInv, OwnDrive, InCall, Calling, FindNoPartitions, MayClose, Startup, env, call
<1>11. ASSUME NEW v, MountsVolume(v) PROVE DriveInv'
  <2>1. Range(new') = Range(new) \union {v} /\ v.port = i /\ v.plug = plugs[i]
    BY <1>0, <1>11, RangeAppend DEF MountsVolume
  <2>. QED
    BY <1>0, <1>00, <1>11, <2>1 DEF DriveInv, OwnDrive, InCall, Calling, MountsVolume, Reads, Startup, env
<1>12. ASSUME NEW n, MountFails(n) PROVE DriveInv'
  BY <1>0, <1>00, <1>12 DEF DriveInv, OwnDrive, InCall, Calling, MountFails, MayClose, Startup, env
<1>13. CASE NamesExhausted
  <2>1. pc' \in {"poll", "test"}
    BY <1>0, <1>13, AdvanceType DEF NamesExhausted
  <2>. QED
    BY <1>0, <1>00, <1>13, <2>1 DEF DriveInv, OwnDrive, InCall, Calling, NamesExhausted, Forget, env
<1>14. CASE MountDone
  <2>1. pc' \in {"poll", "test"}
    BY <1>0, <1>14, AdvanceType DEF MountDone
  <2>. QED
    BY <1>0, <1>00, <1>14, <2>1 DEF DriveInv, OwnDrive, InCall, Calling, MountDone, Forget, env
<1>15. CASE MountNoMemory
  <2>1. pc' \in {"poll", "test"}
    BY <1>0, <1>15, AdvanceType DEF MountNoMemory
  <2>. QED
    BY <1>0, <1>00, <1>15, <2>1 DEF DriveInv, OwnDrive, InCall, Calling, MountNoMemory, Forget, env
<1>16. CASE TestFound
  BY <1>0, <1>00, <1>16 DEF DriveInv, OwnDrive, InCall, Calling, TestFound, env, call
<1>17. CASE TestNone
  BY <1>0, <1>00, <1>17 DEF DriveInv, OwnDrive, InCall, Calling, TestNone, env, call
<1>18. CASE GenerateLists
  BY <1>0, <1>00, <1>18 DEF DriveInv, OwnDrive, InCall, Calling, GenerateLists, Shutdown, env, call
<1>19. CASE UnmountNext
  BY <1>0, <1>00, <1>19 DEF DriveInv, OwnDrive, InCall, Calling, UnmountNext, Unmount, Shutdown, env, call
<1>20. CASE SearchEndless
  BY <1>0, <1>00, <1>20 DEF DriveInv, OwnDrive, InCall, Calling, SearchEndless, MayClose, Startup, env, call
<1>. QED
  BY <1>1, <1>2, <1>3, <1>4, <1>5, <1>6, <1>7, <1>8, <1>9, <1>10, <1>11, <1>12,
     <1>13, <1>14, <1>15, <1>16, <1>17, <1>18, <1>19, <1>20, StepCases

-----------------------------------------------------------------------------
(* Polls *)

\* Every step keeps the delay counters true to the polls.
LEMMA CountStep ==
  ASSUME TypeInv, CountInv, [Next]_vars
  PROVE  CountInv'
<1>. USE AutoMountAssumption
<1>0. /\ i \in Port /\ mounts \in [Port -> Seq(Volume)] /\ ports_cnt \subseteq Port
      /\ automountCount \in [Port -> 0..(Delay - 1)] /\ seen \in [Port -> 0..Delay]
  BY DEF TypeInv, MainType, TableType, CountType
<1>1. CASE UNCHANGED vars
  BY <1>0, <1>1 DEF CountInv, Calling, vars, env, call
<1>2. ASSUME NEW p \in Port, Plug(p) PROVE CountInv'
  BY <1>0, <1>2 DEF CountInv, Calling, Plug, call
<1>3. ASSUME NEW p \in Port, Unplug(p) PROVE CountInv'
  BY <1>0, <1>3 DEF CountInv, Calling, Unplug, call
<1>4. CASE PollMounts
  BY <1>0, <1>4 DEF CountInv, Calling, PollMounts, PollTo, Unmount, env
<1>5. CASE PollUnmounts
  <2>1. pc' \in {"poll", "test"}
    BY <1>0, <1>5, AdvanceType DEF PollUnmounts
  <2>. QED
    BY <1>0, <1>5, <2>1 DEF CountInv, Calling, PollUnmounts, PollTo, Unmount, env
<1>6. CASE PollAbsent
  <2>1. pc' \in {"poll", "test"}
    BY <1>0, <1>6, AdvanceType DEF PollAbsent
  <2>. QED
    BY <1>0, <1>6, <2>1 DEF CountInv, Calling, PollAbsent, PollTo, env
<1>7. CASE PollWaits
  <2>1. pc' \in {"poll", "test"}
    BY <1>0, <1>7, AdvanceType DEF PollWaits
  <2>2. /\ ports_cnt' = ports_cnt \union {i} /\ mounts' = mounts /\ seen[i] + 1 < Delay
        /\ automountCount' = [automountCount EXCEPT ![i] = Delay - (seen[i] + 1)]
        /\ seen' = [seen EXCEPT ![i] = seen[i] + 1]
    BY <1>7 DEF PollWaits, PollTo
  <2>3. mounts[i] = <<>>
    BY <1>0, <2>2 DEF CountInv
  <2>4. \A p \in Port : p # i => seen'[p] = seen[p] /\ automountCount'[p] = automountCount[p]
    BY <1>0, <2>2
  <2>5. seen'[i] = seen[i] + 1 /\ seen'[i] + automountCount'[i] = Delay /\ seen'[i] >= 1
    <3>1. seen'[i] = seen[i] + 1 /\ automountCount'[i] = Delay - (seen[i] + 1)
      BY <1>0, <2>2, Zenon
    <3>2. seen[i] \in Nat /\ Delay \in Nat
      BY <1>0
    <3>. QED
      BY <3>1, <3>2
  <2>. QED
    BY <1>0, <2>1, <2>2, <2>3, <2>4, <2>5 DEF CountInv, Calling
<1>8. CASE PollSettled
  <2>1. pc' \in {"poll", "test"}
    BY <1>0, <1>8, AdvanceType DEF PollSettled
  <2>. QED
    BY <1>0, <1>8, <2>1 DEF CountInv, Calling, PollSettled, PollTo, env
<1>9. CASE FindPartitions
  BY <1>0, <1>9 DEF CountInv, Calling, FindPartitions, env
<1>10. CASE FindNoPartitions
  <2>1. pc' \in {"poll", "test"}
    BY <1>0, <1>10, AdvanceType DEF FindNoPartitions
  <2>. QED
    BY <1>0, <1>10, <2>1 DEF CountInv, Calling, FindNoPartitions, env
<1>11. ASSUME NEW v, MountsVolume(v) PROVE CountInv'
  BY <1>0, <1>11 DEF CountInv, Calling, MountsVolume, env
<1>12. ASSUME NEW n, MountFails(n) PROVE CountInv'
  BY <1>0, <1>12 DEF CountInv, Calling, MountFails, env
<1>13. CASE NamesExhausted
  <2>1. pc' \in {"poll", "test"}
    BY <1>0, <1>13, AdvanceType DEF NamesExhausted
  <2>. QED
    BY <1>0, <1>13, <2>1 DEF CountInv, Calling, NamesExhausted, env
<1>14. CASE MountDone
  <2>1. pc' \in {"poll", "test"}
    BY <1>0, <1>14, AdvanceType DEF MountDone
  <2>. QED
    BY <1>0, <1>14, <2>1 DEF CountInv, Calling, MountDone, env
<1>15. CASE MountNoMemory
  <2>1. pc' \in {"poll", "test"}
    BY <1>0, <1>15, AdvanceType DEF MountNoMemory
  <2>. QED
    BY <1>0, <1>15, <2>1 DEF CountInv, Calling, MountNoMemory, env
<1>16. CASE TestFound
  BY <1>0, <1>16 DEF CountInv, Calling, TestFound, env
<1>17. CASE TestNone
  BY <1>0, <1>17 DEF CountInv, Calling, TestNone, env
<1>18. CASE GenerateLists
  BY <1>0, <1>18 DEF CountInv, Calling, GenerateLists, env
<1>19. CASE UnmountNext
  BY <1>0, <1>19 DEF CountInv, Calling, UnmountNext, Unmount, env
<1>20. CASE SearchEndless
  BY <1>0, <1>20 DEF CountInv, Calling, SearchEndless, env
<1>. QED
  BY <1>1, <1>2, <1>3, <1>4, <1>5, <1>6, <1>7, <1>8, <1>9, <1>10, <1>11, <1>12,
     <1>13, <1>14, <1>15, <1>16, <1>17, <1>18, <1>19, <1>20, StepCases

LEMMA RoundStep ==
  ASSUME TypeInv, CountInv, RoundInv, [Next]_vars
  PROVE  RoundInv'
<1>. USE AutoMountAssumption
<1>0. /\ i \in Port /\ nTry \in 0..MaxTry /\ steady \subseteq Port /\ \A p \in steady : inserted[p]
      /\ seen \in [Port -> 0..Delay] /\ pc \in Polling \union {"unmount", "finished", "endless"}
      /\ inserted \in [Port -> BOOLEAN]
  BY DEF TypeInv, EnvType, MainType, CountType
<1>1. CASE UNCHANGED vars
  BY <1>0, <1>1 DEF RoundInv, Polled, Polling, Calling, Port, vars, env, call
<1>2. ASSUME NEW p \in Port, Plug(p) PROVE RoundInv'
  BY <1>0, <1>2 DEF RoundInv, Polled, Polling, Calling, Port, Plug, call
<1>3. ASSUME NEW p \in Port, Unplug(p) PROVE RoundInv'
  BY <1>0, <1>3 DEF RoundInv, Polled, Polling, Calling, Port, Unplug, call
<1>4. CASE PollMounts
  BY <1>0, <1>4 DEF RoundInv, Polled, Polling, Calling, Port, PollMounts, PollTo, Unmount, env
<1>5. CASE PollUnmounts
  BY <1>0, <1>5 DEF RoundInv, Polled, Polling, Calling, Port, PollUnmounts, PollTo, Unmount, env, Advance
<1>6. CASE PollAbsent
  BY <1>0, <1>6 DEF RoundInv, Polled, Polling, Calling, Port, PollAbsent, PollTo, env, Advance
<1>7. CASE PollWaits
  BY <1>0, <1>7 DEF RoundInv, Polled, Polling, Calling, Port, PollWaits, PollTo, env, Advance
<1>8. CASE PollSettled
  BY <1>0, <1>8 DEF RoundInv, Polled, Polling, Calling, Port, PollSettled, PollTo, env, Advance
<1>9. CASE FindPartitions
  BY <1>0, <1>9 DEF RoundInv, Polled, Polling, Calling, Port, FindPartitions, env
<1>10. CASE FindNoPartitions
  BY <1>0, <1>10 DEF RoundInv, Polled, Polling, Calling, Port, FindNoPartitions, env, Advance
<1>11. ASSUME NEW v, MountsVolume(v) PROVE RoundInv'
  BY <1>0, <1>11 DEF RoundInv, Polled, Polling, Calling, Port, MountsVolume, env
<1>12. ASSUME NEW n, MountFails(n) PROVE RoundInv'
  BY <1>0, <1>12 DEF RoundInv, Polled, Polling, Calling, Port, MountFails, env
<1>13. CASE NamesExhausted
  BY <1>0, <1>13 DEF RoundInv, Polled, Polling, Calling, Port, NamesExhausted, env, Advance
<1>14. CASE MountDone
  BY <1>0, <1>14 DEF RoundInv, Polled, Polling, Calling, Port, MountDone, env, Advance
<1>15. CASE MountNoMemory
  BY <1>0, <1>15 DEF RoundInv, Polled, Polling, Calling, Port, MountNoMemory, env, Advance
<1>16. CASE TestFound
  BY <1>0, <1>16 DEF RoundInv, Polled, Polling, Calling, Port, TestFound, env
<1>17. CASE TestNone
  BY <1>0, <1>17 DEF RoundInv, Polled, Polling, Calling, Port, TestNone, env
<1>18. CASE GenerateLists
  BY <1>0, <1>18 DEF RoundInv, Polled, Polling, Calling, Port, GenerateLists, env
<1>19. CASE UnmountNext
  BY <1>0, <1>19 DEF RoundInv, Polled, Polling, Calling, Port, UnmountNext, Unmount, env
<1>20. CASE SearchEndless
  BY <1>20 DEF RoundInv, Polling, SearchEndless
<1>. QED
  BY <1>1, <1>2, <1>3, <1>4, <1>5, <1>6, <1>7, <1>8, <1>9, <1>10, <1>11, <1>12,
     <1>13, <1>14, <1>15, <1>16, <1>17, <1>18, <1>19, <1>20, StepCases

-----------------------------------------------------------------------------
(* Volumes that are looked for *)

\* What the test of a round misses is not mounted.
LEMMA NotFound ==
  ASSUME TypeInv, KnownInv, ~leaked, pc = "test", Found = {}
  PROVE  ~Hit
<1>. SUFFICES ASSUME NEW v \in devoptab, Good(v) PROVE FALSE
  BY DEF Hit
<1>1. v \in Volume /\ v.kind = "ntfs" /\ v.n \in 0..(Tested - 1)
  BY AutoMountAssumption DEF TypeInv, TableType, Volume, Good
<1>2. PICK p \in Port : v \in Range(mounts[p])
  BY DEF KnownInv, Named, InCall
<1>. QED
  BY <1>1, <1>2 DEF Found

\* A drive stays settled: what did not mount is forgotten only with the drive.
LEMMA SettledKept ==
  ASSUME NEW p, Settled(p), drive' = drive, \A q : <<p, q>> \in failed => <<p, q>> \in failed'
  PROVE  Settled(p)'
<1>. SUFFICES ASSUME NEW q \in 1..Len(drive'[p]), q <= Tested, AllNtfs(p, q)'
              PROVE  {<<p, 0>>, <<p, q>>} \intersect failed' # {}
  BY DEF Settled
<1>1. q \in 1..Len(drive[p]) /\ AllNtfs(p, q)
  BY DEF AllNtfs
<1>2. <<p, 0>> \in failed \/ <<p, q>> \in failed
  BY <1>1 DEF Settled
<1>. QED
  BY <1>2

\* As long as no volume that is looked for is mounted, the names of NTFS
\* partitions count from 0.
LEMMA NamesInOrder ==
  ASSUME TypeInv, CallInv, pc = "partition", ~Hit, j <= Tested, j <= Len(drive[i]), AllNtfs(i, j)
  PROVE  k = j - 1 /\ drive[i][j] = "ntfs" /\ NextName(drive[i][j]) = j - 1
<1>. USE AutoMountAssumption
<1>1. j \in Nat \ {0} /\ k \in 0..(MaxMounts - 1)
  BY DEF TypeInv, CallType
<1>2. drive[i][j] = "ntfs" /\ AllNtfs(i, j - 1)
  BY <1>1 DEF AllNtfs
<1>3. k = j - 1
  BY <1>1, <1>2 DEF CallInv
<1>4. ~NameTaken("ntfs", k)
  BY <1>1, <1>3 DEF Hit, Good, NameTaken
<1>. DEFINE n == NextName("ntfs")
<1>5. n \in k..(MaxMounts - 1) /\ \A m \in k..(n - 1) : NameTaken("ntfs", m)
  BY <1>1, NextNameFacts
<1>6. n = k
  <2>. HIDE DEF n
  <2>. QED  BY <1>1, <1>4, <1>5
<1>. QED
  BY <1>2, <1>3, <1>6

\* Every step keeps the volumes that are looked for in front of the polls.
LEMMA HitStep ==
  ASSUME TypeInv, CountInv, KnownInv, ~leaked', FoundInv, [Next]_vars
  PROVE  HitInv'
<1>. USE AutoMountAssumption
<1>0. /\ i \in Port /\ devoptab \subseteq Volume
      /\ ~leaked => HitInv
      /\ \A v \in Volume : v.port \in Port
  BY DEF TypeInv, MainType, TableType, FoundInv, Volume
<1>1. CASE UNCHANGED vars
  BY <1>0, <1>1 DEF HitInv, Good, Calling, Port, vars
<1>2. ASSUME NEW p \in Port, Plug(p) PROVE HitInv'
  BY <1>0, <1>2 DEF HitInv, Good, Calling, Port, Plug
<1>3. ASSUME NEW p \in Port, Unplug(p) PROVE HitInv'
  BY <1>0, <1>3 DEF HitInv, Good, Calling, Port, Unplug
<1>4. CASE PollMounts
  BY <1>0, <1>4 DEF HitInv, Good, Calling, Port, PollMounts, PollTo, Unmount
<1>5. CASE PollUnmounts
  BY <1>0, <1>5 DEF HitInv, Good, Calling, Port, PollUnmounts, PollTo, Unmount, Advance
<1>6. CASE PollAbsent
  BY <1>0, <1>6 DEF HitInv, Good, Calling, Port, PollAbsent, PollTo, Advance
<1>7. CASE PollWaits
  BY <1>0, <1>7 DEF HitInv, Good, Calling, Port, PollWaits, PollTo, Advance
<1>8. CASE PollSettled
  BY <1>0, <1>8 DEF HitInv, Good, Calling, Port, PollSettled, PollTo, Advance
<1>9. CASE FindPartitions
  BY <1>0, <1>9 DEF HitInv, Good, Calling, Port, FindPartitions
<1>10. CASE FindNoPartitions
  BY <1>0, <1>10 DEF HitInv, Good, Calling, Port, FindNoPartitions, Advance
<1>11. ASSUME NEW v, MountsVolume(v) PROVE HitInv'
  BY <1>0, <1>11 DEF HitInv, Good, Calling, Port, MountsVolume
<1>12. ASSUME NEW n, MountFails(n) PROVE HitInv'
  BY <1>0, <1>12 DEF HitInv, Good, Calling, Port, MountFails
<1>13. CASE NamesExhausted
  BY <1>0, <1>13 DEF HitInv, Good, Calling, Port, NamesExhausted
<1>14. CASE MountDone
  BY <1>0, <1>14 DEF HitInv, Good, Calling, Port, MountDone, Advance
<1>15. CASE MountNoMemory
  BY <1>0, <1>15 DEF HitInv, Good, Calling, Port, MountNoMemory
<1>16. CASE TestFound
  BY <1>0, <1>16 DEF HitInv, Good, Calling, Port, TestFound
<1>17. CASE TestNone
  <2>1. ~leaked /\ pc = "test" /\ Found = {} /\ devoptab' = devoptab /\ pc' \in {"poll", "unmount"}
    BY <1>17 DEF TestNone
  <2>2. ~Hit
    BY <2>1, NotFound
  <2>. QED
    BY <2>1, <2>2 DEF HitInv, Hit, Good, Calling
<1>18. CASE GenerateLists
  BY <1>0, <1>18 DEF HitInv, Good, Calling, Port, GenerateLists
<1>19. CASE UnmountNext
  BY <1>0, <1>19 DEF HitInv, Good, Calling, Port, UnmountNext
<1>20. CASE SearchEndless
  BY <1>20 DEF HitInv, Calling, SearchEndless
<1>. QED
  BY <1>1, <1>2, <1>3, <1>4, <1>5, <1>6, <1>7, <1>8, <1>9, <1>10, <1>11, <1>12,
     <1>13, <1>14, <1>15, <1>16, <1>17, <1>18, <1>19, <1>20, StepCases

\* A volume that is looked for stays mounted until the test of the round.
LEMMA HitKept ==
  ASSUME TypeInv, KnownInv, ~leaked, HitInv, Hit,
         \/ devoptab \subseteq devoptab'
         \/ pc = "poll" /\ devoptab' = devoptab \ Range(mounts[i])
  PROVE  Hit'
<1>1. PICK v \in devoptab : Good(v)
  BY DEF Hit
<1>2. v \in devoptab'
  <2>1. CASE devoptab \subseteq devoptab'
    BY <2>1
  <2>2. CASE pc = "poll" /\ devoptab' = devoptab \ Range(mounts[i])
    <3>1. i \in Port /\ v.port \in Port /\ v.port < i
      BY <1>1, <2>2 DEF HitInv, TypeInv, MainType, TableType, Volume
    <3>2. v \notin Range(mounts[i])
      BY <3>1 DEF KnownInv, Port
    <3>. QED
      BY <2>2, <3>2
  <2>. QED
    BY <2>1, <2>2
<1>. QED
  BY <1>1, <1>2 DEF Hit, Good

\* What a step leaves of the drives that had their turn.
LEMMA TurnKept ==
  ASSUME TypeInv, KnownInv, ~leaked, FoundInv, drive' = drive, steady' \subseteq steady,
         pc \in {"poll", "mount", "partition", "test"},
         \/ devoptab \subseteq devoptab'
         \/ pc = "poll" /\ devoptab' = devoptab \ Range(mounts[i]),
         NEW p \in steady', seen[p] = Delay, ~(pc \in Calling /\ i = p),
         \A q : <<p, q>> \in failed => <<p, q>> \in failed'
  PROVE  Settled(p)' \/ Hit'
<1>1. Settled(p) \/ Hit
  BY DEF FoundInv, TurnInv
<1>2. CASE Settled(p)
  BY <1>2, SettledKept
<1>3. CASE Hit
  BY <1>3, HitKept DEF FoundInv
<1>. QED
  BY <1>1, <1>2, <1>3

\* Every step keeps account of the drives that had their turn.
LEMMA TurnStep ==
  ASSUME TypeInv, CountInv, KnownInv, ~leaked', FoundInv, [Next]_vars
  PROVE  TurnInv'
<1>. USE AutoMountAssumption
<1>0. i \in Port /\ seen \in [Port -> 0..Delay] /\ steady \subseteq Port
  BY DEF TypeInv, EnvType, MainType, CountType
<1>. SUFFICES ASSUME pc' \in {"poll", "mount", "partition", "test"}, NEW r \in steady',
                     seen'[r] = Delay, ~(pc' \in Calling /\ i' = r)
              PROVE  Settled(r)' \/ Hit'
  BY DEF TurnInv
<1>1. CASE UNCHANGED vars
  <2>1. /\ ~leaked /\ drive' = drive /\ steady' \subseteq steady /\ seen[r] = Delay
        /\ pc \in {"poll", "mount", "partition", "test"} /\ ~(pc \in Calling /\ i = r)
    BY <1>0, <1>1 DEF Calling, vars, env
  <2>2. \/ devoptab \subseteq devoptab'
        \/ pc = "poll" /\ devoptab' = devoptab \ Range(mounts[i])
    BY <1>1 DEF vars, env
  <2>3. \A q : <<r, q>> \in failed => <<r, q>> \in failed'
    BY <1>1 DEF vars, env
  <2>. QED
    BY <2>1, <2>2, <2>3, TurnKept
<1>2. ASSUME NEW p \in Port, Plug(p) PROVE Settled(r)' \/ Hit'
  <2>1. /\ ~leaked /\ drive' = drive /\ steady' \subseteq steady /\ seen[r] = Delay
        /\ pc \in {"poll", "mount", "partition", "test"} /\ ~(pc \in Calling /\ i = r)
    BY <1>0, <1>2 DEF Calling, Plug
  <2>2. \/ devoptab \subseteq devoptab'
        \/ pc = "poll" /\ devoptab' = devoptab \ Range(mounts[i])
    BY <1>2 DEF Plug
  <2>3. \A q : <<r, q>> \in failed => <<r, q>> \in failed'
    BY <1>2 DEF Plug
  <2>. QED
    BY <2>1, <2>2, <2>3, TurnKept
<1>3. ASSUME NEW p \in Port, Unplug(p) PROVE Settled(r)' \/ Hit'
  <2>1. /\ ~leaked /\ drive' = drive /\ steady' \subseteq steady /\ seen[r] = Delay
        /\ pc \in {"poll", "mount", "partition", "test"} /\ ~(pc \in Calling /\ i = r)
    BY <1>0, <1>3 DEF Calling, Unplug
  <2>2. \/ devoptab \subseteq devoptab'
        \/ pc = "poll" /\ devoptab' = devoptab \ Range(mounts[i])
    BY <1>3 DEF Unplug
  <2>3. \A q : <<r, q>> \in failed => <<r, q>> \in failed'
    BY <1>3 DEF Unplug
  <2>. QED
    BY <2>1, <2>2, <2>3, TurnKept
<1>4. CASE PollMounts
  <2>1. /\ ~leaked /\ drive' = drive /\ steady' \subseteq steady /\ seen[r] = Delay
        /\ pc \in {"poll", "mount", "partition", "test"} /\ ~(pc \in Calling /\ i = r)
    BY <1>0, <1>4 DEF Calling, PollMounts, PollTo, Unmount, env
  <2>2. \/ devoptab \subseteq devoptab'
        \/ pc = "poll" /\ devoptab' = devoptab \ Range(mounts[i])
    BY <1>4 DEF PollMounts, PollTo, Unmount, env
  <2>3. \A q : <<r, q>> \in failed => <<r, q>> \in failed'
    BY <1>4 DEF PollMounts, PollTo, Unmount, env
  <2>. QED
    BY <2>1, <2>2, <2>3, TurnKept
<1>5. CASE PollUnmounts
  <2>1. /\ ~leaked /\ drive' = drive /\ steady' \subseteq steady /\ seen[r] = Delay
        /\ pc \in {"poll", "mount", "partition", "test"} /\ ~(pc \in Calling /\ i = r)
    BY <1>0, <1>5 DEF Calling, PollUnmounts, PollTo, Unmount, env
  <2>2. \/ devoptab \subseteq devoptab'
        \/ pc = "poll" /\ devoptab' = devoptab \ Range(mounts[i])
    BY <1>5 DEF PollUnmounts, PollTo, Unmount, env
  <2>3. \A q : <<r, q>> \in failed => <<r, q>> \in failed'
    BY <1>5 DEF PollUnmounts, PollTo, Unmount, env
  <2>. QED
    BY <2>1, <2>2, <2>3, TurnKept
<1>6. CASE PollAbsent
  <2>1. /\ ~leaked /\ drive' = drive /\ steady' \subseteq steady /\ seen[r] = Delay
        /\ pc \in {"poll", "mount", "partition", "test"} /\ ~(pc \in Calling /\ i = r)
    BY <1>0, <1>6 DEF Calling, PollAbsent, PollTo, env
  <2>2. \/ devoptab \subseteq devoptab'
        \/ pc = "poll" /\ devoptab' = devoptab \ Range(mounts[i])
    BY <1>6 DEF PollAbsent, PollTo, env
  <2>3. \A q : <<r, q>> \in failed => <<r, q>> \in failed'
    BY <1>6 DEF PollAbsent, PollTo, env
  <2>. QED
    BY <2>1, <2>2, <2>3, TurnKept
<1>7. CASE PollWaits
  <2>1. /\ ~leaked /\ drive' = drive /\ steady' \subseteq steady /\ seen[r] = Delay
        /\ pc \in {"poll", "mount", "partition", "test"} /\ ~(pc \in Calling /\ i = r)
    BY <1>0, <1>7 DEF Calling, PollWaits, PollTo, env
  <2>2. \/ devoptab \subseteq devoptab'
        \/ pc = "poll" /\ devoptab' = devoptab \ Range(mounts[i])
    BY <1>7 DEF PollWaits, PollTo, env
  <2>3. \A q : <<r, q>> \in failed => <<r, q>> \in failed'
    BY <1>7 DEF PollWaits, PollTo, env
  <2>. QED
    BY <2>1, <2>2, <2>3, TurnKept
<1>8. CASE PollSettled
  <2>1. /\ ~leaked /\ drive' = drive /\ steady' \subseteq steady /\ seen[r] = Delay
        /\ pc \in {"poll", "mount", "partition", "test"} /\ ~(pc \in Calling /\ i = r)
    BY <1>0, <1>8 DEF Calling, PollSettled, PollTo, env
  <2>2. \/ devoptab \subseteq devoptab'
        \/ pc = "poll" /\ devoptab' = devoptab \ Range(mounts[i])
    BY <1>8 DEF PollSettled, PollTo, env
  <2>3. \A q : <<r, q>> \in failed => <<r, q>> \in failed'
    BY <1>8 DEF PollSettled, PollTo, env
  <2>. QED
    BY <2>1, <2>2, <2>3, TurnKept
<1>9. CASE FindPartitions
  <2>1. /\ ~leaked /\ drive' = drive /\ steady' \subseteq steady /\ seen[r] = Delay
        /\ pc \in {"poll", "mount", "partition", "test"} /\ ~(pc \in Calling /\ i = r)
    BY <1>0, <1>9 DEF Calling, FindPartitions, env
  <2>2. \/ devoptab \subseteq devoptab'
        \/ pc = "poll" /\ devoptab' = devoptab \ Range(mounts[i])
    BY <1>9 DEF FindPartitions, env
  <2>3. \A q : <<r, q>> \in failed => <<r, q>> \in failed'
    BY <1>9 DEF FindPartitions, env
  <2>. QED
    BY <2>1, <2>2, <2>3, TurnKept
<1>10. CASE FindNoPartitions
  <2>1. CASE r = i
    <3>1. <<r, 0>> \in failed'
      BY <1>10, <2>1 DEF FindNoPartitions, Fails, env
    <3>. QED
      BY <3>1 DEF Settled
  <2>2. CASE r # i
    <3>1. /\ ~leaked /\ drive' = drive /\ steady' \subseteq steady /\ seen[r] = Delay
          /\ pc \in {"poll", "mount", "partition", "test"} /\ ~(pc \in Calling /\ i = r)
      BY <1>0, <1>10, <2>2 DEF Calling, FindNoPartitions, Fails, env
    <3>2. \/ devoptab \subseteq devoptab'
          \/ pc = "poll" /\ devoptab' = devoptab \ Range(mounts[i])
      BY <1>10 DEF FindNoPartitions, Fails, env
    <3>3. \A q : <<r, q>> \in failed => <<r, q>> \in failed'
      BY <1>10 DEF FindNoPartitions, Fails, env
    <3>. QED
      BY <3>1, <3>2, <3>3, TurnKept
  <2>. QED
    BY <2>1, <2>2
<1>11. ASSUME NEW v, MountsVolume(v) PROVE Settled(r)' \/ Hit'
  <2>1. /\ ~leaked /\ drive' = drive /\ steady' \subseteq steady /\ seen[r] = Delay
        /\ pc \in {"poll", "mount", "partition", "test"} /\ ~(pc \in Calling /\ i = r)
    BY <1>0, <1>11 DEF Calling, MountsVolume, env
  <2>2. \/ devoptab \subseteq devoptab'
        \/ pc = "poll" /\ devoptab' = devoptab \ Range(mounts[i])
    BY <1>11 DEF MountsVolume, env
  <2>3. \A q : <<r, q>> \in failed => <<r, q>> \in failed'
    BY <1>11 DEF MountsVolume, env
  <2>. QED
    BY <2>1, <2>2, <2>3, TurnKept
<1>12. ASSUME NEW n, MountFails(n) PROVE Settled(r)' \/ Hit'
  <2>1. /\ ~leaked /\ drive' = drive /\ steady' \subseteq steady /\ seen[r] = Delay
        /\ pc \in {"poll", "mount", "partition", "test"} /\ ~(pc \in Calling /\ i = r)
    BY <1>0, <1>12 DEF Calling, MountFails, Fails, env
  <2>2. \/ devoptab \subseteq devoptab'
        \/ pc = "poll" /\ devoptab' = devoptab \ Range(mounts[i])
    BY <1>12 DEF MountFails, Fails, env
  <2>3. \A q : <<r, q>> \in failed => <<r, q>> \in failed'
    BY <1>12 DEF MountFails, Fails, env
  <2>. QED
    BY <2>1, <2>2, <2>3, TurnKept
<1>13. CASE NamesExhausted
  BY <1>13 DEF NamesExhausted
<1>14. CASE MountDone
  <2>1. CASE r = i /\ ~Hit
    <3>1. /\ ~leaked /\ pc = "partition" /\ j > Len(drive[i]) /\ drive' = drive /\ failed' = failed
          /\ steady' = steady
      BY <1>14 DEF MountDone, env
    <3>2. ASSUME NEW q \in 1..Len(drive[i]), q <= Tested, AllNtfs(i, q) PROVE <<i, q>> \in failed
      <4>1. q \in 1..(j - 1) /\ q <= Len(drive[i])
        BY <1>0, <3>1, DriveType DEF TypeInv, CallType
      <4>. QED
        BY <2>1, <3>1, <3>2, <4>1 DEF FoundInv, CallInv
    <3>3. Settled(i)
      BY <3>2 DEF Settled
    <3>. QED
      BY <2>1, <3>1, <3>3, SettledKept
  <2>2. CASE r = i /\ Hit
    BY <1>14, <2>2, HitKept DEF MountDone, FoundInv
  <2>3. CASE r # i
    <3>1. /\ ~leaked /\ drive' = drive /\ steady' \subseteq steady /\ seen[r] = Delay
          /\ pc \in {"poll", "mount", "partition", "test"} /\ ~(pc \in Calling /\ i = r)
      BY <1>0, <1>14, <2>3 DEF Calling, MountDone, env
    <3>2. \/ devoptab \subseteq devoptab'
          \/ pc = "poll" /\ devoptab' = devoptab \ Range(mounts[i])
      BY <1>14 DEF MountDone, env
    <3>3. \A q : <<r, q>> \in failed => <<r, q>> \in failed'
      BY <1>14 DEF MountDone, env
    <3>. QED
      BY <3>1, <3>2, <3>3, TurnKept
  <2>. QED
    BY <2>1, <2>2, <2>3
<1>15. CASE MountNoMemory
  BY <1>15 DEF MountNoMemory
<1>16. CASE TestFound
  BY <1>16 DEF TestFound
<1>17. CASE TestNone
  <2>1. /\ ~leaked /\ drive' = drive /\ steady' \subseteq steady /\ seen[r] = Delay
        /\ pc \in {"poll", "mount", "partition", "test"} /\ ~(pc \in Calling /\ i = r)
    BY <1>0, <1>17 DEF Calling, TestNone, env
  <2>2. \/ devoptab \subseteq devoptab'
        \/ pc = "poll" /\ devoptab' = devoptab \ Range(mounts[i])
    BY <1>17 DEF TestNone, env
  <2>3. \A q : <<r, q>> \in failed => <<r, q>> \in failed'
    BY <1>17 DEF TestNone, env
  <2>. QED
    BY <2>1, <2>2, <2>3, TurnKept
<1>18. CASE GenerateLists
  BY <1>18 DEF GenerateLists
<1>19. CASE UnmountNext
  BY <1>19 DEF UnmountNext
<1>20. CASE SearchEndless
  BY <1>20 DEF SearchEndless
<1>. QED
  BY <1>1, <1>2, <1>3, <1>4, <1>5, <1>6, <1>7, <1>8, <1>9, <1>10, <1>11, <1>12,
     <1>13, <1>14, <1>15, <1>16, <1>17, <1>18, <1>19, <1>20, StepCases

\* Every step keeps account of the partitions of the call in progress.
LEMMA CallStep ==
  ASSUME TypeInv, CountInv, ~leaked', FoundInv, [Next]_vars
  PROVE  CallInv'
<1>. USE AutoMountAssumption
<1>0. /\ i \in Port /\ j \in Nat \ {0} /\ k \in 0..(MaxMounts - 1)
      /\ pc # "partition" => j = 1 /\ k = 0
      /\ ~leaked => CallInv
  BY DEF TypeInv, MainType, CallType, FoundInv
<1>1. CASE UNCHANGED vars
  BY <1>0, <1>1 DEF CallInv, Hit, Good, AllNtfs, vars, env, call
<1>2. ASSUME NEW p \in Port, Plug(p) PROVE CallInv'
  BY <1>0, <1>2 DEF CallInv, Hit, Good, AllNtfs, Plug, call
<1>3. ASSUME NEW p \in Port, Unplug(p) PROVE CallInv'
  BY <1>0, <1>3 DEF CallInv, Hit, Good, AllNtfs, Unplug, call
<1>4. CASE PollMounts
  BY <1>4 DEF CallInv, PollMounts
<1>5. CASE PollUnmounts \/ PollAbsent \/ PollWaits \/ PollSettled
  BY <1>0, <1>5, AdvanceType DEF CallInv, PollUnmounts, PollAbsent, PollWaits, PollSettled
<1>6. CASE FindPartitions \/ SearchEndless
  BY <1>0, <1>6 DEF CallInv, FindPartitions, SearchEndless, call
<1>7. CASE FindNoPartitions \/ NamesExhausted \/ MountDone \/ MountNoMemory
  BY <1>0, <1>7, AdvanceType DEF CallInv, FindNoPartitions, NamesExhausted, MountDone, MountNoMemory
<1>8. CASE TestFound \/ TestNone \/ GenerateLists \/ UnmountNext
  BY <1>8 DEF CallInv, TestFound, TestNone, GenerateLists, UnmountNext
<1>9. ASSUME NEW v, MountsVolume(v) PROVE CallInv'
  <2>1. /\ ~leaked /\ CallInv /\ pc = "partition" /\ j <= Len(drive[i])
        /\ i' = i /\ drive' = drive /\ steady' = steady /\ failed' = failed /\ j' = j + 1
        /\ devoptab' = devoptab \union {v}
        /\ v = [kind |-> drive[i][j], n |-> NextName(drive[i][j]), port |-> i, plug |-> plugs[i]]
    BY <1>0, <1>9 DEF MountsVolume, env
  <2>2. Hit => Hit'
    BY <2>1 DEF Hit, Good
  <2>3. ASSUME j <= Tested, AllNtfs(i, j) PROVE Hit'
    <3>1. CASE Hit
      BY <2>2, <3>1
    <3>2. CASE ~Hit
      <4>1. drive[i][j] = "ntfs" /\ NextName(drive[i][j]) = j - 1
        BY <2>1, <2>3, <3>2, NamesInOrder
      <4>2. v.kind = "ntfs" /\ v.n < Tested
        BY <1>0, <2>1, <2>3, <4>1
      <4>. QED
        BY <2>1, <4>2 DEF Hit, Good
    <3>. QED
      BY <3>1, <3>2
  <2>4. ASSUME NEW q \in 1..j, i \in steady, q <= Tested, q <= Len(drive[i]), AllNtfs(i, q)
        PROVE  <<i, q>> \in failed \/ Hit'
    <3>1. CASE q = j
      BY <2>3, <2>4, <3>1
    <3>2. CASE q # j
      <4>1. q \in 1..(j - 1)
        BY <1>0, <3>2
      <4>. QED
        BY <2>1, <2>2, <2>4, <4>1 DEF CallInv
    <3>. QED
      BY <3>1, <3>2
  <2>5. j' - 1 = j
    BY <1>0, <2>1
  <2>6. \A q : AllNtfs(i, q)' <=> AllNtfs(i, q)
    BY <2>1 DEF AllNtfs
  <2>. QED
    BY <2>1, <2>3, <2>4, <2>5, <2>6 DEF CallInv
<1>10. ASSUME NEW n, MountFails(n) PROVE CallInv'
  <2>1. /\ ~leaked /\ CallInv /\ pc = "partition" /\ j <= Len(drive[i])
        /\ i' = i /\ drive' = drive /\ steady' = steady /\ j' = j + 1 /\ devoptab' = devoptab
        /\ n = NextName(drive[i][j]) /\ k' = n + 1
        /\ failed' = IF i \in steady THEN failed \union {<<i, j>>} ELSE failed
    BY <1>0, <1>10 DEF MountFails, Fails, env
  <2>2. Hit' <=> Hit
    BY <2>1 DEF Hit, Good
  <2>3. ASSUME ~Hit, j <= Tested, AllNtfs(i, j) PROVE k' = j
    <3>1. NextName(drive[i][j]) = j - 1
      BY <2>1, <2>3, NamesInOrder
    <3>. QED
      BY <1>0, <2>1, <3>1
  <2>4. ASSUME NEW q \in 1..j, i \in steady, q <= Tested, q <= Len(drive[i]), AllNtfs(i, q)
        PROVE  <<i, q>> \in failed' \/ Hit
    <3>1. CASE q = j
      BY <2>1, <2>4, <3>1
    <3>2. CASE q # j
      <4>1. q \in 1..(j - 1)
        BY <1>0, <3>2
      <4>. QED
        BY <2>1, <2>4, <4>1 DEF CallInv
    <3>. QED
      BY <3>1, <3>2
  <2>5. j' - 1 = j
    BY <1>0, <2>1
  <2>6. \A q : AllNtfs(i, q)' <=> AllNtfs(i, q)
    BY <2>1 DEF AllNtfs
  <2>. QED
    BY <2>1, <2>2, <2>3, <2>4, <2>5, <2>6 DEF CallInv
<1>. QED
  BY <1>1, <1>2, <1>3, <1>4, <1>5, <1>6, <1>7, <1>8, <1>9, <1>10, StepCases

\* The last round had its turn for every drive that every poll has seen.
LEMMA EndStep ==
  ASSUME TypeInv, CountInv, KnownInv, RoundInv, ~leaked', FoundInv, [Next]_vars
  PROVE  EndInv'
<1>. USE AutoMountAssumption
<1>0. /\ i \in Port /\ nTry \in 0..MaxTry /\ seen \in [Port -> 0..Delay] /\ steady \subseteq Port
      /\ ~leaked => EndInv
  BY DEF TypeInv, EnvType, MainType, CountType, FoundInv
<1>1. ASSUME pc' = pc, cur_device' = cur_device, drive' = drive, steady' \subseteq steady, ~leaked,
             \A r \in steady' : \A q : <<r, q>> \in failed => <<r, q>> \in failed'
      PROVE  EndInv'
  <2>1. ASSUME pc \in {"unmount", "finished"}, cur_device = None, NEW r \in steady'
        PROVE  Settled(r)'
    <3>1. Settled(r)
      BY <1>0, <1>1, <2>1 DEF EndInv
    <3>. QED
      BY <1>1, <3>1, SettledKept
  <2>. QED
    BY <1>0, <1>1, <2>1 DEF EndInv
<1>2. CASE UNCHANGED vars
  BY <1>1, <1>2 DEF vars, env
<1>3. ASSUME NEW p \in Port, Plug(p) PROVE EndInv'
  BY <1>1, <1>3 DEF Plug
<1>4. ASSUME NEW p \in Port, Unplug(p) PROVE EndInv'
  <2>1. \A r \in steady' : \A q : <<r, q>> \in failed => <<r, q>> \in failed'
    BY <1>4 DEF Unplug
  <2>. QED
    BY <1>1, <1>4, <2>1 DEF Unplug
<1>5. CASE PollMounts \/ PollUnmounts \/ PollAbsent \/ PollWaits \/ PollSettled
  BY <1>0, <1>5, AdvanceType
     DEF EndInv, PollMounts, PollUnmounts, PollAbsent, PollWaits, PollSettled
<1>6. CASE FindPartitions \/ SearchEndless
  BY <1>6 DEF EndInv, FindPartitions, SearchEndless
<1>7. CASE FindNoPartitions \/ NamesExhausted \/ MountDone \/ MountNoMemory
  BY <1>0, <1>7, AdvanceType DEF EndInv, FindNoPartitions, NamesExhausted, MountDone, MountNoMemory
<1>8. CASE (\E v : MountsVolume(v)) \/ (\E n : MountFails(n))
  BY <1>8 DEF EndInv, MountsVolume, MountFails
<1>9. CASE TestFound
  <2>1. cur_device' \in 0..(Tested - 1) /\ pc' = "list"
    BY <1>9, FoundLeast DEF TestFound, Found
  <2>. QED
    BY <2>1 DEF EndInv, None
<1>10. CASE TestNone
  <2>1. /\ ~leaked /\ pc = "test" /\ Found = {} /\ nTry' = nTry + 1 /\ cur_device' = cur_device
        /\ pc' = IF nTry' < MaxTry THEN "poll" ELSE "unmount"
        /\ drive' = drive /\ steady' = steady /\ failed' = failed
    BY <1>10 DEF TestNone, env
  <2>2. ~Hit
    BY <2>1, NotFound
  <2>3. ASSUME pc' = "unmount", NEW r \in steady PROVE Settled(r)'
    <3>1. seen[r] = Delay \/ seen[r] >= nTry + 1
      BY <2>1 DEF RoundInv, Polling, Polled
    <3>2. seen[r] = Delay
      BY <1>0, <2>1, <2>3, <3>1
    <3>3. Settled(r)
      BY <2>1, <2>2, <3>2 DEF FoundInv, TurnInv, Calling
    <3>. QED
      BY <2>1, <3>3, SettledKept
  <2>. QED
    BY <2>1, <2>3 DEF EndInv
<1>11. CASE GenerateLists
  BY <1>0, <1>11 DEF EndInv, GenerateLists
<1>12. CASE UnmountNext
  <2>1. /\ ~leaked /\ pc = "unmount" /\ pc' \in {"unmount", "finished"} /\ cur_device' = cur_device
        /\ drive' = drive /\ steady' = steady /\ failed' = failed
    BY <1>12 DEF UnmountNext, env
  <2>2. ASSUME cur_device = None, NEW r \in steady PROVE Settled(r)'
    BY <1>0, <2>1, <2>2, SettledKept DEF EndInv
  <2>. QED
    BY <2>1, <2>2 DEF EndInv
<1>. QED
  BY <1>2, <1>3, <1>4, <1>5, <1>6, <1>7, <1>8, <1>9, <1>10, <1>11, <1>12, StepCases

-----------------------------------------------------------------------------
(* The theorems *)

LEMMA Start == ASSUME Init PROVE Inv
<1>. USE AutoMountAssumption, RangeEmpty
<1>1. TypeInv
  BY TypeStart
<1>2. KnownInv
  BY DEF Init, KnownInv, Named, InCall, Calling
<1>3. DriveInv
  BY DEF Init, DriveInv, OwnDrive
<1>4. CountInv
  BY DEF Init, CountInv, Calling
<1>5. RoundInv
  BY DEF Init, RoundInv, Polled, Calling, Port
<1>6. FoundInv
  BY DEF Init, FoundInv, HitInv, TurnInv, CallInv, EndInv, Calling
<1>. QED
  BY <1>1, <1>2, <1>3, <1>4, <1>5, <1>6 DEF Inv

LEMMA Step == ASSUME Inv, [Next]_vars PROVE Inv'
<1>1. TypeInv' /\ KnownInv' /\ DriveInv' /\ CountInv' /\ RoundInv'
  BY TypeStep, KnownStep, DriveStep, CountStep, RoundStep DEF Inv
<1>2. FoundInv'
  BY HitStep, TurnStep, CallStep, EndStep DEF Inv, FoundInv
<1>. QED
  BY <1>1, <1>2 DEF Inv

\* The inductive invariant holds of every behaviour.
THEOREM Invariance == Spec => []Inv
<1>1. Init => Inv
  BY Start
<1>2. Inv /\ [Next]_vars => Inv'
  BY Step
<1>. QED
  BY <1>1, <1>2, PTL DEF Spec

\* The variables of main, of ntfsMountDevice and of the device table keep
\* their types; the delay counter of a port stays within the delay.
THEOREM TypesHold == Spec => []TypeOK
<1>1. Inv => TypeOK
  BY DEF Inv, TypeInv, EnvType, MainType, CountType, TableType, TypeOK
<1>. QED
  BY <1>1, Invariance, PTL

\* NTFS_Event_Mount and NTFS_UnMount leave no volume behind: unless a mount
\* call gave up half-way, a volume is mounted exactly when a descriptor of the
\* ports or the call in progress names it.
THEOREM MountsAreKnown == Spec => []EveryMountKnown
<1>1. Inv => EveryMountKnown
  <2>. SUFFICES ASSUME Inv, ~leaked
                PROVE  devoptab = (UNION {Range(mounts[p]) : p \in Port})
                                    \union (IF InCall THEN Range(new) ELSE {})
    BY DEF EveryMountKnown
  <2>1. \A v : v \in devoptab <=> Named(v)
    BY DEF Inv, KnownInv
  <2>. QED
    BY <2>1 DEF Named
<1>. QED
  BY <1>1, Invariance, PTL

\* A mounted volume reads and writes the drive it was mounted from, however
\* drives are pulled and plugged in, unless its drive was pulled during the
\* mount call.
THEOREM VolumesOnOwnDrive == Spec => []OwnDrive
<1>1. Inv => OwnDrive
  BY DEF Inv, DriveInv
<1>. QED
  BY <1>1, Invariance, PTL

\* NTFS_Event_Mount mounts a drive only when the last Delay polls all saw it.
THEOREM MountedWhenSettled == Spec => []SettledBeforeMount
<1>1. Inv => SettledBeforeMount
  BY DEF Inv, CountInv, Calling, SettledBeforeMount
<1>. QED
  BY <1>1, Invariance, PTL

\* When main ends without a volume, every drive that every poll has seen
\* failed to mount each partition that should have been found.
THEOREM NoDriveMissed == Spec => []DriveFound
<1>1. Inv => DriveFound
  <2>. SUFFICES ASSUME Inv, pc = "finished", cur_device = None, ~leaked, NEW p \in steady,
                       NEW q \in 1..Len(drive[p]), q <= Tested, AllNtfs(p, q)
                PROVE  {<<p, 0>>, <<p, q>>} \intersect failed # {}
    BY DEF DriveFound, AllNtfs
  <2>1. Settled(p)
    BY DEF Inv, FoundInv, EndInv
  <2>. QED
    BY <2>1 DEF Settled
<1>. QED
  BY <1>1, Invariance, PTL
=============================================================================
