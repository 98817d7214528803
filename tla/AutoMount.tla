----------------------------- MODULE AutoMount -----------------------------
(***************************************************************************)
(* The list generator (source/ntfs_isolist/source/main.c) polls the USB    *)
(* ports, mounts a drive once it has been there for a while, unmounts one  *)
(* that is gone, and stops at the first NTFS volume it can list. Mounting  *)
(* is ntfsMountDevice (source/libntfs_ext/source/ntfs.c) on the descriptors *)
(* of ps3_io.c. Drives come and go at any time, and another drive may be    *)
(* plugged in where one was pulled out.                                     *)
(***************************************************************************)
EXTENDS Integers, Sequences, FiniteSets

CONSTANTS
  Ports,       \* number of USB ports (8)
  Delay,       \* polls before a drive is mounted (300)
  MaxTry,      \* rounds of polling (1000)
  MaxMounts,   \* NTFS_MAX_MOUNTS
  Tested,      \* volumes that are looked for: ntfs0 .. ntfs3
  MaxPlugs,    \* drives that are plugged into one port, one after the other
  Drives,      \* drives of all ports: the kinds of their partitions, in order
  Chained      \* ports whose drives have a chain of extended boot records

ASSUME AutoMountAssumption ==
  /\ Ports \in Nat \ {0} /\ Delay \in Nat \ {0} /\ MaxTry \in Nat /\ Delay <= MaxTry
  /\ MaxMounts \in Nat \ {0} /\ Tested \in 1..(MaxMounts - 1)
  /\ MaxPlugs \in Nat \ {0}
  /\ \A d \in Drives : \A p \in 1..Ports : d[p] \in Seq({"ntfs", "ext"})
  /\ Chained \subseteq 1..Ports

Port == 1..Ports
None == -1

VARIABLES
  drive, inserted,  \* external: what drives of a port are like; is one plugged in
  plugs,            \* external: drives that were plugged into a port, up to now
  pc, i, nTry,      \* locals of main; pc = "endless": a search that never returns
  ports_cnt,        \* ports that had a drive at the last poll
  automountCount,
  mounts,           \* volumes of each port; mountCount is the length
  devoptab,         \* volumes that are mounted: [kind, n, port, plug]
  dev_fd,           \* which drive of a port is open, or 0
  j, k, new,        \* locals of ntfsMountDevice: j, k, mount_points
  cur_device,
  seen,             \* history: polls in a row that found a drive at the port
  steady,           \* history: ports whose drive was there, and seen, all the time
  failed,           \* history: of steady ports, partitions (0: drives) that did not mount
  leaked,           \* history: a mount call gave up with volumes mounted
  pulled            \* history: ports that lost their drive while it was mounted

env  == <<drive, inserted, plugs, steady>>
call == <<j, k, new>>
vars == <<env, pc, i, nTry, ports_cnt, automountCount, mounts, devoptab, dev_fd, call,
          cur_device, seen, failed, leaked, pulled>>

Range(s) == {s[n] : n \in 1..Len(s)}

Init ==
  /\ drive \in Drives /\ inserted \in [Port -> BOOLEAN]
  /\ plugs = [p \in Port |-> IF inserted[p] THEN 1 ELSE 0]
  /\ pc = "poll" /\ i = 1 /\ nTry = 0
  /\ ports_cnt = {}
  /\ automountCount = [p \in Port |-> 0]
  /\ mounts = [p \in Port |-> <<>>]
  /\ devoptab = {} /\ dev_fd = [p \in Port |-> 0]
  /\ j = 1 /\ k = 0 /\ new = <<>>
  /\ cur_device = None
  /\ seen = [p \in Port |-> 0]
  /\ steady = {p \in Port : inserted[p]}
  /\ failed = {} /\ leaked = FALSE /\ pulled = {}

Plug(p) ==
  /\ ~inserted[p] /\ plugs[p] < MaxPlugs /\ pc # "finished"
  /\ inserted' = [inserted EXCEPT ![p] = TRUE]
  /\ plugs' = [plugs EXCEPT ![p] = @ + 1]
  /\ UNCHANGED <<drive, steady, pc, i, nTry, ports_cnt, automountCount, mounts, devoptab, dev_fd,
                 call, cur_device, seen, failed, leaked, pulled>>

Unplug(p) ==
  /\ inserted[p] /\ pc # "finished"
  /\ inserted' = [inserted EXCEPT ![p] = FALSE]
  /\ steady' = steady \ {p}
  /\ failed' = {f \in failed : f[1] # p}
  /\ pulled' = IF pc = "partition" /\ i = p THEN pulled \union {p} ELSE pulled
  /\ UNCHANGED <<drive, plugs, pc, i, nTry, ports_cnt, automountCount, mounts, devoptab, dev_fd,
                 call, cur_device, seen, leaked>>

-----------------------------------------------------------------------------
(* PS3_NTFS_Startup and PS3_NTFS_Shutdown *)

\* The drive that is open after a startup that succeeds: one that is open
\* stays, though another drive may be in the port by now.
Startup(p) == IF dev_fd[p] # 0 THEN dev_fd[p] ELSE plugs[p]

Shutdown(p) == dev_fd' = [dev_fd EXCEPT ![p] = 0]

\* What accesses may leave open: the device that was open, the one a startup
\* opens, or none, as an access that finds its drive gone closes the device.
MayClose(p) == \E h \in {dev_fd[p], Startup(p), 0} : dev_fd' = [dev_fd EXCEPT ![p] = h]

\* The drive that is there is the one that is open.
Reads(p) == inserted[p] /\ Startup(p) = plugs[p]

-----------------------------------------------------------------------------
(* NTFS_Event_Mount and NTFS_UnMount *)

\* Mutated form of Ticks: every poll that finds a drive starts the delay.
TicksAlways(now, was, count) == IF now THEN Delay ELSE count

\* The delay starts when a drive appears.
Ticks(now, was, count) == IF now /\ ~was THEN Delay ELSE count

\* The delay counter after a poll; a drive that is gone ends it.
CountLeft(now, was, ticks) ==
  IF ~now /\ was THEN 0 ELSE IF ticks > 0 THEN ticks - 1 ELSE 0

\* Mutated form of Event: the delay is looked at behind the unmounting.
EventMountFirst(now, was, ticks) ==
  IF ticks > 0 /\ CountLeft(now, was, ticks) = 0 THEN "mount"
  ELSE IF ~now /\ was THEN "unmount" ELSE "nothing"

Event(now, was, ticks) ==
  IF ~now /\ was THEN "unmount"
  ELSE IF ticks > 0 /\ CountLeft(now, was, ticks) = 0 THEN "mount" ELSE "nothing"

\* Mutated form of Unmount: only the first volume.
UnmountFirst(p) ==
  /\ devoptab' = IF mounts[p] = <<>> THEN devoptab ELSE devoptab \ {Head(mounts[p])}
  /\ mounts' = [mounts EXCEPT ![p] = <<>>]
  /\ Shutdown(p)
  /\ pulled' = pulled \ {p}

Unmount(p) ==
  /\ devoptab' = devoptab \ Range(mounts[p])
  /\ mounts' = [mounts EXCEPT ![p] = <<>>]
  /\ Shutdown(p)
  /\ pulled' = pulled \ {p}

\* ntfsMountDevice returns: its locals are gone.
Forget == j' = 1 /\ k' = 0 /\ new' = <<>>

Advance ==
  IF i < Ports THEN i' = i + 1 /\ pc' = "poll" ELSE i' = i /\ pc' = "test"

\* One port. PS3_NTFS_IsInserted closes the device of a drive that is gone,
\* unless the system reports another error; it may do so of a drive that is
\* there, which then counts as gone.
Poll ==
  /\ pc = "poll"
  /\ \E now \in {inserted[i], FALSE} :
       LET was   == i \in ports_cnt
           ticks == Ticks(now, was, automountCount[i])
           rr    == Event(now, was, ticks)
       IN  /\ ports_cnt' = IF now THEN ports_cnt \union {i} ELSE ports_cnt \ {i}
           /\ automountCount' = [automountCount EXCEPT ![i] = CountLeft(now, was, ticks)]
           /\ seen' = [seen EXCEPT ![i] = IF ~now THEN 0 ELSE IF @ < Delay THEN @ + 1 ELSE Delay]
           /\ steady' = IF now THEN steady ELSE steady \ {i}
           /\ \/ rr = "mount" /\ Unmount(i) /\ i' = i /\ pc' = "mount"
              \/ rr = "unmount" /\ Unmount(i) /\ Advance
              \/ /\ rr = "nothing" /\ Advance
                 /\ UNCHANGED dev_fd \/ (~inserted[i] /\ Shutdown(i))
                 /\ UNCHANGED <<mounts, devoptab, pulled>>
  /\ UNCHANGED <<drive, inserted, plugs, nTry, call, cur_device, failed, leaked>>

-----------------------------------------------------------------------------
(* ntfsMountDevice *)

\* Partition q of this drive, or the whole drive, did not mount.
Fails(q) == failed' = IF i \in steady THEN failed \union {<<i, q>>} ELSE failed

\* The drive is opened and its partition table read to the end.
FindPartitions ==
  /\ pc = "mount"
  /\ Reads(i)
  /\ dev_fd' = [dev_fd EXCEPT ![i] = Startup(i)]
  /\ pc' = "partition"
  /\ UNCHANGED <<env, call, i, nTry, ports_cnt, automountCount, mounts, devoptab, cur_device, seen,
                 failed, leaked, pulled>>

\* It cannot be opened, or read.
FindNoPartitions ==
  /\ pc = "mount"
  /\ MayClose(i)
  /\ Fails(0)
  /\ Advance
  /\ UNCHANGED <<env, nTry, ports_cnt, automountCount, mounts, devoptab, call, cur_device, seen,
                 leaked, pulled>>

\* A record behind the first one of a chain cannot be read, as the drive is
\* pulled out in the middle or for another reason, or the chain comes back to
\* itself: the search reads on for ever. Nothing in its loop opens the device
\* again. (A search that gets over an error in the end is FindPartitions.)
SearchEndless ==
  /\ pc = "mount" /\ i \in Chained
  /\ Reads(i)
  /\ MayClose(i)
  /\ pc' = "endless"
  /\ UNCHANGED <<env, call, i, nTry, ports_cnt, automountCount, mounts, devoptab, cur_device, seen,
                 failed, leaked, pulled>>

NameTaken(kind, n) == \E v \in devoptab : v.kind = kind /\ v.n = n

\* The next name that is not taken; the last one stands for "no name".
NextName(kind) ==
  CHOOSE n \in k..(MaxMounts - 1) :
    /\ n = MaxMounts - 1 \/ ~NameTaken(kind, n)
    /\ \A m \in k..(n - 1) : NameTaken(kind, m)

NoName == MaxMounts - 1

MountPartition ==
  /\ pc = "partition" /\ j <= Len(drive[i])
  /\ LET kind == drive[i][j]
         n    == NextName(kind)
         v    == [kind |-> kind, n |-> n, port |-> i, plug |-> plugs[i]]
     IN  /\ n # NoName
         /\ \/ /\ Reads(i)
               /\ dev_fd' = [dev_fd EXCEPT ![i] = Startup(i)]
               /\ devoptab' = devoptab \union {v} /\ new' = Append(new, v) /\ UNCHANGED failed
            \/ MayClose(i) /\ Fails(j) /\ UNCHANGED <<devoptab, new>>
         /\ k' = n + 1
  /\ j' = j + 1
  /\ UNCHANGED <<env, pc, i, nTry, ports_cnt, automountCount, mounts, cur_device, seen, leaked,
                 pulled>>

\* EADDRNOTAVAIL: -1 is returned, and what is mounted stays.
NamesExhausted ==
  /\ pc = "partition" /\ j <= Len(drive[i])
  /\ NextName(drive[i][j]) = NoName
  /\ leaked' = TRUE
  /\ Advance /\ Forget
  /\ UNCHANGED <<env, nTry, ports_cnt, automountCount, mounts, devoptab, dev_fd, cur_device,
                 seen, failed, pulled>>

MountDone ==
  /\ pc = "partition" /\ j > Len(drive[i])
  /\ mounts' = [mounts EXCEPT ![i] = new]
  /\ Advance /\ Forget
  /\ UNCHANGED <<env, nTry, ports_cnt, automountCount, devoptab, dev_fd, cur_device,
                 seen, failed, leaked, pulled>>

\* There is no memory for the descriptors: 0 is returned.
MountNoMemory ==
  /\ pc = "partition" /\ j > Len(drive[i]) /\ new # <<>>
  /\ leaked' = TRUE
  /\ Advance /\ Forget
  /\ UNCHANGED <<env, nTry, ports_cnt, automountCount, mounts, devoptab, dev_fd, cur_device,
                 seen, failed, pulled>>

-----------------------------------------------------------------------------
(* The rest of main *)

\* NTFS_Test_Device for ntfs0, ntfs1, ...
Found == {n \in 0..(Tested - 1) : \E p \in Port : \E v \in Range(mounts[p]) : v.kind = "ntfs" /\ v.n = n}

TestFound ==
  /\ pc = "test" /\ Found # {}
  /\ cur_device' = CHOOSE n \in Found : \A m \in Found : n <= m
  /\ pc' = "list"
  /\ UNCHANGED <<env, i, nTry, ports_cnt, automountCount, mounts, devoptab, dev_fd, call, seen,
                 failed, leaked, pulled>>

\* Mutated form of TestNone: tries are not counted.
TestNoneUncounted ==
  /\ pc = "test" /\ Found = {}
  /\ i' = 1 /\ pc' = "poll"
  /\ UNCHANGED <<env, nTry, ports_cnt, automountCount, mounts, devoptab, dev_fd, call, cur_device,
                 seen, failed, leaked, pulled>>

TestNone ==
  /\ pc = "test" /\ Found = {}
  /\ nTry' = nTry + 1
  /\ i' = 1
  /\ pc' = IF nTry' < MaxTry THEN "poll" ELSE "unmount"
  /\ UNCHANGED <<env, ports_cnt, automountCount, mounts, devoptab, dev_fd, call, cur_device, seen,
                 failed, leaked, pulled>>

\* generate_list for the four folders.
GenerateLists ==
  /\ pc = "list"
  /\ pc' = "unmount" /\ i' = 1
  /\ LET p == CHOOSE p \in Port : \E v \in Range(mounts[p]) : v.kind = "ntfs" /\ v.n = cur_device
     IN  UNCHANGED dev_fd \/ (~(inserted[p] /\ dev_fd[p] = plugs[p]) /\ Shutdown(p))
  /\ UNCHANGED <<env, nTry, ports_cnt, automountCount, mounts, devoptab, call, cur_device, seen,
                 failed, leaked, pulled>>

\* NTFS_UnMountAll.
UnmountNext ==
  /\ pc = "unmount"
  /\ Unmount(i)
  /\ IF i < Ports THEN i' = i + 1 /\ pc' = pc ELSE i' = i /\ pc' = "finished"
  /\ UNCHANGED <<env, nTry, ports_cnt, automountCount, call, cur_device, seen, failed, leaked>>

Main ==
  \/ Poll \/ FindPartitions \/ FindNoPartitions \/ SearchEndless \/ MountPartition
  \/ NamesExhausted \/ MountDone \/ MountNoMemory \/ TestFound \/ TestNone \/ GenerateLists \/ UnmountNext

Next == Main \/ \E p \in Port : Plug(p) \/ Unplug(p)

Spec == Init /\ [][Next]_vars /\ WF_vars(Main)

-----------------------------------------------------------------------------
(* Properties *)

Volume == [kind : {"ntfs", "ext"}, n : 0..(MaxMounts - 2), port : Port, plug : 1..MaxPlugs]

\* Types; the delay counter stays within the delay.
TypeOK ==
  /\ inserted \in [Port -> BOOLEAN] /\ i \in Port /\ nTry \in 0..MaxTry
  /\ ports_cnt \subseteq Port /\ dev_fd \in [Port -> 0..MaxPlugs]
  /\ automountCount \in [Port -> 0..(Delay - 1)]
  /\ mounts \in [Port -> Seq(Volume)] /\ devoptab \subseteq Volume
  /\ cur_device \in (0..(Tested - 1)) \union {None}

InCall == pc = "partition"

\* Unless a mount call gave up half-way, a volume is mounted exactly when the
\* descriptor of its port names it: nothing stays behind when a drive is
\* pulled or mounted again.
EveryMountKnown ==
  ~leaked =>
    devoptab = (UNION {Range(mounts[p]) : p \in Port}) \union (IF InCall THEN Range(new) ELSE {})

\* What a volume that is mounted reads and writes is the drive it was mounted
\* from: its device is that drive or, once an access found the drive gone, it
\* is closed. A drive that is pulled during its own mount call is the
\* exception: when the device is closed under the volumes mounted up to then,
\* the next partition opens whatever drive is there by now, for all of them.
OwnDrive ==
  ~leaked => \A v \in devoptab : v.port \notin pulled => dev_fd[v.port] \in {0, v.plug}

\* A drive is mounted only when the last Delay polls all saw it, and a drive
\* the last poll missed has no volume mounted.
SettledBeforeMount ==
  \A p \in Port : (pc = "mount" /\ i = p) \/ mounts[p] # <<>> => seen[p] = Delay

\* When no volume was found, no drive that every poll has seen begins with
\* mountable NTFS partitions: the delay ends before the tries do. (Behind an
\* ext partition an NTFS volume may get a name that is not looked for, as the
\* two kinds of names share a counter.)
DriveFound ==
  pc = "finished" /\ cur_device = None /\ ~leaked =>
    \A p \in steady : \A q \in 1..Len(drive[p]) :
      (q <= Tested /\ \A m \in 1..q : drive[p][m] = "ntfs") => {<<p, 0>>, <<p, q>>} \intersect failed # {}

\* The list generator ends, drive or no drive and whatever is pulled out when,
\* with one exception: the partition search of a drive that has a chain of
\* extended boot records need not return.
Ends == <>(pc = "finished" \/ (pc = "endless" /\ i \in Chained))
=============================================================================
