-------------------------- MODULE RawSecIsoProofs --------------------------
(***************************************************************************)
(* The safety properties of RawSecIso, for every set of disc types.        *)
(***************************************************************************)
EXTENDS RawSecIso, TLAPS

\* Exactly what rawseciso_thread holds when it is about to take a step.
Owns(step) ==
  CASE step = "open" -> {"args"}
    [] step = "port" -> {"args", "handle"}
    [] step \in {"queue", "disctype", "eject", "mount", "insert", "insertfailed",
                 "mountfailed", "receive", "process", "reply", "freeargs"} ->
         {"args", "handle", "port"}
    [] step \in {"disctype2", "eject2", "umount", "insert2", "release"} ->
         {"handle", "port"}
    [] OTHER -> {}

Serving      == {"receive", "process", "reply"}
ShuttingDown == {"freeargs", "disctype2", "eject2", "umount", "insert2", "release"}

\* Resources: what is held follows from where the thread is.
OwnershipInv ==
  /\ pc # "none" => owned = Owns(pc)
  /\ cd_cache => pc \in Serving \cup ShuttingDown
  /\ thread_created <=> pc # "none"
  /\ start_pc = "call" => pc = "none"

\* Where the worker relies on the type it was told last.
Trusting == {"eject", "mount", "insertfailed", "eject2", "umount", "insert2"}

\* Disc: the system sees nothing, or what is really there to be seen, unless
\* the disc was exchanged behind the worker's back.
DiscInv ==
  /\ \/ effective \in {"none", Visible}
     \/ changed /\ pc \in {"insert", "mountfailed", "release", "exited"}
  /\ mounted => pc \in {"insert", "freeargs", "disctype2", "eject2", "umount"} \cup Serving
  /\ request # NoCmd => mounted
  /\ pc \in Trusting /\ ~changed => real_disctype = drive
  /\ pc = "mount" /\ ~changed => effective = "none"
  /\ pc = "insert" => mounted
  /\ pc = "umount" /\ mounted => effective = "none"
  /\ pc \in {"mountfailed", "release"} /\ ~changed => effective = Visible
  /\ app_pc = "umount" =>
       /\ pc \in Serving \cup ShuttingDown \cup {"exited"}
       /\ mounted => effective = "none"

\* Stop: behind the join of a stop thread there is no worker.
StopInv ==
  /\ stop_pc \in {"finalize", "unloaded"} /\ stop_thread =>
       start_pc = "done" /\ pc \in {"none", "exited"}
  /\ stop_pc \in {"idle", "stray"} => ~stop_thread

StopBegun == stop_pc # "idle" => start_pc = "done"

\* The inductive invariant.
IInv == TypeOK /\ OwnershipInv /\ DiscInv /\ StopInv /\ StopBegun

\* The specification starts in the inductive invariant.
LEMMA InitIInv == Init => IInv
<1> SUFFICES ASSUME Init PROVE IInv
  OBVIOUS
<1>1. TypeOK
  <2>1. ControlTypes
    BY DEF Init, ControlTypes, WorkerSteps, StopSteps
  <2>2. FlagTypes
    BY DEF Init, FlagTypes
  <2>3. DataTypes
    BY DEF Init, DataTypes, Visible, Seen
  <2>4. QueueTypes
    BY DEF Init, QueueTypes, QueueSize
  <2> QED
    BY <2>1, <2>2, <2>3, <2>4 DEF TypeOK
<1>2. OwnershipInv
  BY DEF Init, OwnershipInv
<1>3. DiscInv
  BY DEF Init, DiscInv, Trusting
<1>4. StopInv /\ StopBegun
  BY DEF Init, StopInv, StopBegun
<1> QED
  BY <1>1, <1>2, <1>3, <1>4 DEF IInv

\* Every step preserves the types of the program counters and the queue id.
LEMMA StepControl == IInv /\ [Next]_vars => ControlTypes'
<1> SUFFICES ASSUME IInv, [Next]_vars PROVE ControlTypes'
  OBVIOUS
<1> USE DEF IInv, TypeOK, ControlTypes, WorkerSteps, StopSteps, vars, threads, statics, locals, system
<1>1. CASE \E allocated, created \in BOOLEAN : Start(allocated, created)
  BY <1>1
  DEF Start
<1>2. CASE ThreadStep
  BY <1>2
  DEF ThreadStep, Worker, Open, CreatePort, CreateQueue, Acquires, Fails, GetDiscType,
      FakeEject, FakeInsert, Skip, EjectRealDisc, Mount, InsertAfterMount, MountFailed,
      Receive, ReceiveFails, Process, Reply, ReplyFails, FreeArgs, Umount,
      InsertRealDisc, Release
<1>3. CASE StopCall \/ StrayJoin \/ StopStep
  BY <1>3
  DEF Stopper, StopCall, StrayJoin, StopStep, ClearRunning, DestroyQueue, Join, FinalizeModule
<1>4. CASE \E cmd \in Cmds : Request(cmd)
  BY <1>4
  DEF Request
<1>5. CASE AppEject \/ AppUmount
  BY <1>5
  DEF AppEject, AppUmount
<1>6. CASE \E type \in DiscTypes \cup {0} : ExchangeDisc(type)
  BY <1>6
  DEF ExchangeDisc
<1>7. CASE UNCHANGED vars
  BY <1>7
<1> QED
  BY <1>1, <1>2, <1>3, <1>4, <1>5, <1>6, <1>7 DEF Next

\* Every step preserves the types of the flags.
LEMMA StepFlags == IInv /\ [Next]_vars => FlagTypes'
<1> SUFFICES ASSUME IInv, [Next]_vars PROVE FlagTypes'
  OBVIOUS
<1> USE DEF IInv, TypeOK, FlagTypes, vars, threads, statics, locals, system
<1>1. CASE \E allocated, created \in BOOLEAN : Start(allocated, created)
  BY <1>1
  DEF Start
<1>2. CASE ThreadStep
  <2>1. CASE \/ Open \/ CreatePort \/ CreateQueue \/ GetDiscType("disctype", "eject")
            \/ EjectRealDisc
    BY <2>1
    DEF Worker, Open, CreatePort, CreateQueue, Acquires, Fails, GetDiscType, FakeEject, Skip,
        EjectRealDisc
  <2>2. CASE Mount \/ InsertAfterMount \/ MountFailed
    BY <2>2 DEF Worker, Fails, FakeInsert, Skip, Mount, InsertAfterMount, MountFailed
  <2>3. CASE Receive \/ ReceiveFails \/ Process \/ Reply \/ ReplyFails
    BY <2>3 DEF Worker, Skip, Receive, ReceiveFails, Process, Reply, ReplyFails
  <2>4. CASE \/ FreeArgs \/ GetDiscType("disctype2", "eject2") \/ FakeEject("eject2", "umount")
            \/ Umount \/ InsertRealDisc \/ Release
    BY <2>4 DEF Worker, GetDiscType, FakeEject, FakeInsert, Skip, FreeArgs, Umount, InsertRealDisc,
                Release
  <2> QED
    BY <1>2, <2>1, <2>2, <2>3, <2>4 DEF ThreadStep
<1>3. CASE StopCall \/ StrayJoin \/ StopStep
  BY <1>3
  DEF Stopper, StopCall, StrayJoin, StopStep, ClearRunning, DestroyQueue, Join, FinalizeModule
<1>4. CASE \E cmd \in Cmds : Request(cmd)
  BY <1>4
  DEF Request
<1>5. CASE AppEject \/ AppUmount
  BY <1>5
  DEF AppEject, AppUmount
<1>6. CASE \E type \in DiscTypes \cup {0} : ExchangeDisc(type)
  BY <1>6
  DEF ExchangeDisc
<1>7. CASE UNCHANGED vars
  BY <1>7
<1> QED
  BY <1>1, <1>2, <1>3, <1>4, <1>5, <1>6, <1>7 DEF Next

\* Every step preserves the types of the data.
LEMMA StepData == IInv /\ [Next]_vars => DataTypes'
<1> SUFFICES ASSUME IInv, [Next]_vars PROVE DataTypes'
  OBVIOUS
<1> USE DEF IInv, TypeOK, DataTypes, Cmds, NoCmd, Visible, Seen, vars, threads, statics, locals, system
<1>1. CASE \E allocated, created \in BOOLEAN : Start(allocated, created)
  BY <1>1
  DEF Start
<1>2. CASE ThreadStep
  <2>1. CASE Receive
    <3>1. Head(events) \in Cmds
      BY <2>1 DEF Receive, QueueTypes
    <3> QED
      BY <2>1, <3>1 DEF Receive, Worker
  <2>2. CASE \/ Open \/ CreatePort \/ CreateQueue \/ GetDiscType("disctype", "eject")
            \/ EjectRealDisc
    BY <2>2
    DEF Worker, Open, CreatePort, CreateQueue, Acquires, Fails, GetDiscType, FakeEject, Skip,
        EjectRealDisc
  <2>3. CASE Mount \/ InsertAfterMount \/ MountFailed
    BY <2>3 DEF Worker, Fails, FakeInsert, Skip, Mount, InsertAfterMount, MountFailed
  <2>4. CASE ReceiveFails \/ Process \/ Reply \/ ReplyFails
    BY <2>4 DEF Worker, Skip, ReceiveFails, Process, Reply, ReplyFails
  <2>5. CASE \/ FreeArgs \/ GetDiscType("disctype2", "eject2") \/ FakeEject("eject2", "umount")
            \/ Umount \/ InsertRealDisc \/ Release
    BY <2>5 DEF Worker, GetDiscType, FakeEject, FakeInsert, Skip, FreeArgs, Umount, InsertRealDisc,
                Release
  <2> QED
    BY <1>2, <2>1, <2>2, <2>3, <2>4, <2>5 DEF ThreadStep
<1>3. CASE StopCall \/ StrayJoin \/ StopStep
  BY <1>3
  DEF Stopper, StopCall, StrayJoin, StopStep, ClearRunning, DestroyQueue, Join, FinalizeModule
<1>4. CASE \E cmd \in Cmds : Request(cmd)
  BY <1>4
  DEF Request
<1>5. CASE AppEject \/ AppUmount
  BY <1>5
  DEF AppEject, AppUmount
<1>6. CASE \E type \in DiscTypes \cup {0} : ExchangeDisc(type)
  BY <1>6
  DEF ExchangeDisc
<1>7. CASE UNCHANGED vars
  BY <1>7
<1> QED
  BY <1>1, <1>2, <1>3, <1>4, <1>5, <1>6, <1>7 DEF Next

\* Every step preserves the bound of the command queue.
LEMMA StepQueue == IInv /\ [Next]_vars => QueueTypes'
<1> SUFFICES ASSUME IInv, [Next]_vars PROVE QueueTypes'
  OBVIOUS
<1> USE DEF IInv, TypeOK, QueueTypes, QueueSize, vars, threads, statics, locals, system
<1>1. CASE \E allocated, created \in BOOLEAN : Start(allocated, created)
  BY <1>1
  DEF Start
<1>2. CASE ThreadStep
  BY <1>2
  DEF ThreadStep, Worker, Open, CreatePort, CreateQueue, Acquires, Fails, GetDiscType,
      FakeEject, FakeInsert, Skip, EjectRealDisc, Mount, InsertAfterMount, MountFailed,
      Receive, ReceiveFails, Process, Reply, ReplyFails, FreeArgs, Umount,
      InsertRealDisc, Release
<1>3. CASE StopCall \/ StrayJoin \/ StopStep
  <2>1. events' = events \/ events' = <<>>
    BY <1>3
    DEF Stopper, StopCall, StrayJoin, StopStep, ClearRunning, DestroyQueue, Join, FinalizeModule
  <2>2. <<>> \in Seq(Cmds) /\ Len(<<>>) = 0
    OBVIOUS
  <2>3. CASE events' = <<>>
    BY <2>2, <2>3
  <2>4. CASE events' = events
    BY <2>4
  <2> QED
    BY <2>1, <2>3, <2>4
<1>4. CASE \E cmd \in Cmds : Request(cmd)
  BY <1>4
  DEF Request
<1>5. CASE AppEject \/ AppUmount
  BY <1>5
  DEF AppEject, AppUmount
<1>6. CASE \E type \in DiscTypes \cup {0} : ExchangeDisc(type)
  BY <1>6
  DEF ExchangeDisc
<1>7. CASE UNCHANGED vars
  BY <1>7
<1> QED
  BY <1>1, <1>2, <1>3, <1>4, <1>5, <1>6, <1>7 DEF Next

\* Every step preserves what is known about resources.
LEMMA StepOwnership == IInv /\ [Next]_vars => OwnershipInv'
<1> SUFFICES ASSUME IInv, [Next]_vars PROVE OwnershipInv'
  OBVIOUS
<1> USE DEF IInv, TypeOK, ControlTypes, FlagTypes, OwnershipInv, Owns, Serving, ShuttingDown, vars, threads, statics, locals, system
<1>1. CASE \E allocated, created \in BOOLEAN : Start(allocated, created)
  BY <1>1
  DEF Start
<1>2. CASE ThreadStep
  BY <1>2
  DEF ThreadStep, Worker, Open, CreatePort, CreateQueue, Acquires, Fails, GetDiscType,
      FakeEject, FakeInsert, Skip, EjectRealDisc, Mount, InsertAfterMount, MountFailed,
      Receive, ReceiveFails, Process, Reply, ReplyFails, FreeArgs, Umount,
      InsertRealDisc, Release
<1>3. CASE StopCall \/ StrayJoin \/ StopStep
  BY <1>3
  DEF Stopper, StopCall, StrayJoin, StopStep, ClearRunning, DestroyQueue, Join, FinalizeModule
<1>4. CASE \E cmd \in Cmds : Request(cmd)
  BY <1>4
  DEF Request
<1>5. CASE AppEject \/ AppUmount
  BY <1>5
  DEF AppEject, AppUmount
<1>6. CASE \E type \in DiscTypes \cup {0} : ExchangeDisc(type)
  BY <1>6
  DEF ExchangeDisc
<1>7. CASE UNCHANGED vars
  BY <1>7
<1> QED
  BY <1>1, <1>2, <1>3, <1>4, <1>5, <1>6, <1>7 DEF Next

\* Every step preserves what is known about the disc.
LEMMA StepDisc == IInv /\ [Next]_vars => DiscInv'
<1> SUFFICES ASSUME IInv, [Next]_vars PROVE DiscInv'
  OBVIOUS
<1> USE DEF IInv, TypeOK, ControlTypes, FlagTypes, DataTypes, OwnershipInv, DiscInv, Trusting, NoCmd, Visible, Seen, Serving, ShuttingDown, vars, threads, statics, locals, system
<1>1. CASE \E allocated, created \in BOOLEAN : Start(allocated, created)
  BY <1>1
  DEF Start
<1>2. CASE ThreadStep
  <2>1. CASE Open \/ CreatePort \/ CreateQueue \/ MountFailed \/ FreeArgs \/ Release
    BY <2>1
    DEF Worker, Open, CreatePort, CreateQueue, MountFailed, FreeArgs, Release, Acquires, Fails
  <2>2. CASE GetDiscType("disctype", "eject") \/ GetDiscType("disctype2", "eject2")
    BY <2>2 DEF Worker, GetDiscType
  <2>3. CASE EjectRealDisc \/ FakeEject("eject2", "umount")
    BY <2>3 DEF Worker, EjectRealDisc, FakeEject, Skip
  <2>4. CASE Mount \/ Umount
    <3>1. CASE Mount /\ mounted' = mounted
      BY <3>1 DEF Worker, Mount, Skip
    <3>2. CASE Mount /\ mounted' # mounted
      BY <3>2 DEF Worker, Mount, Skip
    <3>3. CASE Umount
      <4>1. pc = "umount" /\ pc' = "insert2" /\ ~mounted' /\ request' = NoCmd
        BY <3>3 DEF Worker, Umount
      <4>2. UNCHANGED <<app_pc, real_disctype, drive, effective, changed>>
        BY <3>3 DEF Worker, Umount
      <4>3. effective \in {"none", Seen(drive)'}
        BY <4>1, <4>2
      <4> QED
        BY <4>1, <4>2, <4>3
    <3> QED
      BY <2>4, <3>1, <3>2, <3>3
  <2>5. CASE InsertAfterMount
    <3>1. CASE FakeInsert("insert", "receive")
      BY <3>1 DEF Worker, FakeInsert
    <3>2. CASE FakeInsert("insertfailed", "mountfailed")
      BY <3>2 DEF Worker, FakeInsert
    <3> QED
      BY <2>5, <3>1, <3>2 DEF InsertAfterMount
  <2>6. CASE InsertRealDisc
    BY <2>6 DEF Worker, InsertRealDisc, FakeInsert, Skip
  <2>7. CASE Receive \/ ReceiveFails \/ Process \/ Reply \/ ReplyFails
    BY <2>7 DEF Worker, Receive, ReceiveFails, Process, Reply, ReplyFails, Skip
  <2> QED
    BY <1>2, <2>1, <2>2, <2>3, <2>4, <2>5, <2>6, <2>7 DEF ThreadStep
<1>3. CASE StopCall \/ StrayJoin \/ StopStep
  BY <1>3
  DEF Stopper, StopCall, StrayJoin, StopStep, ClearRunning, DestroyQueue, Join, FinalizeModule
<1>4. CASE \E cmd \in Cmds : Request(cmd)
  BY <1>4
  DEF Request
<1>5. CASE AppEject \/ AppUmount
  BY <1>5
  DEF AppEject, AppUmount
<1>6. CASE \E type \in DiscTypes \cup {0} : ExchangeDisc(type)
  BY <1>6
  DEF ExchangeDisc
<1>7. CASE UNCHANGED vars
  BY <1>7
<1> QED
  BY <1>1, <1>2, <1>3, <1>4, <1>5, <1>6, <1>7 DEF Next

\* Every step preserves what is known about the stop.
LEMMA StepStop == IInv /\ [Next]_vars => (StopInv /\ StopBegun)'
<1> SUFFICES ASSUME IInv, [Next]_vars PROVE (StopInv /\ StopBegun)'
  OBVIOUS
<1> USE DEF IInv, TypeOK, ControlTypes, FlagTypes, OwnershipInv, StopInv, StopBegun, vars, threads, statics, locals, system
<1>1. CASE \E allocated, created \in BOOLEAN : Start(allocated, created)
  BY <1>1
  DEF Start
<1>2. CASE ThreadStep
  BY <1>2
  DEF ThreadStep, Worker, Open, CreatePort, CreateQueue, Acquires, Fails, GetDiscType,
      FakeEject, FakeInsert, Skip, EjectRealDisc, Mount, InsertAfterMount, MountFailed,
      Receive, ReceiveFails, Process, Reply, ReplyFails, FreeArgs, Umount,
      InsertRealDisc, Release
<1>3. CASE StopCall \/ StrayJoin \/ StopStep
  BY <1>3
  DEF Stopper, StopCall, StrayJoin, StopStep, ClearRunning, DestroyQueue, Join, FinalizeModule
<1>4. CASE \E cmd \in Cmds : Request(cmd)
  BY <1>4
  DEF Request
<1>5. CASE AppEject \/ AppUmount
  BY <1>5
  DEF AppEject, AppUmount
<1>6. CASE \E type \in DiscTypes \cup {0} : ExchangeDisc(type)
  BY <1>6
  DEF ExchangeDisc
<1>7. CASE UNCHANGED vars
  BY <1>7
<1> QED
  BY <1>1, <1>2, <1>3, <1>4, <1>5, <1>6, <1>7 DEF Next

\* The inductive invariant holds in every reachable state.
THEOREM Invariance == Spec => []IInv
<1>1. Init => IInv
  BY InitIInv
<1>2. IInv /\ [Next]_vars => IInv'
  BY StepControl, StepFlags, StepData, StepQueue, StepOwnership, StepDisc, StepStop
  DEF IInv, TypeOK
<1> QED
  BY <1>1, <1>2, PTL DEF Spec

\* Type correctness, and the bound of the command queue, for any disc types.
THEOREM TypeCorrect == Spec => []TypeOK
<1>1. IInv => TypeOK
  BY DEF IInv
<1> QED
  BY <1>1, Invariance, PTL

\* No step of rawseciso_thread touches a resource it does not hold.
THEOREM NoUseAfterRelease == Spec => []UsesWhatItOwns
<1>1. IInv => UsesWhatItOwns
  BY DEF IInv, TypeOK, ControlTypes, WorkerSteps, OwnershipInv, Owns, UsesWhatItOwns, Uses
<1> QED
  BY <1>1, Invariance, PTL

\* Every way out of rawseciso_thread gives everything back.
THEOREM NothingLeaks == Spec => []ExitReleasesAll
<1>1. IInv => ExitReleasesAll
  BY DEF IInv, OwnershipInv, DiscInv, Owns, Serving, ShuttingDown, ExitReleasesAll
<1> QED
  BY <1>1, Invariance, PTL

\* A failed mount and a completed shutdown show the real disc again, unless it
\* was exchanged after the worker asked for it.
THEOREM DiscGivenBack == Spec => []RealDiscBack
<1>1. IInv => RealDiscBack
  BY DEF IInv, DiscInv, RealDiscBack
<1> QED
  BY <1>1, Invariance, PTL

\* A stop that got its thread unmaps the module only behind the last thread and
\* the last read.
THEOREM UnloadIsSafe == Spec => []UnloadedWhenQuiet
<1>1. IInv => UnloadedWhenQuiet
  BY DEF IInv, DiscInv, StopInv, Serving, UnloadedWhenQuiet
<1> QED
  BY <1>1, Invariance, PTL

\* Every step of the plugin and its environment is a step, or a stutter, of
\* the contract of a proxied disc.
LEMMA StepSimulation == IInv /\ [Next]_vars => [Proxy!Next]_(Proxy!v)
<1> SUFFICES ASSUME IInv, [Next]_vars PROVE [Proxy!Next]_(Proxy!v)
  OBVIOUS
<1> USE DEF Proxy!Next, Proxy!v, vars, threads, statics, locals, system
<1>1. CASE \E allocated, created \in BOOLEAN : Start(allocated, created)
  BY <1>1 DEF Start
<1>2. CASE ThreadStep
  <2>1. CASE Mount
    BY <2>1 DEF Mount, Skip, Worker, IInv, TypeOK, FlagTypes, DiscInv, Serving, Proxy!MountIso
  <2>2. CASE Reply
    BY <2>2 DEF Reply, Worker, NoCmd, Proxy!Answer
  <2>3. CASE Umount
    BY <2>3 DEF Umount, Worker, IInv, TypeOK, FlagTypes, DiscInv, Proxy!UmountIso
  <2>4. CASE EjectRealDisc \/ FakeEject("eject2", "umount")
    BY <2>4 DEF EjectRealDisc, FakeEject, Skip, Worker, Proxy!Eject
  <2>5. CASE InsertAfterMount \/ InsertRealDisc
    BY <2>5 DEF InsertAfterMount, InsertRealDisc, FakeInsert, Skip, Worker, Seen, Proxy!Insert
  <2>6. CASE GetDiscType("disctype", "eject") \/ GetDiscType("disctype2", "eject2")
    BY <2>6 DEF GetDiscType, Worker, Proxy!Look
  <2> QED
    BY <1>2, <2>1, <2>2, <2>3, <2>4, <2>5, <2>6
    DEF ThreadStep, Worker, Open, CreatePort, CreateQueue, Acquires, Fails, Skip,
        MountFailed, Receive, ReceiveFails, Process, ReplyFails, FreeArgs, Release
<1>3. CASE StopCall \/ StrayJoin \/ StopStep
  BY <1>3 DEF Stopper, StopCall, StrayJoin, StopStep, ClearRunning, DestroyQueue, Join, FinalizeModule,
              Proxy!Unload
<1>4. CASE \E cmd \in Cmds : Request(cmd)
  BY <1>4 DEF Request, Proxy!Ask
<1>5. CASE AppEject
  BY <1>5 DEF AppEject, Proxy!Eject
<1>6. CASE AppUmount
  BY <1>6 DEF AppUmount, IInv, DiscInv, TypeOK, FlagTypes, Proxy!UmountIso
<1>7. CASE \E type \in DiscTypes \cup {0} : ExchangeDisc(type)
  BY <1>7 DEF ExchangeDisc, Seen, Proxy!Exchange
<1>8. CASE UNCHANGED vars
  BY <1>8
<1> QED
  BY <1>1, <1>2, <1>3, <1>4, <1>5, <1>6, <1>7, <1>8 DEF Next

\* The plugin implements the safety part of the contract of a proxied disc:
\* images come and go only behind an empty drive, and reads are answered once.
THEOREM Implementation == Spec => Proxy!Init /\ [][Proxy!Next]_(Proxy!v)
<1>1. Init => Proxy!Init
  BY DEF Init, Visible, Seen, Proxy!Init
<1> QED
  BY <1>1, Invariance, StepSimulation, PTL DEF Spec

=============================================================================
