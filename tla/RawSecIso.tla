----------------------------- MODULE RawSecIso -----------------------------
(***************************************************************************)
(* The VSH plugin of source/rawseciso/main.c: the thread that publishes an *)
(* ISO to the kernel as a proxied disc and serves its reads, the start and *)
(* stop entry points of the module, and the three parties they talk to:    *)
(* the kernel's proxy, the VSH that watches the drive, and the application *)
(* (source/main.cpp) that unmounts whatever is mounted when it boots.      *)
(* What a read returns is the business of IsoReader, CdCache and           *)
(* CdUserData; here a read only succeeds or fails.                         *)
(***************************************************************************)
EXTENDS Naturals, Sequences

CONSTANTS
  DiscTypes   \* types a disc lying in the drive can have (0 is "no disc")

ASSUME DiscTypesAssumption == DiscTypes \subseteq Nat \ {0}

VARIABLES
  \* threads
  start_pc,       \* rawseciso_start: "call", then "done"
  pc,             \* rawseciso_thread: the step it is about to take
  stop_pc,        \* rawseciso_stop and its thread
  app_pc,         \* main(): "idle", or "umount" between its two calls
  \* statics of the plugin
  running, thread_created, command_queue, cd_cache,
  stop_thread,    \* rawseciso_stop: its t is the id of a thread it created
  \* locals of rawseciso_thread
  owned,          \* resources it must give back: args, handle, port
  real_disctype,  \* the type it was told last
  event,          \* the command it received last
  \* kernel, drive and VSH (external)
  events,         \* contents of command_queue, at most QueueSize
  mounted,        \* the proxied disc is mounted
  request,        \* what the kernel waits for: NoCmd, or a command
  drive,          \* type of the disc in the drive
  effective,      \* what the system thinks is inside: "none", "real", "iso"
  changed         \* history: the disc was exchanged since the worker last asked

threads == <<start_pc, pc, stop_pc, app_pc>>
statics == <<running, thread_created, command_queue, cd_cache, stop_thread>>
locals  == <<owned, real_disctype, event>>
system  == <<events, mounted, request, drive, effective, changed>>
vars    == <<threads, statics, locals, system>>

\* STORAGE_COMMAND; the thread answers commands it does not know as well.
NoCmd == "none"
Cmds  == {"READ_ISO", "READ_CD_ISO_2352", "OTHER"}

\* sys_event_queue_create(&command_queue, &queue_attr, 0, 1)
QueueSize == 1

WorkerSteps ==
  {"none", "open", "port", "queue", "disctype", "eject", "mount", "insert",
   "mountfailed", "insertfailed", "receive", "process", "reply", "freeargs",
   "disctype2", "eject2", "umount", "insert2", "release", "exited"}

StopSteps == {"idle", "flag", "destroy", "join", "stray", "finalize", "unloaded"}

\* A worker whose code was unmapped faults instead of taking its next step.
Worker(from, to) ==
  /\ stop_pc # "unloaded"
  /\ pc = from
  /\ pc' = to
  /\ UNCHANGED <<start_pc, stop_pc, app_pc>>

\* What there is to be seen when the drive holds a disc of this type: a mounted
\* image hides the disc.
Seen(type) == IF mounted THEN "iso" ELSE IF type # 0 THEN "real" ELSE "none"

Visible == Seen(drive)

-----------------------------------------------------------------------------
Init ==
  /\ start_pc = "call" /\ pc = "none" /\ stop_pc = "idle" /\ app_pc = "idle"
  /\ running = TRUE /\ thread_created = FALSE
  /\ command_queue = "none" /\ cd_cache = FALSE /\ stop_thread = FALSE
  /\ owned = {} /\ real_disctype = 0 /\ event = NoCmd
  /\ events = <<>> /\ mounted = FALSE /\ request = NoCmd
  /\ drive \in DiscTypes \cup {0} /\ changed = FALSE
  \* the application ejected and unmounted, or an older plugin gave the disc back
  /\ effective \in {"none", Visible}

-----------------------------------------------------------------------------
(* rawseciso_start *)

Start(allocated, created) ==
  /\ start_pc = "call"
  /\ start_pc' = "done"
  /\ owned' = IF allocated THEN {"args"} ELSE {}
  /\ thread_created' = (allocated /\ created)
  /\ pc' = IF allocated /\ created THEN "open" ELSE "none"
  /\ UNCHANGED <<stop_pc, app_pc, running, command_queue, cd_cache, stop_thread,
                 real_disctype, event, system>>

-----------------------------------------------------------------------------
(* rawseciso_thread: mounting *)

\* A failing call gives back what was acquired before it and ends the thread.
Fails(step, released) ==
  /\ Worker(step, "exited")
  /\ owned' = owned \ released
  /\ UNCHANGED <<statics, real_disctype, event, system>>

Acquires(step, next, resource) ==
  /\ Worker(step, next)
  /\ owned' = owned \cup {resource}
  /\ UNCHANGED <<statics, real_disctype, event, system>>

Open ==
  \/ Acquires("open", "port", "handle")
  \/ Fails("open", {"args"})

CreatePort ==
  \/ Acquires("port", "queue", "port")
  \/ Fails("port", {"handle", "args"})

\* Mutated form of CreateQueue: the failure path forgets the port.
CreateQueueLeaksPort ==
  \/ /\ Worker("queue", "disctype")
     /\ command_queue' = "open"
     /\ UNCHANGED <<running, thread_created, cd_cache, stop_thread, locals, system>>
  \/ Fails("queue", {"handle", "args"})

CreateQueue ==
  \/ /\ Worker("queue", "disctype")
     /\ command_queue' = "open"
     /\ UNCHANGED <<running, thread_created, cd_cache, stop_thread, locals, system>>
  \/ Fails("queue", {"port", "handle", "args"})

GetDiscType(step, next) ==
  /\ Worker(step, next)
  /\ real_disctype' = drive
  /\ changed' = FALSE
  /\ UNCHANGED <<statics, owned, event, events, mounted, request, drive, effective>>

FakeEject(step, next) ==
  /\ Worker(step, next)
  /\ effective' = "none"
  /\ UNCHANGED <<statics, locals, events, mounted, request, drive, changed>>

\* The event carries the type the worker was told, not what is there by now.
FakeInsert(step, next) ==
  /\ Worker(step, next)
  /\ effective' = Seen(real_disctype)
  /\ UNCHANGED <<statics, locals, events, mounted, request, drive, changed>>

Skip(step, next) ==
  /\ Worker(step, next)
  /\ UNCHANGED <<statics, locals, system>>

\* Mutated form of EjectRealDisc: the image is mounted over a visible disc.
EjectNothing == Skip("eject", "mount")

EjectRealDisc ==
  \/ real_disctype # 0 /\ FakeEject("eject", "mount")
  \/ real_disctype = 0 /\ Skip("eject", "mount")

Mount ==
  \/ /\ Worker("mount", "insert")
     /\ mounted' = TRUE
     /\ UNCHANGED <<statics, locals, events, request, drive, effective, changed>>
  \/ Skip("mount", "insertfailed")

InsertAfterMount ==
  \/ FakeInsert("insert", "receive")
  \/ FakeInsert("insertfailed", "mountfailed")

\* Mutated form of MountFailed: the failure path does not leave the thread.
MountFailedGoesOn ==
  /\ Worker("mountfailed", "receive")
  /\ owned' = owned \ {"port", "handle", "args"}
  /\ UNCHANGED <<statics, real_disctype, event, system>>

\* The queue is left to the stop thread.
MountFailed == Fails("mountfailed", {"port", "handle", "args"})

-----------------------------------------------------------------------------
(* rawseciso_thread: serving *)

\* sys_event_queue_receive blocks until there is an event or no queue.
Receive ==
  /\ events # <<>>
  /\ Worker("receive", IF running THEN "process" ELSE "freeargs")
  /\ event' = Head(events)
  /\ events' = Tail(events)
  /\ UNCHANGED <<statics, owned, real_disctype, mounted, request, drive, effective, changed>>

\* Mutated form of ReceiveFails: an error is taken for a spurious wake-up.
ReceiveRetries ==
  /\ command_queue = "destroyed"
  /\ Skip("receive", "receive")

ReceiveFails ==
  /\ command_queue = "destroyed"
  /\ Skip("receive", "freeargs")

\* The read itself; the first command for raw CD sectors allocates cd_cache,
\* if it can.
Process ==
  /\ Worker("process", "reply")
  /\ \/ UNCHANGED cd_cache
     \/ event = "READ_CD_ISO_2352" /\ cd_cache' = TRUE
  /\ UNCHANGED <<running, thread_created, command_queue, stop_thread, locals, system>>

\* The kernel stops waiting when the result port delivers an event.
Reply ==
  /\ Worker("reply", "receive")
  /\ mounted
  /\ request' = NoCmd
  /\ UNCHANGED <<statics, locals, events, mounted, drive, effective, changed>>

ReplyFails == Skip("reply", "freeargs")

-----------------------------------------------------------------------------
(* rawseciso_thread: shutting down *)

FreeArgs ==
  /\ Worker("freeargs", "disctype2")
  /\ owned' = owned \ {"args"}
  /\ UNCHANGED <<statics, real_disctype, event, system>>

\* The kernel gives up on a request that is still pending.
Umount ==
  /\ Worker("umount", "insert2")
  /\ mounted' = FALSE
  /\ request' = NoCmd
  /\ UNCHANGED <<statics, locals, events, drive, effective, changed>>

\* Mutated form of InsertRealDisc: the real disc stays ejected.
InsertNothing == Skip("insert2", "release")

InsertRealDisc ==
  \/ real_disctype # 0 /\ FakeInsert("insert2", "release")
  \/ real_disctype = 0 /\ Skip("insert2", "release")

Release ==
  /\ Worker("release", "exited")
  /\ cd_cache' = FALSE
  /\ owned' = owned \ {"handle", "port"}
  /\ UNCHANGED <<running, thread_created, command_queue, stop_thread, real_disctype, event, system>>

ThreadStep ==
  \/ Open \/ CreatePort \/ CreateQueue
  \/ GetDiscType("disctype", "eject") \/ EjectRealDisc
  \/ Mount \/ InsertAfterMount \/ MountFailed
  \/ Receive \/ ReceiveFails \/ Process \/ Reply \/ ReplyFails
  \/ FreeArgs \/ GetDiscType("disctype2", "eject2") \/ FakeEject("eject2", "umount")
  \/ Umount \/ InsertRealDisc \/ Release

-----------------------------------------------------------------------------
(* rawseciso_stop, and the thread it creates and joins *)

Stopper(from, to) ==
  /\ stop_pc = from
  /\ stop_pc' = to
  /\ UNCHANGED <<start_pc, pc, app_pc, locals>>

\* The module is stopped by a later launch of the mounter, which the
\* application does not start before it finished its own boot. Whether the
\* stop thread could be created is not looked at.
StopCall ==
  /\ start_pc = "done" /\ app_pc = "idle"
  /\ \/ Stopper("idle", "flag") /\ stop_thread' = TRUE
     \/ Stopper("idle", "stray") /\ UNCHANGED stop_thread
  /\ UNCHANGED <<running, thread_created, command_queue, cd_cache, system>>

\* The creation failed unnoticed and the join is given an id that was never set:
\* it fails at once, or waits for whatever thread has that id, maybe for ever.
StrayJoin ==
  /\ Stopper("stray", "finalize")
  /\ UNCHANGED <<statics, system>>

ClearRunning ==
  /\ Stopper("flag", "destroy")
  /\ running' = FALSE
  /\ UNCHANGED <<thread_created, command_queue, cd_cache, stop_thread, system>>

\* Forced: the events still in the queue are lost. A failure is only logged; the
\* queue is then "kept", and works as before.
DestroyQueue ==
  /\ Stopper("destroy", "join")
  /\ \/ /\ command_queue # "none"
        /\ command_queue' = "destroyed"
        /\ events' = <<>>
     \/ /\ command_queue # "none"
        /\ command_queue' = "kept"
        /\ UNCHANGED events
     \/ /\ command_queue = "none"
        /\ UNCHANGED <<command_queue, events>>
  /\ UNCHANGED <<running, thread_created, cd_cache, stop_thread,
                 mounted, request, drive, effective, changed>>

\* Mutated form of Join: the stop thread does not wait for the worker.
JoinNobody ==
  /\ Stopper("join", "finalize")
  /\ UNCHANGED <<statics, system>>

Join ==
  /\ thread_created => pc = "exited"
  /\ Stopper("join", "finalize")
  /\ UNCHANGED <<statics, system>>

FinalizeModule ==
  /\ Stopper("finalize", "unloaded")
  /\ UNCHANGED <<statics, system>>

\* StrayJoin is not among them: nothing says that it ever returns.
StopStep == ClearRunning \/ DestroyQueue \/ Join \/ FinalizeModule

-----------------------------------------------------------------------------
(* The kernel's proxy, one request at a time, the user at the drive, and the *)
(* booting application                                                       *)

Request(cmd) ==
  /\ mounted
  /\ request = NoCmd
  /\ command_queue \in {"open", "kept"}
  /\ Len(events) < QueueSize
  /\ events' = Append(events, cmd)
  /\ request' = cmd
  /\ UNCHANGED <<threads, statics, locals, mounted, drive, effective, changed>>

\* A disc is taken out, put in or exchanged. The system hears of it, unless an
\* image stands in front of the drive.
ExchangeDisc(type) ==
  /\ type # drive
  /\ drive' = type
  /\ effective' = IF mounted THEN effective ELSE Seen(type)
  /\ changed' = TRUE
  /\ UNCHANGED <<threads, statics, locals, events, mounted, request>>

\* The user cannot launch the application before the plugin has settled.
AppEject ==
  /\ app_pc = "idle" /\ stop_pc = "idle"
  /\ pc \in {"receive", "process", "reply"}
  /\ app_pc' = "umount"
  /\ effective' = "none"
  /\ UNCHANGED <<start_pc, pc, stop_pc, statics, locals, events, mounted, request, drive, changed>>

AppUmount ==
  /\ app_pc = "umount"
  /\ app_pc' = "idle"
  /\ mounted' = FALSE
  /\ request' = NoCmd
  /\ UNCHANGED <<start_pc, pc, stop_pc, statics, locals, events, drive, effective, changed>>

Next ==
  \/ \E allocated, created \in BOOLEAN : Start(allocated, created)
  \/ ThreadStep
  \/ StopCall \/ StrayJoin \/ StopStep
  \/ \E cmd \in Cmds : Request(cmd)
  \/ \E type \in DiscTypes \cup {0} : ExchangeDisc(type)
  \/ AppEject \/ AppUmount

\* Threads that can run do run; nobody has to ask for a read or to stop.
Fairness == WF_vars(ThreadStep) /\ WF_vars(StopStep) /\ WF_vars(AppUmount)

Spec == Init /\ [][Next]_vars /\ Fairness

-----------------------------------------------------------------------------
(* Properties *)

ControlTypes ==
  /\ start_pc \in {"call", "done"}
  /\ pc \in WorkerSteps
  /\ stop_pc \in StopSteps
  /\ app_pc \in {"idle", "umount"}
  /\ command_queue \in {"none", "open", "kept", "destroyed"}

FlagTypes ==
  /\ running \in BOOLEAN
  /\ thread_created \in BOOLEAN
  /\ cd_cache \in BOOLEAN
  /\ stop_thread \in BOOLEAN
  /\ changed \in BOOLEAN
  /\ mounted \in BOOLEAN

DataTypes ==
  /\ owned \subseteq {"args", "handle", "port"}
  /\ real_disctype \in DiscTypes \cup {0} /\ drive \in DiscTypes \cup {0}
  /\ event \in Cmds \cup {NoCmd} /\ request \in Cmds \cup {NoCmd}
  /\ effective \in {"none", "real", "iso"}

QueueTypes == events \in Seq(Cmds) /\ Len(events) <= QueueSize

\* Every variable of the plugin and of its environment keeps its type; the
\* command queue never holds more than the one event it was created for.
TypeOK == ControlTypes /\ FlagTypes /\ DataTypes /\ QueueTypes

\* The resources the code of a step touches: args holds the section table
\* that reads walk and the tracks the mount passes on.
Uses(step) ==
  CASE step \in {"open", "freeargs"} -> {"args"}
    [] step \in {"port", "process"} -> {"args", "handle"}
    [] step \in {"queue", "mount", "insert", "insertfailed", "mountfailed",
                 "receive", "disctype", "eject"} -> {"args", "handle", "port"}
    [] step \in {"reply", "disctype2", "eject2", "umount", "insert2", "release"} ->
         {"handle", "port"}
    [] OTHER -> {}

\* No step of rawseciso_thread touches or gives back a resource it no longer
\* (or not yet) holds, on any path through the mounting, serving and shutdown
\* code: no use after free and no double free.
UsesWhatItOwns == Uses(pc) \subseteq owned

\* Whichever way rawseciso_thread ends, it has freed its arguments and the CD
\* cache, closed the device, destroyed its port and left no disc mounted.
ExitReleasesAll == pc = "exited" => owned = {} /\ ~cd_cache /\ ~mounted

\* After the mount failed, and after the shutdown, the system again sees what
\* really lies in the drive, whatever stop and the application did and however
\* often the disc was exchanged while the image was served: real_disctype is
\* asked for again. Only an exchange between the question and the insert event
\* that carries its answer (main.c:437-447, 509-515) leaves the system wrong.
RealDiscBack ==
  pc \in {"mountfailed", "release"} /\ ~changed => effective = Visible

\* A rawseciso_stop that got its thread unmaps the code only when no thread can
\* execute it any more and no read of the kernel depends on it, whether or not
\* the queue could be destroyed. Without the thread (main.c:598, unchecked) the
\* module is unmapped under a running worker: see the README.
UnloadedWhenQuiet ==
  stop_pc = "unloaded" /\ stop_thread =>
    pc \in {"none", "exited"} /\ request = NoCmd /\ ~mounted

\* Once the stop thread has destroyed the queue, nothing keeps it waiting: the
\* worker leaves its receive or its read, shuts down, and the module unloads.
StopCompletes ==
  (stop_pc = "join" /\ command_queue = "destroyed") ~> (stop_pc = "unloaded")

\* What the comments at rawseciso/main.c:452 and :531 rely on: a stop thread that
\* was created tries to destroy the queue the worker created. Refuted: see the
\* README.
QueueDestroyedInStopThread ==
  stop_pc = "unloaded" /\ stop_thread => command_queue # "open"

\* The contract of a proxied disc, as the kernel sees it.
Proxy == INSTANCE ProxiedDisc WITH gone <- stop_pc = "unloaded"
ImplementsProxiedDisc == Proxy!Spec
=============================================================================
