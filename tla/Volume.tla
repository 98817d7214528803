------------------------------- MODULE Volume -------------------------------
(***************************************************************************)
(* What a cached volume promises to the file system above it. The caller   *)
(* sees contents; durable is what a restart finds. A call transfers its    *)
(* sectors in order, in pieces. What is written becomes durable later, at  *)
(* the latest when a flush succeeds. A failing read may lose sectors, but  *)
(* only ones whose contents are durable: they are Lost, and read as        *)
(* anything, until they are written again.                                 *)
(***************************************************************************)
EXTENDS Integers

CONSTANTS
  Sector,      \* sectors of the volume
  Data,        \* what a sector may hold
  Lost,        \* not in Data
  Calls        \* calls that are made: [op, sector, left, data]

VARIABLES
  contents, durable,   \* Sector -> Data or Lost
  call,                \* the call in progress; sector and left move on
  piece,               \* what the last step read: sectors and their data
  ok                   \* result of the last call

vars == <<contents, durable, call, piece, ok>>

Value   == Data \union {Lost}
Idle    == [op |-> "idle", sector |-> 0, left |-> 0]
Nothing == [s \in {} |-> Lost]

Init ==
  /\ contents \in [Sector -> Data] /\ durable = contents
  /\ call = Idle /\ piece = Nothing /\ ok = TRUE

Call ==
  /\ call = Idle
  /\ call' \in Calls
  /\ piece' = Nothing
  /\ UNCHANGED <<contents, durable, ok>>

Run(n)   == {s \in Sector : call.sector <= s /\ s < call.sector + n}
Moved(n) == [call EXCEPT !.sector = @ + n, !.left = @ - n]

\* n sectors are read: their contents, if they are not lost.
ReadPiece(n) ==
  /\ call.op = "read"
  /\ piece' \in [Run(n) -> Data]
  /\ \A s \in Run(n) : contents[s] # Lost => piece'[s] = contents[s]
  /\ call' = Moved(n)
  /\ UNCHANGED <<contents, durable, ok>>

\* n sectors are written. The durable value of a lost one is unknown.
WritePiece(n) ==
  /\ call.op = "write"
  /\ contents' = [s \in Sector |-> IF s \in Run(n) THEN call.data ELSE contents[s]]
  /\ durable' \in [Sector -> Value]
  /\ \A s \in Sector :
       \/ durable'[s] = durable[s]
       \/ s \in Run(n) /\ (durable'[s] = call.data \/ durable[s] = Lost)
  /\ call' = Moved(n)
  /\ piece' = Nothing
  /\ UNCHANGED ok

\* Some contents become durable.
Save ==
  /\ durable' \in [Sector -> Value]
  /\ \A s \in Sector : durable'[s] \in {durable[s], contents[s]}
  /\ piece' = Nothing
  /\ UNCHANGED <<contents, call, ok>>

\* A call succeeds when everything is transferred, or durable.
Succeed ==
  /\ \/ call.op \in {"read", "write"} /\ call.left = 0
     \/ call.op = "flush" /\ contents = durable
  /\ call' = Idle /\ ok' = TRUE /\ piece' = Nothing
  /\ UNCHANGED <<contents, durable>>

\* A call fails. Some contents may have become durable, some sectors of a
\* write may have been written, and a read may have lost durable sectors.
Fail ==
  /\ call # Idle
  /\ contents' \in [Sector -> Value] /\ durable' \in [Sector -> Value]
  /\ \A s \in Sector :
       \/ contents'[s] = contents[s] /\ durable'[s] \in {durable[s], contents[s]}
       \/ /\ call.op = "write" /\ s \in Run(call.left)
          /\ contents'[s] = call.data /\ durable'[s] = call.data
       \/ /\ call.op = "read" /\ contents[s] = durable[s]
          /\ contents'[s] = Lost /\ durable'[s] = Lost
  /\ call' = Idle /\ ok' = FALSE /\ piece' = Nothing

\* What is not durable is gone.
Restart ==
  /\ contents' = durable
  /\ call' = Idle /\ piece' = Nothing
  /\ UNCHANGED <<durable, ok>>

Next ==
  \/ Call \/ (\E n \in 1..call.left : ReadPiece(n) \/ WritePiece(n))
  \/ Save \/ Succeed \/ Fail \/ Restart

Spec == Init /\ [][Next]_vars
=============================================================================
