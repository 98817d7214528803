----------------------------- MODULE FtpServer -----------------------------
(***************************************************************************)
(* The FTP server the launcher runs in the background (source/ftp): the    *)
(* listening thread, one thread per client, and what a session remembers   *)
(* from one command to the next: its data connection and restart point.    *)
(* Files and sockets are external: a call on them may succeed or fail. The *)
(* counter ftp_clients is left out, because nothing reads it, and so is    *)
(* the working directory: commands on files may succeed or fail in any.    *)
(***************************************************************************)
EXTENDS Integers

CONSTANTS
  Client,          \* connections to the server
  MaxRest,         \* bound: largest restart point
  MaxChunks        \* bound: buffers of one transfer

ASSUME FtpAssumption == MaxRest \in Nat /\ MaxChunks \in Nat

VARIABLES
  exitapp,
  server,          \* handleconnections: where the listening thread is
  thread,          \* handleclient: where the thread of each client is
  loggedin,
  data_s,          \* whether the data socket is open
  rest,            \* restart point
  taken, put,      \* transfer: buffers taken from the source, put to the sink
  reply,           \* code of the final reply to the last command, or 0
  recent           \* history: what was asked for since the last other command

session == <<loggedin, data_s, rest, taken, put, reply, recent>>
vars    == <<exitapp, server, thread, session>>

Init ==
  /\ exitapp = FALSE /\ server = "none"
  /\ thread = [c \in Client |-> "none"]
  /\ loggedin = [c \in Client |-> FALSE]
  /\ data_s = [c \in Client |-> FALSE]
  /\ rest = [c \in Client |-> 0]
  /\ taken = [c \in Client |-> 0] /\ put = [c \in Client |-> 0]
  /\ reply = [c \in Client |-> 0]
  /\ recent = [c \in Client |-> {}]

-----------------------------------------------------------------------------
(* main_ftp and handleconnections *)

\* main_ftp(0). Without a socket to listen on the thread ends at once.
StartServer ==
  /\ server = "none"
  /\ server' \in {"check", "gone"}
  /\ UNCHANGED <<exitapp, thread, session>>

\* main_ftp(1), when the launcher exits.
StopServer ==
  /\ server # "none"
  /\ exitapp' = TRUE
  /\ UNCHANGED <<server, thread, session>>

\* Mutated form of Listen: exitapp is not looked at.
ListenForever ==
  /\ server = "check"
  /\ server' = "accept"
  /\ UNCHANGED <<exitapp, thread, session>>

Listen ==
  /\ server = "check"
  /\ server' = IF exitapp THEN "gone" ELSE "accept"
  /\ UNCHANGED <<exitapp, thread, session>>

\* A client connects; the connection waits in the backlog.
Connect(c) ==
  /\ thread[c] = "none" /\ server \in {"check", "accept"}
  /\ thread' = [thread EXCEPT ![c] = "waiting"]
  /\ UNCHANGED <<exitapp, server, session>>

At(c, from, to) == thread[c] = from /\ thread' = [thread EXCEPT ![c] = to]

\* accept. Nobody looks whether the thread was created.
Accept(c) ==
  /\ server = "accept"
  /\ At(c, "waiting", "new") \/ At(c, "waiting", "gone")
  /\ server' = "check"
  /\ UNCHANGED <<exitapp, session>>

-----------------------------------------------------------------------------
(* handleclient *)

\* Without network information the thread ends and closes nothing.
Welcome(c) ==
  /\ At(c, "new", "check") \/ At(c, "new", "gone")
  /\ UNCHANGED <<exitapp, server, session>>

\* The condition of the loop, up to recv.
Loop(c) ==
  /\ IF exitapp THEN At(c, "check", "out") ELSE At(c, "check", "recv")
  /\ reply' = [reply EXCEPT ![c] = 0]
  /\ UNCHANGED <<exitapp, server, loggedin, data_s, rest, taken, put, recent>>

\* recv says that the client is gone.
HangUp(c) ==
  /\ At(c, "recv", "out")
  /\ UNCHANGED <<exitapp, server, session>>

Leave(c) ==
  /\ At(c, "out", "gone")
  /\ data_s' = [data_s EXCEPT ![c] = FALSE]
  /\ UNCHANGED <<exitapp, server, loggedin, rest, taken, put, reply, recent>>

\* A command is received; the thread goes on to state to, having replied code.
Command(c, to, code, asked) ==
  /\ At(c, "recv", to)
  /\ reply' = [reply EXCEPT ![c] = code]
  /\ recent' = [recent EXCEPT ![c] = asked]
  /\ UNCHANGED server

\* Mutated form of CloseData: the restart point stays.
CloseDataOnly(c) ==
  /\ data_s' = [data_s EXCEPT ![c] = FALSE]
  /\ UNCHANGED rest

\* The end of a command, unless dataactive is set.
CloseData(c) ==
  /\ data_s' = [data_s EXCEPT ![c] = FALSE]
  /\ rest' = [rest EXCEPT ![c] = 0]

\* A command that leaves nothing behind but a closed data connection.
Answer(c, codes) ==
  /\ loggedin[c]
  /\ \E code \in codes : Command(c, "check", code, {})
  /\ CloseData(c)
  /\ UNCHANGED <<exitapp, loggedin, taken, put>>

(* Logging in *)

\* USER, PASS without a password, and any other command but QUIT.
Refuse(c) ==
  /\ ~loggedin[c]
  /\ \E code \in {331, 501, 530} : Command(c, "check", code, {})
  /\ UNCHANGED <<exitapp, loggedin, data_s, rest, taken, put>>

\* With DISABLE_PASS any password will do.
Pass(c) ==
  /\ ~loggedin[c]
  /\ Command(c, "check", 230, {})
  /\ loggedin' = [loggedin EXCEPT ![c] = TRUE]
  /\ UNCHANGED <<exitapp, data_s, rest, taken, put>>

Quit(c) ==
  /\ Command(c, "out", 221, {})
  /\ loggedin[c] => CloseData(c)
  /\ ~loggedin[c] => UNCHANGED <<data_s, rest>>
  /\ UNCHANGED <<exitapp, loggedin, taken, put>>

(* Data connections. A new socket takes the place of one that is still open. *)

\* PASV sends the address of a listening socket, and waits.
Pasv(c) ==
  /\ loggedin[c]
  /\ Command(c, "pasv", 227, {"data"})
  /\ rest' = [rest EXCEPT ![c] = 0]
  /\ UNCHANGED <<exitapp, loggedin, data_s, taken, put>>

PasvNoSocket(c) == Answer(c, {451})

PasvAccept(c) ==
  /\ At(c, "pasv", "check")
  /\ data_s' = [data_s EXCEPT ![c] = TRUE]
  /\ UNCHANGED <<exitapp, server, loggedin, rest, taken, put, reply, recent>>

PasvFails(c) ==
  /\ At(c, "pasv", "check")
  /\ reply' = [reply EXCEPT ![c] = 451]
  /\ CloseData(c)
  /\ UNCHANGED <<exitapp, server, loggedin, taken, put, recent>>

\* PORT: the server connects.
Port(c) ==
  /\ loggedin[c]
  /\ Command(c, "check", 200, {"data"})
  /\ data_s' = [data_s EXCEPT ![c] = TRUE]
  /\ rest' = [rest EXCEPT ![c] = 0]
  /\ UNCHANGED <<exitapp, loggedin, taken, put>>

\* No address, half of one, or nobody there.
PortFails(c) == Answer(c, {451, 501})

Type(c) ==
  /\ loggedin[c]
  /\ Command(c, "check", 200, recent[c])
  /\ UNCHANGED <<exitapp, loggedin, data_s, rest, taken, put>>

Rest(c, n) ==
  /\ loggedin[c]
  /\ Command(c, "check", 350, recent[c] \union {"rest"})
  /\ rest' = [rest EXCEPT ![c] = n]
  /\ UNCHANGED <<exitapp, loggedin, data_s, taken, put>>

(* Other commands *)

\* LIST, MLSD and NLST.
Listing(c) == Answer(c, IF data_s[c] THEN {226, 550} ELSE {425})

\* CWD, CDUP and PWD.
Directory(c) == Answer(c, {250, 257, 550})

\* DELE, MKD, RMD, RNFR and RNTO.
FileCommand(c) == Answer(c, {250, 257, 350, 501, 550})

\* MLST, FEAT, ABOR, SIZE, SYST, MDTM, USER and PASS; NOOP; REST without a
\* point; and what is no command.
Inquire(c) == Answer(c, {200, 211, 213, 215, 226, 230, 250, 500, 501, 550})

SiteReplies(cmd) ==
  CASE cmd = "CHMOD"   -> {250, 501, 550}
    [] cmd = "HELP"    -> {214}
    [] cmd = "EXITAPP" -> {221}
    [] OTHER           -> {500}

Site(c, cmd) ==
  /\ loggedin[c]
  /\ \E code \in SiteReplies(cmd) : Command(c, "check", code, {})
  /\ CloseData(c)
  /\ exitapp' = (exitapp \/ cmd = "EXITAPP")
  /\ UNCHANGED <<loggedin, taken, put>>

(* Transfers *)

\* STOR and RETR that begin: the file was opened, and seeked or truncated.
Transfer(c, to) ==
  /\ loggedin[c] /\ data_s[c]
  /\ Command(c, to, 0, recent[c])
  /\ UNCHANGED <<exitapp, loggedin, data_s, rest, taken, put>>

\* No data connection, no name, no such file, no memory.
TransferRefused(c) == Answer(c, IF data_s[c] THEN {451, 501, 550} ELSE {425})

\* A transfer ends with reply code, and the data connection with it.
Finish(c, from, code) ==
  /\ At(c, from, "check")
  /\ reply' = [reply EXCEPT ![c] = code]
  /\ recent' = [recent EXCEPT ![c] = {}]
  /\ CloseData(c)
  /\ taken' = [taken EXCEPT ![c] = 0] /\ put' = [put EXCEPT ![c] = 0]
  /\ UNCHANGED <<exitapp, server, loggedin>>

Chunk(c, from) ==
  /\ thread[c] = from /\ taken[c] < MaxChunks
  /\ taken' = [taken EXCEPT ![c] = @ + 1]

Goes(c) ==
  /\ put' = [put EXCEPT ![c] = @ + 1]
  /\ UNCHANGED <<exitapp, server, thread, loggedin, data_s, rest, reply, recent>>

\* recvfile: a buffer arrives and is written.
StoreChunk(c) == Chunk(c, "stor") /\ Goes(c)

\* Mutated form of StoreFails: the loop goes on.
StoreFailsUnnoticed(c) ==
  /\ Chunk(c, "stor")
  /\ UNCHANGED <<exitapp, server, thread, loggedin, data_s, rest, put, reply, recent>>

\* It is not, or not all of it; or recv fails, and as many bytes as -1 stands
\* for cannot be written.
StoreFails(c) == Finish(c, "stor", 451)

StoreEnds(c) == Finish(c, "stor", 226)

\* sendfile: a buffer is read and sent.
SendChunk(c) == Chunk(c, "retr") /\ Goes(c)

\* send takes less than it was given.
SendShort(c) == Finish(c, "retr", 451)

\* send fails: -1 as an unsigned number is not less than the length.
SendFails(c) ==
  /\ Chunk(c, "retr")
  /\ UNCHANGED <<exitapp, server, thread, loggedin, data_s, rest, put, reply, recent>>

\* Nothing is left to read, or reading fails.
SendEnds(c) == Finish(c, "retr", 226)

-----------------------------------------------------------------------------

Serve(c) ==
  \/ Welcome(c) \/ Loop(c) \/ Leave(c)
  \/ StoreFails(c) \/ StoreEnds(c) \/ SendShort(c) \/ SendEnds(c)

Receive(c) ==
  \/ HangUp(c) \/ Refuse(c) \/ Pass(c) \/ Quit(c)
  \/ Pasv(c) \/ PasvNoSocket(c) \/ PasvAccept(c) \/ PasvFails(c) \/ Port(c) \/ PortFails(c)
  \/ Type(c) \/ (\E n \in 0..MaxRest : Rest(c, n))
  \/ Listing(c) \/ Directory(c) \/ FileCommand(c) \/ Inquire(c)
  \/ (\E cmd \in {"CHMOD", "HELP", "EXITAPP", "PASSWD"} : Site(c, cmd))
  \/ (\E to \in {"stor", "retr"} : Transfer(c, to)) \/ TransferRefused(c)
  \/ StoreChunk(c) \/ SendChunk(c) \/ SendFails(c)

AcceptAny == \E c \in Client : Accept(c)

Next ==
  \/ StartServer \/ StopServer \/ Listen \/ AcceptAny
  \/ \E c \in Client : Connect(c) \/ Serve(c) \/ Receive(c)

\* The threads run. Nothing is assumed of the clients.
Fairness ==
  /\ WF_vars(Listen) /\ WF_vars(AcceptAny)
  /\ \A c \in Client : WF_vars(Serve(c))

Spec == Init /\ [][Next]_vars /\ Fairness

-----------------------------------------------------------------------------
(* Properties *)

\* A data connection and a restart point serve one command: what a session
\* remembers was asked for after the last one, by PASV, PORT or REST. A stale
\* restart point would make the next STOR keep the head of the old file.
UsedOnce ==
  \A c \in Client :
    /\ data_s[c] => "data" \in recent[c]
    /\ rest[c] # 0 => "rest" \in recent[c]

\* "226 Transfer complete" after STOR: all that was received was written.
StoredWhole ==
  [][\A c \in Client : thread[c] = "stor" /\ reply'[c] = 226 => put[c] = taken[c]]_vars

\* A connection made after the stop lets the listening thread see it.
NextConnectionStops == (exitapp /\ \E c \in Client : thread[c] = "waiting") ~> (server = "gone")

\* ftpcmd.cpp has "// send error" on the way to "451 Transfer failed": "226
\* Transfer complete" after RETR means that all that was read was sent.
SentWhole ==
  [][\A c \in Client : thread[c] = "retr" /\ reply'[c] = 226 => put[c] = taken[c]]_vars
=============================================================================
