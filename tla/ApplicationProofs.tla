------------------------- MODULE ApplicationProofs -------------------------
(***************************************************************************)
(* Proofs about the FTP server, the programs that replace one another and  *)
(* the menu: each by an inductive invariant of its own, and together for   *)
(* the application, of which each behaviour is one of the three.           *)
(***************************************************************************)
EXTENDS Application, TLAPS

-----------------------------------------------------------------------------
(* The FTP server *)

\* Where the thread of a client can be.
Places == {"none", "waiting", "new", "check", "recv", "out", "gone", "pasv", "stor", "retr"}

\* Types of what a session remembers.
SessionType ==
  /\ thread \in [Client -> Places]
  /\ loggedin \in [Client -> BOOLEAN] /\ data_s \in [Client -> BOOLEAN]
  /\ rest \in [Client -> Nat]
  /\ taken \in [Client -> Nat] /\ put \in [Client -> Nat]
  /\ reply \in [Client -> Nat]
  /\ recent \in [Client -> SUBSET {"data", "rest"}]

\* Nobody has a data connection or a restart point before logging in, and who
\* waits for a data connection has asked for it.
LoginInv ==
  \A c \in Client :
    /\ ~loggedin[c] => ~data_s[c] /\ rest[c] = 0
    /\ thread[c] = "pasv" => loggedin[c] /\ "data" \in recent[c]

\* What a STOR took from the connection is what it put into the file.
StoreInv ==
  \A c \in Client :
    /\ thread[c] \notin {"stor", "retr"} => taken[c] = 0 /\ put[c] = 0
    /\ thread[c] = "stor" => put[c] = taken[c]

FtpInv == SessionType /\ LoginInv /\ UsedOnce /\ StoreInv

LEMMA FtpStart == Init => FtpInv
  BY DEF Init, FtpInv, SessionType, Places, LoginInv, UsedOnce, StoreInv

\* The steps of the listening thread and of connections change no session.
LEMMA FtpListenStep ==
  ASSUME FtpInv,
         \/ StartServer \/ StopServer \/ Listen \/ AcceptAny
         \/ \E c \in Client : Connect(c)
  PROVE  FtpInv'
  BY DEF FtpInv, SessionType, Places, LoginInv, UsedOnce, StoreInv, StartServer, StopServer,
         Listen, AcceptAny, Accept, At, Connect, session

LEMMA FtpServeStep ==
  ASSUME FtpInv, NEW c \in Client, Serve(c)
  PROVE  FtpInv'
  <1> USE DEF FtpInv, SessionType, Places, At
  <1>1. CASE Welcome(c)
    BY <1>1 DEF Welcome, session, LoginInv, UsedOnce, StoreInv
  <1>2. CASE Loop(c)
    BY <1>2 DEF Loop, LoginInv, UsedOnce, StoreInv
  <1>3. CASE Leave(c)
    BY <1>3 DEF Leave, LoginInv, UsedOnce, StoreInv
  <1>4. ASSUME NEW from \in {"stor", "retr"}, NEW code \in {226, 451}, Finish(c, from, code)
        PROVE  FtpInv'
    BY <1>4 DEF Finish, CloseData, LoginInv, UsedOnce, StoreInv
  <1> QED
    BY <1>1, <1>2, <1>3, <1>4 DEF Serve, StoreFails, StoreEnds, SendShort, SendEnds

\* A command that closes the data connection, and is over.
LEMMA FtpAnswer ==
  ASSUME FtpInv, NEW c \in Client, NEW codes \in SUBSET Nat, Answer(c, codes)
  PROVE  FtpInv'
  BY DEF FtpInv, SessionType, Places, At, Answer, Command, CloseData, LoginInv, UsedOnce, StoreInv

LEMMA FtpReceiveStep ==
  ASSUME FtpInv, NEW c \in Client, Receive(c)
  PROVE  FtpInv'
  <1>1. CASE HangUp(c)
    BY <1>1 DEF HangUp, FtpInv, SessionType, Places, At, session, LoginInv, UsedOnce, StoreInv
  <1>2. CASE Refuse(c) \/ Pass(c) \/ Quit(c)
    <2>1. CASE Refuse(c)
      BY <2>1 DEF Refuse, FtpInv, SessionType, Places, At, Command, LoginInv, UsedOnce, StoreInv
    <2>2. CASE Pass(c)
      BY <2>2 DEF Pass, FtpInv, SessionType, Places, At, Command, LoginInv, UsedOnce, StoreInv
    <2>3. CASE Quit(c)
      <3>1. CASE loggedin[c]
        <4>1. /\ thread' = [thread EXCEPT ![c] = "out"] /\ recent' = [recent EXCEPT ![c] = {}]
              /\ data_s' = [data_s EXCEPT ![c] = FALSE] /\ rest' = [rest EXCEPT ![c] = 0]
              /\ reply' = [reply EXCEPT ![c] = 221]
              /\ thread[c] = "recv" /\ UNCHANGED <<loggedin, taken, put>>
          BY <2>3, <3>1 DEF Quit, At, Command, CloseData
        <4> QED
          BY <4>1 DEF FtpInv, SessionType, Places, LoginInv, UsedOnce, StoreInv
      <3>2. CASE ~loggedin[c]
        BY <2>3, <3>2 DEF Quit, FtpInv, SessionType, Places, At, Command, LoginInv, UsedOnce,
                          StoreInv
      <3> QED
        BY <3>1, <3>2
    <2> QED
      BY <1>2, <2>1, <2>2, <2>3
  <1>3. CASE Pasv(c) \/ Port(c) \/ Type(c)
    <2>1. CASE Pasv(c)
      BY <2>1 DEF Pasv, FtpInv, SessionType, Places, At, Command, LoginInv, UsedOnce, StoreInv
    <2>2. CASE Port(c)
      BY <2>2 DEF Port, FtpInv, SessionType, Places, At, Command, LoginInv, UsedOnce, StoreInv
    <2>3. CASE Type(c)
      BY <2>3 DEF Type, FtpInv, SessionType, Places, At, Command, LoginInv, UsedOnce, StoreInv
    <2> QED
      BY <1>3, <2>1, <2>2, <2>3
  <1>4. CASE PasvAccept(c) \/ PasvFails(c)
    <2>1. CASE PasvAccept(c)
      BY <2>1 DEF PasvAccept, FtpInv, SessionType, Places, At, LoginInv, UsedOnce, StoreInv
    <2>2. CASE PasvFails(c)
      BY <2>2 DEF PasvFails, FtpInv, SessionType, Places, At, CloseData, LoginInv, UsedOnce,
                  StoreInv
    <2> QED
      BY <1>4, <2>1, <2>2
  <1>5. CASE \E n \in 0..MaxRest : Rest(c, n)
    BY <1>5 DEF Rest, FtpInv, SessionType, Places, At, Command, LoginInv, UsedOnce, StoreInv
  <1>6. CASE \E cmd \in {"CHMOD", "HELP", "EXITAPP", "PASSWD"} : Site(c, cmd)
    BY <1>6 DEF Site, SiteReplies, FtpInv, SessionType, Places, At, Command, CloseData, LoginInv,
                UsedOnce, StoreInv
  <1>7. CASE \E to \in {"stor", "retr"} : Transfer(c, to)
    BY <1>7 DEF Transfer, FtpInv, SessionType, Places, At, Command, LoginInv, UsedOnce, StoreInv
  <1>8. CASE StoreChunk(c) \/ SendChunk(c) \/ SendFails(c)
    BY <1>8 DEF StoreChunk, SendChunk, SendFails, Chunk, Goes, FtpInv, SessionType, Places,
                LoginInv, UsedOnce, StoreInv
  <1>9. CASE \/ PasvNoSocket(c) \/ PortFails(c) \/ Listing(c) \/ Directory(c) \/ FileCommand(c)
             \/ Inquire(c) \/ TransferRefused(c)
    <2>1. PICK codes \in SUBSET Nat : Answer(c, codes)
      BY <1>9 DEF PasvNoSocket, PortFails, Listing, Directory, FileCommand, Inquire, TransferRefused
    <2> QED
      BY <2>1, FtpAnswer
  <1> QED
    BY <1>1, <1>2, <1>3, <1>4, <1>5, <1>6, <1>7, <1>8, <1>9 DEF Receive

LEMMA FtpStep == FtpInv /\ [Next]_vars => FtpInv'
  <1>1. ASSUME FtpInv, UNCHANGED vars
        PROVE  FtpInv'
    BY <1>1 DEF vars, session, FtpInv, SessionType, LoginInv, UsedOnce, StoreInv
  <1> QED
    BY <1>1, FtpListenStep, FtpServeStep, FtpReceiveStep DEF Next

LEMMA FtpStoreStep ==
  ASSUME FtpInv
  PROVE  \A c \in Client : thread[c] = "stor" /\ reply'[c] = 226 => put[c] = taken[c]
  BY DEF FtpInv, StoreInv

\* A data connection or a restart point that a session holds was asked for
\* since its last other command, for every set of clients and every
\* interleaving of their threads.
THEOREM ConnectionsUsedOnce == Spec => []UsedOnce
  BY FtpStart, FtpStep, PTL DEF Spec, FtpInv

\* A STOR that is reported as complete has written all it received.
THEOREM StoresAreWhole == Spec => StoredWhole
  <1>1. Spec => []FtpInv
    BY FtpStart, FtpStep, PTL DEF Spec
  <1>2. FtpInv /\ [Next]_vars =>
          [\A c \in Client : thread[c] = "stor" /\ reply'[c] = 226 => put[c] = taken[c]]_vars
    BY FtpStoreStep
  <1> QED
    BY <1>1, <1>2, PTL DEF Spec, StoredWhole

-----------------------------------------------------------------------------
(* The programs that replace one another *)

\* Nothing failed that lets the menu come up without a new list.
NoTrouble == trouble \intersect {"unlink", "spawn", "fopen", "unsynced"} = {}

\* Nothing failed that leaves a new list without some of its entries.
NothingLost == "entries" \notin trouble

\* The application is past its flag, on its way to the menu.
PastFlag == {"load", "callback", "video", "core"}

\* The flag is up only over a list that was not shown before and, unless entries
\* were lost, is whole. It is down while the list is made, and once the
\* application has seen it.
FlagInv ==
  NoTrouble =>
    /\ flag => fresh
    /\ l_pc \in PastFlag => fresh /\ ~flag
    /\ l_pc = "menu" => ~flag
    /\ l_pc \in {"scan", "entries", "endless"} => ~flag
    /\ l_pc \in {"entries", "finish"} => fresh
    /\ NothingLost /\ (flag \/ l_pc \in PastFlag \union {"menu", "finish"}) => list = "whole"

LauncherInv ==
  /\ flag \in BOOLEAN /\ fresh \in BOOLEAN /\ bRun \in BOOLEAN
  /\ FlagInv /\ UnmountedWhileRunning

LEMMA LauncherStart == L!Init => LauncherInv
  BY DEF L!Init, LauncherInv, FlagInv, NoTrouble, NothingLost, PastFlag, UnmountedWhileRunning,
         L!UnmountedWhileRunning, L!AppAt, L!IsolistAt

LEMMA LauncherStep == LauncherInv /\ [L!Next]_(L!vars) => LauncherInv'
  <1> SUFFICES ASSUME LauncherInv, [L!Next]_(L!vars)
               PROVE  LauncherInv'
    OBVIOUS
  <1> USE DEF LauncherInv, FlagInv, NoTrouble, NothingLost, PastFlag, UnmountedWhileRunning,
              L!UnmountedWhileRunning, L!AppAt, L!IsolistAt, L!files, L!app, L!hist
  <1>1. CASE L!Start
    BY <1>1 DEF L!Start
  <1>2. CASE L!BootEject
    BY <1>2 DEF L!BootEject
  <1>3. CASE L!BootUmount
    BY <1>3 DEF L!BootUmount
  <1>4. CASE L!FlagFound
    BY <1>4 DEF L!FlagFound
  <1>5. CASE L!FlagMissing
    BY <1>5 DEF L!FlagMissing, L!SpawnIsolist
  <1>6. CASE L!LoadModules
    BY <1>6 DEF L!LoadModules
  <1>7. CASE L!RegisterCallback
    BY <1>7 DEF L!RegisterCallback
  <1>8. CASE L!InitVideo
    BY <1>8 DEF L!InitVideo
  <1>9. CASE L!InitCore
    BY <1>9 DEF L!InitCore
  <1>10. CASE L!Rescan
    BY <1>10 DEF L!Rescan, L!SpawnIsolist
  <1>11. CASE L!MountIso
    BY <1>11 DEF L!MountIso
  <1>12. CASE L!ExitGame
    BY <1>12 DEF L!ExitGame
  <1>13. CASE L!ExitApp
    BY <1>13 DEF L!ExitApp
  <1>14. CASE L!ScanStart
    BY <1>14 DEF L!ScanStart
  <1>15. CASE L!ScanEntries
    BY <1>15 DEF L!ScanEntries
  <1>16. CASE L!WriteFlag
    BY <1>16 DEF L!WriteFlag
  <1>17. CASE L!Crash
    BY <1>17 DEF L!Crash
  <1>18. CASE UNCHANGED L!vars
    BY <1>18 DEF L!vars
  <1> QED
    BY <1>1, <1>2, <1>3, <1>4, <1>5, <1>6, <1>7, <1>8, <1>9, <1>10,
       <1>11, <1>12, <1>13, <1>14, <1>15, <1>16, <1>17, <1>18
    DEF L!Next, L!Step

\* Whenever programs die and whatever fails, short of what NoTrouble and
\* NothingLost name, the menu shows a list that was written to its end.
THEOREM MenuIsWhole == L!Spec => []MenuShowsWholeList
  <1>1. LauncherInv => MenuShowsWholeList
    BY DEF LauncherInv, FlagInv, NoTrouble, NothingLost, MenuShowsWholeList, L!MenuShowsWholeList
  <1> QED
    BY LauncherStart, LauncherStep, <1>1, PTL DEF L!Spec

\* Behind the unmount of the boot nothing is mounted, in the application or in
\* the list generator.
THEOREM NothingMounted == L!Spec => []UnmountedWhileRunning
  <1>1. LauncherInv => UnmountedWhileRunning
    BY DEF LauncherInv
  <1> QED
    BY LauncherStart, LauncherStep, <1>1, PTL DEF L!Spec

\* Each time the menu comes up its list was begun since it came up last, short of
\* what NoTrouble names; entries lost on the way do not make it an old one.
THEOREM MenuIsFresh == L!Spec => EachMenuFresh
  <1>1. L!Spec => []LauncherInv
    BY LauncherStart, LauncherStep, PTL DEF L!Spec
  <1>2. LauncherInv =>
          (l_pc = "core" /\ l_pc' = "menu"
             /\ trouble \intersect {"unlink", "spawn", "fopen", "unsynced"} = {} => fresh)
    BY DEF LauncherInv, FlagInv, NoTrouble, PastFlag
  <1> QED
    BY <1>1, <1>2, PTL DEF EachMenuFresh, L!EachMenuFresh

-----------------------------------------------------------------------------
(* The menu *)

MenuType ==
  /\ lines \in Nat /\ nSelectedItem \in Nat /\ nTopItem \in Nat /\ nTotalItem \in Nat
  /\ m_pc \in {"parse", "input", "render", "spawned"}
  /\ m_pc = "parse" => nSelectedItem = 0 /\ nTopItem = 0

\* The selection is an item of the list or, in an empty list, 0; where the pads
\* are read next it lies in the window.
WindowInv ==
  /\ nSelectedItem = 0 \/ nSelectedItem < nTotalItem
  /\ m_pc = "input" => nTopItem <= nSelectedItem /\ nSelectedItem <= nTopItem + ListMax

\* The buttons of the frame before are those of the last data, and a CROSS that
\* has had its effect is among them.
PressInv ==
  /\ mIsButtPressed = buttPressedNow
  /\ fired # {} => "cross" \in mIsButtPressed

MenuInv == MenuType /\ WindowInv /\ PressInv

\* What one call of input may start.
OnePress == m_pc = "input" /\ spawn' = "mount" => by' # M!None /\ by' \notin fired

LEMMA MenuStart == M!Init => MenuInv
  BY MenuAssumption DEF M!Init, MenuInv, MenuType, WindowInv, PressInv

\* Moves stay in the list.
LEMMA MovedInside ==
  ASSUME MenuType, WindowInv, NEW now, NEW stick
  PROVE  /\ M!Moved(now, stick) \in Nat
         /\ M!Moved(now, stick) = 0 \/ M!Moved(now, stick) < nTotalItem
  <1> DEFINE s == IF M!Held("up", now) \/ stick = "low" THEN M!MoveUp(nSelectedItem) ELSE nSelectedItem
  <1>1. s \in Nat /\ (s = 0 \/ s < nTotalItem)
    BY DEF M!MoveUp, MenuType, WindowInv
  <1>2. M!Moved(now, stick) = IF M!Held("down", now) \/ stick = "high" THEN M!MoveDown(s) ELSE s
    BY DEF M!Moved
  <1> HIDE DEF s
  <1> QED
    BY <1>1, <1>2 DEF M!MoveDown, MenuType

\* A call of input, with data of a pad or with those of the frame before.
LEMMA FrameStep ==
  ASSUME MenuInv, m_pc = "input", NEW c, NEW now, NEW stick, M!Frame(c, now, stick),
         c = M!None => now = buttPressedNow
  PROVE  MenuInv' /\ OnePress
  <1> DEFINE mounts == M!Pressed("cross", now) /\ nTotalItem >= 1
  <1>1. m_pc' \in {"render", "spawned"} /\ UNCHANGED <<lines, nTopItem, nTotalItem>>
    BY DEF M!Frame
  <1>2. nSelectedItem' \in Nat /\ (nSelectedItem' = 0 \/ nSelectedItem' < nTotalItem)
    <2>1. CASE nSelInputFrame = Repeat
      BY <2>1, MovedInside DEF M!Frame, MenuInv
    <2>2. CASE nSelInputFrame # Repeat
      BY <2>2 DEF M!Frame, MenuInv, MenuType, WindowInv
    <2> QED
      BY <2>1, <2>2
  <1>3. MenuType' /\ WindowInv'
    BY <1>1, <1>2 DEF MenuInv, MenuType, WindowInv
  <1>4. buttPressedNow' = now /\ mIsButtPressed' = now /\ by' = c
    BY DEF M!Frame, M!FrameEnd
  <1>5. fired' = IF c = M!None THEN fired
                 ELSE IF "cross" \notin now THEN {}
                 ELSE IF spawn' = "mount" THEN {c} ELSE fired \intersect {c}
    BY DEF M!Frame
  <1>6. PressInv'
    BY <1>4, <1>5 DEF MenuInv, PressInv
  <1>7. spawn' = "mount" => mounts
    BY DEF M!Frame
  <1>8. OnePress
    BY <1>4, <1>7 DEF OnePress, M!Pressed, MenuInv, PressInv
  <1> QED
    BY <1>3, <1>6, <1>8 DEF MenuInv

\* The window that is drawn shows the selection.
LEMMA TopItemShows ==
  ASSUME MenuType
  PROVE  M!TopItem \in Nat /\ M!TopItem <= nSelectedItem /\ nSelectedItem <= M!TopItem + ListMax
  <1> DEFINE below == nSelectedItem - ListMax
             low   == IF (nSelectedItem > ListMax \/ nTopItem > 0) /\ nTopItem < below
                      THEN below ELSE nTopItem
             top   == IF (nSelectedItem > ListMax \/ nTopItem > 0) /\ low > 0 /\ nSelectedItem < low
                      THEN nSelectedItem ELSE below
  <1>1. M!TopItem = IF top < 0 THEN 0 ELSE top
    BY DEF M!TopItem
  <1>2. top = nSelectedItem \/ top = nSelectedItem - ListMax
    OBVIOUS
  <1> HIDE DEF top
  <1> QED
    BY <1>1, <1>2, MenuAssumption DEF MenuType

LEMMA MenuStep == MenuInv /\ [M!Next]_(M!vars) => MenuInv' /\ [OnePress]_(M!vars)
  <1> SUFFICES ASSUME MenuInv, [M!Next]_(M!vars)
               PROVE  MenuInv' /\ (OnePress \/ UNCHANGED M!vars)
    OBVIOUS
  <1>1. CASE M!ParseLine
    BY <1>1 DEF M!ParseLine, M!input, MenuInv, MenuType, WindowInv, PressInv, OnePress
  <1>2. CASE M!ParseEnd
    BY <1>2, MenuAssumption
    DEF M!ParseEnd, M!input, MenuInv, MenuType, WindowInv, PressInv, OnePress
  <1>3. ASSUME NEW c \in Pads, M!InputData(c)
        PROVE  MenuInv' /\ OnePress
    BY <1>3, FrameStep, MenuAssumption DEF M!InputData, M!None
  <1>4. CASE M!InputNone
    BY <1>4, FrameStep DEF M!InputNone
  <1>5. CASE M!Render
    BY <1>5, TopItemShows
    DEF M!Render, M!input, MenuInv, MenuType, WindowInv, PressInv, OnePress
  <1>6. CASE UNCHANGED M!vars
    BY <1>6 DEF M!vars, M!input, MenuInv, MenuType, WindowInv, PressInv
  <1> QED
    BY <1>1, <1>2, <1>3, <1>4, <1>5, <1>6 DEF M!Next

\* For every length of the list and of the window: what is selected is an item
\* of the list, and is drawn.
THEOREM SelectionIsShown == M!Spec => []SelectedShown
  <1>1. MenuInv => SelectedShown
    BY MenuAssumption
    DEF MenuInv, MenuType, WindowInv, SelectedShown, M!SelectedShown
  <1> QED
    BY MenuStart, MenuStep, <1>1, PTL DEF M!Spec

\* A press of CROSS mounts once, however often its pad is silent, unless another
\* pad reports without CROSS in between.
THEOREM OnePressOneMount == M!Spec => OneMountPerPress
  BY MenuStart, MenuStep, PTL DEF M!Spec, OneMountPerPress, M!OneMountPerPress, OnePress

-----------------------------------------------------------------------------
(* The application *)

\* Together: what holds of each part holds of the application.
THEOREM ApplicationSafe ==
  AppSpec => [](UsedOnce /\ MenuShowsWholeList /\ UnmountedWhileRunning /\ SelectedShown)
  <1> DEFINE AppInv == FtpInv /\ LauncherInv /\ MenuInv
  <1>1. AppInit => AppInv
    BY FtpStart, LauncherStart, MenuStart DEF AppInit
  <1>2. AppInv /\ [AppNext]_<<part, vars, l_vars, m_vars>> => AppInv'
    <2>1. ASSUME [AppNext]_<<part, vars, l_vars, m_vars>>
          PROVE  [Next]_vars /\ [L!Next]_(L!vars) /\ [M!Next]_(M!vars)
      BY <2>1 DEF AppNext, FtpNext, LauncherNext, MenuNext, l_vars, m_vars, L!vars, L!files,
                  L!app, L!hist, M!vars, M!input
    <2> QED
      BY <2>1, FtpStep, LauncherStep, MenuStep
  <1>3. AppInv => UsedOnce /\ MenuShowsWholeList /\ UnmountedWhileRunning /\ SelectedShown
    BY MenuAssumption
    DEF FtpInv, LauncherInv, FlagInv, NoTrouble, NothingLost, MenuShowsWholeList, L!MenuShowsWholeList,
        MenuInv, MenuType, WindowInv, SelectedShown, M!SelectedShown
  <1> QED
    BY <1>1, <1>2, <1>3, PTL DEF AppSpec
=============================================================================
