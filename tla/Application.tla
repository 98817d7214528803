---------------------------- MODULE Application ----------------------------
(***************************************************************************)
(* The parts of the application, each for itself: a behaviour is one of    *)
(* its FTP server (FtpServer), of the programs that replace one another    *)
(* (Launcher), or of its menu (Menu). They share no state that any of the  *)
(* three depends on.                                                       *)
(***************************************************************************)
EXTENDS FtpServer

CONSTANTS
  Pads, ListMax, Repeat, Lists   \* of Menu

\* A pad has a number above 0; the window has at least one line.
ASSUME MenuAssumption ==
  /\ 0 \notin Pads
  /\ ListMax \in Nat /\ Lists \subseteq Nat

VARIABLES
  part,
  l_pc, flag, list, fresh, mounted, bRun, ftp_service, modules, trouble,
  lines, m_pc, nSelectedItem, nTopItem, nTotalItem, buttPressedNow, mIsButtPressed,
  mValLStickY, nSelInputFrame, spawn, by, fired

l_vars == <<l_pc, flag, list, fresh, mounted, bRun, ftp_service, modules, trouble>>
m_vars == <<lines, m_pc, nSelectedItem, nTopItem, nTotalItem, buttPressedNow, mIsButtPressed,
            mValLStickY, nSelInputFrame, spawn, by, fired>>

L == INSTANCE Launcher WITH pc <- l_pc

M == INSTANCE Menu WITH pc <- m_pc

\* A part that is not under way rests in an initial state, where no program
\* and no thread runs.
AppInit ==
  /\ part \in {"ftp", "launcher", "menu"}
  /\ Init
  /\ L!Init /\ (part # "launcher" => mounted = FALSE)
  /\ M!Init /\ (part # "menu" => lines = 0)

FtpNext      == part = "ftp" /\ Next /\ UNCHANGED <<part, l_vars, m_vars>>
LauncherNext == part = "launcher" /\ L!Next /\ UNCHANGED <<part, vars, m_vars>>
MenuNext     == part = "menu" /\ M!Next /\ UNCHANGED <<part, vars, l_vars>>

AppNext == FtpNext \/ LauncherNext \/ MenuNext

\* What is fair in FtpServer and Launcher is not enabled while they rest.
AppSpec ==
  AppInit /\ [][AppNext]_<<part, vars, l_vars, m_vars>> /\ Fairness /\ WF_l_vars(L!Step)

-----------------------------------------------------------------------------
\* The menu never shows a list that a crash cut short, short of failures that
\* no program checks.
MenuShowsWholeList == L!MenuShowsWholeList

\* No image is mounted while the application or the list generator runs.
UnmountedWhileRunning == L!UnmountedWhileRunning

\* Every time the menu comes up it shows a list made since it came up last,
\* short of failures that no program checks.
EachMenuFresh == L!EachMenuFresh

\* A start reaches the menu, unless something fails on the way.
BootReachesMenu == L!BootReachesMenu

\* What is drawn includes the selected item, which is an item of the list.
SelectedShown == M!SelectedShown

\* A press of CROSS mounts once, unless another pad reports in between.
OneMountPerPress == M!OneMountPerPress
=============================================================================
