------------------------------ MODULE Launcher ------------------------------
(***************************************************************************)
(* The three programs that replace one another on the console: the         *)
(* application (source/main.cpp, RELOAD.SELF), the list generator          *)
(* (source/ntfs_isolist/source/main.c, isolist.self) and the mounter       *)
(* (ntfs_ext_iso.self). They communicate through two files, iso_list.txt   *)
(* and the flag isolist_finished, which outlive them, and every crash that *)
(* does not take what was written last.                                    *)
(***************************************************************************)
VARIABLES
  pc,          \* which program runs, and where it is
  flag,        \* isolist_finished exists
  list,        \* iso_list.txt: "none", "cut" or "whole"
  fresh,       \* history: a list was begun since the menu last came up
  mounted,     \* an ISO is mounted
  bRun, ftp_service,
  modules,     \* LoadModules has succeeded
  trouble      \* history: a system call that the programs do not check failed

files == <<flag, list>>
app   == <<bRun, ftp_service, modules>>
hist  == <<fresh, trouble>>
vars  == <<pc, files, app, hist, mounted>>

AppAt     == {"boot", "umount", "flag", "load", "callback", "video", "core", "menu", "exit"}
IsolistAt == {"scan", "entries", "endless", "finish"}

Init ==
  /\ pc = "xmb"
  /\ flag = FALSE /\ list = "none" /\ fresh = FALSE
  /\ mounted \in BOOLEAN
  /\ bRun = FALSE /\ ftp_service = FALSE /\ modules = FALSE
  /\ trouble = {}

-----------------------------------------------------------------------------
(* The application *)

\* The user starts the application; the statics are as compiled.
Start ==
  /\ pc = "xmb"
  /\ pc' = "boot"
  /\ bRun' = TRUE /\ ftp_service' = FALSE /\ modules' = FALSE
  /\ UNCHANGED <<files, hist, mounted>>

\* cobra_send_fake_disc_eject_event.
BootEject ==
  /\ pc = "boot"
  /\ pc' = "umount"
  /\ UNCHANGED <<files, app, hist, mounted>>

\* Mutated form of BootUmount: the call is missing.
BootUmountMissing ==
  /\ pc = "umount"
  /\ pc' = "flag"
  /\ UNCHANGED <<files, app, hist, mounted>>

\* cobra_umount_disc_image.
BootUmount ==
  /\ pc = "umount"
  /\ mounted' = FALSE
  /\ pc' = "flag"
  /\ UNCHANGED <<files, app, hist>>

\* Mutated form of FlagFound: the flag stays.
FlagFoundKept ==
  /\ pc = "flag" /\ flag
  /\ pc' = "load"
  /\ UNCHANGED <<files, app, hist, mounted>>

\* isolist.self has run: the flag is removed, which may fail.
FlagFound ==
  /\ pc = "flag" /\ flag
  /\ \/ flag' = FALSE /\ UNCHANGED trouble
     \/ UNCHANGED flag /\ trouble' = trouble \union {"unlink"}
  /\ pc' = "load"
  /\ UNCHANGED <<list, app, fresh, mounted>>

\* exitspawn does not return, unless it fails.
SpawnIsolist(next) ==
  \/ pc' = "scan" /\ UNCHANGED trouble
  \/ pc' = next /\ trouble' = trouble \union {"spawn"}

FlagMissing ==
  /\ pc = "flag" /\ ~flag
  /\ SpawnIsolist("load")
  /\ UNCHANGED <<files, app, fresh, mounted>>

LoadModules ==
  /\ pc = "load"
  /\ \/ pc' = "callback" /\ modules' = TRUE
     \/ pc' = "exit" /\ UNCHANGED modules
  /\ UNCHANGED <<files, bRun, ftp_service, hist, mounted>>

\* cellSysutilRegisterCallback, and the pads.
RegisterCallback ==
  /\ pc = "callback"
  /\ pc' \in {"video", "exit"}
  /\ UNCHANGED <<files, app, hist, mounted>>

\* InitPSGLVideo and font_init: without a font the loop is not entered.
InitVideo ==
  /\ pc = "video"
  /\ \/ pc' = "core" /\ UNCHANGED bRun
     \/ pc' = "core" /\ bRun' = FALSE
     \/ pc' = "exit" /\ UNCHANGED bRun
  /\ UNCHANGED <<files, ftp_service, modules, hist, mounted>>

\* init_core: ftp_on, and the menu is filled from iso_list.txt.
InitCore ==
  /\ pc = "core"
  /\ ftp_service' = TRUE
  /\ pc' = IF bRun THEN "menu" ELSE "exit"
  /\ fresh' = (fresh /\ ~bRun)
  /\ UNCHANGED <<files, bRun, modules, trouble, mounted>>

\* TRIANGLE: the list is made anew.
Rescan ==
  /\ pc = "menu"
  /\ SpawnIsolist("menu")
  /\ UNCHANGED <<files, app, fresh, mounted>>

\* CROSS on an item: ntfs_ext_iso loads the plugin for it, if it finds it, and
\* ends. The plugin mounts it later, in a thread of its own (rawseciso/main.c:444):
\* it is assumed that the user does not start the application again before that
\* is over, as at AppEject of RawSecIso.
MountIso ==
  /\ pc = "menu"
  /\ \/ pc' = "xmb" /\ mounted' \in BOOLEAN /\ UNCHANGED trouble
     \/ pc' = "menu" /\ UNCHANGED mounted /\ trouble' = trouble \union {"spawn"}
  /\ UNCHANGED <<files, app, fresh>>

\* CELL_SYSUTIL_REQUEST_EXITGAME: the loop ends after this turn.
ExitGame ==
  /\ pc = "menu"
  /\ bRun' = FALSE
  /\ pc' = "exit"
  /\ UNCHANGED <<files, ftp_service, modules, hist, mounted>>

\* exit_app.
ExitApp ==
  /\ pc = "exit"
  /\ ftp_service' = FALSE /\ modules' = FALSE
  /\ pc' = "xmb"
  /\ UNCHANGED <<files, bRun, hist, mounted>>

-----------------------------------------------------------------------------
(* The list generator *)

\* Mutated form of ScanStart: the flag is raised first.
ScanStartRaisesFlag ==
  /\ pc = "scan"
  /\ list' = "cut" /\ fresh' = TRUE
  /\ flag' = TRUE
  /\ pc' = "entries"
  /\ UNCHANGED <<app, trouble, mounted>>

\* fopen truncates iso_list.txt. When it fails, the first entry is written
\* through a null pointer and the program dies; without an entry to write it
\* goes on, and the old list stays (ScanEntries says why it may not end).
ScanStart ==
  /\ pc = "scan"
  /\ \/ list' = "cut" /\ fresh' = TRUE /\ pc' = "entries" /\ UNCHANGED trouble
     \/ pc' = "xmb" /\ UNCHANGED <<list, hist>>
     \/ /\ pc' \in {"finish", "endless"} /\ trouble' = trouble \union {"fopen"}
        /\ UNCHANGED <<list, fresh>>
  /\ UNCHANGED <<flag, app, mounted>>

\* The volume is mounted, listed and unmounted, or none was found in 1000 tries
\* (AutoMount). Entries are lost unnoticed when a write fails or the drive is
\* pulled out, and the search for partitions may not return.
ScanEntries ==
  /\ pc = "entries"
  /\ \/ pc' = "finish" /\ list' = "whole" /\ UNCHANGED trouble
     \/ pc' = "finish" /\ trouble' = trouble \union {"entries"} /\ UNCHANGED list
     \/ pc' = "endless" /\ trouble' = trouble \union {"search"} /\ UNCHANGED list
  /\ UNCHANGED <<flag, app, fresh, mounted>>

\* Mutated form of WriteFlag: nothing is written.
WriteFlagNot ==
  /\ pc = "finish"
  /\ pc' = "boot" /\ bRun' = TRUE /\ ftp_service' = FALSE /\ modules' = FALSE
  /\ UNCHANGED <<files, hist, mounted>>

\* The flag is written, or not, and the application started again.
WriteFlag ==
  /\ pc = "finish"
  /\ \/ flag' = TRUE /\ UNCHANGED trouble
     \/ UNCHANGED flag /\ trouble' = trouble \union {"flag"}
  /\ pc' = "boot" /\ bRun' = TRUE /\ ftp_service' = FALSE /\ modules' = FALSE
  /\ UNCHANGED <<list, fresh, mounted>>

\* The console is switched off, or the program dies, at any point. No program
\* syncs its files, so that power-off may undo what was written or removed last.
Crash ==
  /\ pc # "xmb"
  /\ pc' = "xmb"
  /\ mounted' \in {mounted, FALSE}
  /\ \/ UNCHANGED <<files, trouble>>
     \/ /\ list # "none" /\ list' \in {list, "cut"} /\ flag' \in BOOLEAN
        /\ trouble' = trouble \union {"unsynced"}
  /\ UNCHANGED <<app, fresh>>

Step ==
  \/ BootEject \/ BootUmount \/ FlagFound \/ FlagMissing \/ LoadModules \/ RegisterCallback
  \/ InitVideo \/ InitCore \/ ExitApp \/ ScanStart \/ ScanEntries \/ WriteFlag

Next == Step \/ Start \/ Rescan \/ MountIso \/ ExitGame \/ Crash

\* Programs run on; the user and the power switch owe nothing.
Spec == Init /\ [][Next]_vars /\ WF_vars(Step)

-----------------------------------------------------------------------------
(* Properties *)

\* The menu never shows a list that a crash cut short, unless a call failed
\* that no program checks, or files were lost at power-off.
MenuShowsWholeList ==
  pc = "menu" /\ trouble \intersect {"unlink", "spawn", "fopen", "entries", "unsynced"} = {}
    => list = "whole"

\* Every time the menu comes up it shows a list made since it came up last
\* (main.cpp:296-310: the list is generated anew at each launch), unless the
\* flag could not be removed or came back at power-off, or a start or the
\* opening of the list failed.
EachMenuFresh ==
  [][pc = "core" /\ pc' = "menu"
       /\ trouble \intersect {"unlink", "spawn", "fopen", "unsynced"} = {} => fresh]_vars

\* README "When booting the application, any mounted ISO will be automatically
\* un-mounted": none is mounted while the application looks for its flag,
\* shows its menu or makes its list.
UnmountedWhileRunning ==
  pc \in (AppAt \ {"boot", "umount"}) \union IsolistAt => ~mounted

\* A start reaches the menu, unless something fails on the way: the
\* application and the list generator do not start one another forever, as
\* they do when the flag cannot be written, nor does the list generator hang,
\* as it does when the search for partitions does not return.
BootReachesMenu ==
  (pc = "boot") ~> (pc \in {"menu", "exit", "xmb"} \/ trouble # {})
=============================================================================
