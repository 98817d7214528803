---------------------------- MODULE ProxiedDisc ----------------------------
(***************************************************************************)
(* What the kernel and the VSH may rely on when a user-mode program serves *)
(* a disc image (cobra/cobra.h and cobra/readme.txt): images are mounted   *)
(* and unmounted only while the drive looks empty, as far as the program   *)
(* could know, a read is asked for only while an image is mounted, one at  *)
(* a time, and is answered unless the image is unmounted first or the      *)
(* program is gone.                                                        *)
(***************************************************************************)
CONSTANTS
  Cmds,    \* what the kernel can ask of the program
  NoCmd    \* no read is pending

VARIABLES
  mounted,    \* an image is mounted
  request,    \* the pending read, or NoCmd
  effective,  \* what the system thinks is inside: "none", "real", "iso"
  changed,    \* the disc was exchanged since the program last looked
  gone        \* the program was unloaded

v == <<mounted, request, effective, changed, gone>>

Init ==
  /\ mounted = FALSE
  /\ request = NoCmd
  /\ effective \in {"none", "real"}
  /\ changed = FALSE
  /\ gone = FALSE

\* The program asks for the type of the disc in the drive.
Look ==
  /\ changed' = FALSE
  /\ UNCHANGED <<mounted, request, effective, gone>>

\* The user exchanges the disc, which shows only where no image is mounted.
Exchange ==
  /\ changed' = TRUE
  /\ effective' \in IF mounted THEN {effective} ELSE {"none", "real"}
  /\ UNCHANGED <<mounted, request, gone>>

Eject ==
  /\ effective' = "none"
  /\ UNCHANGED <<mounted, request, changed, gone>>

Insert ==
  /\ effective' \in IF mounted THEN {"iso"} ELSE {"none", "real"}
  /\ UNCHANGED <<mounted, request, changed, gone>>

MountIso ==
  /\ ~mounted /\ (effective = "none" \/ changed)
  /\ mounted' = TRUE
  /\ UNCHANGED <<request, effective, changed, gone>>

Ask ==
  /\ mounted /\ request = NoCmd
  /\ request' \in Cmds
  /\ UNCHANGED <<mounted, effective, changed, gone>>

Answer ==
  /\ mounted /\ request # NoCmd
  /\ request' = NoCmd
  /\ UNCHANGED <<mounted, effective, changed, gone>>

UmountIso ==
  /\ mounted /\ effective = "none"
  /\ mounted' = FALSE
  /\ request' = NoCmd
  /\ UNCHANGED <<effective, changed, gone>>

Unload ==
  /\ gone' = TRUE
  /\ UNCHANGED <<mounted, request, effective, changed>>

Next ==
  \/ Look \/ Exchange \/ Eject \/ Insert
  \/ MountIso \/ Ask \/ Answer \/ UmountIso \/ Unload

\* A read does not stay pending for ever while there is a program.
Settle == request # NoCmd /\ ~gone /\ (Answer \/ UmountIso)

Spec == Init /\ [][Next]_v /\ WF_v(Settle)
=============================================================================
