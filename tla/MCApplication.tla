--------------------------- MODULE MCApplication ---------------------------
(***************************************************************************)
(* FtpServer: two clients, in every interleaving of their threads, the     *)
(* listening thread and a stop; a restart point, and transfers of two      *)
(* buffers. Launcher has no parameters. Menu: two pads, and a window of    *)
(* two lines over up to four items.                                        *)
(***************************************************************************)
EXTENDS Application
=============================================================================
