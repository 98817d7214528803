---------------------------- MODULE MCFtpServer ----------------------------
(***************************************************************************)
(* Two clients, in every interleaving of their threads, the listening      *)
(* thread and a stop; a restart point, and transfers of two buffers.       *)
(***************************************************************************)
EXTENDS FtpServer
=============================================================================
