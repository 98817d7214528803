---------------------------- MODULE MCByteDevice ----------------------------
(***************************************************************************)
(* Two sectors of two bytes, and ranges of up to three bytes, which begin  *)
(* and end inside sectors and at their edges.                              *)
(***************************************************************************)
EXTENDS ByteDevice
=============================================================================
