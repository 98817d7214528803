---------------------------- MODULE MCRawSecIso ----------------------------
(* rawseciso with one type of real disc: an empty drive and a filled one. *)
EXTENDS RawSecIso
=============================================================================
