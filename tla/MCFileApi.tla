----------------------------- MODULE MCFileApi -----------------------------
(***************************************************************************)
(* A volume that is mounted twice, three handles, one file under up to two *)
(* names, a third name without a Unicode form, and up to two bytes of data. *)
(* The two names are alike.                                                *)
(***************************************************************************)
EXTENDS FileApi, TLC

CONSTANTS a, b

CONSTANTS x, y

MCBuffers == {<<y>>, <<x, y>>}

NameSymmetry == Permutations({a, b})
=============================================================================
