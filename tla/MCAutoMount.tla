---------------------------- MODULE MCAutoMount ----------------------------
(***************************************************************************)
(* Two ports, a delay of two polls in five rounds, three usable names of   *)
(* which two are looked for, and up to two drives in a port, one after the *)
(* other. Either the first drive has two volumes that are not looked for   *)
(* and one that gets a name too high, so that drives can go, come back and *)
(* be mounted again; or both together have more volumes than names.        *)
(***************************************************************************)
EXTENDS AutoMount

MCDrives ==
  { << <<"ext", "ext", "ntfs">>, <<"ntfs">> >>, << <<"ntfs", "ntfs">>, <<"ntfs", "ntfs">> >> }
=============================================================================
