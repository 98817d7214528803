---------------------------- MODULE MCDiscReads ----------------------------
(***************************************************************************)
(* The three kinds of reads the plugin serves. A disc is read in one of    *)
(* them, and they share nothing but the image: a behaviour is one of       *)
(* IsoReader, of raw reads of a PSX disc (CdCache), or of reads of its     *)
(* user data (CdUserData).                                                 *)
(* IsoReader: sectors of three bytes; tables of three sections of up to    *)
(* two sectors in which holes and empty sections stand in every place;     *)
(* requests that start and end anywhere, behind the end of the file too.   *)
(* CdCache: a cache of three sectors on a disc of a few more, with 6-bit   *)
(* sector numbers; requests fall before, into, across and behind the       *)
(* cache, at a distance of exactly its size too, and may be longer.        *)
(* CdUserData: raw sectors of 8 bytes with 6 bytes of user data behind a   *)
(* byte of header; the raw sectors of a request of four or more overlap    *)
(* their user data in every way they do at 2352, 2048 and 24.              *)
(***************************************************************************)
EXTENDS IsoReader, CdCache, CdUserData

VARIABLE part

MCHole == 15

MCBase(s) ==
  LET sum[k \in 1..4] == IF k = 1 THEN 0 ELSE sum[k - 1] + SectorSize * s[k - 1]
  IN  sum

MCTables ==
  { [num |-> 3, start |-> st, size |-> sz, base |-> MCBase(sz)] :
      st \in {<<7, 15, 3>>, <<15, 5, 2>>, <<4, 9, 15>>, <<8, 3, 6>>},
      sz \in {<<1, 2, 1>>, <<2, 0, 1>>, <<1, 1, 2>>} }

MCInit ==
  /\ part \in {"iso", "raw", "user"}
  /\ Init /\ (part # "iso" => table = CHOOSE t \in MCTables : TRUE)
  /\ CdInit /\ UserInit

MCNext ==
  \/ part = "iso" /\ Next /\ UNCHANGED <<part, cd_vars, user_vars>>
  \/ part = "raw" /\ CdNext /\ UNCHANGED <<part, vars, user_vars>>
  \/ part = "user" /\ UserNext /\ UNCHANGED <<part, vars, cd_vars>>

\* No step of IsoReader is enabled before a call.
MCSpec == MCInit /\ [][MCNext]_<<part, vars, cd_vars, user_vars>> /\ WF_vars(Step)
=============================================================================
