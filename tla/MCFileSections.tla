--------------------------- MODULE MCFileSections ---------------------------
(***************************************************************************)
(* Sectors of two bytes and clusters of two sectors. Files have up to      *)
(* three runs of one or two clusters: adjacent runs that merge, runs in    *)
(* reverse order, holes in every place; they end anywhere in their last    *)
(* cluster and may be initialized only in part. Longer ones have more runs *)
(* than a table has places. One or two volumes, at the start of the drive, *)
(* further on, and at the last sectors that have a number of their own.    *)
(***************************************************************************)
EXTENDS FileSections

MCHole == Word - 1

R(l, n) == [lcn |-> l, length |-> n]

MCRuns ==
  { <<R(1, 1)>>, <<R(NoLcn, 1)>>, <<R(2, 2), R(4, 1)>>, <<R(5, 1), R(2, 1)>>,
    <<R(3, 1), R(NoLcn, 1)>>, <<R(NoLcn, 1), R(NoLcn, 1)>>,
    <<R(2, 1), R(NoLcn, 1), R(3, 1)>>, <<R(2, 1), R(3, 1), R(6, 1)>>,
    <<R(6, 1), R(1, 1), R(4, 1)>>, <<R(NoLcn, 1), R(2, 1), R(NoLcn, 1)>> }

Clusters(runs) == Vcns(runs)[Len(runs) + 1]

MCFiles ==
  UNION { LET full == Clusters(r) * ClusterSize
          IN  { [runs |-> r, data_size |-> d, init_size |-> n] :
                  d \in (full - ClusterSize + 1)..full, n \in {full - 4, full - 3, full - 1, full} }
        : r \in MCRuns }

\* A hole in which the initialized part ends, and a run behind it.
HoleInside == { [runs |-> <<R(2, 1), R(NoLcn, 1), R(3, 1)>>, data_size |-> 12, init_size |-> n] :
                  n \in 5..7 }

\* More sections than fit, with and without a part that is not initialized;
\* and as many runs, of which two merge.
TooLong ==
  { [runs |-> r, data_size |-> d, init_size |-> n] :
      r \in {<<R(6, 1), R(1, 1), R(4, 1), R(8, 1)>>, <<R(6, 1), R(7, 1), R(4, 1), R(5, 1)>>},
      d \in {15, 16}, n \in {11, 12, 13, 15} }

\* A file within the MFT record, and one whose runs end too early.
NoRuns == { [runs |-> <<>>, data_size |-> 3, init_size |-> 3],
            [runs |-> <<R(2, 1)>>, data_size |-> 7, init_size |-> 6] }

\* Holes of almost as many sectors as a size can count, and of more.
LongHole ==
  { LET full == Clusters(r) * ClusterSize IN [runs |-> r, data_size |-> full, init_size |-> full] :
      r \in {<<R(NoLcn, 31)>>, <<R(NoLcn, 30), R(2, 1)>>, <<R(NoLcn, 32), R(2, 1)>>,
            <<R(NoLcn, 20), R(NoLcn, 20), R(4, 1)>>} }

Files ==
  NoRuns \union HoleInside \union TooLong \union LongHole \union
  { f \in MCFiles : f.init_size <= f.data_size } \union
  { [f EXCEPT !.init_size = f.data_size] : f \in MCFiles }

Volume(s, f) == [startSector |-> s, file |-> f]

MCMountLists ==
  { <<Volume(s, f)>> : s \in {0, 3}, f \in Files } \union
  { <<Volume(s, f)>> : s \in {58, 59}, f \in {h \in Files : Len(h.runs) = 1} } \union
  { <<Volume(3, f), Volume(7, g)>> :
      f \in {h \in Files : Len(h.runs) # 2},
      g \in {NoFile, [runs |-> <<R(5, 1), R(2, 1)>>, data_size |-> 8, init_size |-> 8]} }
=============================================================================
