------------------------------- MODULE MCDisk -------------------------------
(***************************************************************************)
(* What lies between a drive and NTFS-3G when a volume is mounted and used: *)
(* a behaviour is one of the sector cache (NtfsCache) or of the search for  *)
(* partitions (Partitions), which reads the drive past the cache.           *)
(* NtfsCache: a partition of three sectors that does not start at sector 0, *)
(* in blocks of two with a shorter last one, and every read and write that  *)
(* fits: a call may cross blocks, a direct write may meet a cached block,   *)
(* and the single page changes blocks all the time. Partitions: drives of   *)
(* nine sectors, with chains of up to three records.                        *)
(***************************************************************************)
EXTENDS NtfsCache, Partitions

VARIABLE part

-----------------------------------------------------------------------------
(* Calls of the cache *)

Ranges == { <<s, k>> : s \in Sector, k \in 1..(End - Start) }
Fits   == { r \in Ranges : r[1] + r[2] <= End }

MCCalls ==
  { [op |-> "write", sector |-> r[1], left |-> r[2], data |-> d] : r \in Fits, d \in Data }
  \union
  { [op |-> "read", sector |-> r[1], left |-> r[2], data |-> CHOOSE d \in Data : TRUE] : r \in Fits }
  \union
  { [op |-> o, sector |-> 0, left |-> 0, data |-> CHOOSE d \in Data : TRUE] :
      o \in {"flush", "invalidate", "destroy"} }

-----------------------------------------------------------------------------
(* Drives *)

Nil  == [ntfs |-> FALSE, ext |-> FALSE, mbr |-> <<>>, ebr |-> <<>>, readable |-> TRUE]
Bad  == [Nil EXCEPT !.readable = FALSE]
Ntfs == [Nil EXCEPT !.ntfs = TRUE]
Ext  == [Nil EXCEPT !.ext = TRUE]
Both == [Ntfs EXCEPT !.ext = TRUE]

Entry(t, lba)    == [type |-> t, lba |-> lba]
Record(at, next) == [Nil EXCEPT !.ebr = <<[part |-> at, next |-> next]>>]
Table(entries)   == [Nil EXCEPT !.mbr = entries]

\* A drive with boot record m, partitions at 1 and 8 and a chain of records at
\* 2, 4 and 6 whose partitions are behind them.
Chained(m, one, r2, r4, r6, parts) ==
  [s \in 0..8 |-> CASE s = 0 -> m [] s = 1 -> one [] s = 2 -> r2 [] s = 4 -> r4 [] s = 6 -> r6
                    [] s = 8 -> one [] OTHER -> parts]

MCDrives ==
  \* every type of entry over every kind of partition, before a chain
  {Chained(Table(<<Entry(t, 1), Entry("extended", 2), Entry("other", 7)>>), one,
           Record(1, 2), Record(1, 0), Nil, Ext) :
     t \in {"empty", "ntfs", "linux", "other"}, one \in {Nil, Ntfs, Ext, Both, Bad}}
  \* chains that end well, without a signature, not at all, or at a bad sector
  \union
  {Chained(Table(t), Ntfs, r2, r4, r6, parts) :
     t \in {<<Entry("extended", 2), Entry("ntfs", 1)>>,
            <<Entry("ntfs", 1), Entry("ntfs", 8), Entry("extended", 2)>>},
     r2 \in {Nil, Bad, Record(1, 0), Record(1, 2)},
     r4 \in {Nil, Bad, Record(1, 0), Record(1, 2), Record(1, 4)},
     r6 \in {Nil, Bad, Record(1, 0), Record(1, 2)},
     parts \in {Ntfs, Both, Bad}}
  \* no boot record, an empty one, or the boot sector of a volume
  \union
  {Chained(m, Nil, r2, Nil, Nil, parts) :
     m \in {Nil, Table(<<Entry("empty", 0)>>), Bad, Ntfs}, r2 \in {Ntfs, Bad}, parts \in {Nil, Ntfs}}

-----------------------------------------------------------------------------
\* A part that is not under way rests in one of its initial states.
MCInit ==
  /\ part \in {"cache", "partitions"}
  /\ Init /\ (part # "cache" => disc = [s \in Sector |-> CHOOSE d \in Data : TRUE])
  /\ SearchInit /\ (part # "partitions" => drive = CHOOSE d \in MCDrives : TRUE)

MCNext ==
  \/ part = "cache" /\ Next /\ UNCHANGED <<part, search_vars>>
  \/ part = "partitions" /\ SearchNext /\ UNCHANGED <<part, vars>>

\* What is fair in NtfsCache is not enabled while it rests.
MCSpec ==
  /\ MCInit /\ [][MCNext]_<<part, vars, search_vars>>
  /\ WF_vars(Step) /\ WF_search_vars(part = "partitions" /\ Search)

-----------------------------------------------------------------------------
\* The search ends, unless a chain has no readable end or the drive is gone.
SearchEnds == part = "partitions" => SearchTerminates
=============================================================================
