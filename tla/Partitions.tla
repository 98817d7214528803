----------------------------- MODULE Partitions -----------------------------
(***************************************************************************)
(* ntfsFindPartitions (source/libntfs_ext/source/ntfs.c): the NTFS and ext *)
(* partitions of a drive, from its master boot record and the chains of    *)
(* extended boot records, or from its first sectors when it has none. Any   *)
(* sector may be unreadable, and the drive may be pulled out at any time.   *)
(***************************************************************************)
EXTENDS Integers, Sequences

CONSTANTS
  Stray,          \* sectors that are searched without a boot record (64)
  MaxPartitions,  \* NTFS_MAX_PARTITIONS
  Drives          \* contents of drives: what is at each sector

\* What a sector, or the partition that begins with it, is to the search:
\*   ntfs       the OEM id of an NTFS boot sector
\*   ext        the magic number of ext in the superblock behind it
\*   mbr        of sector 0: the entries [type, lba] of its table, without the
\*              empty ones at its end except the first, or <<>> without a
\*              signature
\*   ebr        its logical partition and the next record, as distances
\*              [part, next], or <<>> without a signature
\*   readable   can be read at all

ASSUME PartitionsAssumption ==
  /\ Stray \in Nat \ {0} /\ MaxPartitions \in Nat
  /\ \A d \in Drives : \A s \in DOMAIN d :
       /\ s \in Nat
       /\ d[s].mbr \in Seq([type : {"empty", "ntfs", "linux", "extended", "other"}, lba : Nat])
       /\ d[s].ebr \in Seq([part : Nat, next : Nat])

VARIABLES
  drive,               \* external
  gone,                \* external: the drive was pulled out
  pc,                  \* "first", "primary", "chain", "stray", "return", "done", "failed"
  turn,                \* entry, or stray sector, in turn
  ebr_lba, next_erb_lba,
  found                \* partition_starts and partition_type, up to partition_count

search_vars == <<drive, gone, pc, turn, ebr_lba, next_erb_lba, found>>

SearchInit ==
  /\ drive \in Drives /\ gone = FALSE
  /\ pc = "first" /\ turn = 1
  /\ ebr_lba = 0 /\ next_erb_lba = 0
  /\ found = <<>>

Pull ==
  /\ ~gone /\ pc \notin {"done", "failed"}
  /\ gone' = TRUE
  /\ UNCHANGED <<drive, pc, turn, ebr_lba, next_erb_lba, found>>

\* readSectors
Reads(lba) == ~gone /\ lba \in DOMAIN drive /\ drive[lba].readable

Entries == drive[0].mbr

\* An entry of partition_starts; there may be no room for it.
Add(list, lba, type) ==
  IF Len(list) < MaxPartitions THEN Append(list, [lba |-> lba, type |-> type]) ELSE list

\* Of a partition that may be either, ext is looked for first.
Either(lba) ==
  IF drive[lba].ext THEN Add(found, lba, "ext")
  ELSE IF drive[lba].ntfs THEN Add(found, lba, "ntfs") ELSE found

\* The first sector decides on the kind of search, or ends it.
ReadFirst ==
  /\ pc = "first" /\ Reads(0)
  /\ IF Entries # <<>> /\ ~drive[0].ntfs
     THEN pc' = "primary" /\ turn' = 1
     ELSE pc' = "stray" /\ turn' = 0
  /\ UNCHANGED <<drive, gone, ebr_lba, next_erb_lba, found>>

ReadFirstFails ==
  /\ pc = "first" /\ ~Reads(0)
  /\ pc' = "failed"
  /\ UNCHANGED <<drive, gone, turn, ebr_lba, next_erb_lba, found>>

Following ==
  IF turn < Len(Entries)
  THEN pc' = "primary" /\ turn' = turn + 1
  ELSE pc' = "return" /\ turn' = turn

\* An entry that is empty, or of one partition.
Primary ==
  /\ pc = "primary" /\ Entries[turn].type # "extended"
  /\ LET type == Entries[turn].type
         lba  == Entries[turn].lba
     IN  found' = IF type = "empty" \/ ~Reads(lba) THEN found
                  ELSE IF type = "linux"
                  THEN IF drive[lba].ext THEN Add(found, lba, "ext") ELSE found
                  ELSE IF type = "ntfs"
                  THEN IF drive[lba].ntfs THEN Add(found, lba, "ntfs") ELSE found
                  ELSE Either(lba)
  /\ Following
  /\ UNCHANGED <<drive, gone, ebr_lba, next_erb_lba>>

Extended ==
  /\ pc = "primary" /\ Entries[turn].type = "extended"
  /\ ebr_lba' = Entries[turn].lba /\ next_erb_lba' = 0
  /\ pc' = "chain"
  /\ UNCHANGED <<drive, gone, turn, found>>

\* while (next_erb_lba)
Loop == IF next_erb_lba' # 0 THEN UNCHANGED <<pc, turn>> ELSE Following

\* Mutated form of NextRecord: the distance is taken from the record in turn.
NextRecordFromHere(ebr) == IF ebr.next = 0 THEN 0 ELSE next_erb_lba + ebr.next

\* Distances of records are from the start of the extended partition.
NextRecord(ebr) == ebr.next

\* An extended boot record and its logical partition.
Logical ==
  /\ pc = "chain"
  /\ LET lba == ebr_lba + next_erb_lba
         ebr == drive[lba].ebr
     IN  /\ Reads(lba) /\ ebr # <<>>
         /\ LET part == lba + ebr[1].part
            IN  found' = IF Reads(part) THEN Either(part) ELSE found
         /\ next_erb_lba' = NextRecord(ebr[1])
  /\ Loop
  /\ UNCHANGED <<drive, gone, ebr_lba>>

\* Mutated form of ChainEnds: the distance stays.
ChainEndsNot ==
  /\ pc = "chain"
  /\ Reads(ebr_lba + next_erb_lba) /\ drive[ebr_lba + next_erb_lba].ebr = <<>>
  /\ UNCHANGED next_erb_lba
  /\ Loop
  /\ UNCHANGED <<drive, gone, ebr_lba, found>>

\* A record without the signature ends the chain.
ChainEnds ==
  /\ pc = "chain"
  /\ Reads(ebr_lba + next_erb_lba) /\ drive[ebr_lba + next_erb_lba].ebr = <<>>
  /\ next_erb_lba' = 0
  /\ Following
  /\ UNCHANGED <<drive, gone, ebr_lba, found>>

\* A record that cannot be read ends it when it is the first one. Another is
\* read again, for as long as it takes.
ChainFails ==
  /\ pc = "chain" /\ ~Reads(ebr_lba + next_erb_lba)
  /\ UNCHANGED next_erb_lba
  /\ Loop
  /\ UNCHANGED <<drive, gone, ebr_lba, found>>

\* One of the first sectors, when there is no boot record.
StraySector ==
  /\ pc = "stray"
  /\ found' = IF Reads(turn) /\ drive[turn].ntfs THEN Add(found, turn, "ntfs") ELSE found
  /\ IF turn + 1 < Stray THEN turn' = turn + 1 /\ pc' = pc ELSE turn' = turn /\ pc' = "return"
  /\ UNCHANGED <<drive, gone, ebr_lba, next_erb_lba>>

SearchDone ==
  /\ pc = "return"
  /\ pc' = "done"
  /\ UNCHANGED <<drive, gone, turn, ebr_lba, next_erb_lba, found>>

\* There is no memory for the superblock, or for the result.
NoMemory ==
  /\ pc = "first" \/ (pc = "return" /\ found # <<>>)
  /\ pc' = "failed"
  /\ UNCHANGED <<drive, gone, turn, ebr_lba, next_erb_lba, found>>

Search ==
  \/ ReadFirst \/ ReadFirstFails \/ Primary \/ Extended \/ Logical \/ ChainEnds \/ ChainFails
  \/ StraySector \/ SearchDone \/ NoMemory

SearchNext == Search \/ Pull

SearchSpec == SearchInit /\ [][SearchNext]_search_vars /\ WF_search_vars(Search)

-----------------------------------------------------------------------------
(* Properties *)

Readable(lba) == lba \in DOMAIN drive /\ drive[lba].readable

\* A record that has another one behind it.
Goes(r) == Readable(r) /\ drive[r].ebr # <<>> /\ drive[r].ebr[1].next # 0

\* The record behind record r of the chain that begins at lba.
After(lba, r) == lba + drive[r].ebr[1].next

\* Where records of the chain can be.
Places(lba) == {lba} \union {After(lba, r) : r \in {r \in DOMAIN drive : Goes(r)}}

\* With a record of the chain the set has the one behind it.
Closed(lba, S) == lba \in S /\ \A r \in S : Goes(r) => After(lba, r) \in S

\* The records of the chain that begins at lba: the smallest such set.
Records(lba) ==
  {r \in Places(lba) : \A S \in SUBSET Places(lba) : Closed(lba, S) => r \in S}

\* The partitions an entry of the boot record leads to.
Claimed(e) ==
  CASE e.type = "empty"    -> {}
    [] e.type = "extended" -> {r + drive[r].ebr[1].part :
                                 r \in {r \in Records(e.lba) : Readable(r) /\ drive[r].ebr # <<>>}}
    [] OTHER               -> {e.lba}

Kind(e, lba) ==
  IF drive[lba].ext /\ e.type # "ntfs" THEN "ext"
  ELSE IF drive[lba].ntfs /\ e.type # "linux" THEN "ntfs" ELSE "none"

\* What is at the partitions of an entry, as far as it can be read.
Behind(e) == {[lba |-> p, type |-> Kind(e, p)] : p \in {p \in Claimed(e) : Readable(p)}}

EntrySet == {Entries[n] : n \in 1..Len(Entries)}

\* The partitions a drive has, according to what of it can be read.
Listed ==
  IF ~Readable(0) THEN {}
  ELSE IF Entries = <<>> \/ drive[0].ntfs
  THEN {[lba |-> p, type |-> "ntfs"] : p \in {p \in 0..(Stray - 1) : Readable(p) /\ drive[p].ntfs}}
  ELSE {x \in UNION {Behind(e) : e \in EntrySet} : x.type # "none"}

\* A search that ends with the drive still there has found every partition
\* that can be reached over readable records, unless there was no more room;
\* and whatever fails, or is pulled out in the middle, nothing is found that
\* is not a partition.
PartitionsFound ==
  LET set == {found[n] : n \in 1..Len(found)}
  IN  /\ set \subseteq Listed
      /\ pc = "done" /\ ~gone /\ Len(found) < MaxPartitions => set = Listed

\* A chain that comes back to itself, or has a record that cannot be read.
Endless ==
  \E e \in EntrySet :
    /\ e.type = "extended"
    /\ \/ \A r \in Records(e.lba) : Goes(r)
       \/ \E r \in Records(e.lba) \ {e.lba} : ~Readable(r)

\* The search ends, unless a chain has no readable end or the drive is pulled
\* out: the loop over a chain has no other way out.
SearchTerminates == <>(pc \in {"done", "failed"} \/ gone \/ Endless)
=============================================================================
