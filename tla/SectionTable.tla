---------------------------- MODULE SectionTable ----------------------------
(***************************************************************************)
(* The section table that ntfs_ext_iso hands to the rawseciso plugin:      *)
(* which runs of raw sectors of the drive make up the ISO, in order. A     *)
(* byte of the drive is represented by its address.                        *)
(***************************************************************************)
EXTENDS Integers

CONSTANTS
  SectorSize,   \* bytes in a raw sector: 512
  Hole          \* section start that marks a sparse run: 0xFFFFFFFF

Sec(p)  == p \div SectorSize
Byte(p) == p % SectorSize
Addr(s) == SectorSize * s

Zero  == -1      \* a byte set by memset

\* What lies before each of n entries of d, and before the end.
RunningSum(d, n) ==
  LET sum[k \in 1..(n + 1)] == IF k = 1 THEN 0 ELSE sum[k - 1] + d[k - 1]
  IN  sum

\* sections, sections_size and num_sections, with the running sum "base" that
\* get_next_read keeps while it walks them.
IsTable(t) ==
  /\ t.num \in Nat
  /\ t.start \in [1..t.num -> Nat]
  /\ t.size \in [1..t.num -> Nat]
  /\ t.base \in [1..(t.num + 1) -> Nat]
  /\ t.base[1] = 0
  /\ \A i \in 1..t.num : t.base[i + 1] = t.base[i] + Addr(t.size[i])

InSection(t, o, i) == t.base[i] <= o /\ o < t.base[i + 1]

\* Index of the section that holds an offset, 0 (the code's -1) if none does.
SectionOf(t, o) ==
  IF \E i \in 1..t.num : InSection(t, o, i)
  THEN CHOOSE i \in 1..t.num : InSection(t, o, i)
  ELSE 0

\* What the table says byte o of the ISO is: zero in a hole and behind the end.
Image(t, o) ==
  LET i == SectionOf(t, o)
  IN  IF i = 0 \/ t.start[i] = Hole THEN Zero ELSE Addr(t.start[i]) + (o - t.base[i])
=============================================================================
