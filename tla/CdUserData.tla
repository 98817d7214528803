----------------------------- MODULE CdUserData -----------------------------
(***************************************************************************)
(* process_read_cd_2048_cmd of source/rawseciso/main.c: the user data of   *)
(* the sectors of a PSX image. As many raw sectors as fit are read into    *)
(* the caller's buffer at once and squeezed in place, byte by byte, to     *)
(* their user data; the rest is read sector by sector. A byte is           *)
(* represented by its address in the image. Reads underneath are those of  *)
(* IsoReader: a failing one reads the first of its bytes only, and is not  *)
(* noticed.                                                                *)
(***************************************************************************)
EXTENDS Integers

CONSTANTS
  RawSize, UserSize, HeaderSize,  \* 2352, 2048, 24
  UserSectors, UserCounts         \* first sectors and lengths of the requests

\* Header and user data of a sector fit into it. The 32-bit products
\* start_sector*2352 (main.c:258, 271) are unbounded here: a CD has fewer than
\* 450000 sectors, with which they do not wrap.
ASSUME UserAssumption ==
  /\ RawSize \in Nat /\ HeaderSize \in Nat /\ UserSize \in Nat \ {0}
  /\ HeaderSize + UserSize <= RawSize
  /\ UserSectors \subseteq Nat /\ UserCounts \subseteq Nat

VARIABLES
  user_pc,              \* "idle", "bulk", "copy", "single"
  first, sector_count,  \* the arguments of the call
  user_buf,
  start_sector, i,      \* the sector in turn and the loop counter
  j,                    \* loop counter of my_memcpy
  bad                   \* history: sectors of this call that were not read whole

request   == <<first, sector_count>>
user_vars == <<user_pc, request, user_buf, start_sector, i, j, bad>>

Unread == -1

UserInit ==
  /\ user_pc = "idle" /\ first = 0 /\ sector_count = 0
  /\ user_buf = [k \in 0..-1 |-> Unread]
  /\ start_sector = 0 /\ i = 0 /\ j = 0 /\ bad = {}

Capacity == sector_count * UserSize

Fit == Capacity \div RawSize

UserCall(s, n) ==
  /\ user_pc = "idle"
  /\ first' = s /\ sector_count' = n
  /\ user_buf' = [k \in 0..(n * UserSize - 1) |-> Unread]
  /\ start_sector' = s /\ i' = 0 /\ j' = 0 /\ bad' = {}
  /\ user_pc' = IF Fit' > 0 THEN "bulk" ELSE "single"

\* process_read_iso_cmd into place, from an address of the image: of the bytes
\* of so many units of size bytes it reads the first m; when these are not all,
\* it fails, which nobody looks at. Unit q is sector base + q of the call.
ReadIso(place, source, base, size, units) ==
  \E m \in 0..(units * size) :
    /\ user_buf' = [k \in DOMAIN user_buf |->
                      IF place <= k /\ k < place + m THEN source + (k - place) ELSE user_buf[k]]
    /\ bad' = bad \union {base + q : q \in {q \in 0..(units - 1) : (q + 1) * size > m}}

ReadBulk ==
  /\ user_pc = "bulk"
  /\ ReadIso(0, start_sector * RawSize, 0, RawSize, Fit)
  /\ user_pc' = "copy"
  /\ UNCHANGED <<request, start_sector, i, j>>

\* Where the user data of the sector in turn lies, and where it belongs.
In  == i * RawSize + HeaderSize
Out == i * UserSize

\* Mutated form of CopyIndex: the last byte first.
CopyIndexBackwards == UserSize - 1 - j

CopyIndex == j

\* One byte of my_memcpy.
CopyByte ==
  /\ user_pc = "copy" /\ i < Fit /\ j < UserSize
  /\ user_buf' = [user_buf EXCEPT ![Out + CopyIndex] = user_buf[In + CopyIndex]]
  /\ j' = j + 1
  /\ UNCHANGED <<user_pc, request, start_sector, i, bad>>

NextCopy ==
  /\ user_pc = "copy" /\ i < Fit /\ j = UserSize
  /\ i' = i + 1 /\ j' = 0
  /\ start_sector' = start_sector + 1
  /\ UNCHANGED <<user_pc, request, user_buf, bad>>

CopyDone ==
  /\ user_pc = "copy" /\ i = Fit
  /\ user_pc' = "single" /\ i' = 0
  /\ UNCHANGED <<request, start_sector, j, user_buf, bad>>

Rem == sector_count - Fit

ReadSingle ==
  /\ user_pc = "single" /\ i < Rem
  /\ ReadIso((Fit + i) * UserSize, start_sector * RawSize + HeaderSize, Fit + i, UserSize, 1)
  /\ i' = i + 1
  /\ start_sector' = start_sector + 1
  /\ UNCHANGED <<user_pc, request, j>>

\* Success, whether or not the reads succeeded.
UserReturn ==
  /\ user_pc = "single" /\ i = Rem
  /\ user_pc' = "idle"
  /\ UNCHANGED <<request, user_buf, start_sector, i, j, bad>>

UserNext ==
  \/ \E s \in UserSectors, n \in UserCounts : UserCall(s, n)
  \/ ReadBulk \/ CopyByte \/ NextCopy \/ CopyDone \/ ReadSingle \/ UserReturn

UserSpec == UserInit /\ [][UserNext]_user_vars

-----------------------------------------------------------------------------
(* Properties *)

\* The k-th byte of the answer: byte k % UserSize of the user data of a sector.
Wanted(k) == (first + (k \div UserSize)) * RawSize + HeaderSize + (k % UserSize)

\* Every sector of the answer that was read whole is the user data of the
\* sector asked for, though the raw sectors were squeezed in the buffer they
\* were read into, and other reads of the call may have failed unnoticed.
UserDataCorrect ==
  user_pc = "idle" =>
    \A k \in DOMAIN user_buf : k \div UserSize \notin bad => user_buf[k] = Wanted(k)
=============================================================================
