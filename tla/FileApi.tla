------------------------------ MODULE FileApi ------------------------------
(***************************************************************************)
(* The calls libntfs_ext offers on a mounted NTFS volume: source/          *)
(* libntfs_ext/source/ntfsfile.c, ntfsdir.c and ntfsinternal.c, with the   *)
(* handles of ps3_io.c.                                                    *)
(*                                                                         *)
(* One program uses the volume, as in this repository, so that calls do    *)
(* not overlap and vd->lock is always free or already held by the caller   *)
(* (locking it twice fails with EDEADLK, which ntfsLock ignores). A call   *)
(* whose loop asks NTFS-3G several times takes several steps. What NTFS-3G *)
(* answers is free: any request can fail, and reads and writes can be      *)
(* short.                                                                  *)
(***************************************************************************)
EXTENDS Integers, Sequences, FiniteSets

CONSTANTS
  Slots,          \* entries of my_files and file_state
  Names,          \* names in the directory
  Unconvertible,  \* names that have no Unicode form
  LateFailure,    \* may ntfs_delete fail after the name is gone?
  NoMemory,       \* may strdup find no memory?
  Inodes,
  None,           \* no inode
  Buffers,        \* what a program writes at once (nothing at all returns at once)
  Zero,           \* what fills a gap
  MaxLen,         \* bound on file sizes and on the length of a request
  SizeMod,        \* size_t counts modulo this
  MaxMounts       \* bound on mounts

ASSUME FileApiAssumption ==
  /\ Slots \subseteq Nat \ {0} /\ IsFiniteSet(Slots)
  /\ Unconvertible \subseteq Names
  /\ LateFailure \in BOOLEAN /\ NoMemory \in BOOLEAN
  /\ None \notin Inodes
  /\ \A b \in Buffers : b # <<>> /\ b \in Seq({b[i] : i \in DOMAIN b})
  /\ MaxLen \in Nat /\ MaxMounts \in Nat
  /\ SizeMod \in Nat /\ SizeMod > 2 * MaxLen

VARIABLES
  vd,            \* the mount in devoptab_list, or 0
  mounts,        \* number of mounts so far
  my_files,      \* slots in use
  file,          \* file_state of each slot
  first, count,  \* firstOpenFile (0: NULL) and openFileCount of vd
  names,         \* inode of each name, or None
  data,          \* contents of each inode
  dirs,          \* inodes that are directories
  call           \* the call in progress, or the last one

vol  == <<vd, mounts>>
list == <<my_files, first, count>>
vars == <<vol, list, file, names, data, dirs, call>>

NoFile == [vd |-> 0, ni |-> None, read |-> FALSE, write |-> FALSE, append |-> FALSE,
           pos |-> 0, len |-> 0, next |-> 0, prev |-> 0]
NoCall == [op |-> "none", busy |-> FALSE, ok |-> TRUE, m |-> 0, left |-> 0, at |-> 0,
           buf |-> <<>>, old_pos |-> 0, short |-> FALSE, before |-> <<>>, want |-> 0, new |-> None,
           nomem |-> FALSE]

Init ==
  /\ vd = 0 /\ mounts = 0
  /\ my_files = {}
  /\ file = [m \in Slots |-> NoFile]
  /\ first = 0 /\ count = 0
  /\ names = [n \in Names |-> None]
  /\ data = [i \in Inodes |-> <<>>] /\ dirs = {}
  /\ call = NoCall

-----------------------------------------------------------------------------
(* Names. An outcome of a function is the names it leaves, its result, and *)
(* whether strdup found no memory for the path in ntfsLink.                *)

Outcome(f, r) == [names |-> f, res |-> r, nomem |-> FALSE]

\* Without memory for the path ntfsLink and ntfsUnlink jump to the cleanup with
\* res = 0.
NoPath(f) == IF NoMemory THEN {[names |-> f, res |-> 0, nomem |-> TRUE]} ELSE {}

IsOpen(i) == \E m \in Slots : file[m].ni = i

\* ntfsCreate: NTFS-3G refuses a name that exists, or fails.
ntfsCreate(f, n) ==
  {Outcome(f, -1)} \union
    (IF n \in Unconvertible \/ f[n] # None THEN {}
     ELSE {Outcome([f EXCEPT ![n] = i], 0) :
             i \in {j \in Inodes : ~IsOpen(j) /\ \A o \in Names : f[o] # j}})

\* Mutated form of ntfsLink: a failure of ntfs_link is not noticed.
LinkUnnoticed(f, old, new) ==
  IF new \in Unconvertible THEN {Outcome(f, 0)}
  ELSE {Outcome(f, 0)} \union
         (IF f[old] = None \/ f[new] # None THEN {}
          ELSE {Outcome([f EXCEPT ![new] = f[old]], 0)})

\* ntfsLink. A name without a Unicode form takes the same jump.
ntfsLink(f, old, new) ==
  NoPath(f) \union
    IF new \in Unconvertible THEN {Outcome(f, 0)}
    ELSE {Outcome(f, -1)} \union
           (IF f[old] = None \/ f[new] # None THEN {}
            ELSE {Outcome([f EXCEPT ![new] = f[old]], 0)})

\* ntfsUnlink, with the same jumps.
ntfsUnlink(f, n) ==
  NoPath(f) \union
    IF n \in Unconvertible THEN {Outcome(f, 0)}
    ELSE {Outcome(f, -1)} \union
           (IF f[n] = None THEN {}
            ELSE {Outcome([f EXCEPT ![n] = None], r) : r \in IF LateFailure THEN {0, -1} ELSE {0}})

\* ntfs_rename_r: link, then unlink; when that fails the link is taken back.
ntfs_rename_r(f, old, new) ==
  IF f[new] # None THEN {Outcome(f, -1)}
  ELSE UNION
    {IF l.res # 0 THEN {Outcome(l.names, -1)}
     ELSE UNION {IF u.res = 0 THEN {[Outcome(u.names, 0) EXCEPT !.nomem = l.nomem]}
                 ELSE {Outcome(w.names, -1) : w \in ntfsUnlink(u.names, new)}
                 : u \in ntfsUnlink(l.names, old)}
     : l \in ntfsLink(f, old, new)}

-----------------------------------------------------------------------------
Idle == vd # 0 /\ ~call.busy

\* A call that is over; what it did to the names is remembered.
Return(op, res) ==
  call' = [NoCall EXCEPT !.op = IF op = "unlink" THEN op ELSE "none", !.ok = res = 0]

\* ntfs_mkdir_r.
Mkdir(n) ==
  /\ Idle
  /\ \E o \in ntfsCreate(names, n) :
       /\ names' = o.names
       /\ data' = [i \in Inodes |-> IF o.res = 0 /\ o.names[n] = i THEN <<>> ELSE data[i]]
       /\ dirs' = dirs \union {i \in Inodes : o.res = 0 /\ o.names[n] = i}
       /\ Return("mkdir", o.res)
  /\ UNCHANGED <<vol, list, file>>

\* ntfs_unlink_r of a file that is not open.
Unlink(n) ==
  /\ Idle /\ (names[n] # None => ~IsOpen(names[n]))
  /\ \E o \in ntfsUnlink(names, n) : names' = o.names /\ Return("unlink", o.res)
  /\ UNCHANGED <<vol, list, file, data, dirs>>

Rename(old, new) ==
  /\ Idle /\ old # new /\ (names[old] # None => ~IsOpen(names[old]))
  /\ \E o \in ntfs_rename_r(names, old, new) :
       /\ names' = o.names
       /\ call' = [NoCall EXCEPT !.op = "rename", !.ok = o.res = 0, !.new = new, !.nomem = o.nomem]
  /\ UNCHANGED <<vol, list, file, data, dirs>>

-----------------------------------------------------------------------------
(* Opening and closing files *)

MinOf(T) == CHOOSE m \in T : \A n \in T : m <= n

\* A file that is open for writing is open once.
MayOpen(i, write) ==
  \A m \in Slots : file[m].ni = i => ~write /\ ~file[m].write

\* The file goes to the front of the list.
Insert(m, new) ==
  /\ file' = [n \in Slots |->
                IF n = m THEN [new EXCEPT !.next = first]
                ELSE IF n = first THEN [file[n] EXCEPT !.prev = m]
                ELSE file[n]]
  /\ first' = m /\ count' = count + 1

\* ps3ntfs_open takes the first free slot and clears it. ntfs_open_r finds or
\* creates the file, opens its data and truncates it; each of these can fail,
\* after a file was created, or cut, too. A directory is refused.
Open(n, mode, creat, trunc) ==
  /\ Idle /\ (names[n] # None => MayOpen(names[n], mode # "r"))
  /\ IF Slots \subseteq my_files
     THEN Return("open", -1) /\ UNCHANGED <<list, file, names, data, dirs>>
     ELSE LET m == MinOf(Slots \ my_files) IN
          \E o \in IF names[n] = None /\ creat THEN ntfsCreate(names, n) ELSE {Outcome(names, 0)},
             cut \in BOOLEAN :
            /\ names' = o.names
            /\ cut => trunc /\ mode # "r"
            /\ data' = [i \in Inodes |->
                          IF o.names[n] = i /\ (names[n] = None \/ cut) THEN <<>> ELSE data[i]]
            /\ dirs' = IF names[n] = None THEN dirs \ {o.names[n]} ELSE dirs
            /\ \/ /\ trunc /\ mode # "r" => cut
                  /\ o.res = 0 /\ o.names[n] # None /\ o.names[n] \notin dirs'
                  /\ my_files' = my_files \union {m}
                  /\ Insert(m, [NoFile EXCEPT !.vd = vd, !.ni = o.names[n],
                                  !.read = mode \in {"r", "rw"}, !.write = mode # "r",
                                  !.append = mode = "a", !.len = Len(data'[o.names[n]])])
                  /\ Return("open", 0)
               \/ /\ Return("open", -1)
                  /\ UNCHANGED <<list, file>>
  /\ UNCHANGED vol

\* What ntfsCloseFile leaves of a handle. Its descriptor is not reset.
ntfsCloseFile(f) == [NoFile EXCEPT !.vd = f.vd, !.next = f.next, !.prev = f.prev]

\* The handles a program may use.
Handles == {m \in my_files : file[m].vd = vd}

\* Mutated form of Close: the file after it still points back to it.
CloseOneWay(m) ==
  /\ Idle /\ m \in Handles
  /\ LET f == file[m] IN
     /\ file' = [n \in Slots |->
                   IF n = m THEN NoFile
                   ELSE IF n = f.prev THEN [file[n] EXCEPT !.next = f.next]
                   ELSE file[n]]
     /\ first' = IF f.prev = 0 THEN f.next ELSE first
  /\ count' = count - 1
  /\ my_files' = my_files \ {m}
  /\ Return("close", 0)
  /\ UNCHANGED <<vol, names, data, dirs>>

\* ps3ntfs_close and ntfs_close_r. What is left in a free slot is not kept, as
\* ps3ntfs_open clears it.
Close(m) ==
  /\ Idle /\ m \in Handles
  /\ LET f == file[m] IN
     /\ file' = [n \in Slots |->
                   IF n = m THEN NoFile
                   ELSE IF n = f.next THEN [file[n] EXCEPT !.prev = f.prev]
                   ELSE IF n = f.prev THEN [file[n] EXCEPT !.next = f.next]
                   ELSE file[n]]
     /\ first' = IF f.prev = 0 THEN f.next ELSE first
  /\ count' = count - 1
  /\ my_files' = my_files \ {m}
  /\ Return("close", 0)
  /\ UNCHANGED <<vol, names, data, dirs>>

-----------------------------------------------------------------------------
(* Reading and writing *)

Lower(x, y) == IF x <= y THEN x ELSE y
Upper(x, y) == IF x >= y THEN x ELSE y

Begin(m, op) == [NoCall EXCEPT !.op = op, !.busy = TRUE, !.m = m]

End(ok) == call' = [NoCall EXCEPT !.ok = ok]

\* d with b at offset p.
Patched(d, p, b) ==
  [i \in 1..Upper(Len(d), p + Len(b)) |->
     IF i \in p + 1..p + Len(b) THEN b[i - p]
     ELSE IF i <= Len(d) THEN d[i] ELSE Zero]

\* ntfs_attr_pwrite of n bytes at p: the attribute is extended first, and stays
\* extended when only the bytes b are written.
ntfs_attr_pwrite(d, p, n, b) == Patched(Patched(d, p + n, <<>>), p, b)

\* ntfs_write_r, up to its loop: an append moves to the length it knows.
StartWrite(m, b) ==
  /\ Idle /\ m \in Handles
  /\ IF ~file[m].write
     THEN Return("write", -1) /\ UNCHANGED file
     ELSE LET at == IF file[m].append THEN file[m].len ELSE file[m].pos IN
          /\ at + Len(b) <= MaxLen
          /\ file' = [file EXCEPT ![m].pos = at]
          /\ call' = [Begin(m, "write") EXCEPT !.buf = b, !.left = Len(b), !.at = at,
                        !.old_pos = file[m].pos, !.before = data[file[m].ni]]
  /\ UNCHANGED <<vol, list, names, data, dirs>>

Writing == call.busy /\ call.op = "write"

\* A pwrite in the loop of ntfs_write_r. The buffer is not advanced. An error
\* leaves pos and len as they are.
PWrite ==
  /\ Writing /\ call.left > 0
  /\ LET f == file[call.m] IN
     \/ \E k \in 1..call.left :
          /\ data' = [data EXCEPT ![f.ni] = ntfs_attr_pwrite(@, f.pos, call.left, SubSeq(call.buf, 1, k))]
          /\ file' = [file EXCEPT ![call.m].pos = @ + k]
          /\ call' = [call EXCEPT !.left = @ - k, !.short = @ \/ k < call.left]
     \/ End(FALSE) /\ UNCHANGED <<data, file>>
  /\ UNCHANGED <<vol, list, names, dirs>>

\* Mutated form of WriteEnd: the position stays at the end after an append.
WriteEndKeepsPos ==
  /\ Writing /\ call.left = 0
  /\ file' = [file EXCEPT ![call.m].len = Len(data[file[call.m].ni])]
  /\ End(TRUE)
  /\ UNCHANGED <<vol, list, names, data, dirs>>

\* The end of ntfs_write_r.
WriteEnd ==
  /\ Writing /\ call.left = 0
  /\ file' = [file EXCEPT ![call.m].len = Len(data[file[call.m].ni]),
                          ![call.m].pos = IF file[call.m].append THEN call.old_pos ELSE @]
  /\ End(TRUE)
  /\ UNCHANGED <<vol, list, names, data, dirs>>

\* Mutated form of ReadLength: a request that crosses the end is not cut.
ReadLengthUncut(f, n) == n

\* The length ntfs_read_r asks for: cut at the end, in size_t.
ReadLength(f, n) == IF f.pos + n > f.len THEN (f.len - f.pos) % SizeMod ELSE n

StartRead(m, n) ==
  /\ Idle /\ m \in Handles
  /\ IF ~file[m].read
     THEN Return("read", -1)
     ELSE call' = [Begin(m, "read") EXCEPT !.want = n, !.at = file[m].pos,
                    !.left = ReadLength(file[m], n)]
  /\ UNCHANGED <<vol, list, file, names, data, dirs>>

Reading == call.busy /\ call.op = "read"

\* A pread in the loop of ntfs_read_r; it returns nothing beyond the data.
PRead ==
  /\ Reading /\ call.left > 0
  /\ LET f == file[call.m]
         d == data[f.ni]
     IN  \/ \E k \in 1..Lower(call.left, Len(d) - f.pos) :
              /\ file' = [file EXCEPT ![call.m].pos = @ + k]
              /\ call' = [call EXCEPT !.left = @ - k,
                                      !.buf = @ \o SubSeq(d, f.pos + 1, f.pos + k)]
         \/ End(FALSE) /\ UNCHANGED file
  /\ UNCHANGED <<vol, list, names, data, dirs>>

ReadEnd ==
  /\ Reading /\ call.left = 0
  /\ End(TRUE)
  /\ UNCHANGED <<vol, list, file, names, data, dirs>>

\* ntfs_seek_r and ntfs_seek64_r. Counted from the end the sum is unsigned, as
\* len is: a place before the start is a large number, and thus the end.
Seek(m, base, off) ==
  /\ Idle /\ m \in Handles
  /\ LET f  == file[m]
         to == CASE base = "set" -> Upper(off, 0)
                 [] base = "cur" -> Upper(f.pos + off, 0)
                 [] base = "end" -> (f.len + off) % SizeMod
     IN  file' = [file EXCEPT ![m].pos = Lower(to, f.len)]
  /\ Return("seek", 0)
  /\ UNCHANGED <<vol, list, names, data, dirs>>

\* ntfs_ftruncate_r: the position stays where it is.
Ftruncate(m, n) ==
  /\ Idle /\ m \in Handles
  /\ \/ /\ file[m].write
        /\ data' = [data EXCEPT ![file[m].ni] =
                      [i \in 1..n |-> IF i <= Len(@) THEN @[i] ELSE Zero]]
        /\ file' = [file EXCEPT ![m].len = n]
        /\ Return("ftruncate", 0)
     \/ Return("ftruncate", -1) /\ UNCHANGED <<data, file>>
  /\ UNCHANGED <<vol, list, names, dirs>>

-----------------------------------------------------------------------------
(* Mounting *)

\* ntfsMount with ntfsInitVolume: a new descriptor.
Mount ==
  /\ vd = 0 /\ mounts < MaxMounts
  /\ mounts' = mounts + 1 /\ vd' = mounts + 1
  /\ first' = 0 /\ count' = 0
  /\ call' = NoCall
  /\ UNCHANGED <<my_files, file, names, data, dirs>>

\* ntfsUnmount: ntfsDeinitVolume walks the list of open files.
StartUnmount ==
  /\ Idle
  /\ call' = Begin(first, "unmount")
  /\ UNCHANGED <<vol, list, file, names, data, dirs>>

\* Mutated form of CloseOpen: the next file is looked up in a cleared handle.
CloseOpenClears ==
  /\ call.busy /\ call.op = "unmount" /\ call.m # 0
  /\ file' = [file EXCEPT ![call.m] = NoFile]
  /\ call' = [call EXCEPT !.m = file'[call.m].next]
  /\ UNCHANGED <<vol, list, names, data, dirs>>

CloseOpen ==
  /\ call.busy /\ call.op = "unmount" /\ call.m # 0
  /\ file' = [file EXCEPT ![call.m] = ntfsCloseFile(@)]
  /\ call' = [call EXCEPT !.m = file'[call.m].next]
  /\ UNCHANGED <<vol, list, names, data, dirs>>

\* The descriptor is freed; slots and handles are not.
FreeVolume ==
  /\ call.busy /\ call.op = "unmount" /\ call.m = 0
  /\ vd' = 0
  /\ first' = 0 /\ count' = 0
  /\ call' = NoCall
  /\ UNCHANGED <<mounts, my_files, file, names, data, dirs>>

NameCall ==
  \E n \in Names :
    \/ Mkdir(n) \/ Unlink(n)
    \/ \E new \in Names : Rename(n, new)
    \/ \E mode \in {"r", "rw", "a"}, creat, trunc \in BOOLEAN : Open(n, mode, creat, trunc)

FileCall ==
  \E m \in Slots :
    \/ Close(m)
    \/ \E b \in Buffers : StartWrite(m, b)
    \/ \E n \in 1..MaxLen : StartRead(m, n)
    \/ \E base \in {"set", "cur", "end"}, off \in {-MaxLen, -1, 1} : Seek(m, base, off)
    \/ \E n \in 0..MaxLen : Ftruncate(m, n)

Step == PWrite \/ WriteEnd \/ PRead \/ ReadEnd \/ CloseOpen \/ FreeVolume

Next ==
  \/ Mount \/ StartUnmount \/ NameCall \/ FileCall \/ Step

Spec == Init /\ [][Next]_vars

-----------------------------------------------------------------------------
TypeOK ==
  /\ vd \in 0..MaxMounts /\ mounts \in 0..MaxMounts
  /\ my_files \subseteq Slots
  /\ \A m \in Slots :
       /\ file[m].vd \in 0..MaxMounts /\ file[m].ni \in Inodes \union {None}
       /\ {file[m].pos, file[m].len} \subseteq 0..MaxLen
       /\ {file[m].next, file[m].prev} \subseteq Slots \union {0}
  /\ first \in Slots \union {0} /\ count \in 0..Cardinality(Slots)
  /\ names \in [Names -> Inodes \union {None}] /\ dirs \subseteq Inodes
  /\ \A i \in Inodes : Len(data[i]) <= MaxLen

Opened == {m \in Slots : file[m].ni # None}

\* firstOpenFile leads through nextOpenFile to every open file of the volume,
\* prevOpenFile leads back, and openFileCount counts them, after any order of
\* opens, failed opens, closes, unmounts and mounts.
ListsMatch ==
  call.op # "unmount" =>
    /\ count = Cardinality(Opened)
    /\ \E s \in [1..count -> Opened] :
         /\ {s[i] : i \in 1..count} = Opened
         /\ first = IF count = 0 THEN 0 ELSE s[1]
         /\ \A i \in 1..count :
              /\ file[s[i]].next = IF i = count THEN 0 ELSE s[i + 1]
              /\ file[s[i]].prev = IF i = 1 THEN 0 ELSE s[i - 1]

\* ntfsDeinitVolume closes every file that was left open: no handle holds an
\* inode of a descriptor that is gone.
UnmountClosesFiles ==
  \A m \in Slots : file[m].ni # None => file[m].vd = vd /\ m \in my_files

Named(f, i) == \E n \in Names : f[n] = i

\* A rename never takes the last name of a file away: it is left under its old
\* name, its new name or both, whichever of the link, the unlink and the undo
\* fails. Only ntfs_unlink_r does.
RenameKeepsFile ==
  [][\A i \in Inodes : Named(names, i) /\ ~Named(names', i) => call'.op = "unlink"]_vars

\* The same, but for the three cases ntfs_rename_r does not see: a new name
\* without a Unicode form, which ntfsLink reports as linked, a path for which
\* ntfsLink has no memory, which it reports as linked as well, and an unlink
\* that fails after the name is gone, which makes it unlink the new name too.
RenameLosesOnlyThen ==
  [][\A i \in Inodes : Named(names, i) /\ ~Named(names', i) =>
       \/ call'.op = "unlink"
       \/ call'.op = "rename" /\ call'.ok /\ call'.new \in Unconvertible
       \/ call'.op = "rename" /\ call'.ok /\ call'.nomem /\ NoMemory
       \/ call'.op = "rename" /\ ~call'.ok /\ LateFailure]_vars

\* A write that succeeds without a short write in between leaves the buffer
\* where it was to go and the rest of the file as it was; the handle knows the
\* new length, and an append leaves the position alone.
WriteWhole ==
  [][Writing /\ ~call'.busy /\ call'.ok /\ ~call.short =>
       LET f == file'[call.m] IN
       /\ data[f.ni] = Patched(call.before, call.at, call.buf)
       /\ f.len = Len(data[f.ni])
       /\ f.pos = IF f.append THEN call.old_pos ELSE call.at + Len(call.buf)]_vars

\* A read that succeeds has returned the bytes at the position it started at,
\* as many as were asked for or up to the length the handle knows, and the
\* position has moved past them.
ReadCorrect ==
  [][Reading /\ ~call'.busy /\ call'.ok =>
       LET f == file[call.m] IN
       /\ call.buf = SubSeq(data[f.ni], call.at + 1, call.at + Len(call.buf))
       /\ f.pos = call.at + Len(call.buf)
       /\ Len(call.buf) = Lower(call.want, f.len - call.at)]_vars
=============================================================================
