# Simple NTFS ISO Mounter: TLA+ models and proofs

This directory holds TLA+ specifications of the programs under `source/`, the
TLC configurations that check them on small instances, and TLAPS proofs of
their main safety properties. Line numbers refer to the files in `source/`.
`PROJECT.json` maps every definition to the lines it models.

    tlc -workers 2 -config MCRawSecIso.cfg MCRawSecIso     one run
    tlapm RawSecIsoProofs.tla                              one module of proofs

## 1. The system

An application for the PS3 lets the user choose an ISO on a USB drive and makes
the console believe that the disc is in its drive. Four programs share the work.

| Part | Source | State it keeps | Operations |
|---|---|---|---|
| Application | `main.cpp`, `iso_mount.cpp`, `menu.cpp`, `input.cpp` | `bRun`, `ftp_service`, menu, buttons | boot (unmount, look for the flag), main loop, rescan, mount an ISO, exit |
| List generator | `ntfs_isolist/source/main.c` | ports seen, delay counters, mounted volumes | poll, mount after a delay, unmount, list, write the flag, start the application |
| Mounter | `ntfs_ext_iso/source/main.c`, `libntfs_ext/source/ntfsfile.c` | section arrays, plugin arguments | find the ISO on each volume, turn its runlist into sections, load the plugin |
| Plugin | `rawseciso/main.c` | threads, queue, port, device, section table, CD cache | start, stop, serve reads, shut down, unload |
| NTFS library, files | `libntfs_ext/source/ntfs.c`, `ntfsinternal.c`, `ntfsfile.c`, `ntfsdir.c`, `ps3_io.c` | mounted names, list of open files, table of handles | mount, unmount, open, read, write, seek, truncate, rename, unlink |
| NTFS library, disks | `libntfs_ext/source/device.c`, `gekko_io.c`, `cache2.c`, `ntfs.c` | pages of cached sectors, dirty flag of the device, partitions found | find partitions; read and write bytes and sectors, flush, sync |
| FTP server | `ftp/*.cpp` | `exitapp`, per client: login, data connection, restart point | listen, accept, one thread per client, some thirty commands |
| Cobra library | `cobra/*` | the kernel's disc emulation | disc types, fake events, mounting, cue sheets |

How they interact:

* The application, the list generator and the mounter *replace* one another
  (`exitspawn`). All they leave behind is two files, `iso_list.txt` and
  `isolist_finished`, the loaded plugin, and the kernel's mount.
* The mounter passes the plugin 64 KiB of arguments: section starts, sizes and tracks.
* The kernel sends commands to the plugin's event queue and waits for the reply on
  its port; the VSH starts and stops the plugin from threads of its own; the
  application ejects and unmounts whatever is mounted when it boots.
* The file API calls NTFS-3G under the volume's lock; NTFS-3G reads and writes ranges of
  bytes (`ntfs_pread`, `ntfs_pwrite`), the byte layer turns them into whole sectors for
  the cache, the cache into accesses of the device.
* The menu reads the pads once a frame and mounts what is selected.
* The FTP server runs in threads of the application and shares `exitapp` with it.

What is hard here: threads of four parties meet in the plugin; each kernel call may fail
and has its own clean-up code; a crash may fall between any two writes of the
files; drives come and go during polls and delays; the cache must be invisible
through evictions, direct writes, failing devices and power loss; sector
arithmetic mixes 32-bit sectors, markers and byte counts of three sizes.

What makes each part correct:

* Plugin: it uses and releases each resource once, shows the real disc again at
  the end, answers reads with the bytes of the file, and a stop that got its thread unloads it only when nobody runs in it.
* Mounter: the table it passes on describes the file; a table that was cut off is never used.
* Application and list generator: short of failures that no program checks, the menu shows a new list
  that no crash cut short, and booting comes to an end; no ISO stays mounted while they run.
* Automount: every mounted volume is known and on its own drive, a drive that every poll sees is found, and the
  polling ends unless a search for partitions does not.
* Cache: nobody can tell that it is there, except after failures and restarts.
* Byte layer: exactly the range asked for is read or written; a sync that reports success has saved everything.
* Partitions: every partition that can be reached is found and nothing else; the search ends if every
  chain of boot records has a readable end.
* File API: the list of open files is the files that are open; what a call reports is what it did.
* Menu: the selected item is on the screen; one press mounts one image, as long as one pad is used.
* FTP: a command does not inherit the data connection or restart point of an
  earlier one; a success reply means success; a stop takes effect.

`PROJECT.json` lists the hazards behind these properties, each at its line.

## 2. Modules

| Module | Models | State and actions |
|---|---|---|
| `RawSecIso` | life of the plugin, `rawseciso/main.c` 359-604 | one program counter each for the worker, start, stop and the application; `owned` stands for args, handle and port; one action per kernel call of the worker and of the stop, with its failure branch, the unchecked ones included; the kernel's proxy, the VSH and the user who exchanges the disc are external |
| `ProxiedDisc` | *abstract*: what the kernel may rely on | mount and unmount only while the drive looks empty, as far as the plugin could know; one read at a time, answered or cancelled |
| `SectionTable` | what a section table means | `Image(table, o)`: where byte `o` of the file comes from; the reference definition for the reader and the mounter |
| `IsoReader` | `get_next_read`, `process_read_iso_cmd` (112-239) | zero-fill, head, body and tail of each piece are actions, storage reads may fail |
| `CdCache` | `process_read_cd_2352_cmd` (279-357) | hit in front, hit behind, miss, refill; the tag and its 32-bit difference keep their width; `ABS(INT_MIN)` may come out either way; the 32-bit products `sector*2352` are unbounded, as a CD has fewer than 450,000 sectors |
| `CdUserData` | `process_read_cd_2048_cmd` (241-277) | in-place squeezing, byte by byte; reads fail unnoticed; products as in `CdCache` |
| `FileSections` | `ntfs_file_to_sectors`, `ntfs_attr_to_sectors` (`ntfsfile.c` 562-826) and the mounter's `main` | one action per run of the runlist and per return; unsigned counts, C's rounding of negative ones towards 0, 32-bit sector numbers and sizes, and the hole marker kept |
| `Launcher` | three programs and two files | where the running program is; `trouble` records the unchecked system calls that failed, lost entries and files lost at power-off; `Crash` at any point. `MountIso` has the plugin mount at once: it does so later, in its own thread, and the user is assumed not to start the application before |
| `AutoMount` | polling, mounting and naming (`ntfs_isolist` 98-160, 237-300; `ntfs.c` 431-517) | drives are plugged, pulled and exchanged between any two steps; each mounted volume remembers the drive it is on; a poll may miss a drive that is there; the search for partitions of a drive with a chain of boot records (`Chained`) may never return |
| `NtfsCache` | `cache2.c` | one action per page of a call; every device access may fail after a part of it; `PowerOff` at any point |
| `Volume` | *abstract*: a volume with contents and durable contents | calls transfer in pieces, succeed or fail; `Restart` falls back to what is durable |
| `FtpServer` | `ftp/*.cpp` | listening thread, client threads, commands grouped by what they do to the session |
| `Menu` | `menu.cpp`, `input.cpp`, the frame of `main.cpp` | one action per frame: which pads answer with what, the repeat of a held direction, the window of the list; an item in none of the four folders is not mounted |
| `Partitions` | `ntfsFindPartitions` (`ntfs.c`) | one action per sector that is looked at; each read may fail, the drive may be pulled |
| `ByteSectors` | arithmetic of byte ranges over sectors | the operators `ByteDevice` and its proofs are built from |
| `ByteDevice` | `ntfs_pread`, `ntfs_pwrite`, `ntfs_device_sync` (`device.c`), `ntfs_device_gekko_io_*` | first, whole and last sectors of a range; the dirty flag; the device below behaves like `Volume` |
| `FileApi` | `ntfsfile.c`, `ntfsdir.c`, `ntfsinternal.c`, the handles of `ps3_io.c`, `ntfsUnmount` | one action per call; a read or write loops over what NTFS-3G returns; handles survive an unmount as the code lets them; `NoMemory`: paths may fail to be copied |
| `Application` | the main program: `FtpServer`, `Launcher` and `Menu` together | a behaviour is one of theirs, the other two rest |
| `*Proofs` | theorems about `RawSecIso`, `IsoReader`, `CdCache` and `CdUserData` (`DiscReadsProofs`), `FileSections`, `NtfsCache` and `Partitions`, `ByteDevice`, `Application`, `AutoMount`, `FileApi` | |
| `MC*` | instances for TLC | |

`FileSections` and `IsoReader` meet in `SectionTable`: the first shows that the
table describes the file, the second that reads through any table are reads of its image. Both are proved,
and `SectionsAreATable` is what the second assumes of its tables.
`ByteDevice` takes from the sectors below it what `Volume` promises, and `NtfsCache` is shown
to implement `Volume`: bytes over sectors over cache over device.
`CdCache` and `CdUserData` use `process_read_iso_cmd` as `IsoReader` shows it to
be: right, or failing after a part. `RawSecIso` only has reads that succeed or fail.

`MCDiscReads`, `Application` and `MCDisk` check several components in one run. They share no
state, so each behaviour is a behaviour of *one* of them, chosen at the start;
the others rest in an initial state, in which none of their fair actions is enabled
(the fairness of `Partitions`, which would be, is asked for only in its own behaviours).

`FileApi` assumes of its callers what the programs of this repository do: a file that is open for writing is
open once, and only files that are not open are unlinked or renamed.

## 3. Runs

| Run | States | What it shows |
|---|---|---|
| `rawseciso` | 10,936 | `UsesWhatItOwns`, `ExitReleasesAll`, `RealDiscBack`, `UnloadedWhenQuiet`, `StopCompletes`, and that the plugin implements `ProxiedDisc` |
| `disc_reads` | 234,030 | `ReadCorrect` (ISO), `RawReadCorrect` and `NoWildCopy` (raw sectors through the CD cache), `UserDataCorrect`, `CallReturns` |
| `file_sections` | 42,434 | `TableDescribesFile`, `LoadedDescribesFile`, `Terminates` |
| `application` | 85,319 | `MenuShowsWholeList`, `UnmountedWhileRunning`, `EachMenuFresh`, `BootReachesMenu` (programs); `UsedOnce`, `StoredWhole`, `NextConnectionStops` (FTP); `SelectedShown`, `OneMountPerPress` (menu) |
| `auto_mount` | 1,200,537 | `EveryMountKnown`, `OwnDrive`, `SettledBeforeMount`, `DriveFound`, `Ends` |
| `disk` | 43,105 | the cache implements `Volume`, `CallReturns`; `PartitionsFound`, `SearchEnds` |
| `byte_device` | 85,088 | `ReadExact`, `WriteExact`, `SyncHonest` |
| `file_api` | 108,320 | `UnmountClosesFiles`, `ListsMatch`, `RenameLosesOnlyThen`, `WriteWhole`, `ReadCorrect` |
| `rawseciso_queue` | violated | the queue that a worker creates after an early stop is never destroyed |
| `file_sections_holes` | violated | holes of a file are not read as zeros |
| `ftp_sent` | violated | a download over a broken connection is reported as complete |
| `file_api_rename` | violated | a rename to a name without a Unicode form loses the file and succeeds |

Each property of a passing run has a mutant in `PROJECT.json`: a mutated form of one
definition, as a plausible mistake in the code would make it, under which the
property fails. Mutated forms stand in front of the definition they change.

### Bounds

* `rawseciso`: an empty drive or one type of disc, exchanged at any time and any number of times; the queue has one place, as
  in the code. Everything else is finite by itself.
* `disc_reads`, ISO: sectors of 3 bytes and three sections, so that requests start, end and cross
  everywhere. Raw sectors: 3 sectors of cache, 6-bit sector numbers: before, into, across,
  behind, and exactly at the distance of the cache size. The proofs cover all sizes of both. User data:
  raw 8, user 6, header 1; the overlap of source and destination, more than a raw sector for larger
  requests, is as at 2352, 2048 and 24. The proofs cover all sizes of this too.
* `file_sections`: clusters of two sectors, up to four runs, files that end
  anywhere in their last cluster or are initialized in part, at most 3 sections, 2 volumes: a table may be full before the runs end.
  Words of 6 bits: volumes whose last sectors still have a number of their own or just not, holes of as many sectors as a size
  counts or of more. A file without runs, and one whose runs end before its data. The proof covers all sizes.
* `application`: two FTP clients, restart points 0 and 1, transfers of up to two buffers; the programs have
  no parameters; two pads, a window of two lines over 0, 1 or 4 items, a repeat after two frames.
* `auto_mount`: 2 ports, a delay of 2 polls in 5 rounds, two plugs, 3 usable names of which 2 are
  looked for; the drives of one port have chains of boot records, those of the other have none; the order delay < tries, names < partitions is that of the code.
* `disk`, cache: three sectors in blocks of two, one page, two values. One page makes
  every call that crosses blocks replace it. The proof covers all partitions, page sizes and numbers of
  pages. Partitions: drives of nine sectors with chains of up to three records, which may loop, lack a
  signature or end at an unreadable sector; at most 4 partitions.
* `byte_device`: two sectors of two bytes, ranges of up to three bytes: they begin and end inside sectors and at
  their edges; NTFS-3G asks for ranges inside its volume only. The proof covers all sizes.
* `file_api`: one inode under up to two names, a third name that cannot be converted, three handles,
  two mounts, two bytes; memory for paths may run out in every call (not in `file_api_rename`, whose finding does not need it). Two handles on the inode can be open at once for reading, and one can be
  left over from the first mount. The two names are interchangeable (symmetry; no liveness is checked here).

### Fairness

Weak fairness of a program's own steps, nothing more: a thread that can run
does run (`ThreadStep` and `StopStep` of the plugin, `Listen`, `AcceptAny` and `Serve` of the FTP
server), and a sequential program goes on (`Step`, `Main`, `Search`). Users, clients, drives,
the kernel's requests and the power switch owe nothing. The application's
`AppUmount` is fair because it directly follows its eject. `StopCompletes` starts where the
queue has been destroyed, because before it was created the stop may wait for ever (see
`rawseciso_queue`), and so it may when the destruction failed. `StrayJoin`, the join of a stop whose thread was not
created, is not fair: its id was never set, and nothing says that the join returns. `NextConnectionStops` starts with a connection, because
without one the listening thread stays in `accept`. `SearchEnds` excepts chains of boot
records that loop or have an unreadable record, and drives that are gone, which the code reads for ever. `Ends` excepts the
search of a drive with such a chain for the same reason, and no other: a drive without a chain is not excused.
`BootReachesMenu` excepts runs in which a call has failed that no program checks.

Deadlock is checked, except where the system may stop: the list generator after it
finished, the FTP server with all its clients gone, the menu after a mount, the search for partitions when it
is over, a volume after its last mount, and raw reads after an undefined copy. In `rawseciso` the user can always
exchange the disc, so that a plugin that is stuck shows in `StopCompletes` and not as a deadlock.

## 4. Proofs

All theorems hold for every value of the constants that the named assumptions allow.

* **`RawSecIsoProofs`** (assumption: disc types are positive numbers). The inductive invariant adds to the
  types what the worker *exactly* owns at each step (`OwnershipInv`), what
  the system can see and when the disc may be mounted (`DiscInv`), and that
  nobody is behind the join of a stop thread too early (`StopInv`, for stops that got their thread). It is needed because "uses what it owns" says
  nothing of how the resource got there. Where the worker relies on the type of the disc it was told last (`Trusting`),
  that type is the one of the drive unless the disc was exchanged since (`changed`). `Implementation` shows each step to
  be one of `ProxiedDisc` or a stutter; its fairness is checked by TLC.
* **`DiscReadsProofs`**, three components of the plugin. `IsoReader` (tables are well-formed; any sector size). `PrefixInv`: the
  part of the buffer already done is right; `ChunkInv`: where the current piece lies in its section.
  `Sec`, `Byte` and `Addr` are used through a few lemmas only, so that no
  division reaches the other steps. `CdCache` (requests lie below 2^31 by two cache sizes). `RefillInv`:
  before a refill everything around the missing run is already in the buffer.
  `TagInv`: which tags may stand over which memory. `CdUserData` (any sizes with
  header and user data inside the raw sector). `SqueezeInv`: the sectors so far are squeezed (`Squeezed`), and the
  raw sectors from the byte in turn on are still as they were read (`Intact`); the second is what makes the first
  inductive, and holds because sector `i` is copied to `i * UserSize`, at or before `i * RawSize`.
* **`FileSectionsProofs`** (clusters are whole sectors, runs are not empty, what is initialized is a first part of the data;
  files are otherwise arbitrary, also without runs or with runs that end too early). `SectionsTableDescribesFile`,
  `SectionsLoadedDescribesFile`, `SectionsAreATable` and the types. Without a failure *one* call of `ntfs_attr_to_sectors` walks
  the whole file, and `WalkInv` follows it (`Walked`): what is done and `count` add up to the initialized size; while
  something is left, the table ends exactly where the run in turn begins and describes everything before it; `count` is negative
  only behind a hole that was rounded up to a sector, and then the table reaches beyond the initialized part; it is then never a whole number of sectors (`RoundedUp`), so that a data
  run behind it, whose length C rounds towards 0, ends the call. A section
  of which only a part is used ends the walk. `prev_sector` is the end of the last section (`LastEnds`), which is why a
  merged run continues it, and why no run continues a hole. `FileInv` and `ReturnedInv` carry this from call to call, `MarksInv` says
  which entries are holes, so that adding the volume's start (`PlacedInv`) moves every byte by the same distance.
  The hypothesis `FitsTable` of the two properties is what 32-bit entries can express: sector numbers below the mark of a hole and fewer than
  2^32 sectors; beyond it numbers wrap in the model as in the code, and the table is wrong. Starts of runs and of sections are
  running sums, defined by a recursive function; that it exists is shown by a least counterexample (`SumExists`), and from
  there on only the equation of a sum is used (`IsSum`).
* **`NtfsCacheProofs`** (calls lie inside the partition). `IInv` is `TypeOK`,
  `CachedOnce`, `CleanPages` and `FlushedPages`. The refinement maps `contents` to what a
  reader sees (the page, or else the device) and `durable` to the device,
  with `Lost` where a failed read overwrote a page. The step of each action rests on
  lemmas about what it does to this view: a fill and a write-back do not change it,
  a hit and a direct write change the sectors of the call. `Implementation` is the full `Spec => ImplementsVolume`.
  The same module proves `PartitionsFound` of `Partitions` (tables hold entries, records and sector numbers; drives are otherwise
  arbitrary). `TableInv`: the entries before the one in turn are done; `ChainInv`: some set of records has been
  looked at, which lead to one another or to the record in turn (`Visited`). When that one leads nowhere the set is closed, and
  contains the chain, which is defined as the smallest closed set; a chain that loops never gets there. No
  induction over the length of a chain is needed.
* **`ByteDeviceProofs`** (any positive sector size, sectors and bytes). `IInv` is `TypeOK`,
  `CleanOnDisk` (a device without the dirty flag shows what is on the disk, unless a flush failed),
  `SyncHonest` and `ReadExact`. `CleanOnDisk` is what makes `SyncHonest` inductive: a sync of a clean device does
  nothing and still reports success. `WritesAreExact` rests on lemmas about `ByteSectors`: the sectors
  that cover a range, and that a byte of the first or last one outside the range keeps its value.

* **`ApplicationProofs`** (0, which stands for no pad, is not a pad; lengths of lists and windows, restart points and buffers are
  natural numbers). Three inductive invariants, one per component, and `ApplicationSafe`, which composes them: a
  behaviour keeps the invariant of the part that moves, and the others rest. `FtpInv` adds to `UsedOnce` that
  nobody has a data connection or restart point before logging in (`LoginInv`), and that a STOR has put what it took (`StoreInv`).
  `LauncherInv`: the flag is up only over a list that is not yet shown and, unless entries were lost, whole, at every point of the three
  programs, crashes included (`FlagInv`), as long as none of the failures of `NoTrouble` has occurred; what the menu shows says nothing of that. `MenuInv`: the selected
  item lies in the window when the pads are read (`WindowInv`), and a CROSS that has had its effect is still among the buttons of
  the frame before (`PressInv`).
* **`AutoMountProofs`** (the delay is not longer than the tries, and fewer names are looked for than exist, as in the code).
  `KnownInv`: what is mounted is named by a descriptor or by the call in progress; `DriveInv`: the call
  mounts volumes of the drive that is there, unless it was pulled; `CountInv`: the delay counter of a port and the polls
  that found it add up to the delay; `RoundInv` and `FoundInv`: what the rounds so far have seen and tried, without
  which `DriveFound`, a statement about the end, is not inductive.
* **`FileApiProofs`** (`size_t` holds more than twice any file; requests are not empty, because
  `ntfs_write_r` returns at once for a length of 0, `ntfsfile.c:273`). `ListInv`: the list of open
  files is the files that are open, or, in the middle of an unmount, the part of that list behind the
  one just closed (`Chain`). `HandleInv`: which handles point to which files, the stale ones included. `WriteInv` and
  `ReadInv`: the part of the request that the loop has done, from which `WriteWhole` and `ReadCorrect` follow; for a
  position behind the end, that the wrapped length is larger than any file.

Proved for all instances, and not among the properties of a run: `ReadsInsideSection`,
`WritesInsideBuffer`, `CacheHonest`, `CopiesFit`, `CachedOnce`, `CleanPages`.

Only model-checked: the liveness properties `StopCompletes`, `CallReturns`, `Terminates`, `Ends`, `SearchEnds`, `BootReachesMenu`
and `NextConnectionStops`, and the fairness of `ImplementsProxiedDisc`: fairness is out of the prover's reach. Every invariant and every action
property of a passing run is proved.

## 5. Where code and words differ

Checked as violations:

1. `rawseciso/main.c:563`. "queue destroyed in stop thread" (531) is not so when the stop
   thread ran before the worker had created the queue.
2. `ntfsfile.c:816` adds the volume's first sector to the hole marker
   0xFFFFFFFF as well, and `rawseciso/main.c:162` no longer recognises it: sparse files read wrong data.
3. `ftpcmd.cpp:139` compares `send`'s -1 as an unsigned number: the transfer continues and ends with 226.
4. `ntfsinternal.c:564`: `ntfsLink` reports success when the new name has no Unicode form, and `ntfs_rename_r`
   ("Link the old entry with the new one", `ntfsdir.c:250`) goes on to unlink the old one: the file has no name left.

Seen while modelling, without a run:

* `rawseciso/main.c:598`: `rawseciso_stop` does not check the creation of its thread. Without it `running` stays set, the
  join is given an id that was never set, and `finalize_module` unmaps the code while the worker runs in it
  (the exception in `UnloadedWhenQuiet`). Line 565: when the queue cannot be destroyed, the stop only logs it and joins a worker
  that nothing wakes.
* `rawseciso/main.c:437` and `:509`: a disc that is exchanged between the question for its type and the insert event is not noticed
  (the exception in `RealDiscBack`).
* `ntfs_isolist/source/main.c` checks none of its writes and syncs nothing: a full disk, a drive pulled during the listing or
  a power-off behind the flag leave a list without some of its entries, and the menu shows it (`trouble` in `Launcher`).
* `ntfsfile.c:602`: the sections of a file that is not initialized to its end add up to less than the
  "size of the file aligned to the next 512" (`ntfs_ext_iso/source/main.c:161`). Zeros are read there all the same.
* `ntfsfile.c:731`: a walk that stops at the limit on sections still accounts for the part that is not initialized, and the
  position passes sectors that are not in the table. `main` refuses a table that is full (the exception in `TableDescribesFile`).
* `ntfs_ext_iso/source/main.c:216` compares with `==`: with more parts than the limit, tracks
  are written behind `plugin_args`.
* `ntfs.c:466`: the tenth of `NTFS_MAX_MOUNTS` names is never used, and a call that runs out of
  names leaves its volumes mounted (`leaked` in `AutoMount`).
* `cache2.h:122` and `:127` describe flush and invalidate the other way round:
  flush keeps the pages, invalidate writes them first, and drops them even if that failed.
* `ftp.cpp:757` advertises `SITE PASSWD`, which is answered 500; `SITE EXITAPP` ends the listening
  thread only at the next connection.
* `O_RDONLY` is 0: `flags & O_RDONLY` never marks a device read-only. `NDevSync` is never set. Closing a
  device ignores the result of its flush.
* `device.c:164`: a sync that failed has cleared the dirty flag, and the next one reports success
  without doing anything (the exception in `SyncHonest`).
* `ntfs_delete` may fail when the name is already gone; `ntfs_rename_r` then undoes its link and loses the file;
  and `ntfsLink` reports success also when it has no memory for the path (`ntfsinternal.c:553`). `RenameLosesOnlyThen` says that
  these two and item 4 are the only ways.
* `ntfsfile.c`: `ntfs_write_r` does not advance its pointer after a short write, and leaves position and length as they
  are on errors; `ntfs_read_r` of a position behind the end, after `ftruncate`, computes a negative length and fails;
  a seek to before the start from the end, an unsigned sum, goes to the end.
* `ntfsParseEntry` passes `reparseLevel++`: the limit behind `ELOOP` is never reached. Directories are opened on a
  private copy of the volume, so that "Close any directories which are still open" closes none.
  `ntfs_dirnext_r` does not unlock on success. `ntfs_link_r` makes a symbolic link at `existing`.
* Handles of files that were open at an unmount stay taken (`my_files`).
* `ntfs.c:231`: a chain of extended boot records that loops, or has a record behind its first that cannot be read, is read for ever; so is
  any chain when the drive is pulled out in the middle of it. The list generator then never ends (`SearchEndless` of
  `AutoMount`, `"endless"` in `Launcher`). A looping chain also reports its partitions again each time, up to the limit.
  `ntfsFindPartitions` leaks its buffer when the first read fails.
* Menu: any pad with data is used, in turn, despite "Use controller 1 for operation (for now)", and all share one set of buttons: a CROSS that
  is held counts as a new press when another pad reported without it in between (the exception in `OneMountPerPress`); CROSS still held when the
  menu comes up mounts item 0; a stick that was never moved counts as up; a pad unplugged with a
  direction held keeps scrolling; `AddItemEx` does not check its 2048 places; the type of an image is the last match
  anywhere in its path (`main.cpp` 82-85).
* A drive that is pulled while its own mount call runs leaves volumes on a closed device (the exception in `OwnDrive`).

## 6. Not modelled

* `libntfs_ext` is for the most part NTFS-3G and libext2fs (`attrib.c`, `security.c`, `acls.c`, `dir.c`,
  `runlist.c` and some hundred files more), and `zlib`, `rawseciso/printf.c` and `libc.c` are third-party too.
  They are over nine tenths of the lines under `source/`, maintained and tested elsewhere; they are seen
  through the runlists, sectors, names and bytes that the code of this repository gives and takes. This
  is why the share of all source lines that the map covers is small.
* `ps3_io.c`: the eight retries of an access, which only make a failure rarer, and the copy through an aligned buffer.
* `device.c`: records with update sequence numbers (`ntfs_mst_*`), seek and stat.
* File API: directory listings, chdir, symbolic links, stat, attributes, and the twin of these files for ext2.
* `cobra.c`: system calls wrapped one by one, and a parser of cue sheets; the calls made of it are external
  actions of `RawSecIso` and `Launcher`. The ISO generator (`Iso9660Gen.cpp`, `Ps3IsoGen.cpp`) is not called by any program here. History and
  firmware: deletions one after the other, and calls that are commented out.
* The partial-sector functions of `cache2.c` (237-329): no caller. The access
  counter is a rank, so its wrap after 2^32 accesses is left out; it would only
  change which page is replaced.
* FTP: paths and reply texts. `ftp_clients`: nothing reads it.
* `ntfs_ext_iso/source/main.c:216`: the tracks written behind the arguments (section 5). The model keeps the limit on
  sections; what lies behind the block of arguments depends on the allocator.
* Drawing, fonts, images: no state that a property is about. `msvc/`, `bin/`, `release/`: builds and data.

## 7. Plan

1. (done) Plugin, reader, CD cache, mounter, launcher, automount, sector cache, FTP server; proofs of four of them.
2. (done) Bytes over sectors, with proofs; partitions; the file API; the menu; automount over drives that are exchanged.
3. (done) Proofs of `FileApi`, `FtpServer`, `Launcher`, `Menu`, `AutoMount`, `CdUserData` and `Partitions`: every safety property the runs
   check, except those of `FileSections`.
4. (done) Proofs of `FileSections`: the table describes the file, so that the way from the runlist to the bytes the plugin
   returns is proved on both sides of `SectionTable`.
5. Directory handles and chdir of the file API; the cue parser of `cobra.c` against a reference definition.
