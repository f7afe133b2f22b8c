# WupNetworkInstaller: a verification project

WupNetworkInstaller is a Wii U homebrew program: it reads titles from a FAT
formatted device, copies them to the console's storage and has the system's
MCP service install them.  This directory holds TLA+ models of its core, the
TLC runs that check them on small instances, and proofs that TLAPS checks.

Paths are relative to `src/`; `fs.cpp:190` is line 190.

## 1. The system

| Component | Code | State it keeps | Operations | Model |
|---|---|---|---|---|
| Threaded file copy | fs.cpp 176-249 | a pool of 16 buffers, two queues, two threads, two futures | copyFileThreaded, readThread, writeThread | `CopyPipeline`, `StreamCopy` |
| Locking queue | LockingQueue.h | queue, mutex, condition variable | push, waitAndPop (empty, tryPop, tryWaitAndPop have no caller) | in `CopyPipeline` |
| Folder and file copy | fs.cpp 84-174, 251-326 | the recursion, open streams and directories | copyFolder, enumerateFatFsDirectory, copyFile | `CopyFolder` |
| Installer | Installer.cpp, Installer.h | `lastErr`, `processing`, the install lock, auto power down | install, cancel, the MCP callback | `InstallSession` |
| copyAndInstall | main.cpp 33-81 | the future of the installation | one call for each title | `InstallSession` |
| Keys | utils.cpp 9, 33-62 | `lastKey` | getKey | in `InstallSession` |
| Sector cache | fatfs/ffcache.cpp 45-302 | slots, free list, LRU list, map, active window | read, write, getSector, flush, initialise, shut down | `SectorCache`, `SectorStore` |
| Disk interface | fatfs/diskio.c 19-240 | `fatMounted` | disk_initialize, disk_shutdown, disk_read, disk_write, disk_ioctl | in `SectorCache` |
| Directory name cache | fatfs/ffcache.cpp 305-392, ff.c 2467-2527 | names of the scanned directory, the last table and index | find, create, clear, the index | in `FatDirectory` |
| FatFs directories | fatfs/ff.c 1629-2765, 2991-3280, 4401-4474, 4742-4865, 5103-5381 | tables of entries, the current directory, open directories | find, register, remove; f_open, f_unlink, f_mkdir, f_rename, f_chdir, f_opendir, f_readdir | `FatDirectory`, `NameSpace` |
| FatFs files | fatfs/ff.c 1264-1587, 3845-4374, 4578-4733, 4961-5188 | the FAT, the exFAT bitmap, free counts, open files, entries | f_open, f_read, f_write, f_lseek, f_truncate, f_sync, f_close, f_unlink, f_getfree | `FatFiles` |
| FatFs window and table | fatfs/ff.c 1022-1262, 1629-1658 | the window, its sector, `wflag`, `fsi_flag` | move_window, sync_window, sync_fs, get_fat, put_fat, dir_clear | `FatWindow`, `VolumeImage` |
| FatFs volumes | fatfs/ff.c 3524-3833 | `FatFs[]`, `fs_type` | f_mount, f_unmount, mount_volume | `UsbVolume` |
| devoptab adapter | fatfs/extusb_devoptab/ | registration, open descriptors, an offset of its own | init, fini, open, read, write, seek, ftruncate, fsync, close, ... | `ExtUsbFile`, `ProgramRun` |
| File system client | ios_fs.c | `initialized`, the client | initFs, cleanupFs, FSAEx_* | in `ProgramRun` |
| WiiU disk | fs.cpp 14-81 | `usbMounted` | mountWiiUDisk (no caller), unmountWiiUDisk | the second, in `ProgramRun` |
| Application state | state.cpp, main.cpp 84-157 | `app` | AppRunning, the HOME callback, shutdownState | `ProgramRun` |
| Others | net_receive.cpp, utils/logger.c, tinyjson.h, scripts | none that matters | download (no caller), logging, parsing (not included) | no |

How they interact:

```
 main ── copyAndInstall ──┬── copyFolder ── copyFile ──┬── copyFileSinglethreaded
                          │                            └── copyFileThreaded ── readThread │ writeThread
                          └── std::async(runInstall) ── Installer::install ── MCP ── mcpInstallCallback
 file calls ── devoptab adapter ── FatFs ── disk_* ── sector cache ── raw device
```

* `copyFolder` calls the file system; the threads of one copy share buffers
  and two queues; main, the worker and MCP's callback share `lastErr` and
  `processing`; FatFs and `dir_scan` share the sectors of the cache.
* At this commit `main` ends after listing the folders of the device: the calls
  of `mountWiiUDisk` and `copyAndInstall` are commented out or missing.  They
  are modelled as the functions they are.

What is hard here: two threads and the destructors of what they share;
completion by a callback that races a poll and a cancellation over one plain
integer; errors in the middle of a copy that is later repeated; a write-back
cache whose eviction writes other sectors than the one it makes room for; reads
and writes cut at cache lines over a file object with two positions and two sizes;
directory tables rearranged under a remembered index, a cache of names and a
listing; cluster chains whose links lie in three places; links of three digits that
lie in two sectors behind one window; a drive that is pulled.
`PROJECT.json` lists each hazard at its line with the properties that cover it.

## 2. Modules

| Module | What it is |
|---|---|
| `StreamCopy` | Abstract: what copying one open stream promises. |
| `CopyPipeline` | `copyFileThreaded`: both threads, the queues, the futures. Implements `StreamCopy`. |
| `CopyPipelineProofs` | TLAPS: types, safety and refinement of `CopyPipeline`. |
| `CopyFolder`, `CopyFolderMC` | `copyFolder` and `copyFile`; uses the outcomes of `StreamCopy`, and the hang `CopyPipeline` shows, as one step. |
| `CopyFolderProofs` | TLAPS: what the answer of `copyFolder` means. |
| `InstallSession` | `copyAndInstall`, `Installer`, MCP and the HOME button. |
| `ExtUsbFile`, `ExtUsbFileMC` | One open file of the device `fat:` over FatFs's file object. |
| `ExtUsbFileProofs` | TLAPS: the safety properties of `ExtUsbFile`. |
| `SectorStore` | Abstract: the block device that diskio.h describes. |
| `SectorCache`, `SectorCacheMC` | ffcache.cpp and diskio.c. Implements `SectorStore` for one-sector requests. |
| `SectorCacheProofs` | TLAPS: safety and refinement of `SectorCache`. |
| `NameSpace` | Abstract: a tree of names, and what creating, removing and renaming do to it. |
| `FatDirectory`, `FatDirectoryMC` | The directory tables of a FAT volume and the directory name cache. Implements `NameSpace`. |
| `FatDirectoryProofs` | TLAPS: safety and refinement of `FatDirectory`. |
| `FatFiles`, `FatFilesMC` | The cluster chains of files, on FAT and exFAT. |
| `FatFilesProofs` | TLAPS: safety of `FatFiles`, with the invariant of its calls. |
| `VolumeImage` | Abstract: a volume whose links and entries are changed in place. |
| `FatWindow`, `FatWindowMC` | The sector window of FatFs and the table of links behind it. Implements `VolumeImage`. |
| `FatWindowProofs` | TLAPS: safety and refinement of `FatWindow`. |
| `UsbVolume` | Mounting a volume, and the raw drive below it. |
| `ProgramRun` | One run of main: client, device, messages, over `UsbVolume`. |
| `ProgramProofs` | TLAPS: the lock, the power switch and who waits for MCP (`InstallSession`); the drive is opened once and a freed volume left alone (`ProgramRun`). |

Every module is written from the code.  Definitions with a suffix after an
underscore (`WriterPop_Lifo`) are mutants, plausible bugs that show that a
property can fail; no specification uses them.

### CopyPipeline

`rpc` and `wpc` are the places of the two threads, `mpc` that of
`copyFileThreaded`.  A critical section of `LockingQueue::guard` is one step
and `notify_one`, which `push` calls after it has released the guard, is the
next; between the two the other thread may run.  `waitAndPop` tests and goes
to sleep in one step because the wait gives up the guard atomically; it may
also wake for no reason.  `mem` is the memory behind `file_buffer::buf`, which
all copies of a buffer share.  A unit of data is named by its position in the
file, so "the right data" is `dst = <<1, 2, ...>>`.  `fread` may stop anywhere
and set the sticky error flag, `fwrite` may fall short anywhere.  The
destruction of the futures and of the queues is the step `Destroy`.  That it
waits for both threads is an assumption, not a result: it is what the standard
says of the destructor of a future of std::async.

### CopyFolder

`stack` is the recursion; every call of the file system is a step that may
fail (`May` sets the auxiliary `fault`).  `dst` holds, for each file, how much
of it the destination has and whether it comes from this source; what stdio
still buffers (`pending`) reaches it at `fclose`, or does not.  `openDirs`
counts the directories nobody closes.  Entries that are skipped (a leading dot,
"System Volume Information") are not in `Files` and `Folders`; an entry of
another type makes the enumeration fail, like any other fault.  The number of
directories that can be open is a parameter: for `fat:`, where a handle is only memory
(fs.cpp:134), five is far too few, and chosen to let the limit be reached.
The mode 777 of `mkdir` (decimal) is not modelled.

### InstallSession

`wpc` is the worker in `install()`, `mpc` is main in `copyAndInstall`, `mcp`
is the service: it runs, ends with an `outcome`, and calls back in two steps
(the error, then the flag).  `lastErr` is written by all three, so each
statement that reads or writes it is a step (the test after the loop is `Judge`, the
switch `Switch`, the reset `Succeed`), and the answer of a request and the moment it
is stored are two.  Error codes are four classes.  `std::async`
without a policy may defer.  If MCP_Open fails, `initialized` keeps whatever
the heap held, so `Init` allows both values.

### SectorCache

A request of several sectors is one step for each, since a sector without a
slot evicts another and what is written then depends on those before.  Slots
are numbers, the fields of a `sectorCache` are functions on them, the two
lists are sequences and the map is a function whose domain shrinks and grows.
A read of uncached sectors keeps the loop variables `i`, `f` and `last` of the
code.  A raw transfer works or fails without anybody being told, as in the
code.  `disk_shutdown` has no caller, but is modelled; after it the drive is
not used again, which leaves out what a second initialisation would make of
the stale `activeCacheWindow`.  `Begin` takes only requests within the drive:
the sector numbers FatFs computes from a valid volume.

### ExtUsbFile

One descriptor, opened and closed any number of times.  The functions of ff.c
appear as what they do to the file object: position (`fptr`), size, the sticky
error, FA_MODIFIED, and the size in the directory entry.  Clusters, sectors and
the contents are left out; a byte is its place in the file.  read and write have
the same loop: `Pick...` chooses the next part of the request (a front, whole
lines, a back), `Transfer` calls f_read or f_write, which may work, fall short (a
full disk, the end of the file) or abort in the middle.  `moved` maps each place
of the caller's buffer that has been served to its place in the file.  A handler
that answers with an error before it touches anything has no action.  exFAT is
compiled in, so f_lseek keeps the size up while it stretches a file, and an abort
leaves no gap.  f_stat failing in SEEK_END changes nothing and is left out.
`EntryIsSize` exempts a file with FA_MODIFIED: until it is synced the entry has the
old size, and SEEK_END, which asks f_stat, counts from that, not from "the end of the
file" of its comment (extusb_fs_seek.c:35).

### FatDirectory

`table` maps a directory, known by its first cluster, to the sequence of its
entries; a name is one short entry and, ahead of it, `Parts` long ones.  dir_find
is `Hits`; dir_alloc with dir_next is `FirstRun` and `Walk`; dir_register and
dir_remove are the sets `Registrations` and `Removals` of what they may come to, and
each call of the API is an action that puts them together.  A call may find no room
in a table or on the volume, after it has stretched the table and moved the
remembered index, and the drive may refuse any access: of dir_alloc to an entry it
looks at (ff.c:1792), of dir_register between two entries it writes (ff.c:2689, 2704),
of dir_remove between two it deletes (ff.c:2742), and of sync_fs at the end.  `faults`
counts them, `answer` says which call it was, on what, and how it ended, `trouble` is
the set of directories a call has failed on.  `StartAt` and `Remember` are the
repository's remembered index, `Taken` its cache of short names.

`NameSpace` says what a call may do to the names, given what it answered.  A call
that succeeds in a directory where none has failed has its effect at once.  Where one
has failed, the code leaves free entries and end marks in any order and the
remembered index behind them, so an entry can be written where dir_find does not look
(finding 7), or where an older entry hides it; `unseen` are these.  Such a name may
come to light with a later call on the same directory, with the object it was put
there with; that, and nothing worse, is what `IsNameSpace` allows.  `ns` and
`unseen` are computed from the tables.

`NamesAssumption` keeps a plain 8.3 name from being another name's numbered form.
Directories lie in the root; a directory is not renamed into itself, which f_rename
does not refuse.  What a caller must not do with FF_FS_LOCK = 0 (unlink what is open)
is not done.  `listing` has one name that was there from the start (`watch`), enough
for "each".  `for` of a short entry is history: the name it was made for.

### FatFiles

`fat` is the table and `bitmap` that of exFAT; `obj` are the file objects with
the chain status (`stat`, `n_cont`, `n_frag`), `entry` what the directory says.
A call is a record `op`; each turn of a loop of create_chain's callers, of
remove_chain and of the append loop is a step, so a failing access (`Fails`)
may come between any two, in the data of a write (`WriteFails`, at any unit of a part) and
behind remove_chain (`RemoveEnds`).  `holds` is the history the properties are about: which
part of which file's data was put in a cluster.  exFAT accesses do not fail in the
model, and a link is read and put as a whole: how it lies in sectors, and what a
refused one leaves, is `FatWindow`.  A crash between two calls is left out.
f_close that fails keeps the file open, as its callers do.  f_expand has no caller;
its find_bitmap would accept a run that wraps around the end of the bitmap.

### FatWindow

The layer below `FatFiles` and `FatDirectory`, on FAT12, FAT16 and FAT32.  A sector
is a row of hexadecimal digits, two in a byte, the lower one first.  Shifts and
masks of get_fat and put_fat move by whole digits, so a DWORD is eight digits and
`Part` and `Fetched` choose among them; no value is computed.  A function of the
code becomes the set of what it may come to, a record of the window, the disk and
`ok`, and the next function starts from each of them, so every disk_read and
disk_write may be refused on its own.  disk_write refuses before it writes anything
(diskio.c:164).  `unsure` is history: sectors of a write that failed and is not
tried again, in the second FAT, in FSInfo and in a table dir_clear gave up; nothing
is promised of them until they are written again.  A FAT sector is never
among them: sync_window keeps it in the window.  `VolumeImage` says what the layers above rely
on, with the link as a number of 3, 4 or 8 digits in a row; `stored` is the disk
alone, which a new mount finds.  Each of its actions answers one call, so that a wrong
put cannot pass for a change of an entry.  exFAT reads its table in the same way but for the
upper digit, its entries elsewhere; it is left out here.

### UsbVolume and ProgramRun

`pc` is main's next call; each may fail wherever the code tests for it, and
`disk_status` answers anew each time, since the drive may have been pulled.
`FatFs` tells a pointer to a live volume from one that was freed, `touched`
records a use of the latter.  `Attach` is disk_initialize, which refuses a drive
that is open.  `After` is the switch of AppRunning; HOME comes at any moment.
`crashed` is FSAEx_Unmount reading the client it was not given.  The volume and the
drive are variables of `UsbVolume`, their calls operators that the actions of
`ProgramRun` put together.  The code changes into and lists "sd:/"
(extusb_devoptab.c:73, main.cpp:128) although its device is named "fat"
(extusb_devoptab.c:17); the model assumes that these calls reach FatFs, the worse
case for what the properties say.  The memalign of mountPath, which nobody checks
(extusb_devoptab.c:57, 95), is not modelled.

## 3. Runs

| Run | Shows | Instance |
|---|---|---|
| `copy_safety` | All safety properties of the threaded copy, its refinement of `StreamCopy`, and that it ends or starves | 3 buffers of 2 units, 5 units, all faults |
| `copy_write_fault` | *Violation.* After a failed write with more chunks than buffers the copy never returns | 2 buffers, 4 chunks |
| `copy_folder` | A folder reported as copied is copied but for the files `copyFile` drops; a repetition repairs a failed attempt | 3 files in 2 folders, 2 calls, all faults, 5 directory handles |
| `install_session` | MCP is awaited, lock and power switch are given back, install() returns | 2 titles, all requests may fail, HOME at any time |
| `install_false_success` | *Violation.* A failed installation is reported as a success | 1 title |
| `sector_cache` | The lists, the map and the window stay consistent with failing transfers and failing mounts; until a transfer fails a sector that is not dirty is on the disk and `SectorStore` is implemented, so no eviction, flush or shutdown changes what is read | 4 sectors, 3 slots, 2 values, requests of 1-2, runs of 2 |
| `sector_cache_long_read` | *Violation.* A read of two uncached sectors returns wrong data | 3 sectors, 2 slots |
| `ext_usb_file` | Answers count what was moved, transfers are aligned, the file pointer stays in the file, the entry has the size, calls return | lines of 2 bytes, files of up to 4, requests of up to 4, any failure |
| `fat_directory` | A name leads only to entries made for it and is listed once, no cluster is lost, each call does to the names what it answers | root and one subdirectory, tables of 2 clusters of 3 entries, at most 1 free cluster, a name of 2 long entries and a short one, an 8.3 name, 1 refused access |
| `fat_files` | Links follow the data, pointers and sizes have their clusters, counts are right, calls return, no step writes to two files | 3 clusters of 2 units, 2 files, 1 failing access, FAT and exFAT |
| `fat_window` | A link is put whole and alone, nothing is lost when the window moves, the copies of the table agree, what is synced survives a mount | sectors of 4 bytes, a table of 3, 2 copies, FAT12, FAT16 and FAT32, a directory of 1 sector, any refusal |
| `program_run` | The drive is opened once, a freed volume is left alone, main ends | any failure, any messages, directories of up to 2 entries |

Configurations that state more of what the texts promise, each violated at once,
are kept beside the runs: `InstallCallReturns.cfg`, `SectorCacheSync.cfg`,
`CopyFolderTrue.cfg`, `FatDirectoryFull.cfg`, `FatDirectoryShort.cfg` and
`ProgramRunDrive.cfg` (section 5).

Why the bounds are enough.  *Copy:* three buffers let one be with each thread
and one wait in either queue; five units make a short last chunk, and reuse
every buffer at another length.  Here, in the cache and in the folder copy the
proofs of section 6 remove the bounds for everything but termination.  *Folder:* two files show "the next file after a dropped
one", the inner folder shows the recursion, the second call shows the repair
of the first, and five handles run out in the second call at different places.
Files of the size 1 left by another title meet one of the same size and one of
another.  *Install:* the second title starts with what the first left in
`lastErr`, `processing`, the lock and `lastKey`.  *Cache:* more sectors than
slots force evictions, two-sector requests evict between their own sectors,
runs of two next to a limit of two and three slots give runs that end at a
clean sector, at a gap and at the limit.  *File:* with lines of two bytes a
request of four at an odd address has a front, a line and a back; files of up to
four bytes meet requests that end before, at and behind their end and the limit
of the volume; `OffsetMod` = 5 is one more than the longest file, as 2^32 is, and
lets `offset` wrap.  *Directory:* the
names take three entries and one, so a name crosses the boundary of clusters of three
entries, runs of free entries are too short, and both the table and the volume run
full; one refused access may stop a call at each entry, and the calls after it meet
what it left.  With one refused access and six entries a long name's remains come to
stand in front of free entries, of the same name and of the other one.  Clusters are
reused by another directory, which the remembered index meets.  The cache of short
names is asked here only by calls that then find no room in the subdirectory;
`FatDirectoryShort.cfg`, with three names and clusters of seven entries, has the calls
that go by it.  The theorems have none of these bounds.  A name with a short form in
common with another's number is excluded by assumption.  *Files:* with three clusters and a second file of one cluster a chain
breaks up in every way a first fragment and a last one allow; positions 3 and 5 are
in the second and the last cluster, a write of 2 ends at or crosses a boundary.
*Window:* with four bytes in a sector the even link 2 and the odd link 5 lie in two
sectors each, their neighbours are not zero, and the window may be anywhere when one
is put; the links on both sides show a digit that is disturbed.
*Run:* a loop that reads two entries reads any number; the proofs need no bound.

View and symmetry.  The values of sectors are interchangeable.  `SlotsByPlace` in
`SectorCacheMC` leaves out `op`, `res` and the old `answer`, which no action
reads: each step's effect on them is the same in all states the view merges,
and `IsStore` looks at the new answer only.  It identifies states that differ in
the numbers of the slots, and, once a transfer has failed, in what the sectors
hold: no guard reads that, and no property speaks of it any more.  `Relevant` in
`FatWindowMC` leaves out the answer, a window that is of no sector, and what the
second FAT has where a write to it failed, none of which is read.  `Relevant` in
`FatDirectoryMC` leaves out `ns` and `unseen`, which are functions of the tables, and
the old answer, which no action reads; a failed call repeated at once with nothing
changed may then pass for a stutter, which is what it is allowed to be.  Without the
view the run has three times the states and the same result.

`CHECK_DEADLOCK FALSE` is set for the sector cache, which stops after the
shutdown, for `CopyFolder`, which stops after the last allowed call and when the
threaded copy hangs, for `FatDirectory` and `FatFiles`, where a full volume may
leave no call within the bounds, and for `ProgramRun`, which ends.  The other
models state their end as a step.

## 4. Fairness

* `CopyPipeline`: weak fairness of each thread's own steps and of main's: the
  operating system schedules them.  A spurious wakeup is never promised.
* `CopyFolder`: the one thread goes on with the call it is in; nobody has to
  call again.
* `InstallSession`: the worker and main are scheduled, and MCP ends what it
  has started.  The latter is an assumption about the service, without which
  the waiting loop has nothing to wait for.  Nothing is assumed of the user,
  and weak fairness of `Main` does not choose between keys.
* `SectorCache`: no liveness is stated; a request is a loop over its sectors.
* `FatFiles`: the loops of a call run on; nobody has to make the next call.
* `FatDirectory`, `FatWindow`: a call is one step; no liveness is stated.
* `ProgramRun`: main runs on, a key is pressed sooner or later, and the system,
  asked by SYSLaunchMenu to end the application, sends EXITING: strong fairness,
  because it is sent only while main asks for messages.
* `ExtUsbFile`: a call that has begun runs on, on the thread that made it; nothing
  is assumed of when the next one is made.

## 5. What the runs found

Three disagreements between the code and what its own texts say, one for each
violation run; `PROJECT.json` quotes the lines.

1. `fs.cpp:190`: the reader waits for ever after a failed write.
2. `Installer.cpp:141`: the polled progress overwrites the callback's error.
3. `ffcache.cpp:195`: the wrong index in a read of several sectors.

Six more that a configuration of their own shows:

4. `fs.cpp:285` (`CopyFolderTrue.cfg`): a file that cannot be opened counts as
   copied.  copyFile starts with `ret = true` and leaves it so when a stat or an
   fopen fails, and does not look at what fclose returns.
5. `main.cpp:60` (`InstallCallReturns.cfg`): main spins after an early error of the
   installation, although main.cpp:72 is to print it.
6. `diskio.c:191` (`SectorCacheSync.cfg`): CTRL_SYNC does not flush; diskio.h:58
   says "Complete pending write process".
7. `ff.c:1813` (`FatDirectoryFull.cfg`): when dir_alloc has failed for a name of
   several entries, the remembered index is the last one of a full table; a later
   short name is written there, behind end marks, where dir_find does not find it.  The
   configuration states `NothingBehindEnd`.
8. `ff.c:4452` (`FatDirectoryShort.cfg`): f_chdir scans the directory its path was
   followed in, not the one it changes into, and the scan keeps no name but the
   path's own; numbers chosen by that cache give two entries
   one short name, against "Check if the name collides with existing SFN"
   (ff.c:2660).  The configuration states `ShortNamesAllDiffer`; that names are
   found right all the same is `NamesAreTheirOwn` and `IsNameSpace`.
9. `diskio.c:119` (`ProgramRunDrive.cfg`): disk_shutdown, which would flush the
   cache and close the drive, has no caller.

Met while reading, and not stated as runs:

* `Installer.cpp:92`: the mark of a cancellation is overwritten by the same race
  as in 3, and the import folders are then not cleaned up.  `Installer.cpp:198`
  reads `lastErr` again after the unlock, so a late HOME press changes the code
  beside "Install succeeded".  `main.cpp:75` returns true for an error.
  `utils.cpp:46` repeats the last key, so one press may cancel two titles.
* `ffcache.cpp:190` and its like drop the raw device's errors; the failed read in
  `ffcache_getSector` shows, and marks dirty, what the slot held for another
  sector.  disk_shutdown, which would flush the cache, has no caller.
* `extusb_fs_seek.c:32`: SEEK_CUR counts from an `offset` that reads and writes
  never advance.  `extusb_fs_truncate.c:19`: ftruncate moves the file pointer,
  also where the descriptor is read-only and f_truncate then refuses.
  `extusb_fs_close.c:16`: a close that fails leaks the path.
* `fs.cpp:77`: unmountWiiUDisk leaves `usbMounted` set.
* `diskio.c:109`: disk_initialize refuses a drive that is open, and nothing closes
  one, so a volume that was lost once is never mounted again.
* `ios_fs.c:34`: after a failed unlock the client stays added and the next initFs
  adds it again; after `cleanupFs` `initialized` stays set.  When initFs fails again
  in unmountWiiUDisk, FSAEx_Unmount reads through a null client, although the
  message says "Press any key to exit".
* `ff.c:1751`: dir_next links a new cluster to the directory before dir_clear has
  worked; when that is refused, what the cluster held before becomes entries.
  `ff.c:1038` and `ff.c:1098` do not ask whether the second FAT and FSInfo were
  written.
* `state.cpp:57`: AppRunning returns the state, and STOPPED is not zero.
* `ff.c:2384`: dir_scan stores the long names in a cache nobody reads.

## 6. Proofs

TLAPS checks, for every value of the constants that `CopyAssumption` allows:

| Theorem | Statement |
|---|---|
| `TypeCorrect` | the types of `CopyPipeline` |
| `NoSharedBuffer` | `SinglePlace`: no buffer is in two places |
| `PoolConserved` | `NoBufferLost`: none is in no place |
| `FlowInvariant` | `CopyInv`: the inductive invariant |
| `PrefixOrder` | `InOrder`: the destination is a prefix of the source |
| `BuffersStay` | `BuffersAccounted`: each is in exactly one place |
| `WakeupsArrive` | `NoLostWakeup` |
| `StarvationIsExplained` | `StarvesOnlyAfterWriteError`: the reader hangs only behind a failed fwrite |
| `PipelineImplementsStreamCopy` | every behaviour of `CopyPipeline` is one of `StreamCopy` |

`InOrder` is not inductive: what fwrite appends depends on what the buffers in
the queue hold.  `CopyInv` says it: there are positions `at[1] <= at[2] <= ...`
such that the j-th filled buffer carries the units from `at[j]` on, the first
position is where the writer is and the last where the reader is (`InFlight`);
and the places the two threads can be in together, with the end marker behind
everything else (`Control`).  That fread does not change a buffer in flight is
`SinglePlace`.

`ProgramProofs` proves of `InstallSession`, for any number of titles, with or without failing
requests and deferred calls:

| Theorem | Statement |
|---|---|
| `SessionTypes` | the types of `InstallSession` |
| `CallbackIsAwaited` | `MCPIsAwaited`: no callback comes for an installation `install()` has left |
| `LockIsReturned` | `PowerAndLock`: the lock and auto power down are given back on each path |
| `OnlyRefusalHangs` | `HangsOnlyOnRefusal`: the second loop of main hangs only on a refused request |

The inductive invariant is `TypeOK /\ SessionInv`.  `MCPIsAwaited` needs to know
that `processing` is set as long as MCP owes its callback, because the loop of
`install()` ends on that flag alone (`Owed`); `HangsOnlyOnRefusal` needs that main
leaves its loops, and starts the next call, only behind a worker that is done
(`Places`).  The types need it too: the callback writes the installation's result
to `lastErr`, so there must be one.  The steps go one statement of `install()`,
of MCP and of `copyAndInstall` at a time.

`ExtUsbFileProofs` proves, for any line size, longest file, request and set of
distances that `FileAssumption` allows:

| Theorem | Statement |
|---|---|
| `FileTypes` | the types of `ExtUsbFile` |
| `AnswersAreCounts` | `AnswerCountsMoved`: the answer is the number of bytes moved, without gap or overlap |
| `TransfersAligned` | `TransfersAreAligned`: whole lines in place, the rest within one line |
| `PointerStaysInFile` | `PointerInFile`: f_read's subtraction does not wrap |
| `EntryFollowsSize` | `EntryIsSize`: the entry has the size unless a change waits |

The five are one inductive invariant (`FileInv`): a part within the request
(`TransfersAreAligned`) keeps the count within the types, a pointer within the
file keeps f_read's answer positive, and an answer counts what was moved only if
the pointer has moved as far.  There is one lemma for each function of ff.c and
one for each handler; `WholeLines` is the arithmetic of rounding down.

`ProgramProofs` proves of `ProgramRun`, for a directory of any length:

| Theorem | Statement |
|---|---|
| `RunTypes` | the types of `ProgramRun` |
| `DriveOpenedOnce` | `VolumeIsBacked`: one handle, and no mounted volume without memory, drive and cache |
| `NoUseAfterFree` | `FreedIsLeftAlone`: no step touches a freed volume |

The second needs that the drive is open and the cache set up wherever a volume is
mounted, and that Attach refuses what is open; the third that after a failed mount
main is on its way out and `extusb_fs_initialised` is clear, so that fini does
nothing.

`SectorCacheProofs` proves, for every size of the cache, of the drive, of a request
and of a run that is flushed at once:

| Theorem | Statement |
|---|---|
| `CacheStaysConsistent` | `CacheIsConsistent`: lists, map, window and slots agree |
| `FlushNeverZero` | `NoZeroFlush`: no run of length zero is flushed |
| `CleanStaysOnDisk` | `CleanIsOnDisk`: a clean slot holds what the disk holds |
| `CacheImplementsStore` | `IsStore`: for requests of one sector the drive is a `SectorStore` |

The first two hold whatever the raw device does; the other two until a raw transfer
fails (the history variable `failed`), because diskio.c drops its results.  The inductive
invariant (`CacheInv`) adds to the property that dirty slots are in use, and that
the sectors a read has still to put into the cache are not in it: without that
`cache_getSector` could give a sector a second slot.  `Faithful` adds the contents:
what a read has fetched in `data` is what the disk holds until it is cached.  The
two loops that count a run of sectors are `CHOOSE`s, and `LeastNumber` (a set of
numbers has a least one) gives them their values.

`CopyFolderProofs` proves, for every tree of files and folders, every content of
the destination and every pattern of failing calls:

| Theorem | Statement |
|---|---|
| `TrueAnswerMeansCopied` | `TrueMeansCopied`: true means that every file is there or was dropped |
| `StreamsAreClosed` | `FilesClosed`: copyFile leaves no stream open |
| `FalseHasACause` | `FailsForCause`: false has a failed call, or no free directory handle, behind it |

The answer is about the whole tree, while each frame of the recursion knows only
its own folder.  `Progress` relates the two: there is a set of folders that are
behind copyFolder, closed under their subfolders and with all their files done, and
what a frame has still to do is in its lists, is the file copyFile is at, or is the
folder of the frame above it.  When the last frame returns, Root joins the set, and
the assumption `AllBelowRoot` (a tree has no folder outside its root; TLC evaluates
it) makes it all of them.  `Good`, that a file has its size or was dropped, has to
be stable although `fopen` empties a file: it is, as copyFile opens only files of
another size.

`FatWindowProofs` proves, for every size of the sectors, of the table and of the
volume, with one or two tables, on FAT12, FAT16 and FAT32, for all numbers of
clusters and whatever accesses are refused:

| Theorem | Statement |
|---|---|
| `WindowStaysConsistent` | `WindowIsConsistent`: window, disk and the two tables agree after each call |
| `WindowImplementsImage` | `IsVolumeImage`: the volume looks as if every change were made in place |

The assumptions are the layout of the areas (`FatWindowAssumption`) and what
mount_volume checks, that the table has room for the links (`LinksFit`).
`WindowIsConsistent` is inductive.  The functions of ff.c return sets of records
here, so it is restated for a record (`Good`), and each function gets a lemma of
its own: sync_window and move_window are `Quiet`, they show the same volume as
before; `Stored` sets some digits and no other (`Sets`).  `Place12`, `Place16` and
`Place32` are the arithmetic: the byte that put_fat computes is where the link's
digits are in a table that is one row of numbers.  A FAT12 link takes both: its
second part must not touch the first where they share a sector, and the window
must not lose the first where it moves between them (`Put12Writes`).  Then there is
one lemma for each action, which gives the invariant and the abstract step at once.

`FatDirectoryProofs` proves, for any names and short forms, any number of
directories, any size of a cluster, a table and the volume, and any number of refused
accesses:

| Theorem | Statement |
|---|---|
| `TypesHold` | `TypeOK`, with the remembered index inside the table it is kept for |
| `NamesStayTheirOwn` | `NamesAreTheirOwn`: a name leads only to entries made for it |
| `ListingStaysFaithful` | `ListingIsFaithful` |
| `ClustersStayAccounted` | `ClustersAccounted`: every cluster is free, in a table or in a file |
| `DirectoriesImplementNames` | `IsNameSpace`: tables, remembered index and cache are a tree of names |

They assume `NamesAssumption` and `VolumeAssumption` and nothing of which calls fail.

`DirInv` is the inductive invariant (`DirInvHolds`).  Its part about one table,
`Made`, holds through every call, those stopped half way too: an entry that a name
leads to was made for that name, and entries and parts have a short form of their own
name, so that what dir_register or dir_remove leaves of a long name does not become the
name of an entry it comes to stand ahead of, although a long and a plain name are
compared with different fields.  Directories outside `trouble` are `Neat` besides: the end marks come last
and each name leads to one entry.  The remembered index may be that of a directory that
is gone, or lie far behind free entries; `FirstRun` finds a free run from it, and where
no call has failed there is no end mark left ahead of the run (`NoEndBefore`), which ties
`StartAt` to `Packed`.  A call is then told by how a table comes out of the old one
(`Follows`): which entry is new and which one may have lost its name, whatever happens
to the rest.  `Changed` and `EditedRow` take from that the invariant and the change of
names at once, with and without `Neat`, so there is one lemma for each call.
`ClustersAccounted` is one equation of the invariant (`Accounted`): a call that
stretches a table pays for it with free clusters, failed or not, and a table that comes
or goes is split off the others (`OneMore`, `OneLess`).

`FatFilesProofs` proves, for any number of files, of clusters and of units in a
cluster, for FAT and exFAT volumes and whatever accesses fail:

| Theorem | Statement |
|---|---|
| `FilesInvHolds` | `FilesInv`: the inductive invariant, in each state of each call |
| `LinksAlwaysFollowData` | `LinksFollowData`: get_fat leads from part to part of each file |
| `PositionsAlwaysHaveClusters` | `PositionsHaveClusters` |
| `ClustersStayCounted` | `ClusterAccounts`: types, the free count, and no cluster lost |
| `FilesStayApart` | `FilesApart`: a step touches the entry, object, clusters and links of one file at most |

`FilesApart` follows from `FilesInv` for each action (`EveryStepApart`), as a cluster that create_chain finds or
remove_chain frees is no file's.

The three properties speak of the times between calls; `FilesInv` says what holds at
each turn of a loop.  Of one file, `Chained`: its parts are in clusters of their own
with no gap (`Placed`), the links between them are in the table or follow from the
piece the file object keeps (`Laid`: `OnePiece`, `FirstPiece`, `LastPiece`,
`InTable`), the last leads nowhere (`Ends`), and the size has a cluster for each part
(`Sized`).  An exFAT file has no cluster behind its size, as get_fat takes
the end of a file in one piece from the size; a FAT file may have one after an access
that failed.  While n_frag is set, the last piece ends at the position and at the
size: f_lseek writes it to the table before it moves away, and the proof shows that no
other call leaves it behind.  Of the call in progress, `Busy` has one disjunct for
each place it can be at.  create_chain and its callers take three of them: it is asked
(`Asking`), it gave no cluster (`Denied`), or it gave one, which is in the chain
before the object is at it (`Given`).
`CutOff` orders the clusters that remove_chain has cut off: they belong to no file, and
only the links that are still there say which come next.  `Pending` are those of a
block whose entry was passed and whose bits are still set, `Counted` the two counts.

An action keeps all of it if it keeps what is said of its own file and touches no
cluster of another (`Frame`), since `Chained` of a file depends on its own clusters
alone (`Untouched`).  `CallStep` and `QuietStep` are that for steps that take and free
none.  `OneTaken` and `OneFreed` are the counts of the two steps that do.
`Remainder`, `PartsIs` and what follows them are the arithmetic of positions and
clusters.

Model-checked only: everything about liveness, since fairness and `ENABLED` are
beyond the prover (`CopyEndsOrStarves`, `ReturnsOrHangs`,
`InstallReturns`, `EndsOrStrands`, `CallsReturn`, `CallsEnd`, `MainEnds`).
They hold on the instances of section 3.  The expected violations are
counterexamples, which a model checker gives and a proof cannot.

## 7. Plan

1. `FatWindow` over `SectorStore`, and a crash between two writes: what a power cut
   leaves of `FatFiles` and `FatDirectory`.
2. `LockingQueue` as a module of its own with any number of producers and
   consumers and all five operations, which `CopyPipeline` then instantiates.
3. exFAT directories.

## 8. Not modelled

`ffunicode.c`, more than half of the lines of the repository, is tables of code
pages.  libcurl and the JSON parser are third-party code without a caller.  Of
FatFs, f_mkfs, f_fdisk, f_expand, f_forward, labels and string functions have no
caller; f_stat, f_chmod and f_utime read or write one entry; exFAT directories are left
for later.  Of the directories, an access to the table of links or to a new cluster
that is refused within dir_next, checksums of short names that collide (8 bits, here
the short name itself), what becomes of a directory that two entries lead to after a
refused f_rename, and a read refused before anything has changed are left out.  mountWiiUDisk and `devices.c`, which only it
uses, have no caller at this commit.  Logging, the progress bar and texts change no
state the properties are about.  Memory exhaustion (but for main's own
allocations), the removal of folders failing, and a drive that comes back with
other contents are outside the models.  The branch of diskio.c for a RAM disk
(`USE_RAMDISK`) is not compiled.
