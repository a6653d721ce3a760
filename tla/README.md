# TLA+ models of the MonetDB BAT Buffer Pool (gdk/gdk_bbp.c)

These modules model the BAT Buffer Pool (BBP) of MonetDB 11.41
(`src/trunk/monetdb-11.41.31/gdk/gdk_bbp.c`). The BBP is the process-wide
table of every BAT (column): its slot, reference counts, status bits,
in-memory descriptor and on-disk names. It also implements loading,
unloading, saving and the atomic commit of the persistent BATs. The only
other source file, `monetdb5/optimizer/opt_aliases.h`, declares two functions
and has no behaviour.

## 1. The system

### Parts and their state

| Part | Code | State |
|---|---|---|
| Slot table | `BBP[][]`, `BBP_status/refs/lrefs/cache/desc/logical/next` | per slot: status bits, pin count `refs`, logical count `lrefs`, the cached and the descriptor pointer, the logical name, the free-list link |
| Slot allocator | `BBPinsert`, `maybeextend`, `BBPextend`, `BBPinithash`, `bbpclear` | `BBPsize`, `BBPlimit`, the free list `BBP_free(0)` (`BBP_THREADMASK` is 0, so there is one list) |
| Reference protocol | `incref`, `decref`, `BBPfix`, `BBPunfix`, `BBPretain`, `BBPrelease`, `BBPkeepref`, `BBPshare`, `GDKunshare` | counts, HOT/LOADING/UNLOADING bits, `batSharecnt` |
| Load/unload | `getBBPdescriptor`, `BBPcacheit`, `BBPuncacheit`, `BBPfree`, `BBPdestroy`, `BBPclear` | `cache`, LOADED/LOADING/UNLOADING |
| Save | `BBPsave`, `BBPbackup`, `do_backup` | SAVING, TMP, the heap files |
| Background manager | `BBPmanager`, `BBPtrim` | HOT bits; takes `GDKtmLock` for every bid |
| Commit | `BBPsync`, `BBPprepare`, `BBPdir_first/step/last`, `file_move`, `heap_move` | SYNCING/SAVING, the directories BAKDIR, SUBDIR, DELDIR, `BBP.dir`, the static counters `backup_files/dir/subdir` |
| Recovery | `BBPinit`, `BBPrecover`, `BBPrecover_subdir`, `recover_dir`, `force_move` | the same directories after a crash |
| Name index | `BBP_insert`, `BBP_delete`, `BBP_find`, `BBPrename`, `BBPindex` | hash buckets under `BBPnameLock` |
| Global lock | `BBPlock`, `BBPunlock`, `BBP_unload_inc/dec` | `GDKtmLock`, cache locks, swap locks, `GDKunloadLock`, `BBPunloadCnt` |
| Catalog reading, farms, disk scan | `BBPheader`, `BBPreadEntries`, `heapinit`, `BBPaddfarm`, `BBPdiskscan` | start-up only |

### How they interact

Client threads (the SQL layer, the logger) call the reference API. Each slot
has a swap lock. Status bits are set under that lock and some are cleared
without it. Waiting on a bit (`BBPspin`) means releasing the lock and
polling every millisecond. The decision to unload a BAT is taken under the
swap lock and marked with UNLOADING. The unload itself runs after the lock is
released.

`BBPmanager` is the one background thread. It loops forever: one pass
clears HOT from every unpinned BAT, it sleeps, then `BBPtrim` unloads BATs
that are clean, unpinned, cold and not SYNCING/SAVING/UNLOADING. It takes
`GDKtmLock` for each bid, so it never runs inside a commit.

`BBPsync` runs with `GDKtmLock` held by its caller. It has two phases:

- Phase 1 sets SYNCING on every bat and moves the old heap files to the
  backup directory.
- Phase 2 saves every dirty persistent BAT under SAVING, then writes the new
  `BBP.dir`.

The commit point is the rename BAKDIR → DELDIR. At the end, SYNCING is
cleared from every bat, whether or not the commit succeeded. At start-up,
`BBPinit` and `BBPrecover` move the files of a commit that did not reach the
rename back into place.

### Behaviours that make it hard

- Interleavings of several threads on one slot: a last unfix racing a fix,
  a trim racing a pin, a client save racing a commit's save.
- State read under a lock and used after the lock is dropped: decref's unload
  decision, `dirty_bat` in phase 2 of `BBPsync`.
- Spin-waits on status bits that other threads clear, and the starvation they
  allow.
- The free list, shared by `BBPinsert`, `bbpclear` and `BBPextend`, up to
  the array's fixed limit `N_BBPINIT * BBPINIT`.
- Crashes between the file moves of a commit, and recovery that must be
  idempotent.
- Lock ordering between `GDKtmLock`, the cache and swap locks, the name lock
  and `GDKunloadLock`.

## 2. Plan

The modules are built in this order; the most important behaviour comes first.

1. **BBPRefs** (done). The reference/status core: clients, the manager and
   the committer's status protocol on a shared slot table.
2. **BBPLocks** (done). The lock protocol of `BBPlock`, `BBPtrim`/`BBPfree`
   (`BBP_unload_inc`) and `BBPsync`, checked for deadlock.
3. **BBPCommit** with **AtomicCommit** (done). The file-level commit
   (`BBPprepare`, `do_backup`, `BBPsync`'s rename and aftermath) with a crash
   possible at every step, plus recovery (`BBPinit`'s cleanup,
   `BBPrecover_subdir`, `BBPrecover`, `force_move`). An abstract
   specification in which a commit flips the committed version in one step,
   with BBPCommit shown to implement it through INSTANCE ... WITH.
4. **CatalogMerge** (done). `BBPdir_first/step/last` as BBPsync drives
   them, checked against a reference merge of the old catalog with the
   subcommit; then the restart on the new file (`BBPreadEntries`,
   `BBPdiskscan`).
5. **Views** (partly done, in BBPRefs). The share counting of
   `BBPshare`/`GDKunshare` and the parent fix a view drops in `decref` are
   actions of BBPRefs, and `BBPexit`'s repeated pass over shared bats is
   modelled in BBPLocks. Still open: the parent loads of `incref` on a
   view.
6. **BBPSlots** (done). `BBPinsert` in its locked steps against
   `maybeextend`/`BBPextend`'s rebuild of the free lists and the name hash,
   `bbpclear`, and `BBPrename`/`BBP_find`/`BBP_insert`/`BBP_delete` under
   `BBPnameLock`, with the swap lock `BBPrename` takes.

## 3. The modules

### BBPRefs (`BBPRefs.tla`, `MC_BBPRefs.tla`)

State, with the code each variable stands for:

| Variable | Code |
|---|---|
| `status[b]` | set of status bits, `BBP_status(b)` |
| `refs[b]`, `lrefs[b]` | `BBP_refs`, `BBP_lrefs` |
| `cache[b]` | `BBP_cache(b) != NULL` |
| `named[b]` | `BBP_logical(b) != NULL` |
| `dirty[b]` | `BATdirty`; heap contents are abstracted to this bit |
| `freeList` | `BBP_free(0)` and the `BBP_next` chain |
| `bbpSize`, `bbpLimit` | `BBPsize`, `BBPlimit` |
| `tmHolder` | owner of `GDKtmLock` |
| `pc`, `arg`, `snapB`, `snapL`, `cursor`, `bound` | each process's control point and locals: decref's `b != NULL` and `lrefs`, the loop index and bound of `BBPtrim`/`BBPsync` |

`sharecnt[b]` is `batSharecnt` of the descriptor.

`pins`, `holds`, `using`, `shared` and `viewpin` are ghost variables. They
record:

- which thread holds which reference;
- which descriptors a thread has obtained;
- which parents a thread's views share;
- which parents those views still pin.

The properties use them.

Actions. Each is one region under a swap lock, or one unlocked stretch:

- **Create**: `BBPinsert` plus `BBPcacheit`, with `maybeextend`/`BBPextend`.
- **Fix**, **Retain**: `incref`.
- **Descriptor**, **GetDescriptor**, **LoadBat**, **LoadFail**:
  `getBBPdescriptor`.
- **Save**, **SaveWait**, **SaveWrite**: `BBPsave`.
- **Unfix**, **Release**, **Decref**: `decref`'s locked part.
- **Keepref**, **KeeprefDesc**, **KeeprefDecref**: `BBPkeepref`.
- The unload branches: **DestroyBat** (`BBPdestroy`), **FreeBat**
  (`BBPfree`), **ClearBat**, **EndUnload**. All four use **ClearSlot**
  (`bbpclear`).
- Share counting: **ShareRetain**, **ShareCount**, **ShareFix** are the
  three locked steps of `BBPshare`. **Unshare** and **UnshareRelease** are
  the two decref calls of `GDKunshare`. **ViewUnfix** is the
  `decref(tp, ...)` with which decref on a view drops its parent fix. The
  view itself is made by `VIEWcreate`, outside this file, and is not a
  slot of the model. A thread shares only a bat of `ShareBats` whose
  descriptor it holds, as `VIEWcreate` does. The view's drop of its
  parent fix and its `GDKunshare` may come in either order: the first
  happens when the view's pins reach zero, the second when the view is
  freed or destroyed.
- The manager: **HotPass**, **TrimStep**, **TrimDone**.
- The commit: **CommitStart**, **Sync1**, **Sync1Wait**, **Sync2**,
  **Sync2Lock**, **Sync2Save**, **SyncEnd**. These are BBPsync's status bits
  for a full commit, including the failure paths that go to `bailout`.

Memory pressure (`GDKvm_cursize`) is a free choice at every decref. BBPsave,
BATload_intern and BATsave_iter may fail.

The cooling pass of `BBPmanager` is one step. Each bid's step holds only
that bid's swap lock and touches only that bid, so it commutes with every
step on other bids.

Client calls are limited by two rules:

- A thread only uses a bat it knows: a catalog BAT or one it holds a
  reference to.
- A thread holds at most `MaxFix` pins and `MaxFix` logical references per
  bat. This is the bound on the counters.

**Fairness.** Steps of a call in progress, of the manager and of a commit in
progress are strongly fair:

- `BBPspin` re-tests the bit every millisecond.
- The manager retakes `GDKtmLock` for every bid.

So a waiting step that is enabled again and again is eventually taken.
Nothing forces a client to call anything, or a commit to start.

### BBPLocks (`BBPLocks.tla`, `MC_BBPLocks.tla`)

The locks of the pool and their holders. Reference counts and heap contents
are abstracted away. A step is one lock acquisition, or a stretch of code
that takes no lock.

Variables:

| Variable | Code |
|---|---|
| `GDKtmLock`, `GDKunloadLock`, `GDKcacheLock`, `GDKswapLock[b]` | the lock holders |
| `BBPunloadCnt` | the count of unloads in progress |
| `locked_by` | the thread that has completed BBPlock |
| `exiting` | `GDKexiting()` |
| `valid`, `cached` | the slots in use, and the bats loaded |
| `unloading`, `syncing` | the UNLOADING and SYNCING bits |
| `views`, `sharecnt` | the valid bats that are views, and `batSharecnt` of each bat |
| `skipped` | BBPexit's `skipped` flag of the current pass |
| `pc`, `bid` | control points, and the loop index or bat of each thread |

Threads:

- **Clients.** `BBPinsert` (cache lock), then `BBPcacheit` (swap lock).
  `getBBPdescriptor` waits on UNLOADING/SYNCING and on DELETING of a new
  bat. `decref` takes the swap lock and decides on an unload, which sets
  UNLOADING. The unload runs in one of two branches:
  - `BBPfree`, for a bat that keeps logical references: only a persistent,
    unshared bat without SYNCING (`chkflag`, lines 2740-2747). Then
    `BBP_unload_inc`, free, UNLOADING off, `BBP_unload_dec`.
  - `BBPdestroy`, for a bat whose last logical reference is gone, whatever
    its SYNCING bit (line 2765). Then `bbpclear`: cache lock, then swap
    lock. So a commit's phase 1 can meet a SYNCING bat being destroyed and
    spin on its UNLOADING bit.
- **The manager.** The cooling pass takes each swap lock. The sleep loop
  returns on `GDKexiting`. `BBPtrim` takes GDKtmLock for each bid, then the
  swap lock, and runs `BBPfree` with GDKtmLock still held.
- **A committer.** `BBPtmlock`. Then phase 1 of `BBPsync`: SYNCING under
  each swap lock, and a spin while UNLOADING is set. Then the bailout
  clears SYNCING, and `BBPtmunlock`.
- **A shutdown thread.** `GDKprepareExit`, which is not in this repository,
  sets the flag; the model follows the spec here. Then `BBPlock`: wait on
  `BBPunloadCnt` under GDKunloadLock, then GDKtmLock, the cache lock and
  the swap locks, then `locked_by` is set and GDKunloadLock dropped. Then
  `BBPexit`'s `do ... while (skipped)` loop, one slot per step, never
  unlocking: an invalid slot is passed over (`ExitInvalid`), a bat with a
  positive `batSharecnt` is skipped (`ExitSkip`), a view decrements its
  parent's `batSharecnt` and is destroyed (`ExitView`), any other bat is
  freed (`ExitFree`); `ExitNext` starts another pass if a bat was skipped.
  Then `gdk_bbp_reset`, which zeroes `locked_by` and `BBPunloadCnt`.

Views. The constant `ViewOf` names, per slot, the parent a bat created in
that slot may view (MC_Views: slot 2 may view slot 1). `BBPinsert` chooses
whether the new bat is a view, if its parent is loaded, not a view and not
being unloaded; `BBPshare` then increments the parent's `batSharecnt`.
decref's unload predicate refuses an unload while `batSharecnt > 0`, and a
view never takes `BBPfree`'s branch (it is transient). `BBPdestroy` of a
view ends with `GDKunshare` on the parent (`GDKunshare`, after `bbpclear`),
a decref of the parent under its swap lock that may unload it in turn.
`BBPtrim` leaves views and shared bats alone. `BBPunloadCnt` is typed as an
integer: `gdk_bbp_reset` zeroes it, and an unload `BBPlock` did not wait
for (run locks_drain) decrements it below 0 afterwards.

Fairness: strong fairness for every thread inside an operation. Lock waits
and `BBPspin`/`BBPlock` polls re-test every millisecond. Client calls,
commits and shutdown need not start. The bounds are two clients and two
bats. Two bats are enough for a commit or a trim pass to be at one bat
while another thread holds the other, and for a view and its parent: the
view in slot 2 is met after its parent, so the parent is skipped and a
second pass is needed. Three bats take over three minutes for the
shutdown run.

`SyncingCleared` and `TrimEnds` are stated for the behaviours in which no
shutdown starts (`NoShutdown`). A started shutdown can deadlock with
`BBPtrim` (run locks_exit), and after `BBPexit` nothing needs to end.

### CatalogMerge (`CatalogMerge.tla`, `MC_CatalogMerge.tla`)

How `BBPsync` writes `BBP.dir`:

- `BBPdir_first` opens the files.
- Each call of `BBPdir_step` is split into two actions:
  - **StepRead**: one round of its loop, which writes `buf` if `n > 0` and
    reads the next pre-image line, or marks end of file with -1.
  - **StepEntry**: the fresh entry of a persistent bat, and the returned
    `n`.
- `BBPdir_last` copies the rest.

A line is its bat id and whether it is fresh or copied; the text of
`new_bbpentry` is abstracted. Every read, write and open may fail.

Init enumerates every input over four bats:

- the full commit;
- every ascending subcommit list, since the spec says callers pass a
  sorted array;
- every persistence pattern of the listed bats;
- every pre-image.

The invariant compares the file written with a reference definition: the
pre-image minus the listed bats, plus the persistent listed bats, sorted.
Deadlock is not checked, because `BBPsync` returns after one commit and
the restart ends once.

**The restart.** After a commit that succeeded, `BBPinit` starts the
server on the new file (action `BBPinit`), `BBPreadEntries` installs one
descriptor per line (failing on a second line of one bat), and
`BBPdiskscan` walks the BAT directory, one entry per step.

- A line is reduced to its tail kind: void, a fixed-size type, or str with
  an offset heap of width 1 or 2. The kind decides the heap file names
  `heapinit`/`vheapinit` give the bat (`.tail`, `.tail1`, `.tail2`,
  `.theap`). MC_CatalogMerge fixes each bat's kind in the pre-image
  (`OldKind`) and in memory (`NewKind`): a str bat widens, a str bat
  becomes fixed-size, a fixed-size bat stays, a void bat becomes str.
- The directory (`disk`) starts with the files of the previous catalog,
  `BBP.dir` and a leftover `.tmp`; `StepEntry` adds the files `BATsave`
  writes for a persistent bat of the list. A file whose name changes with
  the kind is not replaced, so the old one stays as a leftover.
- An entry is a record of what the scan reads from its name: the number
  `strtol(name, NULL, 8)` gives, the `BBP.` prefix, the extension.
  `ScanDecision` is the scan's else-if chain (skip, delete, keep, or stop
  at an unknown file). The decision on one entry does not depend on the
  others, so only the position of an unexpected entry in the readdir
  order matters: `BBPinit` puts one at any position, or none.
- Between reading and scanning, `BBPcheckbats` checks that every entry's
  heap files exist (`HeapPresent`): the tail file of its width, or the
  plain `.tail` an older str bat may still have, and `.theap` for a str
  bat. A missing file fails the start-up.

`RestartSucceeds`: the restart after a successful commit never fails,
neither on a duplicate entry nor on a missing heap file.

`CommittedFilesKept`: no heap file of the committed catalog (the
reference `Expected`) is missing while the restart reads and prunes.
`LeftoversPruned`: a scan that reaches the end of the directory leaves
exactly `BBP.dir` and those files.

### AtomicCommit (`AtomicCommit.tla`)

What the commit protocol promises (spec 4.7, 4.8): the durable state is
a catalog (one entry per persistent bat) and one heap file per bat.

- **Update(b)**: a transaction changes a bat in memory.
- **Commit(S)**: the entries and heaps of the bats in `S` become their
  in-memory versions in one step.
- **Restart**: memory is reloaded from the catalog.

It has no code of its own; BBPCommit is checked against it.

### BBPCommit (`BBPCommit.tla`, `MC_BBPCommit.tla`)

The files of a commit, with a crash possible at every step and the recovery
that follows. One thread runs BBPsave, BBPsync and BBPinit; the thread
interleavings of these calls are BBPRefs' and BBPLocks' subject.

State:

- `fs[d][f]`: the contents of file `f` in directory `d`. Files are
  `BBP.dir`, `BBP.bak` and one heap per bat; the directories are `bat/`,
  `BACKUP/` and `BACKUP/SUBCOMMIT/`.
  - A heap is the version it holds, `Partial` or `NoFile`.
  - A BBP.dir is the version per bat it describes, `Partial` or the empty
    catalog of `BBPdir_init`.
- `dirs`: which of BACKUP, SUBCOMMIT and DELETE_ME exist.
- `mem`, `dirty`: the version and heap dirty bit of every bat in memory.
- `backup_files`, `backup_dir`, `backup_subdir`: the statics of gdk_bbp.c.
- `pc` and the locals of the calls in progress.
  - BBPprepare is a procedure called with `psub`, returning to `pret`
    with `pok`.
  - BBPrecover_subdir returns to `rsub_to` with `rret`.

Actions:

- `Prep*`: BBPprepare, one action per block.
- `Rsub*`: the loop of BBPrecover_subdir.
- `Rec*`: BBPrecover's walk of BACKUP with `force_move`, then `recover_dir`
  and the rmdir.
- `Init*`: BBPinit's cleanup and its choice of BBP.dir.
- `Save*`: BBPsave, with BBPbackup and `do_backup`.
- `SyncStart` … `AfterDone`: BBPsync's phases.
  - Phase 1 is `Stage`/`StageBackup`, with `dirty_bat`.
  - `BBPdir_first`, `SaveBat` (`BATsave_iter`), `BBPdir_last`.
  - `Swap` is the rename to DELETE_ME.
  - `Aftermath`/`AfterDone` reset the counters.
- Every `mkdir`, `rename`, `rmdir` and write may fail (`IOFail`, bounded by
  `MaxIOErrors`), and every failure takes the code's error path.
- `Crash` may happen in any state but `init`, bounded by `MaxCrashes`. It
  loses memory and the statics and keeps the files.

Refinement: `AC == INSTANCE AtomicCommit WITH` a mapping of what a restart
would recover now.

- `RecoveredCatalog` is SUBCOMMIT's BBP.dir over BACKUP's over the live one.
- `RecoveredHeaps` is each heap's SUBCOMMIT copy over BACKUP's over the
  live one.
- The abstract memory is `mem`, or the recovered catalog while the process
  is down (before BBPinit has read BBP.dir).

`AtomicDurability == AC!Spec` then says that every step leaves the recovered
state unchanged except the rename, which commits exactly the listed bats'
in-memory versions, and that catalog and heaps never disagree.
`RecoveryCompletes` says a started server gets through recovery.

Fairness: weak fairness on `Step`, the steps of a call in progress. A
running BBPsync or BBPinit goes on to its end; nothing forces a client to
commit. Reading BBPinit's fallback from the code (line 1347) showed that
it tests `BACKUP/BBP.dir` again rather than `BBP.bak`, so `BBP.bak` is
never read back; the model follows the code.

### BBPSlots (`BBPSlots.tla`, `MC_BBPSlots.tla`)

Slot allocation and the name index, with the calls split at their lock
operations. A region of code run under a lock is one step.

State:

- `bbpSize`, `bbpLimit`: `BBPsize`, `BBPlimit`.
- `free[j]`: free list `j` as a sequence, following `BBP_free(j)` and
  `BBP_next`. There are `ThreadMask + 1` lists.
- `hash`: the name chain, front first. It is one bucket: `strHash` is
  abstracted, and every name hashes to the same bucket.
- `last`: maybeextend's static round-robin start.
- `logical[i]`: a name in `Names`, `Tmp` (`tmp_<i>`) or `NoName` (NULL).
- `status[i]`, `refs[i]`: status bits and pins.
- `cacheLock[j]`, `swapLock[k]`, `nameLock`: the holders of the locks.
- Per thread: `pc`, and the locals `slot`, `mode` (BBPcacheit) and `nme`
  (BBPrename).
- Ghosts:
  - `allocated[i]`: the thread BBPinsert handed slot `i` to;
  - `renamed[i]`: a BBPrename of `i` has returned.

Actions:

- `BBPinsert` … `InsName`: BBPinsert's steps.
  - Its first look at `BBP_free(idx)` under the cache lock.
  - Taking every cache lock (THREADMASK > 0).
  - `InsExtend`: the region under `BBPnameLock`, with the second look and
    `maybeextend`.
  - The pop, and the fill under the swap lock.
  - Naming the slot outside any lock.
- `maybeextend` chooses among four paths:
  - steal from a list longer than 20;
  - take slot BBPsize;
  - grow the array with `BBPextend`, which empties every list and rebuilds
    lists and hash with the recursive `BBPinithash`;
  - steal from the longest list when `BBPextend` refuses.
- `CacheRead`/`CacheWrite`: BBPcacheit's read-modify-write of the status
  under the bat's swap lock, for a new bat and for a load started by
  `getBBPdescriptor`.
- `Unfix`, `BBPfree` (unload of an unpinned bat) and `bbpclear`.
- `BBPrename`, `RenLookup`, `RenMark`.
  - The unlocked checks, with the caller's pin.
  - The region under `BBPnameLock`: `BBP_find`, `BBP_delete`, `BBP_insert`.
  - `BBP_status_on(RENAMED)` under `GDKswapLock(i)`, where `i` is
    BBP_find's result, 0.

Properties:

- `SlotAccounting`: every slot below BBPsize that is not handed out is on
  exactly one free list, once, unnamed and unpinned; a handed-out slot is on
  none. This is the spec's free-list invariant made exact.
- `NameIndexSound`: `BBP_find` of every bat's name returns that bat, and the
  chain holds only named bats, once each.
- `RenamedKept`: the RENAMED bit survives.
- `FailOnlyWhenFull`: BBPinsert returns 0 only when every slot is handed
  out.

No fairness: these are safety runs.

## 4. Runs

| Run | Config | Checks | Shows |
|---|---|---|---|
| refs_catalog | `BBPRefs_catalog.cfg` | TypeOK, ResidentWhileUsed, CommitSavesResident, SaveExclusive, CallsReturn, CommitEnds, ColdUnloaded | two clients, the manager and the committer on one persistent BAT: nothing is unloaded while pinned and used; phase 2 of BBPsync only saves a resident BAT; saves of one BAT never overlap; every client call returns once commits stop, every commit finishes, and an idle clean BAT is eventually unloaded |
| refs_alloc | `BBPRefs_alloc.cfg` | FreeListSound, SharedParentResident | two clients create, share, destroy and reuse a transient BAT, with one array extension and then the limit: the free list is exactly the unused slots, once each, and no slot is freed while a thread still references it; a parent whose share a view holds stays loaded after every pin on it is gone, because BBPtrim tests `batSharecnt` |
| locks_shutdown | `BBPLocks_shutdown.cfg` | TypeOK, TrimDrained, SharedValid, AllFreed, SyncingCleared, TrimEnds | with a shutdown thread, the manager is never inside a BBPtrim unload once BBPlock has returned, because BBPtrim keeps GDKtmLock across BBPfree; a bat that a view shares is never freed (by decref, BBPtrim or BBPexit) while the share counts; BBPexit's loop never ends with a valid slot left, because a skipped parent is retried; in every behaviour where no shutdown starts the locks never deadlock: every SYNCING bit set by a commit is cleared again (the commit's spins on UNLOADING end, because unloaders do not need GDKtmLock), and every trim pass ends although commits hold GDKtmLock |
| catalog_merge | `CatalogMerge.cfg` | TypeOK, MergeCorrect, CommittedFilesKept, RestartSucceeds, LeftoversPruned | a BBP.dir written without I/O failure is exactly the expected catalog, for every input over four bats; the restart on it passes `BBPreadEntries` and `BBPcheckbats`, keeps every heap file that catalog needs, in any readdir order, and removes every leftover (the old offset heap of a widened str bat, the string heap of a bat no longer str, files of dropped bats, `.tmp`) unless an unexpected file stops the scan |
| locks_drain | `BBPLocks_drain.cfg` | UnloadsDrained (violation expected) | BBPlock returns while a client is inside an unload it decided in decref |
| locks_exit | `BBPLocks_exit.cfg` | ExitCompletes (violation expected) | BBPlock and BBPtrim deadlock on GDKunloadLock and GDKtmLock; with a view, BBPexit can also loop forever |
| refs_keepref | `BBPRefs_keepref.cfg` | KeeprefSkipsUnload (violation expected) | `BBPkeepref` ends with a full `decref` that, under memory pressure, unloads the BAT it was to keep loaded, contrary to spec 4.4 and to the comment above the function |
| commit_crash | `BBPCommit.cfg` | TypeOK, AtomicDurability, RecoveryCompletes | two bats, two crashes at any step (recovery included) and one failed file operation anywhere: every state refines AtomicCommit, the counters stay bounded, and recovery completes |
| commit_torn | `BBPCommitTorn.cfg` | AtomicDurability (violation expected) | a failed subcommit of bat 1 followed by a successful subcommit of bat 2 deletes bat 1's only heap file |
| slots | `BBPSlots.cfg` | TypeOK, SlotAccounting, NameIndexSound, RenamedKept, FailOnlyWhenFull | one free list (the build): two threads insert, load, unload, rename and clear bats across a BBPextend rebuild; every slot is accounted for, the index is exact, RENAMED is kept, and an insert fails only when the pool is full |
| slots_steal | `BBPSlotsSteal.cfg` | SlotAccounting, FailOnlyWhenFull | two free lists and a one-block pool: BBPinsert takes all cache locks and steals from the other list when BBPextend refuses; the free lists stay exact, and an insert fails only when every slot is handed out |
| slots_shards | `BBPSlotsShards.cfg` | SlotAccounting (violation expected) | two free lists and a growing pool: BBPextend's rebuild puts a popped, not yet named slot back on a free list |

Bounds:

- Two client threads, because every hazard checked here needs two actors on
  one slot.
- `MaxFix = 1`.
- **refs_catalog**: one catalog BAT and an array that cannot
  grow (BlockSize 2, NBlocks 1).
- **refs_alloc**: an empty catalog and an array of blocks of one slot up to
  3 slots (BlockSize 1, NBlocks 3). `BBPinsert` extends once, for slot 1,
  then fails, because `BBPextend` refuses a new size of
  `N_BBPINIT*BBPINIT`. Views are made on bat 1 by either thread
  (`ShareBats = {1}`).
  - One bat keeps the run small with views in it: two creatable bats and
    views give 4.4 million states.
  - Reuse of slots among several bats and the growth of the array are
    checked in detail by BBPSlots (SlotAccounting).
  - Bat 1 is transient, so `decref` never unloads it while a logical
    reference is held. Its `batSharecnt` test (line 2746) is therefore not
    exercised, and only BBPtrim's test (line 1196) is. A persistent parent
    (a catalog BAT) next to a creatable slot is beyond the time budget.
  - In refs_catalog and refs_keepref no view is made (`ShareBats = {}`).

- **BBPCommit**: two bats with versions 0..1, which is enough for a
  subcommit of one bat beside a dirty other. `MaxBackup` (3; 4 for
  commit_torn) bounds `backup_files` when a save or a
  subcommit starts. A full commit always resets it.
- commit_torn needs `MaxBackup = 4`: the failed subcommit leaves
  `backup_files` at 3, and the next subcommit starts from there.
- Several error branches inside actions are never taken under these bounds:
  - mkdir SUBCOMMIT finding it present;
  - BACKUP missing when BBPrecover_subdir or do_backup needs it;
  - a BBP.dir in BACKUP when BBPrecover runs;
  - an unreadable BBP.dir at start;
  - the rename finding no SUBCOMMIT.

  The code keeps them as defence, and so does the model.

- **BBPSlots**: two threads and one name.
  - slots: blocks of 2 slots up to 4 (`BBPINIT = 2`, `N_BBPINIT = 2`), so
    the pool grows once through `BBPextend` and then refuses.
  - slots_steal: one block of 3 slots, so `BBPextend` always refuses and
    maybeextend must steal.
  - `BatMask = 1`, so bat 1's swap lock is not lock 0, which BBPrename
    takes.
  - Symmetry over the threads only where they share one list (slots).
  - A second look under the name lock that finds a slot freed meanwhile
    needs two threads on one list and a third on another. That instance
    did not finish in 15 minutes and is left unchecked.

Symmetry:

- refs_alloc and locks_drain use symmetry over the client threads. The
  runs that check liveness do not, since symmetry is unsound for it.
- The BBPRefs runs use a VIEW that leaves out the
  dead locals (`arg`, `snapB`, `snapL` outside the steps that use them, and
  the loop variables of an idle manager or committer).

**Finding.** slots_shards: with `BBP_THREADMASK > 0` the code hands one
slot to two threads. The spec (4.2) allows that setting, and the code keeps
`#if` branches for it.

1. A BBPinsert pops slot 1 and drops the cache lock. It names the slot only
   later (`BBP_logical(i) = BBP_bak(i)`, line 2224).
2. Meanwhile a BBPinsert on the other list runs out of slots and extends the
   pool. `BBPinithash` pushes every unnamed slot, slot 1 included, round
   robin onto the lists.
3. Slot 1 is now on list 1 while the first thread owns it, and the next
   BBPinsert on list 1 hands it out again.

The spec's invariant (section 8) says every slot on a free list has no name
and no references. With the build's `BBP_THREADMASK` of 0, maybeextend
overwrites the one rebuilt list with the fresh slot, so the in-flight slot
is only dropped from it (run slots).

**No loss of RENAMED.** BBPrename sets RENAMED under swap lock 0, not the
bat's own lock. BBPcacheit's read-modify-write could therefore overwrite
the bit, but only if a load of the bat ran during the rename. The renamer's
pin, which `getBBPdescriptor` asserts, rules that out. Run slots checks
this; the mutant that unloads a pinned bat loses the bit.

**Finding.** refs_keepref: `BBPkeepref` (gdk_bbp.c:2831) calls
`decref(i, false, ...)`, which evaluates the unload predicate. A clean
persistent BAT whose only pin is turned into a logical reference is set
UNLOADING and freed before `BBPkeepref` returns. The spec says keepref
"skips the unload predicate so the BAT is guaranteed still loaded on return".

**Finding.** locks_drain: `decref` sets UNLOADING and releases the swap
lock (gdk_bbp.c:2761). `BBPfree` only counts the unload in `BBPunloadCnt`
later (line 3035), and `BBPdestroy` never counts it. `BBPlock`'s "wait for
all pending unloads to finish" can therefore see a count of 0 while a
client is between the two, and return. TLC shows the client's
`BATfree`/`BATdelete` then running alongside `BBPexit`, which frees the
same descriptors.

**Finding.** locks_exit: `BBPtrim` holds GDKtmLock across `BBPfree`, whose
`BBP_unload_inc` takes GDKunloadLock. `BBPlock` holds GDKunloadLock while
it takes GDKtmLock. If the detached manager thread is in `BBPtrim` when
`BBPexit` starts, the two threads deadlock. The manager only tests
`GDKexiting` between passes. The spec says the trimmer never contends on
TM, and its lock order (TM, cache, swap, name) does not mention
GDKunloadLock. The model also reaches a second cycle:

- a commit spins on UNLOADING under GDKtmLock;
- the client that set UNLOADING is blocked in `BBP_unload_inc`;
- `BBPlock` holds GDKunloadLock and waits for GDKtmLock.

And a livelock with a view (TLC found it with a property that BBPexit's
loop ends once BBPlock has returned, on the same model):

- a client destroying view 2 has run `bbpclear` (line 3018): slot 2 is no
  longer valid, but parent 1's `batSharecnt` is still 1, since
  `GDKunshare` (line 3021) comes after;
- `BBPdestroy` is not counted in `BBPunloadCnt`, so `BBPlock` returns and
  holds every swap lock; the client blocks on parent 1's;
- BBPexit skips bat 1 (line 1556) and passes over slot 2 on every pass, and
  `skipped` restarts the loop forever.

**Finding.** commit_torn: a subcommit fails after `do_backup` has moved
bat 1's heap into SUBCOMMIT; TLC's trace uses a failed `BBPdir_first`.
`backup_subdir` stays above 0, so the next subcommit skips
`BBPrecover_subdir` (`start_subcommit`, line 3248) and reuses SUBCOMMIT.
That subcommit, of bat 2, succeeds and renames SUBCOMMIT to DELETE_ME,
deleting bat 1's only heap file. The new BBP.dir still carries bat 1's old
entry, so a restart finds an entry without its heap. Spec 4.7 says a
restart at any moment yields the pre- or post-commit state.

With crashes alone (commit_crash) the protocol holds: every crash point in
saves, full commits, subcommits and in recovery itself restarts into a
committed state.

What else running the model showed:

- **CallsReturn only holds once commits stop.** `getBBPdescriptor` waits
  while SYNCING is set, even for a loaded BAT, so back-to-back commits starve
  a reader. The liveness run therefore checks CallsReturn under the
  hypothesis `<>[](committer idle)`.
- **The refs == 0 test in BBPtrim is backed up by HOT.** A pinned BAT always
  has HOT set: `incref` sets it and the manager only clears it when
  refs = 0. So dropping that test alone unloads nothing in use.

## 5. Not modelled, and why

- **Row counts and `batInserted`.** The dirty bit is one bit per BAT, so
  decref's re-setting of the heap dirty bits (line 2705) is not modelled.
  - Whether that re-setting is ever needed depends on how `BATsave_iter`
    (gdk_storage.c, not in this repository) resets the dirty bits after
    saving fewer rows than `batCount`.
  - The comment at line 2715 says a (sub)commit may turn them off while an
    update runs.
  - A model would have to guess that function's behaviour.
- **The view bat itself.** `VIEWcreate` and `VIEWdestroy` (gdk_align.c) are
  not in this repository. So the view's own pins are not modelled, nor
  `incref`'s load of the parents when a view gets its first pin. What a
  view does to its parent is modelled, in BBPRefs and in BBPLocks, for
  the tail heap only: a view of a vheap parent (`VIEWvtparent`), whose
  handling in BBPexit and BBPdestroy repeats the tail case, is left out,
  and so are the `BBP_lrefs` BBPexit decrements, which no later step
  reads.
- **In BBPSlots:**
  - `strHash` and the bucket count: there is one chain;
  - `BBPindex`, a locked `BBP_find` that changes nothing;
  - transient bats in `BBPrename`, which skip the RENAMED update;
  - logical references (BBPRefs has them): a kept bat is cleared once it
    is unpinned.
- **In BBPCommit:**
  - row counts (`batInserted`, `sizes`);
  - the `.kill` files `heap_move` writes for STORE_PRIV heaps;
  - the backups of deleted bats;
  - LEFTOVERS, for files of unknown bats.

  The model's bats are all persistent, valid and loaded.
- **`BBPunlock`.** Its only caller in the pool would follow `BBPexit`, which
  never unlocks.
- **Whether shutdown stops the manager before `BBPexit`.** That would be
  in `GDKprepareExit`/`GDKreset` (gdk_utils.c), which is not in this
  repository; the model follows the spec, in which the trimmer only polls
  the exit flag.
- **The BBP.dir text format and its parser** (`BBPreadBBPline`, `heapinit`,
  `vheapinit`, `BBPheader`). These are pure I/O and validation. CatalogMerge
  reads a line as its bat id and tail kind; the header, the version checks
  and the parse errors of malformed lines are left out, since no modelled
  writer produces one.
- **Farms** (`BBPaddfarm`, `BBPselectfarm`). Start-up configuration with no
  concurrency; one disk farm is assumed.
- **Parts of the start-up scan and checks.** `BBPdiskscan` is modelled for
  the top level of the BAT directory. Left out:
  - subdirectories (bat ids of 64 and up, whose scan is the same);
  - hash, imprint and order-index files;
  - a failed `remove`;
  - `BBPcheckbats`' size checks, which need heap sizes (its existence
    checks are modelled);
  - the debug checks `BBPcheckHeap` and `BBPcheckBBPdir`;
  - `movestrbats`, the one-time rename of offset heaps when a database of
    an older version is opened. Its signal-file protocol across crashes
    would need a run of its own, and the run budget is spent.
- **`opt_aliases.h`.** Declarations only.
