----------------------------- MODULE BBPCommit ------------------------------
(***************************************************************************)
(* The on-disk side of the BAT buffer pool (gdk/gdk_bbp.c): BBPsync's      *)
(* backup/commit protocol, BBPsave of a dirty bat between commits,         *)
(* BBPprepare, do_backup/heap_move, and the recovery BBPinit runs after a  *)
(* crash (BBPrecover_subdir, recover_dir, BBPrecover).  Storage work is    *)
(* serialised by GDKtmLock (BBPsync's callers and BBPtrim hold it), so one *)
(* process performs it; it may crash between any two file operations and  *)
(* any file operation may fail.                                           *)
(*                                                                         *)
(* A heap file holds a version of its bat; BBP.dir holds the version that *)
(* the entry of every bat describes (its count), or is half written.       *)
(***************************************************************************)
EXTENDS Naturals, Sequences, SequencesExt

CONSTANTS
    NBats,      \* persistent bats 1..NBats, one heap file each
    MaxVer,     \* transactions make versions 0..MaxVer of a bat
    MaxBackup,  \* bound on backup_files when a save or subcommit starts
    MaxIOErrors, \* bound on failed file operations
    MaxCrashes, \* bound on crashes
    NoFile,     \* a directory entry that does not exist
    Partial,    \* a BBP.dir or heap file whose writing did not complete
    NoCatalog   \* the empty BBP.dir that BBPdir_init writes

Bats == 1..NBats
Versions == 0..MaxVer
Catalogs == [Bats -> Versions]
\* File names: a bat's heap file by its id, and the catalog files.
BBPdir == 0
BBPbak == NBats + 1
Files == {BBPdir} \cup Bats \cup {BBPbak}
BATDIR == "bat"
BAKDIR == "BACKUP"
SUBDIR == "SUBCOMMIT"      \* BACKUP/SUBCOMMIT
DELDIR == "DELETE_ME"
Dirs == {BATDIR, BAKDIR, SUBDIR}
NoFiles == [f \in Files |-> NoFile]

VARIABLES
    fs,            \* the contents of every directory
    dirs,          \* which of BACKUP, SUBCOMMIT, DELETE_ME exist
    mem,           \* the version of every bat in memory
    dirty,         \* the heap's dirty bit
    backup_files, backup_dir, backup_subdir,
    pc,
    subcommit,     \* BBPsync's subcommit != NULL
    list,          \* the bats of the commit, ascending
    idx,           \* BBPsync's loop index; the bat of BBPsave
    obbp,          \* the pre-image catalog read by BBPdir_first
    psub, pstart, pok, pret, \* BBPprepare: subcommit, start_subcommit,
                             \* ret, and where it returns to
    rsub_to,       \* where BBPrecover_subdir returns to
    rret, seen, dirseen,     \* BBPrecover*'s ret, files read, BBP.dir seen
    faults                   \* I/O errors and crashes so far

vars == <<fs, dirs, mem, dirty, backup_files, backup_dir, backup_subdir, pc,
          subcommit, list, idx, obbp, psub, pstart, pok, pret, rsub_to, rret,
          seen, dirseen, faults>>

Has(d, f) == fs[d][f] # NoFile
\* The contents of a BBP.dir that BBPheader and BBPreadEntries accept.
IsCatalog(x) == x \notin {NoFile, Partial, NoCatalog}
\* rename(2) of d1/f to d2/f, which replaces d2/f
MoveIn(x, d1, d2, f) ==
    IF d1 = d2 THEN x ELSE [x EXCEPT ![d2][f] = x[d1][f], ![d1][f] = NoFile]
Move(d1, d2, f) == MoveIn(fs, d1, d2, f)

IOFail ==
    /\ faults.io < MaxIOErrors
    /\ faults' = [faults EXCEPT !.io = @ + 1]

\* A freshly started server on a database whose last commit completed.
Init ==
    /\ fs = [d \in Dirs |-> IF d = BATDIR
                              THEN [f \in Files |-> IF f = BBPbak THEN NoFile
                                                    ELSE IF f = BBPdir
                                                         THEN [b \in Bats |-> 0]
                                                         ELSE 0]
                              ELSE NoFiles]
    /\ dirs = {}
    /\ mem = [b \in Bats |-> 0]
    /\ dirty = [b \in Bats |-> FALSE]
    /\ backup_files = 0 /\ backup_dir = 0 /\ backup_subdir = 0
    /\ pc = "init"
    /\ subcommit = FALSE /\ list = <<>> /\ idx = 1 /\ obbp = mem
    /\ psub = FALSE /\ pstart = FALSE /\ pok = TRUE /\ pret = "idle"
    /\ rsub_to = "init_dir" /\ rret = TRUE /\ seen = {} /\ dirseen = FALSE
    /\ faults = [io |-> 0, crash |-> 0]

-----------------------------------------------------------------------------
(* BBPprepare(subcommit), called with psub set; returns to pret with pok.  *)

CallPrepare(s, back) == psub' = s /\ pret' = back /\ pc' = "prep"

PrepStart ==
    /\ pc = "prep"
    /\ pstart' = (psub /\ backup_subdir = 0)
    /\ IF pstart' THEN pc' = "rsub" /\ rsub_to' = "prep_rec"
                  ELSE pc' = "prep_rec" /\ UNCHANGED rsub_to
    /\ UNCHANGED <<fs, dirs, mem, dirty, backup_files, backup_dir, backup_subdir,
                   subcommit, list, idx, obbp, psub, pok, pret, rret, seen,
                   dirseen, faults>>

\* With no backup taken since the last commit, BBPrecover first.
PrepRecover ==
    /\ pc = "prep_rec"
    /\ IF backup_files = 0
          THEN /\ backup_dir' = 0 /\ pc' = "rec"
               /\ UNCHANGED pok
          ELSE /\ pok' = (~pstart \/ rret) /\ pc' = "prep_sub"
               /\ UNCHANGED backup_dir
    /\ UNCHANGED <<fs, dirs, mem, dirty, backup_files, backup_subdir, subcommit,
                   list, idx, obbp, psub, pstart, pret, rsub_to, rret, seen,
                   dirseen, faults>>

\* After BBPrecover: mkdir BACKUP, an existing one being fine.
PrepMkdir ==
    /\ pc = "prep_mk"
    /\ \/ /\ rret /\ pok' = TRUE /\ dirs' = dirs \cup {BAKDIR}
          /\ UNCHANGED faults
       \/ /\ rret /\ IOFail /\ pok' = FALSE /\ UNCHANGED dirs
       \/ /\ ~rret /\ pok' = FALSE /\ UNCHANGED <<dirs, faults>>
    /\ pc' = "prep_sub"
    /\ UNCHANGED <<fs, mem, dirty, backup_files, backup_dir, backup_subdir,
                   subcommit, list, idx, obbp, psub, pstart, pret, rsub_to,
                   rret, seen, dirseen>>

\* Starting a subcommit: mkdir BACKUP/SUBCOMMIT, which must not exist.
PrepSubdir ==
    /\ pc = "prep_sub"
    /\ IF pok /\ pstart
          THEN \/ /\ SUBDIR \notin dirs /\ BAKDIR \in dirs
                  /\ dirs' = dirs \cup {SUBDIR} /\ UNCHANGED <<pok, faults>>
               \/ /\ SUBDIR \in dirs \/ BAKDIR \notin dirs
                  /\ pok' = FALSE /\ UNCHANGED <<dirs, faults>>
               \/ IOFail /\ pok' = FALSE /\ UNCHANGED dirs
          ELSE UNCHANGED <<dirs, pok, faults>>
    /\ pc' = "prep_dir"
    /\ UNCHANGED <<fs, mem, dirty, backup_files, backup_dir, backup_subdir,
                   subcommit, list, idx, obbp, psub, pstart, pret, rsub_to,
                   rret, seen, dirseen>>

\* Move BBP.dir into the backup directory of this kind of commit unless it
\* is there already (backup_dir), count the call, and return.
PrepDir ==
    LET set == IF psub THEN 2 ELSE 1
        src == IF backup_dir # 0 THEN BAKDIR ELSE BATDIR
        dst == IF psub THEN SUBDIR ELSE BAKDIR
        moved == Has(src, BBPdir) /\ dst \in dirs
    IN
    /\ pc = "prep_dir"
    /\ \/ /\ pok /\ (backup_dir # set => moved)
          /\ fs' = IF backup_dir # set THEN Move(src, dst, BBPdir) ELSE fs
          /\ backup_dir' = set
          /\ backup_subdir' = backup_subdir + (IF psub THEN 1 ELSE 0)
          /\ backup_files' = backup_files + 1
          /\ UNCHANGED <<pok, faults>>
       \/ /\ pok /\ backup_dir # set /\ ~moved /\ pok' = FALSE
          /\ UNCHANGED <<fs, backup_dir, backup_subdir, backup_files, faults>>
       \/ /\ pok /\ backup_dir # set /\ IOFail /\ pok' = FALSE
          /\ UNCHANGED <<fs, backup_dir, backup_subdir, backup_files>>
       \/ /\ ~pok
          /\ UNCHANGED <<fs, backup_dir, backup_subdir, backup_files, pok, faults>>
    /\ pc' = pret
    /\ UNCHANGED <<dirs, mem, dirty, subcommit, list, idx, obbp, psub, pstart,
                   pret, rsub_to, rret, seen, dirseen>>

-----------------------------------------------------------------------------
(* Recovery: BBPrecover_subdir, recover_dir and BBPrecover(0).             *)

\* BBPrecover_subdir: move one file of SUBCOMMIT up into BACKUP; a failed
\* move ends the loop with ret failed.
RsubMove ==
    /\ pc = "rsub"
    /\ \E f \in Files :
          /\ Has(SUBDIR, f)
          /\ \/ /\ BAKDIR \in dirs
                /\ fs' = Move(SUBDIR, BAKDIR, f)
                /\ backup_dir' = IF f = BBPdir THEN 1 ELSE backup_dir
                /\ UNCHANGED <<pc, rret, faults>>
             \/ /\ BAKDIR \notin dirs /\ rret' = FALSE /\ pc' = rsub_to
                /\ UNCHANGED <<fs, backup_dir, faults>>
             \/ /\ IOFail /\ rret' = FALSE /\ pc' = rsub_to
                /\ UNCHANGED <<fs, backup_dir>>
    /\ UNCHANGED <<dirs, mem, dirty, backup_files, backup_subdir, subcommit,
                   list, idx, obbp, psub, pstart, pok, pret, rsub_to, seen,
                   dirseen>>

\* SUBCOMMIT empty (or absent): remove it and return.
RsubEnd ==
    /\ pc = "rsub"
    /\ \A f \in Files : ~Has(SUBDIR, f)
    /\ \/ /\ dirs' = dirs \ {SUBDIR} /\ rret' = TRUE /\ UNCHANGED faults
          /\ backup_dir' = IF SUBDIR \in dirs /\ backup_dir = 2 THEN 0
                           ELSE backup_dir
       \/ /\ SUBDIR \in dirs /\ IOFail /\ rret' = FALSE
          /\ UNCHANGED <<dirs, backup_dir>>
    /\ pc' = rsub_to
    /\ UNCHANGED <<fs, mem, dirty, backup_files, backup_subdir, subcommit, list,
                   idx, obbp, psub, pstart, pok, pret, rsub_to, seen, dirseen>>

\* variant: recover_dir leaves the backup BBP.dir where it is
RecoverDirFsKeepLive == fs

\* recover_dir: BBP.dir aside as BBP.bak if there is one, then the backup
\* BBP.dir back in place.
RecoverDirFs ==
    LET x == IF Has(BATDIR, BBPdir)
                THEN [fs EXCEPT ![BATDIR][BBPbak] = fs[BATDIR][BBPdir],
                                ![BATDIR][BBPdir] = NoFile]
                ELSE fs
    IN MoveIn(x, BAKDIR, BATDIR, BBPdir)

\* BBPrecover: nothing to do without a BACKUP directory; otherwise mkdir
\* LEFTOVERS (an existing one being fine) before the walk.
RecStart ==
    /\ pc = "rec"
    /\ \/ /\ BAKDIR \notin dirs /\ rret' = TRUE /\ pc' = "prep_mk"
          /\ UNCHANGED <<seen, dirseen, faults>>
       \/ /\ BAKDIR \in dirs /\ rret' = TRUE /\ pc' = "rec_loop"
          /\ seen' = {} /\ dirseen' = FALSE /\ UNCHANGED faults
       \/ /\ BAKDIR \in dirs /\ IOFail /\ rret' = FALSE /\ pc' = "prep_mk"
          /\ UNCHANGED <<seen, dirseen>>
    /\ UNCHANGED <<fs, dirs, mem, dirty, backup_files, backup_dir, backup_subdir,
                   subcommit, list, idx, obbp, psub, pstart, pok, pret, rsub_to>>

\* One directory entry of BACKUP: BBP.dir is noted, a heap file is moved
\* back over the live one (force_move); a failed move is remembered.
RecFile ==
    /\ pc = "rec_loop"
    /\ \E f \in (Bats \cup {BBPdir}) \ seen :
          /\ Has(BAKDIR, f)
          /\ seen' = seen \cup {f}
          /\ IF f = BBPdir
                THEN dirseen' = TRUE /\ UNCHANGED <<fs, rret, faults>>
                ELSE /\ UNCHANGED dirseen
                     /\ \/ fs' = Move(BAKDIR, BATDIR, f) /\ UNCHANGED <<rret, faults>>
                        \/ IOFail /\ rret' = FALSE /\ UNCHANGED fs
    /\ UNCHANGED <<dirs, mem, dirty, backup_files, backup_dir, backup_subdir, pc,
                   subcommit, list, idx, obbp, psub, pstart, pok, pret, rsub_to>>

\* After the walk: recover_dir if BBP.dir was seen, then rmdir BACKUP,
\* which fails while it still holds a file or SUBCOMMIT.
RecEnd ==
    LET fs1 == IF dirseen /\ rret THEN RecoverDirFs ELSE fs
        empty == SUBDIR \notin dirs /\ \A f \in Files : fs1[BAKDIR][f] = NoFile
    IN
    /\ pc = "rec_loop"
    /\ \A f \in (Bats \cup {BBPdir}) \ seen : ~Has(BAKDIR, f)
    /\ \/ /\ rret /\ empty /\ fs' = fs1 /\ dirs' = dirs \ {BAKDIR}
          /\ UNCHANGED <<rret, faults>>
       \/ /\ rret /\ ~empty /\ fs' = fs1 /\ rret' = FALSE
          /\ UNCHANGED <<dirs, faults>>
       \/ /\ rret /\ IOFail /\ rret' = FALSE /\ UNCHANGED <<fs, dirs>>
       \/ ~rret /\ UNCHANGED <<fs, dirs, rret, faults>>
    /\ pc' = "prep_mk"
    /\ UNCHANGED <<mem, dirty, backup_files, backup_dir, backup_subdir, subcommit,
                   list, idx, obbp, psub, pstart, pok, pret, rsub_to, seen,
                   dirseen>>

-----------------------------------------------------------------------------
(* BBPinit's recovery, after a crash or a clean stop.                      *)

\* Remove DELETE_ME, then BBPrecover_subdir.  A failure makes BBPinit fail
\* and the server is started again.
InitStart ==
    /\ pc = "init"
    /\ \/ /\ dirs' = dirs \ {DELDIR} /\ pc' = "rsub" /\ rsub_to' = "init_dir"
          /\ UNCHANGED faults
       \/ /\ DELDIR \in dirs /\ IOFail /\ UNCHANGED <<dirs, pc, rsub_to>>
    /\ UNCHANGED <<fs, mem, dirty, backup_files, backup_dir, backup_subdir,
                   subcommit, list, idx, obbp, psub, pstart, pok, pret, rret,
                   seen, dirseen>>

\* A BBP.dir in BACKUP must be used (recover_dir); without one the live
\* BBP.dir is read, or else BBPdir_init writes an empty one: the BBP.bak
\* fallback tests for BACKUP/BBP.dir again, which is known to be absent.
\* Reading it sets every bat in memory; one that cannot be parsed makes
\* BBPinit fail.  Then BBPprepare(false).
InitDir ==
    LET fs1 == CASE Has(BAKDIR, BBPdir) -> RecoverDirFs
                 [] Has(BATDIR, BBPdir) -> fs
                 [] OTHER -> [fs EXCEPT ![BATDIR][BBPdir] = NoCatalog]
        cat == fs1[BATDIR][BBPdir]
    IN
    /\ pc = "init_dir"
    /\ \/ /\ rret /\ IsCatalog(cat) /\ fs' = fs1
          /\ mem' = cat /\ dirty' = [b \in Bats |-> FALSE]
          /\ CallPrepare(FALSE, "init_done")
          /\ UNCHANGED faults
       \/ /\ rret /\ ~IsCatalog(cat) /\ fs' = fs1 /\ pc' = "init"
          /\ UNCHANGED <<mem, dirty, psub, pret, faults>>
       \/ /\ rret /\ IOFail /\ pc' = "init"
          /\ UNCHANGED <<fs, mem, dirty, psub, pret>>
       \/ /\ ~rret /\ pc' = "init"
          /\ UNCHANGED <<fs, mem, dirty, psub, pret, faults>>
    /\ UNCHANGED <<dirs, backup_files, backup_dir, backup_subdir, subcommit, list,
                   idx, obbp, pstart, pok, rsub_to, rret, seen, dirseen>>

InitDone ==
    /\ pc = "init_done"
    /\ pc' = IF pok THEN "idle" ELSE "init"
    /\ UNCHANGED <<fs, dirs, mem, dirty, backup_files, backup_dir, backup_subdir,
                   subcommit, list, idx, obbp, psub, pstart, pok, pret, rsub_to,
                   rret, seen, dirseen, faults>>

-----------------------------------------------------------------------------
(* Updates, BBPsave and do_backup.                                         *)

\* A transaction changes bat b in memory; its heap becomes dirty.
Update(b) ==
    /\ pc = "idle" /\ mem[b] < MaxVer
    /\ mem' = [mem EXCEPT ![b] = @ + 1]
    /\ dirty' = [dirty EXCEPT ![b] = TRUE]
    /\ UNCHANGED <<fs, dirs, backup_files, backup_dir, backup_subdir, pc,
                   subcommit, list, idx, obbp, psub, pstart, pok, pret, rsub_to,
                   rret, seen, dirseen, faults>>

\* variant: a subcommit leaves an earlier backup in BACKUP
DoBackupKeepBak(b, sc) ==
    IF sc
    THEN IF dirty[b] /\ ~Has(SUBDIR, b) /\ Has(BATDIR, b)
            THEN Move(BATDIR, SUBDIR, b) ELSE fs
    ELSE IF dirty[b] /\ ~Has(BAKDIR, b) /\ Has(BATDIR, b)
            THEN Move(BATDIR, BAKDIR, b) ELSE fs

\* do_backup of bat b's heap (heap_move, file_move): for a subcommit a
\* backup in BACKUP moves down into SUBCOMMIT; a dirty heap without a
\* backup moves from the live directory into the backup directory, an
\* existing backup never being overwritten.
DoBackup(b, sc) ==
    IF sc
    THEN LET x == IF Has(BAKDIR, b) THEN Move(BAKDIR, SUBDIR, b) ELSE fs
         IN IF dirty[b] /\ x[SUBDIR][b] = NoFile /\ x[BATDIR][b] # NoFile
               THEN MoveIn(x, BATDIR, SUBDIR, b) ELSE x
    ELSE IF dirty[b] /\ ~Has(BAKDIR, b) /\ Has(BATDIR, b)
            THEN Move(BATDIR, BAKDIR, b) ELSE fs

BackupDirs(sc) == BAKDIR \in dirs /\ (sc => SUBDIR \in dirs)

\* BBPsave of a dirty bat: BBPbackup (BBPprepare(false), then do_backup).
SaveStart(b) ==
    /\ pc = "idle" /\ dirty[b] /\ backup_files < MaxBackup
    /\ idx' = b
    /\ CallPrepare(FALSE, "save_backup")
    /\ UNCHANGED <<fs, dirs, mem, dirty, backup_files, backup_dir, backup_subdir,
                   subcommit, list, obbp, pstart, pok, rsub_to, rret, seen,
                   dirseen, faults>>

SaveBackup ==
    /\ pc = "save_backup"
    /\ \/ /\ pok /\ BackupDirs(FALSE) /\ fs' = DoBackup(idx, FALSE)
          /\ pc' = "save_write" /\ UNCHANGED faults
       \/ /\ pok /\ ~BackupDirs(FALSE) /\ pc' = "idle" /\ UNCHANGED <<fs, faults>>
       \/ /\ pok /\ IOFail /\ pc' = "idle" /\ UNCHANGED fs
       \/ /\ ~pok /\ pc' = "idle" /\ UNCHANGED <<fs, faults>>
    /\ UNCHANGED <<dirs, mem, dirty, backup_files, backup_dir, backup_subdir,
                   subcommit, list, idx, obbp, psub, pstart, pok, pret, rsub_to,
                   rret, seen, dirseen>>

\* BATsave writes the heap into the live directory and clears the dirty
\* bit; a failed write leaves a partly written file.
SaveWrite ==
    /\ pc = "save_write"
    /\ \/ /\ fs' = [fs EXCEPT ![BATDIR][idx] = mem[idx]]
          /\ dirty' = [dirty EXCEPT ![idx] = FALSE] /\ UNCHANGED faults
       \/ /\ IOFail /\ fs' = [fs EXCEPT ![BATDIR][idx] = Partial]
          /\ UNCHANGED dirty
    /\ pc' = "idle"
    /\ UNCHANGED <<dirs, mem, backup_files, backup_dir, backup_subdir, subcommit,
                   list, idx, obbp, psub, pstart, pok, pret, rsub_to, rret, seen,
                   dirseen>>

-----------------------------------------------------------------------------
(* BBPsync: prepare, phase 1 (backup), phase 2 (save and write BBP.dir),   *)
(* the rename that commits, and the aftermath.  Every failure goes to the  *)
(* bailout, which returns.                                                 *)

\* A full commit lists every bat; a subcommit the ascending ids of a set.
SyncStart ==
    /\ pc = "idle"
    /\ \/ /\ subcommit' = FALSE /\ list' = [i \in 1..NBats |-> i]
          /\ CallPrepare(FALSE, "sync_prep")
       \/ /\ backup_files < MaxBackup /\ subcommit' = TRUE
          /\ \E S \in SUBSET Bats : S # {} /\ list' = SetToSortSeq(S, <)
          /\ CallPrepare(TRUE, "sync_prep")
    /\ idx' = 1
    /\ UNCHANGED <<fs, dirs, mem, dirty, backup_files, backup_dir, backup_subdir,
                   obbp, pstart, pok, rsub_to, rret, seen, dirseen, faults>>

SyncPrepared ==
    /\ pc = "sync_prep"
    /\ pc' = IF pok THEN "stage" ELSE "idle"
    /\ UNCHANGED <<fs, dirs, mem, dirty, backup_files, backup_dir, backup_subdir,
                   subcommit, list, idx, obbp, psub, pstart, pok, pret, rsub_to,
                   rret, seen, dirseen, faults>>

\* dirty_bat: a loaded persistent bat is committed if it is dirty, and
\* always by a subcommit.
dirty_bat(b) == subcommit \/ dirty[b]

\* Phase 1, one bat: dirty_bat picks it, and BBPbackup starts with
\* BBPprepare.
Stage ==
    /\ pc = "stage" /\ idx <= Len(list)
    /\ IF dirty_bat(list[idx])
          THEN CallPrepare(subcommit, "stage_backup") /\ UNCHANGED idx
          ELSE idx' = idx + 1 /\ UNCHANGED <<pc, psub, pret>>
    /\ UNCHANGED <<fs, dirs, mem, dirty, backup_files, backup_dir, backup_subdir,
                   subcommit, list, obbp, pstart, pok, rsub_to, rret, seen,
                   dirseen, faults>>

\* ... then do_backup.
StageBackup ==
    /\ pc = "stage_backup"
    /\ \/ /\ pok /\ BackupDirs(subcommit) /\ fs' = DoBackup(list[idx], subcommit)
          /\ idx' = idx + 1 /\ pc' = "stage" /\ UNCHANGED faults
       \/ /\ pok /\ ~BackupDirs(subcommit) /\ pc' = "idle"
          /\ UNCHANGED <<fs, idx, faults>>
       \/ /\ pok /\ IOFail /\ pc' = "idle" /\ UNCHANGED <<fs, idx>>
       \/ /\ ~pok /\ pc' = "idle" /\ UNCHANGED <<fs, idx, faults>>
    /\ UNCHANGED <<dirs, mem, dirty, backup_files, backup_dir, backup_subdir,
                   subcommit, list, obbp, psub, pstart, pok, pret, rsub_to, rret,
                   seen, dirseen>>

\* BBPdir_first: create the new BBP.dir; a subcommit reads the pre-image
\* from SUBCOMMIT, or else from BACKUP.
BBPdir_first ==
    LET pre == IF Has(SUBDIR, BBPdir) THEN fs[SUBDIR][BBPdir]
               ELSE fs[BAKDIR][BBPdir]
    IN
    /\ pc = "stage" /\ idx > Len(list)
    /\ \/ /\ fs' = [fs EXCEPT ![BATDIR][BBPdir] = Partial]
          /\ subcommit => IsCatalog(pre)
          /\ obbp' = IF subcommit THEN pre ELSE obbp
          /\ idx' = 1 /\ pc' = "save" /\ UNCHANGED faults
       \/ /\ fs' = [fs EXCEPT ![BATDIR][BBPdir] = Partial]
          /\ subcommit /\ ~IsCatalog(pre)
          /\ pc' = "idle" /\ UNCHANGED <<obbp, idx, faults>>
       \/ IOFail /\ pc' = "idle" /\ UNCHANGED <<fs, obbp, idx>>
    /\ UNCHANGED <<dirs, mem, dirty, backup_files, backup_dir, backup_subdir,
                   subcommit, list, psub, pstart, pok, pret, rsub_to, rret, seen,
                   dirseen>>

\* Phase 2, one bat: BATsave_iter writes a dirty heap and clears its dirty
\* bit, then BBPdir_step writes its entry.
SaveBat ==
    LET b == list[idx] IN
    /\ pc = "save" /\ idx <= Len(list)
    /\ \/ /\ fs' = IF dirty[b] THEN [fs EXCEPT ![BATDIR][b] = mem[b]] ELSE fs
          /\ dirty' = [dirty EXCEPT ![b] = FALSE]
          /\ idx' = idx + 1 /\ UNCHANGED <<pc, faults>>
       \/ /\ dirty[b] /\ IOFail /\ fs' = [fs EXCEPT ![BATDIR][b] = Partial]
          /\ pc' = "idle" /\ UNCHANGED <<dirty, idx>>
       \/ IOFail /\ pc' = "idle" /\ UNCHANGED <<fs, dirty, idx>>
    /\ UNCHANGED <<dirs, mem, backup_files, backup_dir, backup_subdir, subcommit,
                   list, obbp, psub, pstart, pok, pret, rsub_to, rret, seen,
                   dirseen>>

\* BBPdir_last: the new BBP.dir is complete: the listed bats' entries from
\* memory, the others copied from the pre-image (CatalogMerge).
BBPdir_last ==
    LET listed == {list[i] : i \in 1..Len(list)} IN
    /\ pc = "save" /\ idx > Len(list)
    /\ \/ /\ fs' = [fs EXCEPT ![BATDIR][BBPdir] =
                       [b \in Bats |-> IF subcommit /\ b \notin listed
                                          THEN obbp[b] ELSE mem[b]]]
          /\ pc' = "swap" /\ UNCHANGED faults
       \/ IOFail /\ pc' = "idle" /\ UNCHANGED fs
    /\ UNCHANGED <<dirs, mem, dirty, backup_files, backup_dir, backup_subdir,
                   subcommit, list, idx, obbp, psub, pstart, pok, pret, rsub_to,
                   rret, seen, dirseen>>

\* The atomic switchover: rename the backup directory (SUBCOMMIT for a
\* subcommit, else BACKUP with everything in it) to DELETE_ME, removing an
\* old DELETE_ME first.
Swap ==
    LET bakdir == IF subcommit THEN SUBDIR ELSE BAKDIR
        gone == IF subcommit THEN {SUBDIR} ELSE {BAKDIR, SUBDIR}
    IN
    /\ pc = "swap"
    /\ \/ /\ bakdir \in dirs
          /\ dirs' = (dirs \ gone) \cup {DELDIR}
          /\ fs' = [d \in Dirs |-> IF d \in gone THEN NoFiles ELSE fs[d]]
          /\ pc' = "after" /\ UNCHANGED faults
       \/ /\ bakdir \notin dirs /\ pc' = "idle" /\ UNCHANGED <<fs, dirs, faults>>
       \/ IOFail /\ pc' = "idle" /\ UNCHANGED <<fs, dirs>>
    /\ UNCHANGED <<mem, dirty, backup_files, backup_dir, backup_subdir, subcommit,
                   list, idx, obbp, psub, pstart, pok, pret, rsub_to, rret, seen,
                   dirseen>>

\* variant: backup_subdir is not reset after the commit
AftermathKeepSubdir ==
    /\ pc = "after"
    /\ backup_files' = IF subcommit THEN backup_files - backup_subdir ELSE 0
    /\ backup_dir' = 0
    /\ \/ dirs' = dirs \ {DELDIR} /\ UNCHANGED faults
       \/ IOFail /\ UNCHANGED dirs
    /\ CallPrepare(FALSE, "after_done")
    /\ UNCHANGED <<fs, mem, dirty, subcommit, list, idx, obbp, pstart, pok,
                   rsub_to, rret, seen, dirseen, backup_subdir>>

\* Aftermath: reset the counters, remove DELETE_ME (a failure is only
\* reported), and BBPprepare(false) for the next commit.
Aftermath ==
    /\ pc = "after"
    /\ backup_files' = IF subcommit THEN backup_files - backup_subdir ELSE 0
    /\ backup_dir' = 0 /\ backup_subdir' = 0
    /\ \/ dirs' = dirs \ {DELDIR} /\ UNCHANGED faults
       \/ IOFail /\ UNCHANGED dirs
    /\ CallPrepare(FALSE, "after_done")
    /\ UNCHANGED <<fs, mem, dirty, subcommit, list, idx, obbp, pstart, pok,
                   rsub_to, rret, seen, dirseen>>

AfterDone ==
    /\ pc = "after_done"
    /\ backup_files' = IF backup_files > 1 THEN 1 ELSE backup_files
    /\ pc' = "idle"
    /\ UNCHANGED <<fs, dirs, mem, dirty, backup_dir, backup_subdir, subcommit,
                   list, idx, obbp, psub, pstart, pok, pret, rsub_to, rret, seen,
                   dirseen, faults>>

-----------------------------------------------------------------------------

\* The process dies: memory and the static counters are lost, the files
\* stay; the next start runs BBPinit.
Crash ==
    /\ pc # "init" /\ faults.crash < MaxCrashes
    /\ faults' = [faults EXCEPT !.crash = @ + 1]
    /\ pc' = "init"
    /\ mem' = [b \in Bats |-> 0] /\ dirty' = [b \in Bats |-> FALSE]
    /\ backup_files' = 0 /\ backup_dir' = 0 /\ backup_subdir' = 0
    /\ subcommit' = FALSE /\ list' = <<>> /\ idx' = 1 /\ obbp' = mem'
    /\ psub' = FALSE /\ pstart' = FALSE /\ pok' = TRUE /\ pret' = "idle"
    /\ rsub_to' = "init_dir" /\ rret' = TRUE /\ seen' = {} /\ dirseen' = FALSE
    /\ UNCHANGED <<fs, dirs>>

\* The steps of a call in progress (not the calls' starts or a crash).
Step ==
    \/ PrepStart \/ PrepRecover \/ PrepMkdir \/ PrepSubdir \/ PrepDir
    \/ RsubMove \/ RsubEnd \/ RecStart \/ RecFile \/ RecEnd
    \/ InitStart \/ InitDir \/ InitDone
    \/ SaveBackup \/ SaveWrite
    \/ SyncPrepared \/ Stage \/ StageBackup \/ BBPdir_first \/ SaveBat
    \/ BBPdir_last \/ Swap \/ Aftermath \/ AfterDone

Next ==
    \/ Step
    \/ \E b \in Bats : Update(b) \/ SaveStart(b)
    \/ SyncStart
    \/ Crash

\* A call in progress, BBPinit included, runs on; nothing makes the
\* process start a call.
Fairness == WF_vars(Step)

Spec == Init /\ [][Next]_vars /\ Fairness

-----------------------------------------------------------------------------
(* What a restart would recover from the files as they are now: the       *)
(* BBP.dir BBPinit reads (after BBPrecover_subdir and recover_dir), and    *)
(* for each bat the heap file BBPrecover leaves in the live directory.     *)

RecoveredCatalog ==
    CASE Has(SUBDIR, BBPdir) -> fs[SUBDIR][BBPdir]
      [] Has(BAKDIR, BBPdir) -> fs[BAKDIR][BBPdir]
      [] Has(BATDIR, BBPdir) -> fs[BATDIR][BBPdir]
      [] OTHER -> NoCatalog

RecoveredHeaps ==
    [b \in Bats |-> IF Has(SUBDIR, b) THEN fs[SUBDIR][b]
                    ELSE IF Has(BAKDIR, b) THEN fs[BAKDIR][b]
                    ELSE fs[BATDIR][b]]

\* Before BBPinit has read BBP.dir the process has no memory of its own.
Down == pc \in {"init", "init_dir"} \/ (pc = "rsub" /\ rsub_to = "init_dir")

AC == INSTANCE AtomicCommit WITH
          mem <- IF Down THEN RecoveredCatalog ELSE mem,
          catalog <- RecoveredCatalog,
          heaps <- RecoveredHeaps

PCs == {"idle", "init", "init_dir", "init_done", "prep", "prep_rec", "prep_mk",
        "prep_sub", "prep_dir", "rsub", "rec", "rec_loop", "save_backup",
        "save_write", "sync_prep", "stage", "stage_backup", "save", "swap",
        "after", "after_done"}

TypeOK ==
    /\ \A d \in Dirs :
          /\ \A b \in Bats : fs[d][b] \in {NoFile, Partial} \cup Versions
          /\ \A f \in {BBPdir, BBPbak} :
                fs[d][f] \in {NoFile, Partial, NoCatalog} \cup Catalogs
    /\ dirs \subseteq {BAKDIR, SUBDIR, DELDIR}
    /\ mem \in Catalogs /\ dirty \in [Bats -> BOOLEAN]
    /\ backup_files \in 0..(MaxBackup + (MaxIOErrors + 1) * (NBats + 1))
    /\ backup_subdir \in 0..backup_files /\ backup_dir \in 0..2
    /\ pc \in PCs /\ pret \in PCs /\ rsub_to \in PCs
    /\ subcommit \in BOOLEAN /\ list \in Seq(Bats) /\ idx \in 1..(NBats + 1)
    /\ obbp \in Catalogs
    /\ {psub, pstart, pok, rret, dirseen} \subseteq BOOLEAN
    /\ seen \subseteq Files /\ faults \in [io : 0..MaxIOErrors, crash : 0..MaxCrashes]

\* Atomicity across crashes (spec 4.7 and its test plan): at every moment
\* of BBPsave, BBPsync and BBPinit's recovery, a restart would find either
\* the catalog and heaps of before a commit or those of after it, never a
\* mix; the only step that changes them is the rename of the backup
\* directory, and it commits exactly the listed bats' in-memory versions.
AtomicDurability == AC!Spec

\* Recovery ends (spec 4.8 "the recovery process can resume later"): once
\* no more crashes or I/O errors happen, a started server gets through
\* BBPinit's recovery and BBPprepare.
RecoveryCompletes == Down ~> pc = "idle"

=============================================================================
