---------------------------- MODULE CatalogMerge ----------------------------
(***************************************************************************)
(* How BBPsync writes the new catalog BBP.dir (gdk/gdk_bbp.c): BBPdir_first *)
(* opens the new file and, for a subcommit, the pre-image BBP.dir from the  *)
(* backup directory; BBPsync's phase 2 calls BBPdir_step once per bat of    *)
(* the commit list; BBPdir_last copies what is left of the pre-image.  For  *)
(* a subcommit this is a merge: the pre-image lines are copied unless their *)
(* bat is in the list, and each persistent bat of the list gets a fresh     *)
(* entry.  The variable n of BBPsync carries the merge state from call to   *)
(* call: -1 once the pre-image is exhausted (or for a full commit), 0 when  *)
(* buf holds nothing to write, otherwise the id of the pre-image line in    *)
(* buf.  A line is abstracted to its bat id and its origin.                 *)
(*                                                                         *)
(* After a commit that returned GDK_SUCCEED the server is restarted on the *)
(* new file: BBPinit reads it back (BBPreadEntries) and BBPdiskscan prunes *)
(* the BAT directory against the descriptors read.  A line's tail type is  *)
(* one of four kinds, which decide the heap file names heapinit gives it:  *)
(* void (no file), a fixed-size type (.tail), or str with an offset heap   *)
(* of width 1 or 2 (.tail1, .tail2) and a string heap (.theap).  A bat's   *)
(* kind in the pre-image and in memory are constants, so a commit may      *)
(* change it.                                                              *)
(***************************************************************************)
EXTENDS Naturals, FiniteSets, Sequences, SequencesExt

CONSTANTS
    NIds,   \* BBPsize - 1: bat ids are 1..NIds
    NoLine, \* the content of buf before anything was read
    OldKind, \* the tail kind of each bat's pre-image line
    NewKind  \* the tail kind of each bat in memory, which BBPsync saves

Ids == 1..NIds
Lines == [id : Ids, v : {"old", "new"}]
OldLine(b) == [id |-> b, v |-> "old"]
NewLine(b) == [id |-> b, v |-> "new"]
ByID(x, y) == x.id < y.id

Kinds == {"void", "int", "str1", "str2"}
ASSUME OldKind \in [Ids -> Kinds] /\ NewKind \in [Ids -> Kinds]

\* A directory entry, by what BBPdiskscan reads from its name: the number
\* strtol(name, NULL, 8) gives (0 when the name is no octal bat id), whether
\* the name starts with "BBP.", and the part after the first '.' ("none":
\* there is no '.').
Exts == {"tail", "tail1", "tail2", "theap", "tmp", "dir", "none"}
File(b, e) == [bid |-> b, bbp |-> FALSE, ext |-> e]
BBPdirFile == [bid |-> 0, bbp |-> TRUE, ext |-> "dir"]
TmpFile == File(1, "tmp")          \* a leftover of an interrupted save
Unexpected == File(0, "none")      \* a plain file that is no bat's heap

\* heapinit/settailname: the offset heap's name follows the width of a str
\* bat; vheapinit gives a str bat a string heap.
TailName(k) ==
    IF k = "int" THEN "tail" ELSE IF k = "str1" THEN "tail1"
    ELSE IF k = "str2" THEN "tail2" ELSE "none"
HasVheap(k) == k \in {"str1", "str2"}
HeapFiles(b, k) ==
    {File(b, e) : e \in ({TailName(k)} \ {"none"})
                         \cup (IF HasVheap(k) THEN {"theap"} ELSE {})}
LineKind(l) == IF l.v = "old" THEN OldKind[l.id] ELSE NewKind[l.id]
CatalogFiles(L) == UNION {HeapFiles(l.id, LineKind(l)) : l \in L}

VARIABLES
    subcommit,  \* the commit list (BBPsync's subcommit[1..cnt-1]), or <<>>
                \* for a full commit (subcommit == NULL)
    full,       \* subcommit == NULL
    persistent, \* bats of the list with BBPPERSISTENT set
    preimage,   \* the entries of the backup BBP.dir, ascending by id
    obbpf,      \* the lines of the pre-image not yet read, or <<>> once closed
    buf,        \* the last pre-image line read
    n,          \* BBPsync's n
    nbbpf,      \* the lines written to the new BBP.dir
    idx,        \* BBPsync's loop index
    ret,        \* GDK_SUCCEED ("ok") or GDK_FAIL ("fail")
    pc,
    disk,       \* the entries of the BAT directory
    desc,       \* the kind of BBP_desc(b) read back, "free" if none
    ridx,       \* the line BBPreadEntries reads next
    listing,    \* the order in which readdir returns the entries
    pos         \* the entry BBPdiskscan looks at next

vars == <<subcommit, full, persistent, preimage, obbpf, buf, n, nbbpf, idx,
          ret, pc, disk, desc, ridx, listing, pos>>
restartVars == <<disk, desc, ridx, listing, pos>>

\* The bat at position i of the commit list: subcommit[i], or i itself.
Bat(i) == IF full THEN i ELSE subcommit[i]
Cnt == IF full THEN NIds ELSE Len(subcommit)

\* A commit list is the ids of the bats to commit in ascending order, as
\* the callers of BBPsync pass it; a pre-image has one line per bat.  The
\* BAT directory holds the heap files of the bats of the previous catalog
\* (of a bat in the list too: a file whose name changes is not replaced),
\* BBP.dir and a leftover .tmp.
Init ==
    /\ full \in BOOLEAN
    /\ \E S \in SUBSET Ids, O \in SUBSET Ids :
          /\ subcommit = IF full THEN <<>> ELSE SetToSortSeq(S, <)
          /\ persistent \in SUBSET (IF full THEN Ids ELSE S)
          /\ preimage = IF full THEN <<>> ELSE SetToSortSeq({OldLine(b) : b \in O}, ByID)
          /\ disk = CatalogFiles({OldLine(b) : b \in O}) \cup {BBPdirFile, TmpFile}
    /\ obbpf = <<>>
    /\ buf = NoLine
    /\ n = IF full THEN -1 ELSE 0
    /\ nbbpf = <<>>
    /\ idx = 1
    /\ ret = "ok"
    /\ pc = "first"
    /\ desc = [b \in Ids |-> "free"]
    /\ ridx = 1 /\ listing = <<>> /\ pos = 1

Fail == ret' = "fail" /\ pc' = "end"

\* BBPdir_first: open the new BBP.dir and write its header; for a
\* subcommit, open the pre-image and read its four header lines.  Any
\* open, read or write may fail.
BBPdir_first ==
    /\ pc = "first"
    /\ \/ /\ obbpf' = preimage
          /\ pc' = IF Cnt = 0 THEN "last" ELSE "step"
          /\ UNCHANGED ret
       \/ Fail /\ UNCHANGED obbpf
    /\ UNCHANGED <<subcommit, full, persistent, preimage, buf, n, nbbpf, idx>>
    /\ UNCHANGED restartVars

\* variant: the loop writes buf without its "if (n > 0)" test.
StepReadWritesEmpty ==
    /\ pc = "step"
    /\ n >= 0 /\ n < Bat(idx)
    /\ \/ /\ nbbpf' = Append(nbbpf, buf)
          /\ IF obbpf = <<>>
                THEN n' = -1 /\ UNCHANGED <<obbpf, buf>>
                ELSE /\ buf' = Head(obbpf) /\ obbpf' = Tail(obbpf)
                     /\ n' = Head(obbpf).id
          /\ UNCHANGED <<ret, pc>>
       \/ Fail /\ UNCHANGED <<nbbpf, obbpf, buf, n>>
    /\ UNCHANGED <<subcommit, full, persistent, preimage, idx>>
    /\ UNCHANGED restartVars

\* One round of BBPdir_step's loop: write the line in buf if there is one,
\* then read the next pre-image line, or at end of file close it and set n
\* to -1.
StepRead ==
    /\ pc = "step"
    /\ n >= 0 /\ n < Bat(idx)
    /\ \/ /\ nbbpf' = IF n > 0 THEN Append(nbbpf, buf) ELSE nbbpf
          /\ IF obbpf = <<>>
                THEN n' = -1 /\ UNCHANGED <<obbpf, buf>>
                ELSE /\ buf' = Head(obbpf) /\ obbpf' = Tail(obbpf)
                     /\ n' = Head(obbpf).id
          /\ UNCHANGED <<ret, pc>>
       \/ Fail /\ UNCHANGED <<nbbpf, obbpf, buf, n>>
    /\ UNCHANGED <<subcommit, full, persistent, preimage, idx>>
    /\ UNCHANGED restartVars

\* variant: BBPdir_step returns n also when n == bid, so the replaced
\* pre-image line stays in buf.
StepEntryKeepsReplaced ==
    /\ pc = "step"
    /\ ~(n >= 0 /\ n < Bat(idx))
    /\ \/ /\ nbbpf' = IF Bat(idx) \in persistent
                         THEN Append(nbbpf, NewLine(Bat(idx))) ELSE nbbpf
          /\ n' = n
          /\ idx' = idx + 1
          /\ pc' = IF idx = Cnt THEN "last" ELSE "step"
          /\ disk' = IF Bat(idx) \in persistent
                       THEN disk \cup HeapFiles(Bat(idx), NewKind[Bat(idx)])
                       ELSE disk
          /\ UNCHANGED ret
       \/ Fail /\ UNCHANGED <<nbbpf, n, idx, disk>>
    /\ UNCHANGED <<subcommit, full, persistent, preimage, obbpf, buf>>
    /\ UNCHANGED <<desc, ridx, listing, pos>>

\* The rest of BBPdir_step: a persistent bat gets a fresh entry; a
\* pre-image line of this very bat is dropped (n becomes 0).  BBPsync then
\* moves to its next bat, and to BBPdir_last after the last one.  Saving
\* the bat before the call (BATsave_iter) writes its heap files under the
\* names of its current kind, and may fail.
StepEntry ==
    /\ pc = "step"
    /\ ~(n >= 0 /\ n < Bat(idx))
    /\ \/ /\ nbbpf' = IF Bat(idx) \in persistent
                         THEN Append(nbbpf, NewLine(Bat(idx))) ELSE nbbpf
          /\ n' = IF n = -1 THEN -1 ELSE IF n = Bat(idx) THEN 0 ELSE n
          /\ idx' = idx + 1
          /\ pc' = IF idx = Cnt THEN "last" ELSE "step"
          /\ disk' = IF Bat(idx) \in persistent
                       THEN disk \cup HeapFiles(Bat(idx), NewKind[Bat(idx)])
                       ELSE disk
          /\ UNCHANGED ret
       \/ Fail /\ UNCHANGED <<nbbpf, n, idx, disk>>
    /\ UNCHANGED <<subcommit, full, persistent, preimage, obbpf, buf>>
    /\ UNCHANGED <<desc, ridx, listing, pos>>

\* BBPdir_last: write the line in buf if there is one, copy the rest of the
\* pre-image, fsync and close.
BBPdir_last ==
    /\ pc = "last"
    /\ \/ /\ nbbpf' = nbbpf \o (IF n > 0 THEN <<buf>> ELSE <<>>) \o obbpf
          /\ obbpf' = <<>>
          /\ pc' = "end"
          /\ UNCHANGED ret
       \/ Fail /\ UNCHANGED <<nbbpf, obbpf>>
    /\ UNCHANGED <<subcommit, full, persistent, preimage, buf, n, idx>>
    /\ UNCHANGED restartVars

-----------------------------------------------------------------------------
(* The restart on the new BBP.dir.                                         *)

\* readdir returns the entries in an order of the file system's choosing.
\* Only where an unexpected entry falls in it matters: BBPdiskscan's
\* decision on any other entry depends on its name and the descriptors
\* alone, so the others are listed in one fixed order.
FileRank(f) ==
    IF f.bbp THEN 0
    ELSE 10 * f.bid + CHOOSE i \in 1..7 :
             <<"tail", "tail1", "tail2", "theap", "tmp", "dir", "none">>[i] = f.ext
Listings(D) ==
    LET Below(f) == Cardinality({g \in D : FileRank(g) < FileRank(f)})
        sorted == [i \in 1..Cardinality(D) |-> CHOOSE f \in D : Below(f) = i - 1]
    IN {sorted} \cup {InsertAt(sorted, k, Unexpected) : k \in 1..Len(sorted) + 1}

\* BBPinit, once BBPsync has returned GDK_SUCCEED: the server starts again
\* and opens the new BBP.dir; the BAT directory may hold a stray file.
BBPinit ==
    /\ pc = "end" /\ ret = "ok"
    /\ \E l \in Listings(disk) :
          /\ listing' = l
          /\ disk' = disk \cup ToSet(l)
    /\ pc' = "read"
    /\ UNCHANGED <<subcommit, full, persistent, preimage, obbpf, buf, n, nbbpf,
                   idx, ret, desc, ridx, pos>>

\* One line of BBPreadEntries (BBPreadBBPline, heapinit, vheapinit): a
\* bat that already has a descriptor is a "duplicate entry in BBP.dir" and
\* BBPinit fails; otherwise the line's descriptor is installed.
BBPreadEntries ==
    /\ pc = "read" /\ ridx <= Len(nbbpf)
    /\ LET l == nbbpf[ridx] IN
          IF desc[l.id] # "free"
             THEN pc' = "failed" /\ UNCHANGED <<desc, ridx>>
             ELSE /\ desc' = [desc EXCEPT ![l.id] = LineKind(l)]
                  /\ ridx' = ridx + 1 /\ UNCHANGED pc
    /\ UNCHANGED <<subcommit, full, persistent, preimage, obbpf, buf, n, nbbpf,
                   idx, ret, disk, listing, pos>>

\* At the end of BBP.dir BBPreadEntries returns GDK_SUCCEED.
ReadEnd ==
    /\ pc = "read" /\ ridx > Len(nbbpf)
    /\ pc' = "check"
    /\ UNCHANGED <<subcommit, full, persistent, preimage, obbpf, buf, n, nbbpf,
                   idx, ret, restartVars>>

\* BBPcheckbats: every valid bat that is not void needs its offset heap
\* (for a str bat of width below 8 also accepted under the old name
\* .tail) and, if it has one, its string heap; a missing file makes BBPinit
\* fail.  Otherwise BBPinit goes on (the upgrade steps do nothing for a
\* catalog of the current version) and calls BBPdiskscan on the BAT
\* directory.
HeapPresent(b, k) ==
    /\ k # "void" =>
          \/ File(b, TailName(k)) \in disk
          \/ HasVheap(k) /\ File(b, "tail") \in disk
    /\ HasVheap(k) => File(b, "theap") \in disk
BBPcheckbats ==
    /\ pc = "check"
    /\ pc' = IF \A b \in Ids : desc[b] # "free" => HeapPresent(b, desc[b])
               THEN "scan" ELSE "failed"
    /\ UNCHANGED <<subcommit, full, persistent, preimage, obbpf, buf, n, nbbpf,
                   idx, ret, restartVars>>

\* persistent_bat at startup: the slot is valid and nothing is cached.
persistent_bat(b) == b \in Ids /\ desc[b] # "free"

\* variant: the offset heap's name is checked as for a fixed-size type,
\* whatever the width of a str bat.
ScanDecisionIgnoresWidth(f) ==
    LET ok == f.ext # "none" /\ f.bid # 0
        k  == desc[f.bid]
    IN IF f.bbp THEN "skip"
       ELSE IF f.ext = "tmp" THEN "delete"
       ELSE IF ~ok THEN "stop"
       ELSE IF ~persistent_bat(f.bid) THEN "delete"
       ELSE IF f.ext \in {"tail", "tail1", "tail2"}
               THEN IF k = "void" \/ f.ext # "tail" THEN "delete" ELSE "keep"
       ELSE IF f.ext = "theap"
               THEN IF HasVheap(k) THEN "keep" ELSE "delete"
       ELSE "stop"

\* variant: a string heap is kept for any persistent bat (no tvheap test).
ScanDecisionKeepsTheap(f) ==
    LET ok == f.ext # "none" /\ f.bid # 0
        k  == desc[f.bid]
    IN IF f.bbp THEN "skip"
       ELSE IF f.ext = "tmp" THEN "delete"
       ELSE IF ~ok THEN "stop"
       ELSE IF ~persistent_bat(f.bid) THEN "delete"
       ELSE IF f.ext \in {"tail", "tail1", "tail2"}
               THEN IF k = "void" \/ f.ext # TailName(k) THEN "delete" ELSE "keep"
       ELSE IF f.ext = "theap" THEN "keep"
       ELSE "stop"

\* BBPdiskscan's verdict on one entry: "skip" the catalog files, "stop"
\* pruning at an unknown file, "delete" a leftover or "keep" it.
ScanDecision(f) ==
    LET ok == f.ext # "none" /\ f.bid # 0
        k  == desc[f.bid]
    IN IF f.bbp THEN "skip"
       ELSE IF f.ext = "tmp" THEN "delete"
       ELSE IF ~ok THEN "stop"
       ELSE IF ~persistent_bat(f.bid) THEN "delete"
       ELSE IF f.ext \in {"tail", "tail1", "tail2"}
               THEN IF k = "void" \/ f.ext # TailName(k) THEN "delete" ELSE "keep"
       ELSE IF f.ext = "theap"
               THEN IF HasVheap(k) THEN "keep" ELSE "delete"
       ELSE "stop"

\* One entry of BBPdiskscan's readdir loop: remove it, pass over it, or
\* break out of the loop, which ends the scan.
BBPdiskscan ==
    /\ pc = "scan" /\ pos <= Len(listing)
    /\ LET f == listing[pos] IN
          IF ScanDecision(f) = "stop"
             THEN pc' = "up" /\ UNCHANGED <<disk, pos>>
             ELSE /\ disk' = IF ScanDecision(f) = "delete" THEN disk \ {f} ELSE disk
                  /\ pos' = pos + 1 /\ UNCHANGED pc
    /\ UNCHANGED <<subcommit, full, persistent, preimage, obbpf, buf, n, nbbpf,
                   idx, ret, desc, ridx, listing>>

\* readdir returns NULL: the directory is closed and BBPinit goes on.
ScanEnd ==
    /\ pc = "scan" /\ pos > Len(listing)
    /\ pc' = "up"
    /\ UNCHANGED <<subcommit, full, persistent, preimage, obbpf, buf, n, nbbpf,
                   idx, ret, restartVars>>

Next == BBPdir_first \/ StepRead \/ StepEntry \/ BBPdir_last
        \/ BBPinit \/ BBPreadEntries \/ ReadEnd \/ BBPcheckbats
        \/ BBPdiskscan \/ ScanEnd

Spec == Init /\ [][Next]_vars

-----------------------------------------------------------------------------

TypeOK ==
    /\ full \in BOOLEAN
    /\ subcommit \in Seq(Ids) /\ persistent \subseteq Ids
    /\ preimage \in Seq(Lines) /\ obbpf \in Seq(Lines)
    /\ buf \in Lines \cup {NoLine}
    /\ n \in {-1} \cup (0..NIds)
    /\ nbbpf \in Seq(Lines)
    /\ idx \in 1..NIds + 1
    /\ ret \in {"ok", "fail"}
    /\ pc \in {"first", "step", "last", "end", "read", "check", "failed", "scan",
               "up"}
    /\ disk \subseteq [bid : 0..NIds, bbp : BOOLEAN, ext : Exts]
    /\ desc \in [Ids -> Kinds \cup {"free"}]
    /\ pos \in 1..Len(listing) + 1

\* The catalog a commit should leave (spec 4.8): the pre-image entries of
\* the bats not in the commit list, and a fresh entry for every persistent
\* bat of the list, one line per bat in ascending id order.
Expected ==
    LET listed == {Bat(i) : i \in 1..Cnt}
    IN SetToSortSeq({l \in ToSet(preimage) : l.id \notin listed}
                      \cup {NewLine(b) : b \in persistent}, ByID)

\* When BBPsync's calls of BBPdir_first, BBPdir_step and BBPdir_last all
\* succeed, the new BBP.dir is exactly the expected catalog: no pre-image
\* line is lost, duplicated or kept for a bat that was committed.
MergeCorrect == (pc = "end" /\ ret = "ok") => nbbpf = Expected


\* The heap files the committed catalog describes (Expected, read back by
\* the restart): every one the commit wrote or kept is still in the BAT
\* directory while BBPinit reads BBP.dir and BBPdiskscan prunes, whatever
\* the order of readdir (no deleted offset heap of a str bat whose width
\* the commit changed, nor the string heap of a bat that stayed str).
CommittedFilesKept ==
    pc \in {"read", "check", "scan", "up"} => CatalogFiles(ToSet(Expected)) \subseteq disk

\* BBPinit on the catalog a successful BBPsync wrote does not fail: the
\* merge never leaves BBPreadEntries a second entry of one bat (the
\* replaced pre-image line may wait in buf across BBPdir_step calls), and
\* BBPcheckbats finds the heap files of every entry.
RestartSucceeds == pc # "failed"

\* When BBPdiskscan reads the directory to its end (no unexpected file made
\* it stop), the directory holds exactly BBP.dir and the heap files of the
\* committed catalog: the leftovers of bats the commit dropped or retyped,
\* and the .tmp file, are all removed.
LeftoversPruned ==
    pc = "up" /\ pos > Len(listing)
        => disk = CatalogFiles(ToSet(Expected)) \cup {BBPdirFile}

=============================================================================
