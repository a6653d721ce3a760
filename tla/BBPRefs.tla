------------------------------ MODULE BBPRefs ------------------------------
(***************************************************************************)
(* The reference and status core of the BAT Buffer Pool, gdk/gdk_bbp.c.    *)
(*                                                                         *)
(* Client threads allocate BATs (BBPinsert + BBPcacheit), pin them         *)
(* (BBPfix = incref physical), take logical references (BBPretain,         *)
(* BBPkeepref), load them (BBPdescriptor), save them (BBPsave) and drop    *)
(* their references (BBPunfix, BBPrelease = decref).  The last decref may  *)
(* unload or destroy a BAT (BBPfree, BBPdestroy, BBPclear).  The           *)
(* background thread BBPmanager cools and trims idle BATs (BBPtrim) under  *)
(* GDKtmLock, and a committer runs the status-flag protocol of a full      *)
(* commit (BBPsync) under the same lock.                                   *)
(*                                                                         *)
(* Each action is one region the code runs under a BAT's swap lock, or a   *)
(* stretch it runs unlocked; a spin-wait (BBPspin) is an enabling          *)
(* condition.  Heap contents and file I/O are abstracted to a dirty bit.   *)
(***************************************************************************)
EXTENDS Naturals, Sequences, SequencesExt

CONSTANTS
  Threads,    \* client threads using the BBP interface
  Trimmer,    \* the BBPmanager thread
  Committer,  \* the thread running BBPsync (holds GDKtmLock throughout)
  NoProc,     \* GDKtmLock is free
  Catalog,    \* ids of the persistent BATs read from BBP.dir by BBPinit
  BlockSize,  \* BBPINIT: slots added to the array by one BBPextend step
  NBlocks,    \* N_BBPINIT: BBPextend fails at NBlocks * BlockSize slots
  MaxFix,     \* bound on the pins and on the logical refs a thread holds
  ShareBats,  \* the bats that views are created on (BBPshare parents)
  Viewers     \* the threads that create views

Procs  == Threads \cup {Trimmer, Committer}
Limit  == NBlocks * BlockSize
Slots  == 1 .. Limit - 1                    \* bat 0 is never a BAT

ASSUME /\ Trimmer \notin Threads /\ Committer \notin Threads
       /\ NoProc \notin Procs /\ Trimmer # Committer
       /\ Catalog \subseteq Slots /\ ShareBats \subseteq Slots
       /\ Viewers \subseteq Threads
       /\ BlockSize \in Nat \ {0} /\ NBlocks \in Nat \ {0} /\ MaxFix \in Nat \ {0}

\* status bits of BBP_status (gdk.h); BBPUNSTABLE and BBPWAITING
Unstable == {"LOADING", "UNLOADING", "DELETING"}
Waiting  == Unstable \cup {"SAVING", "SYNCING"}
Flags    == Waiting \cup {"LOADED", "HOT", "PERSISTENT", "EXISTING", "TMP"}

VARIABLES
  status,     \* BBP_status(i): a set of Flags
  refs,       \* BBP_refs(i): physical references (pins)
  lrefs,      \* BBP_lrefs(i): logical references
  cache,      \* BBP_cache(i) # NULL: the BAT is loaded in memory
  named,      \* BBP_logical(i) # NULL: the slot is in use (BBPvalid)
  dirty,      \* BATdirty(b): memory differs from the saved heap files
  freeList,   \* the free list BBP_free(0), BBP_next(i) (BBP_THREADMASK = 0)
  bbpSize,    \* BBPsize: one past the highest slot ever handed out
  bbpLimit,   \* BBPlimit: slots allocated in the BBP array
  tmHolder,   \* owner of GDKtmLock
  pc,         \* control point of each process
  arg,        \* the bat a process is working on
  snapB,      \* decref's local "b != NULL" read under the swap lock
  snapL,      \* decref's local lrefs read under the swap lock
  cursor,     \* loop index bid / idx of BBPmanager, BBPtrim and BBPsync
  bound,      \* loop bound nbat / cnt, read from BBPsize when a loop starts
  pins,       \* ghost: pins[t][b] fixes thread t holds on b
  holds,      \* ghost: holds[t][b] logical references t holds on b
  using,      \* ghost: bats whose descriptor thread t has obtained
  sharecnt,   \* batSharecnt of each BAT's descriptor
  shared,     \* ghost: parents of the views of thread t counted in batSharecnt
  viewpin     \* ghost: parents a view of thread t still pins (its tp fix)

vars == <<status, refs, lrefs, cache, named, dirty, freeList, bbpSize,
          bbpLimit, tmHolder, pc, arg, snapB, snapL, cursor, bound,
          pins, holds, using, sharecnt, shared, viewpin>>

(***************************************************************************)
(* Initial state: what BBPinit leaves behind (BBPreadEntries marks every   *)
(* catalog BAT EXISTING with lrefs = 1, BBPextend sizes the array,         *)
(* BBPinithash pushes the unused slots so that the smallest is first) and  *)
(* the persistent mode the catalog BATs have; BBPmanager has been started. *)
(***************************************************************************)
InitSize  == IF Catalog = {} THEN 1 ELSE Max(Catalog) + 1
InitLimit == ((InitSize + BlockSize - 1) \div BlockSize) * BlockSize

Init ==
  /\ status = [b \in Slots |-> IF b \in Catalog THEN {"EXISTING", "PERSISTENT"} ELSE {}]
  /\ refs = [b \in Slots |-> 0]
  /\ lrefs = [b \in Slots |-> IF b \in Catalog THEN 1 ELSE 0]
  /\ cache = [b \in Slots |-> FALSE]
  /\ named = [b \in Slots |-> b \in Catalog]
  /\ dirty = [b \in Slots |-> FALSE]
  /\ freeList = SetToSortSeq({b \in 1 .. InitSize - 1 : b \notin Catalog}, <)
  /\ bbpSize = InitSize
  /\ bbpLimit = InitLimit
  /\ tmHolder = NoProc
  /\ pc = [p \in Procs |-> IF p = Trimmer THEN "hot" ELSE "idle"]
  /\ arg = [p \in Procs |-> 0]
  /\ snapB = [p \in Procs |-> FALSE]
  /\ snapL = [p \in Procs |-> 0]
  /\ cursor = [p \in Procs |-> 1]
  /\ bound = [p \in Procs |-> 1]
  /\ pins = [t \in Threads |-> [b \in Slots |-> 0]]
  /\ holds = [t \in Threads |-> [b \in Slots |-> 0]]
  /\ using = [t \in Threads |-> {}]
  /\ sharecnt = [b \in Slots |-> 0]
  /\ shared = [t \in Threads |-> {}]
  /\ viewpin = [t \in Threads |-> {}]

SetOn(b, F)  == [status EXCEPT ![b] = @ \cup F]
SetOff(b, F) == [status EXCEPT ![b] = @ \ F]
Goto(p, l)   == pc' = [pc EXCEPT ![p] = l]

\* a thread can name bat b: a catalog BAT, or one it holds a reference to
Known(t, b) == b \in Catalog \/ pins[t][b] + holds[t][b] > 0

(***************************************************************************)
(* Client operations.                                                      *)
(***************************************************************************)

\* BBPinsert followed by BBPcacheit, as COLnew does: pop the free list, or
\* hand out slot BBPsize, growing the array (maybeextend, BBPextend) when
\* BBPsize reached BBPlimit; BBPextend's rebuilt free list is just the new
\* slot, since the free list was empty.  At the limit BBPinsert returns 0.
Create(t) ==
  /\ pc[t] = "idle"
  /\ LET fresh == freeList = <<>>
         i     == IF fresh THEN bbpSize ELSE Head(freeList)
         grow  == fresh /\ bbpSize >= bbpLimit
     IN /\ ~(grow /\ bbpSize + 1 >= Limit)
        /\ freeList' = IF fresh THEN <<>> ELSE Tail(freeList)
        /\ bbpSize' = IF fresh THEN bbpSize + 1 ELSE bbpSize
        /\ bbpLimit' = IF grow THEN bbpLimit + BlockSize ELSE bbpLimit
        /\ status' = [status EXCEPT ![i] = ({"DELETING", "HOT"} \cup {"LOADED"}) \ {"DELETING"}]
        /\ refs' = [refs EXCEPT ![i] = 1]
        /\ lrefs' = [lrefs EXCEPT ![i] = 0]
        /\ cache' = [cache EXCEPT ![i] = TRUE]
        /\ named' = [named EXCEPT ![i] = TRUE]
        /\ dirty' = [dirty EXCEPT ![i] = TRUE]
        /\ pins' = [pins EXCEPT ![t][i] = 1]
        /\ using' = [using EXCEPT ![t] = @ \cup {i}]
  /\ UNCHANGED <<tmHolder, pc, arg, snapB, snapL, cursor, bound, holds,
                 sharecnt, shared, viewpin>>

\* BBPfix: incref(i, false, lock) spins while the BAT is unstable, then
\* pins it and makes it hot
Fix(t, b) ==
  /\ pc[t] = "idle" /\ Known(t, b) /\ pins[t][b] < MaxFix
  /\ status[b] \cap Unstable = {}
  /\ refs' = [refs EXCEPT ![b] = @ + 1]
  /\ status' = SetOn(b, {"HOT"})
  /\ pins' = [pins EXCEPT ![t][b] = @ + 1]
  /\ UNCHANGED <<lrefs, cache, named, dirty, freeList, bbpSize, bbpLimit,
                 tmHolder, pc, arg, snapB, snapL, cursor, bound, holds, using,
                 sharecnt, shared, viewpin>>

\* BBPretain: incref(i, true, lock)
Retain(t, b) ==
  /\ pc[t] = "idle" /\ Known(t, b) /\ holds[t][b] < MaxFix
  /\ status[b] \cap Unstable = {}
  /\ lrefs' = [lrefs EXCEPT ![b] = @ + 1]
  /\ holds' = [holds EXCEPT ![t][b] = @ + 1]
  /\ UNCHANGED <<status, refs, cache, named, dirty, freeList, bbpSize, bbpLimit,
                 tmHolder, pc, arg, snapB, snapL, cursor, bound, pins, using,
                 sharecnt, shared, viewpin>>

\* The locked part of getBBPdescriptor: wait while any WAITING bit is set;
\* a loaded BAT is returned, otherwise LOADING is set and the load follows.
GetDescriptor(t, b, loadPc, donePc) ==
  /\ status[b] \cap Waiting = {}
  /\ arg' = [arg EXCEPT ![t] = b]
  /\ IF cache[b]
       THEN /\ Goto(t, donePc) /\ using' = [using EXCEPT ![t] = @ \cup {b}]
            /\ UNCHANGED status
       ELSE /\ Goto(t, loadPc) /\ status' = SetOn(b, {"LOADING"})
            /\ UNCHANGED using

\* BBPdescriptor on a BAT the thread has pinned
Descriptor(t, b) ==
  /\ pc[t] = "idle" /\ pins[t][b] > 0 /\ b \notin using[t]
  /\ GetDescriptor(t, b, "load", "idle")
  /\ UNCHANGED <<refs, lrefs, cache, named, dirty, freeList, bbpSize, bbpLimit,
                 tmHolder, snapB, snapL, cursor, bound, pins, holds, sharecnt,
                 shared, viewpin>>

\* getBBPdescriptor outside the lock: BATload_intern reads the heaps and
\* BBPcacheit caches the BAT; LOADING is then cleared without the lock.
\* BBPkeepref continues with its decref.
AfterLoad(t) == IF pc[t] = "load" THEN "idle" ELSE "kdec"

\* variant: LOADING is not cleared after the load
LoadBatKeepsLoading(t) ==
  LET b == arg[t] IN
  /\ pc[t] \in {"load", "kload"}
  /\ cache' = [cache EXCEPT ![b] = TRUE]
  /\ status' = [status EXCEPT ![b] = (@ \cup {"LOADED"}) \ {"DELETING"}]
  /\ using' = [using EXCEPT ![t] = @ \cup {b}]
  /\ Goto(t, AfterLoad(t))
  /\ UNCHANGED <<refs, lrefs, named, dirty, freeList, bbpSize, bbpLimit,
                 tmHolder, arg, snapB, snapL, cursor, bound, pins, holds,
                 sharecnt, shared, viewpin>>

LoadBat(t) ==
  LET b == arg[t] IN
  /\ pc[t] \in {"load", "kload"}
  /\ cache' = [cache EXCEPT ![b] = TRUE]
  /\ status' = [status EXCEPT ![b] = (@ \cup {"LOADED"}) \ {"LOADING", "DELETING"}]
  /\ using' = [using EXCEPT ![t] = @ \cup {b}]
  /\ Goto(t, AfterLoad(t))
  /\ UNCHANGED <<refs, lrefs, named, dirty, freeList, bbpSize, bbpLimit,
                 tmHolder, arg, snapB, snapL, cursor, bound, pins, holds,
                 sharecnt, shared, viewpin>>

\* BATload_intern failed (I/O error): LOADING is cleared, no descriptor
LoadFail(t) ==
  /\ pc[t] \in {"load", "kload"}
  /\ status' = SetOff(arg[t], {"LOADING"})
  /\ Goto(t, AfterLoad(t))
  /\ UNCHANGED <<refs, lrefs, cache, named, dirty, freeList, bbpSize, bbpLimit,
                 tmHolder, arg, snapB, snapL, cursor, bound, pins, holds, using,
                 sharecnt, shared, viewpin>>

\* the client modifies a BAT it has the descriptor of (BUNappend and the
\* like, outside this file): its heaps become dirty
Update(t, b) ==
  /\ pc[t] = "idle" /\ b \in using[t] /\ ~dirty[b]
  /\ dirty' = [dirty EXCEPT ![b] = TRUE]
  /\ UNCHANGED <<status, refs, lrefs, cache, named, freeList, bbpSize, bbpLimit,
                 tmHolder, pc, arg, snapB, snapL, cursor, bound, pins, holds,
                 using, sharecnt, shared, viewpin>>

\* BBPsave of a dirty BAT with logical references: if another thread is
\* saving it, spin until that save is done; else set SAVING (and TMP for a
\* transient BAT) under the lock and save unlocked
Save(t, b) ==
  /\ pc[t] = "idle" /\ b \in using[t] /\ lrefs[b] > 0 /\ dirty[b]
  /\ arg' = [arg EXCEPT ![t] = b]
  /\ IF "SAVING" \in status[b]
       THEN Goto(t, "savewait") /\ UNCHANGED status
       ELSE /\ Goto(t, "save")
            /\ status' = SetOn(b, {"SAVING"} \cup
                                  (IF "PERSISTENT" \in status[b] THEN {} ELSE {"TMP"}))
  /\ UNCHANGED <<refs, lrefs, cache, named, dirty, freeList, bbpSize, bbpLimit,
                 tmHolder, snapB, snapL, cursor, bound, pins, holds, using,
                 sharecnt, shared, viewpin>>

SaveWait(t) ==
  /\ pc[t] = "savewait" /\ "SAVING" \notin status[arg[t]]
  /\ Goto(t, "idle")
  /\ UNCHANGED <<status, refs, lrefs, cache, named, dirty, freeList, bbpSize,
                 bbpLimit, tmHolder, arg, snapB, snapL, cursor, bound, pins,
                 holds, using, sharecnt, shared, viewpin>>

\* BBPbackup and BATsave, then SAVING is cleared whatever the outcome
SaveWrite(t) ==
  /\ pc[t] = "save"
  /\ \E ok \in BOOLEAN : dirty' = [dirty EXCEPT ![arg[t]] = ~ok]
  /\ status' = SetOff(arg[t], {"SAVING"})
  /\ Goto(t, "idle")
  /\ UNCHANGED <<refs, lrefs, cache, named, freeList, bbpSize, bbpLimit,
                 tmHolder, arg, snapB, snapL, cursor, bound, pins, holds, using,
                 sharecnt, shared, viewpin>>

(***************************************************************************)
(* decref: the locked part spins while UNLOADING, drops the reference and  *)
(* decides whether to unload (setting UNLOADING); the unload itself runs   *)
(* after the swap lock is released.  A transient BAT is destroyed at once; *)
(* a persistent one is unloaded if clean, neither SYNCING nor (when memory *)
(* is plentiful) HOT.  Whether memory is plentiful (GDKvm_cursize against  *)
(* GDK_vm_maxsize) is chosen freely.                                       *)
(***************************************************************************)
\* variant: SYNCING left out of chkflag
ChkFlagNoSync(plenty) == IF plenty THEN {"HOT"} ELSE {}

ChkFlag(plenty) == {"SYNCING"} \cup (IF plenty THEN {"HOT"} ELSE {})

\* variant: a last logical release unloads whatever the pins
UnloadableIgnoringPins(b, r, l, plenty) ==
  \/ l = 0
  \/ r = 0 /\ IF cache[b]
               THEN ~dirty[b] /\ status[b] \cap ChkFlag(plenty) = {}
                    /\ "PERSISTENT" \in status[b] /\ sharecnt[b] = 0
               ELSE "TMP" \in status[b]

\* variant: the pin count tested before it is decremented
UnloadableOffByOne(b, r, l, plenty) ==
  /\ r <= 1
  /\ \/ l = 0
     \/ IF cache[b]
          THEN ~dirty[b] /\ status[b] \cap ChkFlag(plenty) = {}
               /\ "PERSISTENT" \in status[b] /\ sharecnt[b] = 0
          ELSE "TMP" \in status[b]

Unloadable(b, r, l, plenty) ==
  /\ r = 0
  /\ \/ l = 0
     \/ IF cache[b]
          THEN ~dirty[b] /\ status[b] \cap ChkFlag(plenty) = {}
               /\ "PERSISTENT" \in status[b] /\ sharecnt[b] = 0
          ELSE "TMP" \in status[b]

\* variant: the pin count is decremented on a logical release too
DecrefBothCounts(p, b, logical) ==
  LET r == refs[b] - 1
      l == IF logical THEN lrefs[b] - 1 ELSE lrefs[b]
  IN /\ "UNLOADING" \notin status[b]
     /\ refs' = [refs EXCEPT ![b] = r]
     /\ lrefs' = [lrefs EXCEPT ![b] = l]
     /\ arg' = [arg EXCEPT ![p] = b]
     /\ snapB' = [snapB EXCEPT ![p] = cache[b]]
     /\ snapL' = [snapL EXCEPT ![p] = l]
     /\ \E plenty \in BOOLEAN :
          IF Unloadable(b, r, l, plenty)
            THEN status' = SetOn(b, {"UNLOADING"}) /\ Goto(p, "unload")
            ELSE UNCHANGED status /\ Goto(p, "idle")

Decref(p, b, logical) ==
  LET r == IF logical THEN refs[b] ELSE refs[b] - 1
      l == IF logical THEN lrefs[b] - 1 ELSE lrefs[b]
  IN /\ "UNLOADING" \notin status[b]
     /\ refs' = [refs EXCEPT ![b] = r]
     /\ lrefs' = [lrefs EXCEPT ![b] = l]
     /\ arg' = [arg EXCEPT ![p] = b]
     /\ snapB' = [snapB EXCEPT ![p] = cache[b]]
     /\ snapL' = [snapL EXCEPT ![p] = l]
     /\ \E plenty \in BOOLEAN :
          IF Unloadable(b, r, l, plenty)
            THEN status' = SetOn(b, {"UNLOADING"}) /\ Goto(p, "unload")
            ELSE UNCHANGED status /\ Goto(p, "idle")

\* BBPunfix: decref(i, false, ...)
Unfix(t, b) ==
  /\ pc[t] = "idle" /\ pins[t][b] > 0
  /\ Decref(t, b, FALSE)
  /\ pins' = [pins EXCEPT ![t][b] = @ - 1]
  /\ using' = IF pins[t][b] = 1 THEN [using EXCEPT ![t] = @ \ {b}] ELSE using
  /\ UNCHANGED <<cache, named, dirty, freeList, bbpSize, bbpLimit, tmHolder,
                 cursor, bound, holds, sharecnt, shared, viewpin>>

\* BBPrelease: decref(i, true, ...)
Release(t, b) ==
  /\ pc[t] = "idle" /\ holds[t][b] > 0
  /\ Decref(t, b, TRUE)
  /\ holds' = [holds EXCEPT ![t][b] = @ - 1]
  /\ UNCHANGED <<cache, named, dirty, freeList, bbpSize, bbpLimit, tmHolder,
                 cursor, bound, pins, using, sharecnt, shared, viewpin>>

\* BBPkeepref turns the caller's pin into a logical reference: incref
\* logical, BBPdescriptor, then decref physical
Keepref(t, b) ==
  /\ pc[t] = "idle" /\ pins[t][b] > 0 /\ holds[t][b] < MaxFix
  /\ status[b] \cap Unstable = {}
  /\ lrefs' = [lrefs EXCEPT ![b] = @ + 1]
  /\ holds' = [holds EXCEPT ![t][b] = @ + 1]
  /\ arg' = [arg EXCEPT ![t] = b]
  /\ Goto(t, "kdesc")
  /\ UNCHANGED <<status, refs, cache, named, dirty, freeList, bbpSize, bbpLimit,
                 tmHolder, snapB, snapL, cursor, bound, pins, using, sharecnt,
                 shared, viewpin>>

KeeprefDesc(t) ==
  /\ pc[t] = "kdesc"
  /\ GetDescriptor(t, arg[t], "kload", "kdec")
  /\ UNCHANGED <<refs, lrefs, cache, named, dirty, freeList, bbpSize, bbpLimit,
                 tmHolder, snapB, snapL, cursor, bound, pins, holds, sharecnt,
                 shared, viewpin>>

KeeprefDecref(t) ==
  /\ pc[t] = "kdec"
  /\ Decref(t, arg[t], FALSE)
  /\ pins' = [pins EXCEPT ![t][arg[t]] = @ - 1]
  /\ using' = IF pins[t][arg[t]] = 1 THEN [using EXCEPT ![t] = @ \ {arg[t]}] ELSE using
  /\ UNCHANGED <<cache, named, dirty, freeList, bbpSize, bbpLimit, tmHolder,
                 cursor, bound, holds, sharecnt, shared, viewpin>>

(***************************************************************************)
(* Share counting.  A view (made outside this file, by VIEWcreate, from a  *)
(* parent whose descriptor the creating thread holds) is not a slot of the *)
(* model; what it does to its parent is.  BBPshare takes a logical         *)
(* reference, bumps batSharecnt and takes a pin in three steps under three *)
(* separate takings of the parent's swap lock.  The pin is the view's      *)
(* parent fix, which decref drops once the view's own pins reach zero.     *)
(* GDKunshare, run when the view is freed or destroyed, drops the share    *)
(* count and then the logical reference, in two decref calls.             *)
(***************************************************************************)
\* BBPshare, first step: incref(parent, true, lock)
ShareRetain(t, b) ==
  /\ pc[t] = "idle" /\ t \in Viewers /\ b \in ShareBats /\ b \in using[t]
  /\ b \notin shared[t] \cup viewpin[t]
  /\ status[b] \cap Unstable = {}
  /\ lrefs' = [lrefs EXCEPT ![b] = @ + 1]
  /\ arg' = [arg EXCEPT ![t] = b]
  /\ Goto(t, "share2")
  /\ UNCHANGED <<status, refs, cache, named, dirty, freeList, bbpSize, bbpLimit,
                 tmHolder, snapB, snapL, cursor, bound, pins, holds, using,
                 sharecnt, shared, viewpin>>

\* ++batSharecnt under GDKswapLock(parent)
ShareCount(t) ==
  /\ pc[t] = "share2"
  /\ sharecnt' = [sharecnt EXCEPT ![arg[t]] = @ + 1]
  /\ shared' = [shared EXCEPT ![t] = @ \cup {arg[t]}]
  /\ Goto(t, "share3")
  /\ UNCHANGED <<status, refs, lrefs, cache, named, dirty, freeList, bbpSize,
                 bbpLimit, tmHolder, arg, snapB, snapL, cursor, bound, pins,
                 holds, using, viewpin>>

\* incref(parent, false, lock): wait while unstable, pin, make hot
ShareFix(t) ==
  LET b == arg[t] IN
  /\ pc[t] = "share3"
  /\ status[b] \cap Unstable = {}
  /\ refs' = [refs EXCEPT ![b] = @ + 1]
  /\ status' = SetOn(b, {"HOT"})
  /\ viewpin' = [viewpin EXCEPT ![t] = @ \cup {b}]
  /\ Goto(t, "idle")
  /\ UNCHANGED <<lrefs, cache, named, dirty, freeList, bbpSize, bbpLimit,
                 tmHolder, arg, snapB, snapL, cursor, bound, pins, holds, using,
                 sharecnt, shared>>

\* the end of decref on a view whose pins reached zero: decref(tp, false)
ViewUnfix(t, b) ==
  /\ pc[t] = "idle" /\ b \in viewpin[t]
  /\ Decref(t, b, FALSE)
  /\ viewpin' = [viewpin EXCEPT ![t] = @ \ {b}]
  /\ UNCHANGED <<cache, named, dirty, freeList, bbpSize, bbpLimit, tmHolder,
                 cursor, bound, pins, holds, using, sharecnt, shared>>

\* GDKunshare, first call: decref(parent, false, true, ...) decrements
\* batSharecnt under the swap lock and returns before any spin
Unshare(t, b) ==
  /\ pc[t] = "idle" /\ b \in shared[t]
  /\ sharecnt' = [sharecnt EXCEPT ![b] = @ - 1]
  /\ shared' = [shared EXCEPT ![t] = @ \ {b}]
  /\ arg' = [arg EXCEPT ![t] = b]
  /\ Goto(t, "unshare")
  /\ UNCHANGED <<status, refs, lrefs, cache, named, dirty, freeList, bbpSize,
                 bbpLimit, tmHolder, snapB, snapL, cursor, bound, pins, holds,
                 using, viewpin>>

\* GDKunshare, second call: decref(parent, true, false, ...), which may
\* unload the parent
UnshareRelease(t) ==
  /\ pc[t] = "unshare"
  /\ Decref(t, arg[t], TRUE)
  /\ UNCHANGED <<cache, named, dirty, freeList, bbpSize, bbpLimit, tmHolder,
                 cursor, bound, pins, holds, using, sharecnt, shared, viewpin>>

(***************************************************************************)
(* The unload that follows a decision to unload, run without the swap      *)
(* lock while UNLOADING keeps other threads out.  The trimmer returns to   *)
(* its loop and releases GDKtmLock.                                        *)
(***************************************************************************)
AfterUnload(p) ==
  /\ Goto(p, IF p = Trimmer THEN "trim" ELSE "idle")
  /\ cursor' = IF p = Trimmer THEN [cursor EXCEPT ![p] = @ + 1] ELSE cursor
  /\ tmHolder' = IF p = Trimmer THEN NoProc ELSE tmHolder

\* bbpclear: uncache, zero the counts, reset the status and push the slot
\* onto the free list
ClearSlot(b) ==
  /\ status' = [status EXCEPT ![b] = {}]
  /\ refs' = [refs EXCEPT ![b] = 0]
  /\ lrefs' = [lrefs EXCEPT ![b] = 0]
  /\ cache' = [cache EXCEPT ![b] = FALSE]
  /\ named' = [named EXCEPT ![b] = FALSE]
  /\ dirty' = [dirty EXCEPT ![b] = FALSE]
  /\ freeList' = <<b>> \o freeList

\* BBPdestroy (loaded, no logical references left): BATdelete, BBPclear
DestroyBat(p) ==
  /\ pc[p] = "unload" /\ snapB[p] /\ snapL[p] = 0
  /\ ClearSlot(arg[p])
  /\ AfterUnload(p)
  /\ UNCHANGED <<bbpSize, bbpLimit, arg, snapB, snapL, bound, pins, holds,
                 using, sharecnt, shared, viewpin>>

\* BBPfree (loaded, still logically referenced): BBPsave writes a dirty BAT
\* first (both paths here only unload a clean one, so it has nothing to do
\* and cannot fail), BATfree and BBPuncacheit drop it from memory, then
\* UNLOADING is cleared
FreeBat(p) ==
  LET b == arg[p] IN
  /\ pc[p] = "unload" /\ snapB[p] /\ snapL[p] # 0
  /\ cache' = [cache EXCEPT ![b] = FALSE]
  /\ status' = SetOff(b, {"LOADED", "UNLOADING"})
  /\ dirty' = [dirty EXCEPT ![b] = IF lrefs[b] > 0 THEN FALSE ELSE @]
  /\ AfterUnload(p)
  /\ UNCHANGED <<refs, lrefs, named, freeList, bbpSize, bbpLimit, arg, snapB,
                 snapL, bound, pins, holds, using, sharecnt, shared, viewpin>>

\* not loaded, no logical references left: BATdelete(desc), BBPclear
ClearBat(p) ==
  /\ pc[p] = "unload" /\ ~snapB[p] /\ snapL[p] = 0
  /\ ClearSlot(arg[p])
  /\ AfterUnload(p)
  /\ UNCHANGED <<bbpSize, bbpLimit, arg, snapB, snapL, bound, pins, holds,
                 using, sharecnt, shared, viewpin>>

\* not loaded, still referenced, TMP: nothing to free
EndUnload(p) ==
  /\ pc[p] = "unload" /\ ~snapB[p] /\ snapL[p] # 0
  /\ status' = SetOff(arg[p], {"UNLOADING"})
  /\ AfterUnload(p)
  /\ UNCHANGED <<refs, lrefs, cache, named, dirty, freeList, bbpSize, bbpLimit,
                 arg, snapB, snapL, bound, pins, holds, using, sharecnt, shared,
                 viewpin>>

\* variant: the cooling condition inverted
HotPassInverted ==
  /\ pc[Trimmer] = "hot"
  /\ status' = [b \in Slots |-> IF b < bbpSize /\ refs[b] # 0 /\ lrefs[b] # 0
                                  THEN status[b] \ {"HOT"} ELSE status[b]]
  /\ Goto(Trimmer, "trim")
  /\ cursor' = [cursor EXCEPT ![Trimmer] = 1]
  /\ bound' = [bound EXCEPT ![Trimmer] = bbpSize]
  /\ UNCHANGED <<refs, lrefs, cache, named, dirty, freeList, bbpSize, bbpLimit,
                 tmHolder, arg, snapB, snapL, pins, holds, using, sharecnt,
                 shared, viewpin>>

(***************************************************************************)
(* BBPmanager: a pass clearing HOT from every BAT with no pins but with    *)
(* logical references, a sleep, then BBPtrim(false), which takes GDKtmLock *)
(* for every bid and unloads a BAT that is loaded, clean, unpinned,        *)
(* logically referenced and neither UNLOADING, SYNCING, SAVING nor HOT.    *)
(***************************************************************************)
\* The cooling pass: each bid's step runs under its own swap lock and touches
\* that bid only, so it commutes with every step on another bid and the pass
\* is taken as one step; it reads BBPsize (nbat) when it starts.
HotPass ==
  /\ pc[Trimmer] = "hot"
  /\ status' = [b \in Slots |-> IF b < bbpSize /\ refs[b] = 0 /\ lrefs[b] # 0
                                  THEN status[b] \ {"HOT"} ELSE status[b]]
  /\ Goto(Trimmer, "trim")
  /\ cursor' = [cursor EXCEPT ![Trimmer] = 1]
  /\ bound' = [bound EXCEPT ![Trimmer] = bbpSize]
  /\ UNCHANGED <<refs, lrefs, cache, named, dirty, freeList, bbpSize, bbpLimit,
                 tmHolder, arg, snapB, snapL, pins, holds, using, sharecnt,
                 shared, viewpin>>

\* variant: batSharecnt not tested
TrimmableIgnoringShares(b) ==
  /\ status[b] \cap {"UNLOADING", "SYNCING", "SAVING", "HOT"} = {}
  /\ refs[b] = 0 /\ lrefs[b] # 0 /\ cache[b] /\ ~dirty[b]

Trimmable(b) ==
  /\ status[b] \cap {"UNLOADING", "SYNCING", "SAVING", "HOT"} = {}
  /\ refs[b] = 0 /\ lrefs[b] # 0 /\ cache[b] /\ ~dirty[b]
  /\ sharecnt[b] = 0

TrimStep ==
  LET b == cursor[Trimmer] IN
  /\ pc[Trimmer] = "trim" /\ b < bound[Trimmer] /\ tmHolder = NoProc
  /\ IF Trimmable(b)
       THEN /\ status' = SetOn(b, {"UNLOADING"})
            /\ tmHolder' = Trimmer
            /\ Goto(Trimmer, "unload")
            /\ arg' = [arg EXCEPT ![Trimmer] = b]
            /\ snapB' = [snapB EXCEPT ![Trimmer] = TRUE]
            /\ snapL' = [snapL EXCEPT ![Trimmer] = lrefs[b]]
            /\ UNCHANGED cursor
       ELSE /\ cursor' = [cursor EXCEPT ![Trimmer] = @ + 1]
            /\ UNCHANGED <<status, tmHolder, pc, arg, snapB, snapL>>
  /\ UNCHANGED <<refs, lrefs, cache, named, dirty, freeList, bbpSize, bbpLimit,
                 bound, pins, holds, using, sharecnt, shared, viewpin>>

\* end of BBPtrim: back to the cooling pass
TrimDone ==
  /\ pc[Trimmer] = "trim" /\ cursor[Trimmer] >= bound[Trimmer]
  /\ Goto(Trimmer, "hot")
  /\ UNCHANGED <<status, refs, lrefs, cache, named, dirty, freeList, bbpSize,
                 bbpLimit, tmHolder, arg, snapB, snapL, cursor, bound, pins,
                 holds, using, sharecnt, shared, viewpin>>

(***************************************************************************)
(* BBPsync, full commit (subcommit == NULL, cnt = BBPsize), by its status  *)
(* bits; the files it moves and writes are the subject of BBPCommit.  The  *)
(* caller (TMcommit) holds GDKtmLock throughout.                           *)
(***************************************************************************)
CommitStart ==
  /\ pc[Committer] = "idle" /\ tmHolder = NoProc
  /\ tmHolder' = Committer
  /\ Goto(Committer, "sync1")
  /\ cursor' = [cursor EXCEPT ![Committer] = 1]
  /\ bound' = [bound EXCEPT ![Committer] = bbpSize]
  /\ UNCHANGED <<status, refs, lrefs, cache, named, dirty, freeList, bbpSize,
                 bbpLimit, arg, snapB, snapL, pins, holds, using, sharecnt,
                 shared, viewpin>>

CommitVars == <<refs, lrefs, cache, named, freeList, bbpSize, bbpLimit,
                tmHolder, arg, snapB, snapL, bound, pins, holds, using,
                sharecnt, shared, viewpin>>

\* PHASE 1, under the swap lock of idx: set SYNCING ...
Sync1 ==
  LET i == cursor[Committer] IN
  /\ pc[Committer] = "sync1"
  /\ IF i < bound[Committer]
       THEN status' = SetOn(i, {"SYNCING"}) /\ Goto(Committer, "sync1w")
            /\ UNCHANGED cursor
       ELSE Goto(Committer, "sync2") /\ UNCHANGED status
            /\ cursor' = [cursor EXCEPT ![Committer] = 1]
  /\ UNCHANGED <<dirty, CommitVars, sharecnt, shared, viewpin>>

\* ... spin until UNLOADING is off, dirty_bat spins while a valid BAT is
\* SAVING, then BBPbackup; a failed backup ends the loop (bailout)
\* variant: the loop index is not advanced
Sync1WaitNoAdvance ==
  LET i == cursor[Committer] IN
  /\ pc[Committer] = "sync1w"
  /\ "UNLOADING" \notin status[i]
  /\ named[i] => "SAVING" \notin status[i]
  /\ \/ Goto(Committer, "sync1") /\ UNCHANGED cursor
     \/ Goto(Committer, "bailout") /\ UNCHANGED cursor
  /\ UNCHANGED <<status, dirty, CommitVars, sharecnt, shared, viewpin>>

Sync1Wait ==
  LET i == cursor[Committer] IN
  /\ pc[Committer] = "sync1w"
  /\ "UNLOADING" \notin status[i]
  /\ named[i] => "SAVING" \notin status[i]
  /\ \/ Goto(Committer, "sync1") /\ cursor' = [cursor EXCEPT ![Committer] = @ + 1]
     \/ Goto(Committer, "bailout") /\ UNCHANGED cursor
  /\ UNCHANGED <<status, dirty, CommitVars, sharecnt, shared, viewpin>>

\* PHASE 2: for a PERSISTENT bat, dirty_bat (spin on SAVING, then is it
\* loaded and dirty?); only such a BAT is saved
Sync2 ==
  LET i == cursor[Committer] IN
  /\ pc[Committer] = "sync2" /\ i < bound[Committer]
  /\ ("PERSISTENT" \in status[i] /\ named[i]) => "SAVING" \notin status[i]
  /\ IF "PERSISTENT" \in status[i] /\ cache[i] /\ dirty[i]
       THEN Goto(Committer, "sync2w") /\ UNCHANGED cursor
       ELSE UNCHANGED pc /\ cursor' = [cursor EXCEPT ![Committer] = @ + 1]
  /\ UNCHANGED <<status, dirty, CommitVars, sharecnt, shared, viewpin>>

\* variant: the wait for SAVING dropped
Sync2LockNoWait ==
  LET i == cursor[Committer] IN
  /\ pc[Committer] = "sync2w"
  /\ "UNLOADING" \notin status[i]
  /\ status' = SetOn(i, {"SAVING"})
  /\ Goto(Committer, "sync2s")
  /\ UNCHANGED <<dirty, cursor, CommitVars, sharecnt, shared, viewpin>>

\* wait for SAVING and UNLOADING to be off, then set SAVING
Sync2Lock ==
  LET i == cursor[Committer] IN
  /\ pc[Committer] = "sync2w"
  /\ status[i] \cap {"SAVING", "UNLOADING"} = {}
  /\ status' = SetOn(i, {"SAVING"})
  /\ Goto(Committer, "sync2s")
  /\ UNCHANGED <<dirty, cursor, CommitVars, sharecnt, shared, viewpin>>

\* BATsave_iter, then SAVING off; a failed save ends the loop
Sync2Save ==
  LET i == cursor[Committer] IN
  /\ pc[Committer] = "sync2s"
  /\ status' = SetOff(i, {"SAVING"})
  /\ \/ dirty' = [dirty EXCEPT ![i] = FALSE] /\ Goto(Committer, "sync2")
        /\ cursor' = [cursor EXCEPT ![Committer] = @ + 1]
     \/ Goto(Committer, "bailout") /\ UNCHANGED <<dirty, cursor>>
  /\ UNCHANGED CommitVars

\* BBPdir_last, the rename BAKDIR -> DELDIR and the aftermath (file
\* level), then bailout: SYNCING off for every idx < cnt, GDKtmLock released
SyncEnd ==
  /\ \/ pc[Committer] = "bailout"
     \/ pc[Committer] = "sync2" /\ cursor[Committer] >= bound[Committer]
  /\ status' = [b \in Slots |-> IF b < bound[Committer] THEN status[b] \ {"SYNCING"}
                                                     ELSE status[b]]
  /\ tmHolder' = NoProc
  /\ Goto(Committer, "idle")
  /\ UNCHANGED <<refs, lrefs, cache, named, dirty, freeList, bbpSize, bbpLimit,
                 arg, snapB, snapL, cursor, bound, pins, holds, using, sharecnt,
                 shared, viewpin>>

(***************************************************************************)
(* The system.                                                             *)
(***************************************************************************)
ClientCall(t) ==
  \/ Create(t)
  \/ \E b \in Slots : \/ Fix(t, b) \/ Retain(t, b) \/ Descriptor(t, b)
                      \/ Update(t, b) \/ Save(t, b) \/ Unfix(t, b)
                      \/ Release(t, b) \/ Keepref(t, b)
                      \/ ShareRetain(t, b) \/ ViewUnfix(t, b) \/ Unshare(t, b)

\* the steps of a call in progress
ClientBusy(t) ==
  \/ LoadBat(t) \/ LoadFail(t) \/ SaveWait(t) \/ SaveWrite(t)
  \/ KeeprefDesc(t) \/ KeeprefDecref(t)
  \/ ShareCount(t) \/ ShareFix(t) \/ UnshareRelease(t)
  \/ DestroyBat(t) \/ FreeBat(t) \/ ClearBat(t) \/ EndUnload(t)

TrimmerStep == HotPass \/ TrimStep \/ TrimDone \/ FreeBat(Trimmer)

CommitterBusy == Sync1 \/ Sync1Wait \/ Sync2 \/ Sync2Lock \/ Sync2Save \/ SyncEnd

Next ==
  \/ \E t \in Threads : ClientCall(t) \/ ClientBusy(t)
  \/ TrimmerStep
  \/ CommitStart \/ CommitterBusy

(***************************************************************************)
(* Fairness.  A call in progress, the manager thread and a commit in       *)
(* progress keep running.  A spin-wait (BBPspin) re-reads the status every *)
(* millisecond and GDKtmLock is a mutex the trimmer retakes for every bid, *)
(* so the steps that wait are enabled again and again: strong fairness.   *)
(* Clients need not call anything, and nothing forces a commit to start.   *)
(***************************************************************************)
Fairness ==
  /\ \A t \in Threads : SF_vars(ClientBusy(t))
  /\ SF_vars(TrimmerStep)
  /\ SF_vars(CommitterBusy)

Spec == Init /\ [][Next]_vars /\ Fairness

(***************************************************************************)
(* Properties.                                                             *)
(***************************************************************************)
Labels == {"idle", "load", "kload", "kdesc", "kdec", "save", "savewait",
           "unload", "hot", "trim", "sync1", "sync1w", "sync2", "sync2w",
           "sync2s", "bailout", "share2", "share3", "unshare"}

TypeOK ==
  /\ status \in [Slots -> SUBSET Flags]
  /\ refs \in [Slots -> Nat] /\ lrefs \in [Slots -> Nat]
  /\ cache \in [Slots -> BOOLEAN] /\ named \in [Slots -> BOOLEAN]
  /\ dirty \in [Slots -> BOOLEAN]
  /\ freeList \in Seq(Slots)
  /\ bbpSize \in 1 .. Limit /\ bbpLimit \in 0 .. Limit
  /\ tmHolder \in {NoProc, Trimmer, Committer}
  /\ pc \in [Procs -> Labels] /\ arg \in [Procs -> 0 .. Limit - 1]
  /\ snapB \in [Procs -> BOOLEAN] /\ snapL \in [Procs -> Nat]
  /\ cursor \in [Procs -> 1 .. Limit] /\ bound \in [Procs -> 1 .. Limit]
  /\ pins \in [Threads -> [Slots -> 0 .. MaxFix]]
  /\ holds \in [Threads -> [Slots -> 0 .. MaxFix]]
  /\ using \in [Threads -> SUBSET Slots]
  /\ sharecnt \in [Slots -> Nat]
  /\ shared \in [Threads -> SUBSET ShareBats]
  /\ viewpin \in [Threads -> SUBSET ShareBats]

\* A thread that obtained a BAT's descriptor and still pins it finds the BAT
\* loaded: neither another thread's last BBPunfix/BBPrelease (decref) nor
\* BBPtrim unloads a BAT while it is pinned, whatever the interleaving.
ResidentWhileUsed == \A t \in Threads : \A b \in using[t] : cache[b]

\* BBPsync phase 2 only saves a BAT that is still loaded: the SYNCING bit it
\* set in phase 1 keeps decref and BBPtrim from unloading it in between
\* dirty_bat finding it dirty and BATsave_iter writing it.
CommitSavesResident ==
  pc[Committer] \in {"sync2w", "sync2s"} => cache[cursor[Committer]]

\* At most one thread writes a BAT's heaps at a time: a client's BBPsave and
\* BBPsync's phase 2 both take the SAVING bit before saving.
Savers(b) ==
  {t \in Threads : pc[t] = "save" /\ arg[t] = b}
  \cup {p \in {Committer} : pc[p] = "sync2s" /\ cursor[p] = b}

SaveExclusive == \A b \in Slots : Cardinality(Savers(b)) <= 1

\* The free list (BBPinsert pops it, bbpclear pushes onto it) holds each
\* slot at most once and exactly the unused slots below BBPsize; an unused
\* slot is unreferenced, unloaded and pinned by no thread, so a slot is
\* never handed out twice nor cleared while somebody still uses it.
FreeListSound ==
  /\ IsInjective(freeList)
  /\ \A b \in Slots :
       /\ (b \in Range(freeList)) = (b < bbpSize /\ ~named[b])
       /\ ~named[b] =>
            /\ refs[b] = 0 /\ lrefs[b] = 0 /\ ~cache[b]
            /\ status[b] \subseteq {"SYNCING"}
            /\ \A t \in Threads : pins[t][b] = 0 /\ holds[t][b] = 0

\* Every client call returns once commits stop following each other: the
\* spin-waits of incref, decref, getBBPdescriptor and BBPsave end and no call
\* waits on another forever.  getBBPdescriptor waits while SYNCING is set,
\* even for a loaded BAT, so back-to-back BBPsync calls can starve it.
CallsReturn ==
  <>[](pc[Committer] = "idle") =>
    \A t \in Threads : pc[t] # "idle" ~> pc[t] = "idle"

\* A started BBPsync finishes: its spins on UNLOADING and SAVING end.
CommitEnds == pc[Committer] # "idle" ~> pc[Committer] = "idle"

\* A loaded, clean BAT that no thread pins is eventually unloaded by the
\* manager (after it cleared HOT), unless it is pinned, dirtied or shared
\* by a view again.
ColdUnloaded ==
  \A b \in Slots :
    (cache[b] /\ refs[b] = 0 /\ lrefs[b] > 0 /\ ~dirty[b])
      ~> (~cache[b] \/ refs[b] > 0 \/ dirty[b] \/ sharecnt[b] > 0)

\* Spec (1, "share counting"): BBPshare and BBPunshare "make sure the parent
\* is memory resident as required because of the 'pointer' sharing".  A
\* parent stays loaded while a view's share is counted, also after the
\* creator and the view have dropped their pins: no decref and no BBPtrim
\* unloads it, whatever BBPshare's three steps interleave with.
SharedParentResident == \A t \in Threads : \A b \in shared[t] : cache[b]

\* Spec (4.4): BBPkeepref is retain followed by unfix but "skips the unload
\* predicate so the BAT is guaranteed still loaded on return", and the
\* comment above BBPkeepref says it does not trigger the BBP management
\* actions: the decref that ends BBPkeepref never decides to unload.
KeeprefSkipsUnload ==
  [][\A t \in Threads : pc[t] = "kdec" => pc'[t] # "unload"]_vars

====
