------------------------------ MODULE BBPLocks ------------------------------
(***************************************************************************)
(* The lock protocol of the BAT Buffer Pool (gdk/gdk_bbp.c): the global   *)
(* GDKtmLock, the cache lock (BBP_THREADMASK is 0, so there is one), the   *)
(* per-bat swap locks, GDKunloadLock with the count BBPunloadCnt of        *)
(* unloads in progress, and the threads that take them:                    *)
(*   - clients that create, load and unfix bats (BBPinsert, BBPcacheit,    *)
(*     getBBPdescriptor, decref with its BBPfree and BBPdestroy branches); *)
(*   - the BBPmanager thread with its cooling pass and BBPtrim;            *)
(*   - a committer holding GDKtmLock across BBPsync (BBPtmlock);           *)
(*   - a thread shutting the pool down: the exit flag, then BBPexit with   *)
(*     BBPlock, its loop that frees every slot and skips a bat that views  *)
(*     still share, and gdk_bbp_reset.                                     *)
(* A bat created in slot b may be a view of the bat ViewOf[b] (0: none),   *)
(* borrowing its tail heap; the share counts are kept exactly.             *)
(* Reference counts and heap contents are abstracted away: whether a       *)
(* decref or a trim unloads is a free choice restricted by the status bits *)
(* that take part in waiting (UNLOADING, SYNCING).  Each action is one     *)
(* lock acquisition, or a stretch of code that takes no lock.              *)
(***************************************************************************)
EXTENDS Integers, FiniteSets

CONSTANTS
    Clients,    \* client threads
    Manager,    \* the BBPmanager thread
    Committer,  \* a thread committing under BBPtmlock
    Exiters,    \* {} or one thread that runs GDKprepareExit and BBPexit
    NoProc,     \* "no holder" of a lock, "nobody" in locked_by
    NBats,      \* BBPsize - 1: bat ids are 1..NBats
    ViewOf      \* VIEWtparent of the bat in each slot, 0 if it is no view

Bats == 1..NBats
Procs == Clients \cup {Manager, Committer} \cup Exiters

NoBat == 0
ViewSlots == {b \in Bats : ViewOf[b] # NoBat}

ASSUME /\ NBats >= 1 /\ Cardinality(Exiters) <= 1
       /\ ViewOf \in [Bats -> Bats \cup {NoBat}]
       /\ \A v \in ViewSlots : ViewOf[v] # v

VARIABLES
    GDKtmLock, GDKunloadLock, GDKcacheLock, \* holder or NoProc
    GDKswapLock,    \* bat -> holder or NoProc
    BBPunloadCnt,   \* unloads between BBP_unload_inc and BBP_unload_dec
    locked_by,      \* thread that completed BBPlock, or NoProc
    exiting,        \* GDKexiting()
    valid,          \* bats with a slot in use (BBP_logical(b) != NULL)
    cached,         \* BBP_cache(b) != NULL
    unloading,      \* BBPUNLOADING set
    syncing,        \* BBPSYNCING set
    pc,             \* control point of each thread
    bid,            \* the bat a thread works on, or its loop index
    sharecnt,       \* batSharecnt
    views,          \* valid bats that are views (isVIEW)
    skipped         \* BBPexit: a bat of this pass was skipped

vars == <<GDKtmLock, GDKunloadLock, GDKcacheLock, GDKswapLock, BBPunloadCnt,
          locked_by, exiting, valid, cached, unloading, syncing, pc, bid,
          sharecnt, skipped, views>>

Free(l) == l = NoProc


\* BBPreadEntries: every catalog bat has a slot and nothing is loaded;
\* views are transient and are not in the catalog.
Init ==
    /\ GDKtmLock = NoProc /\ GDKunloadLock = NoProc /\ GDKcacheLock = NoProc
    /\ GDKswapLock = [b \in Bats |-> NoProc]
    /\ BBPunloadCnt = 0
    /\ locked_by = NoProc
    /\ exiting = FALSE
    /\ valid = Bats /\ views = {}
    /\ cached = {} /\ unloading = {} /\ syncing = {}
    /\ pc = [p \in Procs |-> IF p = Manager THEN "cool" ELSE "idle"]
    /\ bid = [p \in Procs |-> 1]
    /\ sharecnt = [p \in Bats |-> 0]
    /\ skipped = FALSE

Goto(p, l) == pc' = [pc EXCEPT ![p] = l]

-----------------------------------------------------------------------------
(* Clients.                                                                *)

\* A new bat in slot b can be a view: of a loaded bat, not itself a view,
\* that the creator holds (so no unload of it is under way).
CanView(b) ==
    b \in ViewSlots /\ ViewOf[b] \in cached \ (unloading \cup views)

\* BBPinsert: under the cache lock, take a free slot.  VIEWcreate
\* (gdk_align.c) counts a view with BBPshare on its parent.
BBPinsert(c, b) ==
    /\ pc[c] = "idle" /\ Free(GDKcacheLock)
    /\ b \notin valid
    /\ \E view \in IF CanView(b) THEN BOOLEAN ELSE {FALSE} :
          /\ views' = IF view THEN views \cup {b} ELSE views
          /\ sharecnt' = IF view THEN [sharecnt EXCEPT ![ViewOf[b]] = @ + 1]
                                 ELSE sharecnt
    /\ valid' = valid \cup {b}
    /\ Goto(c, "cacheit") /\ bid' = [bid EXCEPT ![c] = b]
    /\ UNCHANGED <<GDKtmLock, GDKunloadLock, GDKcacheLock, GDKswapLock,
                   BBPunloadCnt, locked_by, exiting, cached, unloading, syncing,
                   skipped>>

\* BBPinsert's status update and BBPcacheit, under the bat's swap lock.
BBPcacheit(c) ==
    /\ pc[c] = "cacheit" /\ Free(GDKswapLock[bid[c]])
    /\ cached' = cached \cup {bid[c]}
    /\ Goto(c, "idle")
    /\ UNCHANGED <<GDKtmLock, GDKunloadLock, GDKcacheLock, GDKswapLock,
                   BBPunloadCnt, locked_by, exiting, valid, unloading, syncing,
                   bid, sharecnt, skipped, views>>

\* variant: getBBPdescriptor does not wait for DELETING of a new bat.
getBBPdescriptorIgnoresInsert(c, b) ==
    /\ pc[c] = "idle" /\ Free(GDKswapLock[b])
    /\ b \in valid \ cached
    /\ b \notin unloading \cup syncing
    /\ cached' = cached \cup {b}
    /\ UNCHANGED <<GDKtmLock, GDKunloadLock, GDKcacheLock, GDKswapLock,
                   BBPunloadCnt, locked_by, exiting, valid, unloading, syncing,
                   pc, bid, sharecnt, skipped, views>>

\* A bat between BBPinsert and BBPcacheit has DELETING set.
Inserting(b) == \E c \in Clients : pc[c] = "cacheit" /\ bid[c] = b

\* getBBPdescriptor: under the swap lock, wait out the WAITING bits, then
\* load (the load itself takes no BBP lock).
getBBPdescriptor(c, b) ==
    /\ pc[c] = "idle" /\ Free(GDKswapLock[b])
    /\ b \in valid \ cached /\ ~Inserting(b)
    /\ b \notin unloading \cup syncing
    /\ cached' = cached \cup {b}
    /\ UNCHANGED <<GDKtmLock, GDKunloadLock, GDKcacheLock, GDKswapLock,
                   BBPunloadCnt, locked_by, exiting, valid, unloading, syncing,
                   pc, bid, sharecnt, skipped, views>>

\* variant: the unload predicate misses the batSharecnt test.
UnloadChoicesIgnoringShares(b, cnt) ==
    {"idle", "destroy"} \cup (IF b \in views \cup syncing THEN {} ELSE {"inc"})

\* decref's unload predicate, given the share count: a bat that views share
\* keeps a logical reference per view. With logical references left
\* (BBPfree) the bat must be persistent, which a view never is, and have
\* neither batSharecnt nor SYNCING (chkflag); with none left (BBPdestroy)
\* nothing else is tested.
UnloadChoices(b, cnt) ==
    IF cnt > 0 THEN {"idle"}
    ELSE {"idle", "destroy"} \cup (IF b \in views \cup syncing THEN {} ELSE {"inc"})

\* The decision sets UNLOADING; the swap lock is released before unloading.
DecrefDecide(c, b, cnt) ==
    /\ \E next \in UnloadChoices(b, cnt) :
          /\ Goto(c, next)
          /\ unloading' = IF next = "idle" THEN unloading ELSE unloading \cup {b}
    /\ bid' = [bid EXCEPT ![c] = b]

\* decref's locked region on a loaded bat: spin while UNLOADING, then
\* decide.
decref(c, b) ==
    /\ pc[c] = "idle" /\ Free(GDKswapLock[b])
    /\ b \in cached \ unloading
    /\ DecrefDecide(c, b, sharecnt[b])
    /\ UNCHANGED <<GDKtmLock, GDKunloadLock, GDKcacheLock, GDKswapLock,
                   BBPunloadCnt, locked_by, exiting, valid, cached, syncing,
                   sharecnt, skipped, views>>

(* The first step of BBPfree, BBP_unload_inc, and its last, BBP_unload_dec,*)
(* each take GDKunloadLock for one update of BBPunloadCnt.                *)
BBP_unload_inc(p, next) ==
    /\ Free(GDKunloadLock)
    /\ BBPunloadCnt' = BBPunloadCnt + 1
    /\ Goto(p, next)

BBP_unload_dec(p, next) ==
    /\ Free(GDKunloadLock)
    /\ BBPunloadCnt' = BBPunloadCnt - 1
    /\ Goto(p, next)

\* BBPfree between the two: BBPsave has nothing to write for a clean bat,
\* BATfree and BBPuncacheit, then UNLOADING is cleared without a lock.
BBPfreeBody(p, next) ==
    /\ cached' = cached \ {bid[p]}
    /\ unloading' = unloading \ {bid[p]}
    /\ Goto(p, next)

ClientFree(c) ==
    \/ /\ pc[c] = "inc" /\ BBP_unload_inc(c, "free")
       /\ UNCHANGED <<GDKtmLock, GDKunloadLock, GDKcacheLock, GDKswapLock,
                      locked_by, exiting, valid, cached, unloading, syncing,
                      bid, sharecnt, skipped, views>>
    \/ /\ pc[c] = "free" /\ BBPfreeBody(c, "dec")
       /\ UNCHANGED <<GDKtmLock, GDKunloadLock, GDKcacheLock, GDKswapLock,
                      BBPunloadCnt, locked_by, exiting, valid, syncing, bid,
                      sharecnt, skipped, views>>
    \/ /\ pc[c] = "dec" /\ BBP_unload_dec(c, "idle")
       /\ UNCHANGED <<GDKtmLock, GDKunloadLock, GDKcacheLock, GDKswapLock,
                      locked_by, exiting, valid, cached, unloading, syncing,
                      bid, sharecnt, skipped, views>>

\* BBPdestroy: BATdelete and bbpclear's BBPuncacheit take no lock; then
\* bbpclear takes the cache lock.
BBPdestroy(c) ==
    /\ pc[c] = "destroy"
    /\ cached' = cached \ {bid[c]}
    /\ Goto(c, "clrcache")
    /\ UNCHANGED <<GDKtmLock, GDKunloadLock, GDKcacheLock, GDKswapLock,
                   BBPunloadCnt, locked_by, exiting, valid, unloading, syncing,
                   bid, sharecnt, skipped, views>>

\* bbpclear: holding the cache lock, take the swap lock to reset the slot
\* (status UNLOADING, counts 0), drop it, remove the name, put the slot on
\* the free list (status 0) and drop the cache lock.
bbpclearCache(c) ==
    /\ pc[c] = "clrcache" /\ Free(GDKcacheLock)
    /\ GDKcacheLock' = c
    /\ Goto(c, "clrswap")
    /\ UNCHANGED <<GDKtmLock, GDKunloadLock, GDKswapLock, BBPunloadCnt,
                   locked_by, exiting, valid, cached, unloading, syncing, bid,
                   sharecnt, skipped, views>>

bbpclearSwap(c) ==
    /\ pc[c] = "clrswap" /\ Free(GDKswapLock[bid[c]])
    /\ GDKcacheLock' = NoProc
    /\ valid' = valid \ {bid[c]}
    /\ unloading' = unloading \ {bid[c]}
    /\ views' = views \ {bid[c]}
    /\ Goto(c, IF bid[c] \in views THEN "unshare" ELSE "idle")
    /\ UNCHANGED <<GDKtmLock, GDKunloadLock, GDKswapLock, BBPunloadCnt,
                   locked_by, exiting, cached, syncing, bid, sharecnt, skipped>>

\* BBPdestroy of a view, once bbpclear has returned: GDKunshare(tp), a
\* decref of the parent that drops its share and the view's logical
\* reference under the parent's swap lock (spinning while UNLOADING), and
\* may unload the parent.
GDKunshare(c) ==
    /\ pc[c] = "unshare"
    /\ LET p == ViewOf[bid[c]] IN
          /\ Free(GDKswapLock[p]) /\ p \notin unloading
          /\ sharecnt' = [sharecnt EXCEPT ![p] = @ - 1]
          /\ DecrefDecide(c, p, sharecnt'[p])
    /\ UNCHANGED <<GDKtmLock, GDKunloadLock, GDKcacheLock, GDKswapLock,
                   BBPunloadCnt, locked_by, exiting, valid, cached, syncing,
                   skipped, views>>

-----------------------------------------------------------------------------
(* The BBPmanager thread.                                                  *)

\* The cooling pass takes each bat's swap lock in turn.
ManagerCool ==
    /\ pc[Manager] = "cool" /\ Free(GDKswapLock[bid[Manager]])
    /\ IF bid[Manager] < NBats
          THEN bid' = [bid EXCEPT ![Manager] = @ + 1] /\ UNCHANGED pc
          ELSE bid' = [bid EXCEPT ![Manager] = 1] /\ Goto(Manager, "sleep")
    /\ UNCHANGED <<GDKtmLock, GDKunloadLock, GDKcacheLock, GDKswapLock,
                   BBPunloadCnt, locked_by, exiting, valid, cached, unloading,
                   syncing, sharecnt, skipped, views>>

\* The sleep loop returns from BBPmanager once GDKexiting() holds.
ManagerSleep ==
    /\ pc[Manager] = "sleep"
    /\ Goto(Manager, IF exiting THEN "exited" ELSE "trimtm")
    /\ UNCHANGED <<GDKtmLock, GDKunloadLock, GDKcacheLock, GDKswapLock,
                   BBPunloadCnt, locked_by, exiting, valid, cached, unloading,
                   syncing, bid, sharecnt, skipped, views>>

\* BBPtrim, for each bid: take GDKtmLock ("don't do this during a
\* (sub)commit").
TrimLockTM ==
    /\ pc[Manager] = "trimtm" /\ Free(GDKtmLock)
    /\ GDKtmLock' = Manager
    /\ Goto(Manager, "trimswap")
    /\ UNCHANGED <<GDKunloadLock, GDKcacheLock, GDKswapLock, BBPunloadCnt,
                   locked_by, exiting, valid, cached, unloading, syncing, bid,
                   sharecnt, skipped, views>>

\* variant: BBPtrim's loop body misses its MT_lock_unset(&GDKtmLock).
TrimNextKeepsTM ==
    /\ UNCHANGED GDKtmLock
    /\ IF bid[Manager] < NBats
          THEN bid' = [bid EXCEPT ![Manager] = @ + 1] /\ Goto(Manager, "trimtm")
          ELSE /\ bid' = [bid EXCEPT ![Manager] = 1]
               /\ Goto(Manager, IF exiting THEN "exited" ELSE "cool")

\* The end of one bid of BBPtrim: drop GDKtmLock; after the last bid,
\* BBPmanager returns if exiting and starts a new pass otherwise.
TrimNext ==
    /\ GDKtmLock' = NoProc
    /\ IF bid[Manager] < NBats
          THEN bid' = [bid EXCEPT ![Manager] = @ + 1] /\ Goto(Manager, "trimtm")
          ELSE /\ bid' = [bid EXCEPT ![Manager] = 1]
               /\ Goto(Manager, IF exiting THEN "exited" ELSE "cool")

\* variant: BBPtrim drops GDKtmLock before calling BBPfree.
TrimSwapUnlocksEarly ==
    /\ pc[Manager] = "trimswap" /\ Free(GDKswapLock[bid[Manager]])
    /\ \/ /\ bid[Manager] \in cached \ (unloading \cup syncing)
          /\ sharecnt[bid[Manager]] = 0 /\ bid[Manager] \notin views
          /\ unloading' = unloading \cup {bid[Manager]}
          /\ Goto(Manager, "tinc")
          /\ GDKtmLock' = NoProc /\ UNCHANGED bid
       \/ /\ TrimNext
          /\ UNCHANGED unloading
    /\ UNCHANGED <<GDKunloadLock, GDKcacheLock, GDKswapLock, BBPunloadCnt,
                   locked_by, exiting, valid, cached, syncing, sharecnt,
                   skipped, views>>

\* Under the swap lock: a loaded bat without UNLOADING or SYNCING (SAVING
\* and HOT are abstracted into the choice), that no view shares and that
\* is no view itself, is set UNLOADING.
TrimSwap ==
    /\ pc[Manager] = "trimswap" /\ Free(GDKswapLock[bid[Manager]])
    /\ \/ /\ bid[Manager] \in cached \ (unloading \cup syncing)
          /\ sharecnt[bid[Manager]] = 0 /\ bid[Manager] \notin views
          /\ unloading' = unloading \cup {bid[Manager]}
          /\ Goto(Manager, "tinc")
          /\ UNCHANGED <<GDKtmLock, bid>>
       \/ /\ TrimNext
          /\ UNCHANGED unloading
    /\ UNCHANGED <<GDKunloadLock, GDKcacheLock, GDKswapLock, BBPunloadCnt,
                   locked_by, exiting, valid, cached, syncing, sharecnt,
                   skipped, views>>

\* BBPfree called from BBPtrim, still holding GDKtmLock.
TrimFree ==
    \/ /\ pc[Manager] = "tinc" /\ BBP_unload_inc(Manager, "tfree")
       /\ UNCHANGED <<GDKtmLock, GDKunloadLock, GDKcacheLock, GDKswapLock,
                      locked_by, exiting, valid, cached, unloading, syncing,
                      bid, sharecnt, skipped, views>>
    \/ /\ pc[Manager] = "tfree" /\ BBPfreeBody(Manager, "tdec")
       /\ UNCHANGED <<GDKtmLock, GDKunloadLock, GDKcacheLock, GDKswapLock,
                      BBPunloadCnt, locked_by, exiting, valid, syncing, bid,
                      sharecnt, skipped, views>>
    \/ /\ pc[Manager] = "tdec" /\ Free(GDKunloadLock)
       /\ BBPunloadCnt' = BBPunloadCnt - 1
       /\ TrimNext
       /\ UNCHANGED <<GDKunloadLock, GDKcacheLock, GDKswapLock, locked_by,
                      exiting, valid, cached, unloading, syncing, sharecnt,
                      skipped, views>>

-----------------------------------------------------------------------------
(* The committer: the caller of BBPsync holds GDKtmLock (BBPtmlock) over   *)
(* the whole commit.  Only what BBPsync does with locks and waits is kept: *)
(* phase 1 sets SYNCING under each swap lock and spins while UNLOADING;    *)
(* after bailout SYNCING is cleared, then the caller calls BBPtmunlock.    *)

BBPtmlock ==
    /\ pc[Committer] = "idle" /\ Free(GDKtmLock)
    /\ GDKtmLock' = Committer
    /\ Goto(Committer, "sync1") /\ bid' = [bid EXCEPT ![Committer] = 1]
    /\ UNCHANGED <<GDKunloadLock, GDKcacheLock, GDKswapLock, BBPunloadCnt,
                   locked_by, exiting, valid, cached, unloading, syncing,
                   sharecnt, skipped, views>>

Sync1Next ==
    IF bid[Committer] < NBats
       THEN bid' = [bid EXCEPT ![Committer] = @ + 1] /\ Goto(Committer, "sync1")
       ELSE Goto(Committer, "syncend") /\ UNCHANGED bid

\* Phase 1, one bat: SYNCING on; leave the lock to spin if UNLOADING.
Sync1 ==
    /\ pc[Committer] = "sync1" /\ Free(GDKswapLock[bid[Committer]])
    /\ syncing' = syncing \cup {bid[Committer]}
    /\ IF bid[Committer] \in unloading
          THEN Goto(Committer, "sync1wait") /\ UNCHANGED bid
          ELSE Sync1Next
    /\ UNCHANGED <<GDKtmLock, GDKunloadLock, GDKcacheLock, GDKswapLock,
                   BBPunloadCnt, locked_by, exiting, valid, cached, unloading,
                   sharecnt, skipped, views>>

\* BBPspin on UNLOADING, then retake the swap lock.
Sync1Wait ==
    /\ pc[Committer] = "sync1wait" /\ Free(GDKswapLock[bid[Committer]])
    /\ bid[Committer] \notin unloading
    /\ Sync1Next
    /\ UNCHANGED <<GDKtmLock, GDKunloadLock, GDKcacheLock, GDKswapLock,
                   BBPunloadCnt, locked_by, exiting, valid, cached, unloading,
                   syncing, sharecnt, skipped, views>>

\* variant: the bailout loop stops one bat short.
SyncEndOffByOne ==
    /\ pc[Committer] = "syncend"
    /\ syncing' = syncing \cap {NBats}
    /\ GDKtmLock' = NoProc
    /\ Goto(Committer, "idle")
    /\ UNCHANGED <<GDKunloadLock, GDKcacheLock, GDKswapLock, BBPunloadCnt,
                   locked_by, exiting, valid, cached, unloading, bid, sharecnt,
                   skipped, views>>

\* bailout: SYNCING off for every bat, then BBPtmunlock.
SyncEnd ==
    /\ pc[Committer] = "syncend"
    /\ syncing' = {}
    /\ GDKtmLock' = NoProc
    /\ Goto(Committer, "idle")
    /\ UNCHANGED <<GDKunloadLock, GDKcacheLock, GDKswapLock, BBPunloadCnt,
                   locked_by, exiting, valid, cached, unloading, bid, sharecnt,
                   skipped, views>>

-----------------------------------------------------------------------------
(* Shutdown: the exit flag, then BBPexit, which starts with BBPlock.       *)

\* GDKprepareExit (gdk_utils.c) sets the flag that GDKexiting() reads.
GDKprepareExit(e) ==
    /\ pc[e] = "idle"
    /\ exiting' = TRUE
    /\ Goto(e, "lock")
    /\ UNCHANGED <<GDKtmLock, GDKunloadLock, GDKcacheLock, GDKswapLock,
                   BBPunloadCnt, locked_by, valid, cached, unloading, syncing,
                   bid, sharecnt, skipped, views>>

\* BBPlock's wait loop: with GDKunloadLock held, test BBPunloadCnt; while
\* it is positive, drop the lock, sleep and retake it (those rounds change
\* nothing).  Once it is 0, keep GDKunloadLock and go on to GDKtmLock.
BBPlockTake(e) ==
    /\ pc[e] = "lock" /\ Free(GDKunloadLock)
    /\ BBPunloadCnt = 0
    /\ GDKunloadLock' = e
    /\ Goto(e, "locktm")
    /\ UNCHANGED <<GDKtmLock, GDKcacheLock, GDKswapLock, BBPunloadCnt,
                   locked_by, exiting, valid, cached, unloading, syncing, bid,
                   sharecnt, skipped, views>>

\* With GDKunloadLock held: GDKtmLock, then the cache lock.
BBPlockTM(e) ==
    /\ pc[e] = "locktm" /\ Free(GDKtmLock)
    /\ GDKtmLock' = e
    /\ Goto(e, "lockcache")
    /\ UNCHANGED <<GDKunloadLock, GDKcacheLock, GDKswapLock, BBPunloadCnt,
                   locked_by, exiting, valid, cached, unloading, syncing, bid,
                   sharecnt, skipped, views>>

BBPlockCache(e) ==
    /\ pc[e] = "lockcache" /\ Free(GDKcacheLock)
    /\ GDKcacheLock' = e
    /\ Goto(e, "lockswap") /\ bid' = [bid EXCEPT ![e] = 1]
    /\ UNCHANGED <<GDKtmLock, GDKunloadLock, GDKswapLock, BBPunloadCnt,
                   locked_by, exiting, valid, cached, unloading, syncing,
                   sharecnt, skipped, views>>

\* The swap locks in ascending order; after the last, locked_by is set and
\* GDKunloadLock dropped.
BBPlockSwap(e) ==
    /\ pc[e] = "lockswap" /\ Free(GDKswapLock[bid[e]])
    /\ GDKswapLock' = [GDKswapLock EXCEPT ![bid[e]] = e]
    /\ IF bid[e] < NBats
          THEN /\ bid' = [bid EXCEPT ![e] = @ + 1]
               /\ UNCHANGED <<pc, locked_by, GDKunloadLock>>
          ELSE /\ bid' = [bid EXCEPT ![e] = 1] /\ Goto(e, "exit")
               /\ locked_by' = e /\ GDKunloadLock' = NoProc
    /\ UNCHANGED <<GDKtmLock, GDKcacheLock, BBPunloadCnt, exiting, valid,
                   cached, unloading, syncing, sharecnt, skipped, views>>

\* variant: the loop ends after one pass (the while (skipped) is lost).
ExitNextNoRetry(e, skip) ==
    IF bid[e] < NBats
       THEN /\ bid' = [bid EXCEPT ![e] = @ + 1] /\ skipped' = skip
            /\ UNCHANGED pc
       ELSE skipped' = FALSE /\ Goto(e, "reset") /\ UNCHANGED bid

\* The end of one index of BBPexit's loop: the next index, or, after the
\* last, another pass if a bat was skipped and the reset otherwise.
ExitNext(e, skip) ==
    IF bid[e] < NBats
       THEN /\ bid' = [bid EXCEPT ![e] = @ + 1] /\ skipped' = skip
            /\ UNCHANGED pc
       ELSE /\ skipped' = FALSE
            /\ IF skip THEN bid' = [bid EXCEPT ![e] = 1] /\ UNCHANGED pc
                       ELSE Goto(e, "reset") /\ UNCHANGED bid

\* BBPexit's loop (nothing is ever unlocked), one index: a slot that is not
\* valid is passed over.
ExitInvalid(e) ==
    /\ pc[e] = "exit" /\ bid[e] \notin valid
    /\ ExitNext(e, skipped)
    /\ UNCHANGED <<GDKtmLock, GDKunloadLock, GDKcacheLock, GDKswapLock,
                   BBPunloadCnt, locked_by, exiting, valid, cached, unloading,
                   syncing, sharecnt, views>>

\* A bat whose batSharecnt is positive is skipped for this pass.
ExitSkip(e) ==
    /\ pc[e] = "exit" /\ bid[e] \in valid
    /\ sharecnt[bid[e]] > 0
    /\ ExitNext(e, TRUE)
    /\ UNCHANGED <<GDKtmLock, GDKunloadLock, GDKcacheLock, GDKswapLock,
                   BBPunloadCnt, locked_by, exiting, valid, cached, unloading,
                   syncing, sharecnt, views>>

\* A view: decrement its parent's batSharecnt (and BBP_lrefs) "manually",
\* VIEWdestroy, BBPuncacheit and clear the logical name.
ExitView(e) ==
    /\ pc[e] = "exit" /\ bid[e] \in valid
    /\ sharecnt[bid[e]] <= 0 /\ bid[e] \in views
    /\ sharecnt' = [sharecnt EXCEPT ![ViewOf[bid[e]]] = @ - 1]
    /\ cached' = cached \ {bid[e]}
    /\ valid' = valid \ {bid[e]} /\ views' = views \ {bid[e]}
    /\ ExitNext(e, skipped)
    /\ UNCHANGED <<GDKtmLock, GDKunloadLock, GDKcacheLock, GDKswapLock,
                   BBPunloadCnt, locked_by, exiting, unloading, syncing>>

\* Any other bat: PROPdestroy_nolock and BATfree, BBPuncacheit, clear the
\* logical name.
ExitFree(e) ==
    /\ pc[e] = "exit" /\ bid[e] \in valid
    /\ sharecnt[bid[e]] <= 0 /\ bid[e] \notin views
    /\ cached' = cached \ {bid[e]}
    /\ valid' = valid \ {bid[e]}
    /\ ExitNext(e, skipped)
    /\ UNCHANGED <<GDKtmLock, GDKunloadLock, GDKcacheLock, GDKswapLock,
                   BBPunloadCnt, locked_by, exiting, unloading, syncing,
                   sharecnt, views>>

\* gdk_bbp_reset, which GDKreset (gdk_utils.c) calls after BBPexit: clear
\* the free lists, the slot arrays and BBPsize, the farms and the hash,
\* locked_by, BBPunloadCnt and the backup counters.  No lock is released.
gdk_bbp_reset(e) ==
    /\ pc[e] = "reset"
    /\ locked_by' = NoProc /\ BBPunloadCnt' = 0
    /\ Goto(e, "done")
    /\ UNCHANGED <<GDKtmLock, GDKunloadLock, GDKcacheLock, GDKswapLock, exiting,
                   valid, cached, unloading, syncing, bid, sharecnt, skipped,
                   views>>

-----------------------------------------------------------------------------

ClientStart(c) ==
    \E b \in Bats : BBPinsert(c, b) \/ getBBPdescriptor(c, b) \/ decref(c, b)

ClientBusy(c) ==
    \/ BBPcacheit(c) \/ ClientFree(c) \/ BBPdestroy(c) \/ bbpclearCache(c)
    \/ bbpclearSwap(c) \/ GDKunshare(c)

ManagerStep ==
    ManagerCool \/ ManagerSleep \/ TrimLockTM \/ TrimSwap \/ TrimFree

CommitterBusy == Sync1 \/ Sync1Wait \/ SyncEnd

ExiterBusy(e) ==
    \/ BBPlockTake(e) \/ BBPlockTM(e) \/ BBPlockCache(e) \/ BBPlockSwap(e)
    \/ ExitInvalid(e) \/ ExitSkip(e) \/ ExitView(e) \/ ExitFree(e)
    \/ gdk_bbp_reset(e)

Next ==
    \/ \E c \in Clients : ClientStart(c) \/ ClientBusy(c)
    \/ ManagerStep
    \/ BBPtmlock \/ CommitterBusy
    \/ \E e \in Exiters : GDKprepareExit(e) \/ ExiterBusy(e)

(* Fairness.  A thread inside an operation keeps running: a blocked lock   *)
(* acquisition or a BBPspin / BBPlock poll (1 ms sleeps) that can succeed  *)
(* infinitely often eventually does.  Nothing forces a client call, a     *)
(* commit or an exit to start.                                            *)
Fairness ==
    /\ \A c \in Clients : SF_vars(ClientBusy(c))
    /\ SF_vars(ManagerStep)
    /\ SF_vars(CommitterBusy)
    /\ \A e \in Exiters : SF_vars(ExiterBusy(e))

Spec == Init /\ [][Next]_vars /\ Fairness

-----------------------------------------------------------------------------
(* Properties.                                                             *)

Labels == {"idle", "cacheit", "inc", "free", "dec", "destroy", "clrcache",
           "clrswap", "cool", "sleep", "trimtm", "trimswap", "tinc", "tfree",
           "tdec", "exited", "sync1", "sync1wait", "syncend", "lock", "locktm",
           "lockcache", "lockswap", "exit", "reset", "done", "unshare"}
Holder == Procs \cup {NoProc}

TypeOK ==
    /\ GDKtmLock \in Holder /\ GDKunloadLock \in Holder
    /\ GDKcacheLock \in Holder
    /\ GDKswapLock \in [Bats -> Holder]
    \* gdk_bbp_reset zeroes BBPunloadCnt; an unload that BBPlock did not wait
    \* for (UnloadsDrained) may decrement it below 0 afterwards.
    /\ BBPunloadCnt \in Int
    /\ locked_by \in Holder /\ exiting \in BOOLEAN
    /\ valid \subseteq Bats /\ cached \subseteq valid
    /\ unloading \subseteq Bats /\ syncing \subseteq Bats
    /\ pc \in [Procs -> Labels] /\ bid \in [Procs -> Bats]
    /\ sharecnt \in [Bats -> Nat] /\ skipped \in BOOLEAN
    /\ views \subseteq valid

\* A thread is unloading a bat: from decref's or BBPtrim's decision to
\* unload (UNLOADING set) until BBPfree or BBPdestroy returns.
InUnload(p) ==
    pc[p] \in {"inc", "free", "dec", "destroy", "clrcache", "clrswap",
               "tinc", "tfree", "tdec"}

\* BBPlock "wait[s] for all pending unloads to finish" so that BBPexit can
\* free every descriptor: once BBPlock has returned, no thread is inside
\* an unload of a bat (BBPfree, BBPdestroy) that BBPexit also frees.
UnloadsDrained ==
    locked_by # NoProc => \A p \in Procs : ~InUnload(p)

\* The behaviours in which no thread ever starts GDKprepareExit (the
\* shutdown path has its own property, ExitCompletes).
NoShutdown == \A e \in Exiters : [](pc[e] = "idle")

\* Unless a shutdown starts, a bat that BBPsync marks SYNCING, which
\* getBBPdescriptor waits on, is eventually released: the commit holding
\* GDKtmLock gets through its spins on UNLOADING (which the unloader clears
\* without needing GDKtmLock) and its bailout clears SYNCING on every bat.
SyncingCleared ==
    NoShutdown => \A b \in Bats : b \in syncing ~> b \notin syncing

\* Unless a shutdown starts, every BBPtrim pass that starts finishes,
\* though it takes GDKtmLock once per bat and commits hold that lock for a
\* whole BBPsync.
TrimEnds ==
    NoShutdown => (pc[Manager] = "trimtm" ~> pc[Manager] \in {"cool", "exited"})

\* BBPtrim keeps GDKtmLock while it runs BBPfree, so the manager is never
\* inside an unload once BBPlock, which takes GDKtmLock, has returned.
TrimDrained == locked_by # NoProc => ~InUnload(Manager)

\* A bat that a view shares keeps its slot: neither decref's unload of the
\* parent, nor BBPtrim, nor BBPexit frees it while a share counts, so
\* BBPexit's and GDKunshare's writes to the parent's batSharecnt find it.
SharedValid == \A p \in Bats : sharecnt[p] > 0 => p \in valid

\* When BBPexit's loop ends every slot has been freed: it does not stop
\* while a bat it skipped for its shares is left.
AllFreed == \A e \in Exiters : pc[e] \in {"reset", "done"} => valid = {}

\* A shutdown that has started gets through BBPlock and BBPexit.
ExitCompletes == \A e \in Exiters : pc[e] # "idle" ~> pc[e] = "done"

=============================================================================
