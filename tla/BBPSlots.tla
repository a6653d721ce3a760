------------------------------ MODULE BBPSlots ------------------------------
(***************************************************************************)
(* Slot allocation and the logical-name index of the BAT buffer pool       *)
(* (gdk_bbp.c): BBPinsert with maybeextend, BBPextend and the BBPinithash  *)
(* rebuild, bbpclear, BBPrename, and the status updates of BBPcacheit,     *)
(* getBBPdescriptor and BBPfree that can run next to them.                 *)
(*                                                                         *)
(* Every thread runs one call at a time; a call is split into steps at     *)
(* the points where it takes or drops a lock, or where the code works      *)
(* outside any lock.  A region of code run while holding a lock is one     *)
(* step.  There are ThreadMask+1 free lists, each with its cache lock      *)
(* (GDKbbpLock[]); the build sets BBP_THREADMASK to 0, the original        *)
(* value was 63.  The name hash is one bucket chain (BBP_hash with every   *)
(* name hashing to one bucket), a sequence of slots, front first.          *)
(***************************************************************************)
EXTENDS Naturals, Sequences, FiniteSets, SequencesExt

CONSTANTS
    Threads,        \* the threads calling into the buffer pool
    Names,          \* the non-temporary logical names a bat can be given
    ThreadMask,     \* BBP_THREADMASK: there are ThreadMask+1 free lists
    BatMask,        \* BBP_BATMASK: slot i is guarded by swap lock i % (BatMask+1)
    BBPINIT,        \* slots per block of the BBP array
    N_BBPINIT,      \* blocks of the BBP array
    threadmask(_),  \* threadmask(pid): the free list of a thread
    NoThread,       \* no thread (a free lock, an unallocated slot)
    NoName,         \* BBP_logical(i) == NULL
    Tmp             \* the slot's own temporary name "tmp_<i>" (BBP_bak)

ASSUME
    /\ ThreadMask \in Nat /\ BatMask \in Nat
    /\ BBPINIT \in Nat \ {0} /\ N_BBPINIT \in Nat \ {0}
    /\ \A t \in Threads : threadmask(t) \in 0..ThreadMask
    /\ {NoThread, NoName, Tmp} \cap (Threads \cup Names) = {}

Shards == 0..ThreadMask
Slots == 1..(N_BBPINIT * BBPINIT - 1)
LongList == 20                      \* maybeextend's "longish" free list
Flags == {"LOADED", "LOADING", "UNLOADING", "DELETING", "SWAPPED", "HOT", "RENAMED"}
\* BBPWAITING: a thread that finds one of these bits waits for it to clear.
WAITING == {"LOADING", "UNLOADING", "DELETING"}

\* GDKswapLock(i)
SwapLock(i) == i % (BatMask + 1)

VARIABLES
    bbpSize,    \* BBPsize: slots 1..BBPsize-1 have been handed out once
    bbpLimit,   \* BBPlimit: slots allocated in the BBP array
    free,       \* BBP_free(j), followed through BBP_next: the free lists
    hash,       \* BBP_hash[] followed through BBP_next: the name chain
    last,       \* maybeextend's static "last"
    logical,    \* BBP_logical(i)
    status,     \* BBP_status(i)
    refs,       \* BBP_refs(i): pins
    cacheLock,  \* holder of GDKcacheLock(j)
    swapLock,   \* holder of GDKswapLock(k)
    nameLock,   \* holder of BBPnameLock
    pc,         \* where each thread is
    slot,       \* the bat a thread works on
    mode,       \* BBPcacheit's local "mode"
    nme,        \* BBPrename's argument
    allocated,  \* ghost: the thread BBPinsert handed the slot to
    renamed     \* ghost: BBPrename of the slot returned since it was cleared

vars == <<bbpSize, bbpLimit, free, hash, last, logical, status, refs,
          cacheLock, swapLock, nameLock, pc, slot, mode, nme, allocated, renamed>>

----------------------------------------------------------------------------
(* The name index                                                          *)

\* BBP_find(nme, false) of a non-temporary name: the first slot of the
\* chain with that logical name, 0 if there is none.
FindHash(n) ==
    LET hits == {k \in 1..Len(hash) : logical[hash[k]] = n}
    IN IF hits = {} THEN 0 ELSE hash[Min(hits)]

\* BBP_find(nme, false): "tmp_X" names resolve to X directly.
BBP_find(b, n) ==
    IF n = Tmp THEN (IF logical[b] = Tmp THEN b ELSE 0) ELSE FindHash(n)

\* BBP_delete(i): unlink the first chain entry with i's logical name.
BBP_delete(h, i) ==
    LET hits == {k \in 1..Len(h) : logical[h[k]] = logical[i]}
    IN IF hits = {} THEN h ELSE RemoveAt(h, Min(hits))

\* A mutant: BBPinithash without the BBPtmpcheck, indexing tmp names.
RECURSIVE BBPinithashTmp(_, _, _, _)
BBPinithashTmp(s, j, fl, h) ==
    IF s = 0 THEN [free |-> fl, hash |-> h]
    ELSE IF logical[s] = NoName
         THEN BBPinithashTmp(s - 1, (j + 1) % (ThreadMask + 1),
                             [fl EXCEPT ![j] = <<s>> \o @], h)
         ELSE BBPinithashTmp(s - 1, j, fl, <<s>> \o h)

\* BBPinithash(j, size): walk slots size-1 down to 1; named slots go into
\* the chain (BBP_insert pushes in front), unnamed ones onto the free
\* lists, round robin from list j.
RECURSIVE BBPinithash(_, _, _, _)
BBPinithash(s, j, fl, h) ==
    IF s = 0 THEN [free |-> fl, hash |-> h]
    ELSE IF logical[s] = NoName
         THEN BBPinithash(s - 1, (j + 1) % (ThreadMask + 1),
                          [fl EXCEPT ![j] = <<s>> \o @], h)
         ELSE BBPinithash(s - 1, j, fl,
                          IF logical[s] \in Names THEN <<s>> \o h ELSE h)

----------------------------------------------------------------------------
(* BBPextend and maybeextend(idx), under BBPnameLock and all cache locks,  *)
(* when free list idx is empty.  Results are records of the new pool      *)
(* state; ok = FALSE is GDK_FAIL.                                          *)

\* A mutant: the hard limit check one slot early.
BBPextendEarly(idx, newsize) ==
    IF newsize + 1 >= N_BBPINIT * BBPINIT THEN [ok |-> FALSE]
    ELSE LET rebuilt == BBPinithash(newsize - 1, idx, [j \in Shards |-> <<>>], <<>>)
         IN [ok |-> TRUE, free |-> rebuilt.free, hash |-> rebuilt.hash,
             limit |-> IF bbpLimit < newsize THEN bbpLimit + BBPINIT ELSE bbpLimit]

\* BBPextend(idx, true, newsize): refuse to pass N_BBPINIT * BBPINIT; add a
\* block while BBPlimit < newsize; free the hash, empty every free list
\* and rebuild both with BBPinithash(idx, newsize).
BBPextend(idx, newsize) ==
    IF newsize >= N_BBPINIT * BBPINIT THEN [ok |-> FALSE]
    ELSE LET rebuilt == BBPinithash(newsize - 1, idx, [j \in Shards |-> <<>>], <<>>)
         IN [ok |-> TRUE, free |-> rebuilt.free, hash |-> rebuilt.hash,
             limit |-> IF bbpLimit < newsize THEN bbpLimit + BBPINIT ELSE bbpLimit]

\* A mutant: the stolen entry is left on its list too.
StealFromKeep(m, idx) == [free EXCEPT ![idx] = <<Head(free[m])>>]

\* maybeextend: i = BBP_free(m); BBP_free(m) = BBP_next(i); BBP_next(i) = 0;
\* BBP_free(idx) = i.
StealFrom(m, idx) == [free EXCEPT ![m] = Tail(@), ![idx] = <<Head(free[m])>>]

\* A mutant: the list rebuilt by BBPextend is kept under the new slot.
maybeextendKeepList(idx) ==
    LET order == [k \in Shards |-> (k + last) % (ThreadMask + 1)]
        l == Max({Len(free[j]) : j \in Shards})
        m == order[Min({k \in Shards : Len(free[order[k]]) = l})]
        size == bbpSize
        ext == BBPextend(idx, size + 1)
        steal == [ok |-> TRUE, size |-> size, limit |-> bbpLimit, hash |-> hash,
                  free |-> StealFrom(m, idx)]
        extend == [ok |-> TRUE, size |-> size + 1, limit |-> ext.limit, hash |-> ext.hash,
                   free |-> [ext.free EXCEPT ![idx] = <<size>> \o @]]
        fresh == [ok |-> TRUE, size |-> size + 1, limit |-> bbpLimit, hash |-> hash,
                  free |-> [free EXCEPT ![idx] = <<size>>]]
        fail == [ok |-> FALSE, size |-> size, limit |-> bbpLimit, hash |-> hash, free |-> free]
    IN [last |-> IF ThreadMask > 0 THEN (last + 1) % (ThreadMask + 1) ELSE last] @@
       CASE ThreadMask > 0 /\ l > LongList -> steal
         [] size < bbpLimit -> fresh
         [] ext.ok -> extend
         [] ThreadMask > 0 /\ l > 0 -> steal
         [] OTHER -> fail

\* A mutant: no steal from the longest list when BBPextend fails.
maybeextendNoSteal(idx) ==
    LET order == [k \in Shards |-> (k + last) % (ThreadMask + 1)]
        l == Max({Len(free[j]) : j \in Shards})
        m == order[Min({k \in Shards : Len(free[order[k]]) = l})]
        size == bbpSize
        ext == BBPextend(idx, size + 1)
        steal == [ok |-> TRUE, size |-> size, limit |-> bbpLimit, hash |-> hash,
                  free |-> StealFrom(m, idx)]
        extend == [ok |-> TRUE, size |-> size + 1, limit |-> ext.limit, hash |-> ext.hash,
                   free |-> [ext.free EXCEPT ![idx] = <<size>>]]
        fresh == [ok |-> TRUE, size |-> size + 1, limit |-> bbpLimit, hash |-> hash,
                  free |-> [free EXCEPT ![idx] = <<size>>]]
        fail == [ok |-> FALSE, size |-> size, limit |-> bbpLimit, hash |-> hash, free |-> free]
    IN [last |-> IF ThreadMask > 0 THEN (last + 1) % (ThreadMask + 1) ELSE last] @@
       CASE ThreadMask > 0 /\ l > LongList -> steal
         [] size < bbpLimit -> fresh
         [] ext.ok -> extend
         [] OTHER -> fail

\* maybeextend: steal from a list longer than 20 (looked for from list
\* "last" on); else take slot BBPsize, extending the pool when BBPsize has
\* reached BBPlimit; if that fails, steal from the longest list after all.
maybeextend(idx) ==
    LET order == [k \in Shards |-> (k + last) % (ThreadMask + 1)]
        l == Max({Len(free[j]) : j \in Shards})
        m == order[Min({k \in Shards : Len(free[order[k]]) = l})]
        size == bbpSize
        ext == BBPextend(idx, size + 1)
        steal == [ok |-> TRUE, size |-> size, limit |-> bbpLimit, hash |-> hash,
                  free |-> StealFrom(m, idx)]
        extend == [ok |-> TRUE, size |-> size + 1, limit |-> ext.limit, hash |-> ext.hash,
                   free |-> [ext.free EXCEPT ![idx] = <<size>>]]
        fresh == [ok |-> TRUE, size |-> size + 1, limit |-> bbpLimit, hash |-> hash,
                  free |-> [free EXCEPT ![idx] = <<size>>]]
        fail == [ok |-> FALSE, size |-> size, limit |-> bbpLimit, hash |-> hash, free |-> free]
    IN [last |-> IF ThreadMask > 0 THEN (last + 1) % (ThreadMask + 1) ELSE last] @@
       CASE ThreadMask > 0 /\ l > LongList -> steal
         [] size < bbpLimit -> fresh
         [] ext.ok -> extend
         [] ThreadMask > 0 /\ l > 0 -> steal
         [] OTHER -> fail

----------------------------------------------------------------------------
(* Steps of the threads                                                    *)

Free(lk) == lk = NoThread
Idle(t) == pc[t] = "idle"
Goto(t, p) == pc' = [pc EXCEPT ![t] = p]
Pin(b) == refs' = [refs EXCEPT ![b] = @ + 1]
Unpin(b) == refs' = [refs EXCEPT ![b] = @ - 1]

\* BBPinsert: take GDKcacheLock(idx); a non-empty free list is popped and
\* the lock dropped; otherwise the thread drops it to take all cache locks
\* in order (ThreadMask > 0) or keeps it (ThreadMask = 0).
BBPinsert(t) ==
    LET idx == threadmask(t) IN
    /\ Idle(t) /\ Free(cacheLock[idx])
    /\ \/ /\ free[idx] # <<>>
          /\ free' = [free EXCEPT ![idx] = Tail(@)]
          /\ slot' = [slot EXCEPT ![t] = Head(free[idx])]
          /\ allocated' = [allocated EXCEPT ![Head(free[idx])] = t]
          /\ Goto(t, "ins_fill")
          /\ UNCHANGED cacheLock
       \/ /\ free[idx] = <<>> /\ ThreadMask > 0
          /\ Goto(t, "ins_all")
          /\ UNCHANGED <<free, slot, allocated, cacheLock>>
       \/ /\ free[idx] = <<>> /\ ThreadMask = 0
          /\ cacheLock' = [cacheLock EXCEPT ![idx] = t]
          /\ Goto(t, "ins_name")
          /\ UNCHANGED <<free, slot, allocated>>
    /\ UNCHANGED <<bbpSize, bbpLimit, hash, last, logical, status, refs,
                   swapLock, nameLock, mode, nme, renamed>>

\* BBPinsert: MT_lock_set(&GDKcacheLock(i)) for i = 0..BBP_THREADMASK.
InsLockAll(t) ==
    /\ pc[t] = "ins_all"
    /\ \A j \in Shards : Free(cacheLock[j])
    /\ cacheLock' = [j \in Shards |-> t]
    /\ Goto(t, "ins_name")
    /\ UNCHANGED <<bbpSize, bbpLimit, free, hash, last, logical, status, refs,
                   swapLock, nameLock, slot, mode, nme, allocated, renamed>>

\* BBPinsert under BBPnameLock: check the list again, else maybeextend;
\* then drop the name lock and every cache lock but idx's, and on failure
\* idx's too and return 0.
InsExtend(t) ==
    LET idx == threadmask(t)
        r == IF free[idx] # <<>>
             THEN [ok |-> TRUE, size |-> bbpSize, limit |-> bbpLimit, hash |-> hash,
                   free |-> free, last |-> last]
             ELSE maybeextend(idx)
    IN
    /\ pc[t] = "ins_name" /\ Free(nameLock)
    /\ bbpSize' = r.size /\ bbpLimit' = r.limit /\ hash' = r.hash
    /\ free' = r.free /\ last' = r.last
    /\ cacheLock' = [j \in Shards |-> IF j = idx /\ r.ok THEN t ELSE NoThread]
    /\ Goto(t, IF r.ok THEN "ins_pop" ELSE "idle")
    /\ UNCHANGED <<logical, status, refs, swapLock, nameLock, slot, mode, nme,
                   allocated, renamed>>

\* BBPinsert: i = BBP_free(idx); BBP_free(idx) = BBP_next(i); unlock.
InsPop(t) ==
    LET idx == threadmask(t) IN
    /\ pc[t] = "ins_pop"
    /\ free' = [free EXCEPT ![idx] = Tail(@)]
    /\ slot' = [slot EXCEPT ![t] = Head(free[idx])]
    /\ allocated' = [allocated EXCEPT ![Head(free[idx])] = t]
    /\ cacheLock' = [cacheLock EXCEPT ![idx] = NoThread]
    /\ Goto(t, "ins_fill")
    /\ UNCHANGED <<bbpSize, bbpLimit, hash, last, logical, status, refs,
                   swapLock, nameLock, mode, nme, renamed>>

\* BBPinsert under GDKswapLock(i): status DELETING|HOT, one pin.
InsFill(t) ==
    LET i == slot[t] IN
    /\ pc[t] = "ins_fill" /\ Free(swapLock[SwapLock(i)])
    /\ status' = [status EXCEPT ![i] = {"DELETING", "HOT"}]
    /\ refs' = [refs EXCEPT ![i] = 1]
    /\ Goto(t, "ins_name_set")
    /\ UNCHANGED <<bbpSize, bbpLimit, free, hash, last, logical, cacheLock,
                   swapLock, nameLock, slot, mode, nme, allocated, renamed>>

\* BBPinsert, outside any lock: BBP_logical(i) = BBP_bak(i) ("tmp_<i>").
\* The bat is then cached (BBPcacheit) by its creator.
InsName(t) ==
    /\ pc[t] = "ins_name_set"
    /\ logical' = [logical EXCEPT ![slot[t]] = Tmp]
    /\ Goto(t, "new_rd")
    /\ UNCHANGED <<bbpSize, bbpLimit, free, hash, last, status, refs, cacheLock,
                   swapLock, nameLock, slot, mode, nme, allocated, renamed>>

\* getBBPdescriptor of a pinned bat that is not cached and not WAITING:
\* under GDKswapLock(i) set LOADING; BATload_intern then calls BBPcacheit.
getBBPdescriptor(t, b) ==
    /\ Idle(t) /\ Free(swapLock[SwapLock(b)])
    /\ logical[b] # NoName
    /\ "LOADED" \notin status[b] /\ status[b] \cap WAITING = {}
    /\ Pin(b)
    /\ status' = [status EXCEPT ![b] = @ \cup {"LOADING"}]
    /\ slot' = [slot EXCEPT ![t] = b]
    /\ Goto(t, "load_rd")
    /\ UNCHANGED <<bbpSize, bbpLimit, free, hash, last, logical, cacheLock,
                   swapLock, nameLock, mode, nme, allocated, renamed>>

\* BBPcacheit: take GDKswapLock(i) and compute
\* mode = (BBP_status(i) | BBPLOADED) & ~(BBPLOADING|BBPDELETING|BBPSWAPPED).
CacheRead(t) ==
    LET i == slot[t] IN
    /\ pc[t] \in {"new_rd", "load_rd"} /\ Free(swapLock[SwapLock(i)])
    /\ swapLock' = [swapLock EXCEPT ![SwapLock(i)] = t]
    /\ mode' = [mode EXCEPT ![t] =
                   (status[i] \cup {"LOADED"}) \ {"LOADING", "DELETING", "SWAPPED"}]
    /\ Goto(t, IF pc[t] = "new_rd" THEN "new_wr" ELSE "load_wr")
    /\ UNCHANGED <<bbpSize, bbpLimit, free, hash, last, logical, status, refs,
                   cacheLock, nameLock, slot, nme, allocated, renamed>>

\* A mutant: the pin is dropped after caching a new bat too.
CacheWriteUnpin(t) ==
    LET i == slot[t] IN
    /\ pc[t] \in {"new_wr", "load_wr"}
    /\ status' = [status EXCEPT ![i] = mode[t]]
    /\ swapLock' = [swapLock EXCEPT ![SwapLock(i)] = NoThread]
    /\ Unpin(i)
    /\ Goto(t, IF pc[t] = "new_wr" THEN "own" ELSE "idle")
    /\ UNCHANGED <<bbpSize, bbpLimit, free, hash, last, logical, cacheLock,
                   nameLock, slot, mode, nme, allocated, renamed>>

\* BBPcacheit: BBP_status_set(i, mode) and unlock.  A new bat goes back to
\* its creator, who holds its pin; a loader's caller drops its pin.
CacheWrite(t) ==
    LET i == slot[t] IN
    /\ pc[t] \in {"new_wr", "load_wr"}
    /\ status' = [status EXCEPT ![i] = mode[t]]
    /\ swapLock' = [swapLock EXCEPT ![SwapLock(i)] = NoThread]
    /\ IF pc[t] = "load_wr" THEN Unpin(i) ELSE UNCHANGED refs
    /\ Goto(t, IF pc[t] = "new_wr" THEN "own" ELSE "idle")
    /\ UNCHANGED <<bbpSize, bbpLimit, free, hash, last, logical, cacheLock,
                   nameLock, slot, mode, nme, allocated, renamed>>

\* The creator keeps the new bat (a logical reference) and unfixes it.
Unfix(t) ==
    /\ pc[t] = "own"
    /\ Unpin(slot[t])
    /\ Goto(t, "idle")
    /\ UNCHANGED <<bbpSize, bbpLimit, free, hash, last, logical, status,
                   cacheLock, swapLock, nameLock, slot, mode, nme, allocated, renamed>>

\* A mutant: a bat is unloaded while pinned.
BBPfreePinned(b) ==
    /\ Free(swapLock[SwapLock(b)])
    /\ logical[b] # NoName
    /\ "LOADED" \in status[b] /\ status[b] \cap WAITING = {}
    /\ status' = [status EXCEPT ![b] = @ \ {"LOADED"}]
    /\ UNCHANGED <<bbpSize, bbpLimit, free, hash, last, logical, refs, cacheLock,
                   swapLock, nameLock, pc, slot, mode, nme, allocated, renamed>>

\* decref finds refs == 0 under GDKswapLock(i) and sets UNLOADING; BBPfree
\* then uncaches the bat (LOADED off) and clears UNLOADING.
BBPfree(b) ==
    /\ Free(swapLock[SwapLock(b)])
    /\ logical[b] # NoName /\ refs[b] = 0
    /\ "LOADED" \in status[b] /\ status[b] \cap WAITING = {}
    /\ status' = [status EXCEPT ![b] = @ \ {"LOADED"}]
    /\ UNCHANGED <<bbpSize, bbpLimit, free, hash, last, logical, refs, cacheLock,
                   swapLock, nameLock, pc, slot, mode, nme, allocated, renamed>>

\* BBPclear of a bat without references, under GDKcacheLock(idx) (and
\* GDKswapLock(i), then BBPnameLock for BBP_delete): the slot loses its
\* name and status and goes onto the thread's free list.
bbpclear(t, b) ==
    LET idx == threadmask(t) IN
    /\ Idle(t)
    /\ Free(cacheLock[idx]) /\ Free(swapLock[SwapLock(b)]) /\ Free(nameLock)
    /\ logical[b] # NoName /\ refs[b] = 0 /\ status[b] \cap WAITING = {}
    /\ hash' = IF logical[b] = Tmp THEN hash ELSE BBP_delete(hash, b)
    /\ status' = [status EXCEPT ![b] = {}]
    /\ logical' = [logical EXCEPT ![b] = NoName]
    /\ free' = [free EXCEPT ![idx] = <<b>> \o @]
    /\ allocated' = [allocated EXCEPT ![b] = NoThread]
    /\ renamed' = [renamed EXCEPT ![b] = FALSE]
    /\ UNCHANGED <<bbpSize, bbpLimit, last, refs, cacheLock, swapLock, nameLock,
                   pc, slot, mode, nme>>

\* BBPrename(bid, n), before BBPnameLock: BBPdescriptor(bid) of a bat the
\* caller has pinned (getBBPdescriptor asserts BBP_refs), and return 0 when
\* the name stays the same.  n = Tmp is nme == NULL (the bat's own tmp name).
BBPrename(t, b, n) ==
    /\ Idle(t)
    /\ logical[b] # NoName
    /\ "LOADED" \in status[b] /\ status[b] \cap WAITING = {}
    /\ logical[b] # n
    /\ Pin(b)
    /\ slot' = [slot EXCEPT ![t] = b]
    /\ nme' = [nme EXCEPT ![t] = n]
    /\ Goto(t, "ren_lock")
    /\ UNCHANGED <<bbpSize, bbpLimit, free, hash, last, logical, status, cacheLock,
                   swapLock, nameLock, mode, allocated, renamed>>

\* A mutant: the old name is not taken out of the index.
RenLookupKeepOld(t) ==
    LET b == slot[t]
        n == nme[t]
    IN
    /\ pc[t] = "ren_lock" /\ Free(nameLock)
    /\ \/ /\ BBP_find(b, n) # 0
          /\ Unpin(b)
          /\ Goto(t, "idle")
          /\ UNCHANGED <<hash, logical, nameLock>>
       \/ /\ BBP_find(b, n) = 0
          /\ hash' = IF n \in Names THEN <<b>> \o hash ELSE hash
          /\ logical' = [logical EXCEPT ![b] = n]
          /\ nameLock' = t
          /\ Goto(t, "ren_swap")
          /\ UNCHANGED refs
    /\ UNCHANGED <<bbpSize, bbpLimit, free, last, status, cacheLock, swapLock,
                   slot, mode, nme, allocated, renamed>>

\* BBPrename under BBPnameLock: a name in use returns BBPRENAME_ALREADY;
\* otherwise BBP_delete the old non-temporary name, set the new one and
\* BBP_insert it unless it is a tmp name.
RenLookup(t) ==
    LET b == slot[t]
        n == nme[t]
    IN
    /\ pc[t] = "ren_lock" /\ Free(nameLock)
    /\ \/ /\ BBP_find(b, n) # 0
          /\ Unpin(b)
          /\ Goto(t, "idle")
          /\ UNCHANGED <<hash, logical, nameLock>>
       \/ /\ BBP_find(b, n) = 0
          /\ LET h == IF logical[b] \in Names THEN BBP_delete(hash, b) ELSE hash
             IN hash' = IF n \in Names THEN <<b>> \o h ELSE h
          /\ logical' = [logical EXCEPT ![b] = n]
          /\ nameLock' = t
          /\ Goto(t, "ren_swap")
          /\ UNCHANGED refs
    /\ UNCHANGED <<bbpSize, bbpLimit, free, last, status, cacheLock, swapLock,
                   slot, mode, nme, allocated, renamed>>

\* BBPrename of a persistent bat: under GDKswapLock(i), where i is the
\* result of BBP_find, which is 0 here, set RENAMED; then drop the name lock.
RenMark(t) ==
    LET b == slot[t] IN
    /\ pc[t] = "ren_swap" /\ Free(swapLock[SwapLock(0)])
    /\ status' = [status EXCEPT ![b] = @ \cup {"RENAMED"}]
    /\ renamed' = [renamed EXCEPT ![b] = TRUE]
    /\ nameLock' = NoThread
    /\ Unpin(b)
    /\ Goto(t, "idle")
    /\ UNCHANGED <<bbpSize, bbpLimit, free, hash, last, logical, cacheLock,
                   swapLock, slot, mode, nme, allocated>>

----------------------------------------------------------------------------

\* A fresh database after BBPinit: no bats, one block of slots.
Init ==
    /\ bbpSize = 1
    /\ bbpLimit = BBPINIT
    /\ free = [j \in Shards |-> <<>>]
    /\ hash = <<>>
    /\ last = 0
    /\ logical = [s \in Slots |-> NoName]
    /\ status = [s \in Slots |-> {}]
    /\ refs = [s \in Slots |-> 0]
    /\ cacheLock = [j \in Shards |-> NoThread]
    /\ swapLock = [k \in 0..BatMask |-> NoThread]
    /\ nameLock = NoThread
    /\ pc = [t \in Threads |-> "idle"]
    /\ slot = [t \in Threads |-> 0]
    /\ mode = [t \in Threads |-> {}]
    /\ nme = [t \in Threads |-> NoName]
    /\ allocated = [s \in Slots |-> NoThread]
    /\ renamed = [s \in Slots |-> FALSE]

Next ==
    \/ \E t \in Threads :
          \/ BBPinsert(t) \/ InsLockAll(t) \/ InsExtend(t) \/ InsPop(t)
          \/ InsFill(t) \/ InsName(t) \/ CacheRead(t) \/ CacheWrite(t) \/ Unfix(t)
          \/ RenLookup(t) \/ RenMark(t)
          \/ \E b \in Slots :
                \/ getBBPdescriptor(t, b) \/ bbpclear(t, b)
                \/ \E n \in Names \cup {Tmp} : BBPrename(t, b, n)
    \/ \E b \in Slots : BBPfree(b)

Spec == Init /\ [][Next]_vars

----------------------------------------------------------------------------
(* Properties                                                              *)

PCs == {"idle", "ins_all", "ins_name", "ins_pop", "ins_fill", "ins_name_set",
        "new_rd", "new_wr", "own", "load_rd", "load_wr", "ren_lock", "ren_swap"}

TypeOK ==
    /\ bbpSize \in 1..(N_BBPINIT * BBPINIT)
    /\ bbpLimit \in {k * BBPINIT : k \in 1..N_BBPINIT}
    /\ free \in [Shards -> Seq(Slots)]
    /\ hash \in Seq(Slots)
    /\ last \in Shards
    /\ logical \in [Slots -> Names \cup {NoName, Tmp}]
    /\ status \in [Slots -> SUBSET Flags]
    /\ refs \in [Slots -> 0..Cardinality(Threads)]
    /\ cacheLock \in [Shards -> Threads \cup {NoThread}]
    /\ swapLock \in [0..BatMask -> Threads \cup {NoThread}]
    /\ nameLock \in Threads \cup {NoThread}
    /\ pc \in [Threads -> PCs]
    /\ slot \in [Threads -> Slots \cup {0}]
    /\ mode \in [Threads -> SUBSET Flags]
    /\ nme \in [Threads -> Names \cup {NoName, Tmp}]
    /\ allocated \in [Slots -> Threads \cup {NoThread}]
    /\ renamed \in [Slots -> BOOLEAN]

\* How many times slot s is on the free lists.
OnFreeLists(s) ==
    SumSet({Cardinality({k \in 1..Len(free[j]) : free[j][k] = s}) : j \in Shards})

(* Spec invariant 2 and the lifecycle of a slot: every slot below BBPsize *)
(* that BBPinsert has not handed out is on exactly one free list, exactly *)
(* once, with no name and no pins; a handed-out slot is on none.  Broken  *)
(* when maybeextend's BBPinithash rebuild pushes a slot that a BBPinsert  *)
(* has popped but not yet named, or when a freed slot is dropped.         *)
SlotAccounting ==
    \A s \in Slots :
        IF s < bbpSize /\ allocated[s] = NoThread
        THEN OnFreeLists(s) = 1 /\ logical[s] = NoName /\ refs[s] = 0
        ELSE OnFreeLists(s) = 0

(* The name index answers for every named bat: BBP_find of a bat's non-  *)
(* temporary name returns that bat, and the chain holds only such bats,  *)
(* once each; so names are unique.  It has to survive BBPrename, bbpclear *)
(* and the rebuild of BBPextend running on other threads.                 *)
NameIndexSound ==
    /\ \A s \in Slots : logical[s] \in Names => FindHash(logical[s]) = s
    /\ \A k \in 1..Len(hash) : logical[hash[k]] \in Names
    /\ IsInjective(hash)

(* The RENAMED bit that BBPrename sets under swap lock 0 rather than the  *)
(* bat's own is not lost to a BBPcacheit of the bat, whose read-modify-   *)
(* write of the status runs under the bat's swap lock: the renamer's pin *)
(* keeps the bat from being unloaded and loaded again meanwhile.         *)
RenamedKept == \A s \in Slots : renamed[s] => "RENAMED" \in status[s]

(* BBPinsert returns 0 only when the pool is exhausted: every slot has    *)
(* been handed out.  Its second look at the free list under the name lock *)
(* sees a slot freed by another thread after its first look.              *)
FailOnlyWhenFull ==
    [][\A t \in Threads :
          (pc[t] = "ins_name" /\ pc'[t] = "idle") => \A s \in Slots : allocated[s] # NoThread]_vars

====
