---------------------------- MODULE AtomicCommit ----------------------------
(***************************************************************************)
(* What the commit protocol of the BAT buffer pool promises (spec 4.7, 4.8 *)
(* and its test plan: "killing the process at any moment between start and *)
(* end of sync and restarting yields either the pre-commit state or the    *)
(* post-commit state but never a mix").                                    *)
(*                                                                         *)
(* The durable database is a catalog (the BBP.dir entry of every           *)
(* persistent bat) and the heap file of every bat.  A commit of a set of   *)
(* bats replaces their entries and heaps by their in-memory versions in    *)
(* one step; nothing else changes durable state.  A restart throws the     *)
(* in-memory versions away and reloads them from the catalog.              *)
(***************************************************************************)
EXTENDS Naturals

CONSTANTS
    Bats,   \* the persistent bats
    MaxVer  \* versions of a bat's contents are 0..MaxVer

Versions == 0..MaxVer

VARIABLES
    mem,      \* the version of every bat in memory
    catalog,  \* the durable catalog: the version each entry describes
    heaps     \* the durable heap files: the version each file holds

vars == <<mem, catalog, heaps>>

Init ==
    /\ mem = [b \in Bats |-> 0]
    /\ catalog = mem
    /\ heaps = mem

\* A transaction changes a bat in memory.
Update(b) ==
    /\ mem[b] < MaxVer
    /\ mem' = [mem EXCEPT ![b] = @ + 1]
    /\ UNCHANGED <<catalog, heaps>>

\* A (sub)commit of the bats S: their entries and their heaps become their
\* in-memory versions together; the other bats keep both.
Commit(S) ==
    /\ catalog' = [b \in Bats |-> IF b \in S THEN mem[b] ELSE catalog[b]]
    /\ heaps' = catalog'
    /\ UNCHANGED mem

\* A crash and restart: memory is what the catalog says.
Restart ==
    /\ mem' = catalog
    /\ UNCHANGED <<catalog, heaps>>

Next ==
    \/ \E b \in Bats : Update(b)
    \/ \E S \in SUBSET Bats : S # {} /\ Commit(S)
    \/ Restart

Spec == Init /\ [][Next]_vars

\* The durable state is never torn: every heap file holds the version its
\* catalog entry describes.
Consistent == heaps = catalog

=============================================================================
