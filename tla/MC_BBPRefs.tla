---------------------------- MODULE MC_BBPRefs ----------------------------
(* BBPRefs for TLC: two client threads, the manager and a committer.  The *)
(* catalog is one BAT (MC_Catalog) or empty (MC_NoCatalog); the array      *)
(* shape (BlockSize, NBlocks) is set by each configuration.  Views are    *)
(* off (MC_NoShares) or taken by both threads of bat 1 (MC_ShareBats).    *)
EXTENDS BBPRefs, TLC

CONSTANTS t1, t2, trimmer, committer, noProc

MC_Threads  == {t1, t2}
MC_Catalog  == {1}
MC_NoCatalog == {}
MC_NoShares == {}
MC_ShareBats == {1}
MC_Symmetry == Permutations(MC_Threads)

\* arg, snapB and snapL, and the loop variables of an idle committer, are
\* dead once a process has left the step that uses them; states differing
\* only there are the same program state
Live(p) == pc[p] \in {"load", "kload", "kdesc", "kdec", "save", "savewait", "unload",
                     "share2", "share3", "unshare"}
MC_View ==
  <<status, refs, lrefs, cache, named, dirty, freeList, bbpSize, bbpLimit,
    tmHolder, pc, pins, holds, using, sharecnt, shared, viewpin,
    [p \in {Trimmer, Committer} |->
        IF pc[p] \in {"idle", "hot"} THEN 0 ELSE <<cursor[p], bound[p]>>],
    [p \in Procs |-> IF Live(p) THEN <<arg[p], snapB[p], snapL[p]>> ELSE 0]>>
====
