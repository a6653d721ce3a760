----------------------------- MODULE MC_BBPLocks -----------------------------
(* BBPLocks for TLC: two client threads, the manager, one committer and    *)
(* an optional shutdown thread on two bats, the second possibly a view.    *)
EXTENDS BBPLocks, TLC

CONSTANTS c1, c2, manager, committer, exiter, noProc

MC_Clients == {c1, c2}
MC_Exiters == {exiter}
MC_NoExiters == {}
MC_Symmetry == Permutations(MC_Clients)
\* No views, or the bat in slot 2 a view of the bat in slot 1.
MC_NoViews == [b \in 1..NBats |-> 0]
MC_Views == [b \in 1..NBats |-> IF b = 2 THEN 1 ELSE 0]
=============================================================================
