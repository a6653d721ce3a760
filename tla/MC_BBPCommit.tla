---------------------------- MODULE MC_BBPCommit ----------------------------
(* BBPCommit for TLC: two bats, the file states as model values.           *)
EXTENDS BBPCommit

CONSTANTS noFile, partial, noCatalog
=============================================================================
