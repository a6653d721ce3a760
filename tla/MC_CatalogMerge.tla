--------------------------- MODULE MC_CatalogMerge ---------------------------
(* CatalogMerge for TLC: every commit list and pre-image over four bats,   *)
(* with a str bat whose offset heap widens, a str bat that becomes a       *)
(* fixed-size one, a fixed-size bat and a void bat that becomes str.       *)
EXTENDS CatalogMerge

CONSTANTS noLine

MC_OldKind == <<"str1", "str1", "int", "void">>
MC_NewKind == <<"str2", "int", "int", "str1">>
=============================================================================
