------------------------- MODULE MCIncrementalBuild -------------------------
(* Instances of IncrementalBuild for TLC. *)
EXTENDS IncrementalBuild, TLC

CONSTANTS main, pch, common, util

(* pch.cpp includes common.h, and main.cpp util.h. *)
OneSource == {main, pch}
TwoHeaders == {common, util}
IncludeOne == (main :> {util}) @@ (pch :> {common})

=============================================================================
