--------------------------- MODULE MCUpdateExport ---------------------------
(* An instance of UpdateExport for TLC: one emulator process, whose provider *)
(* is discovered and validated, and every timer action.                      *)
EXTENDS UpdateExport

CONSTANTS p1, p2, game

AllActions == Decisions \cup {"onStart", "onReset"}
AllDependent == AllActions \ {"onStart", "start"}

OneName == [p \in Instances |-> game]
AcceptsAll == [i \in {1} |-> {game}]
=============================================================================
