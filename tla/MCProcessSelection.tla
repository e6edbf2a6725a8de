------------------------- MODULE MCProcessSelection -------------------------
(* Two declared names; p3 alone runs under the second.  Pages, pointers and    *)
(* addresses are scaled down: two PIDs of the first name fit after growing     *)
(* memory, three do not, and four are more than an address reaches.            *)
EXTENDS ProcessSelection

CONSTANTS p1, p2, p3, p4, p5

TwoNames == [p \in Pids |-> IF p = p3 THEN 2 ELSE 1]
=============================================================================
