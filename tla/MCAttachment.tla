---------------------------- MODULE MCAttachment ----------------------------
(* An instance of Attachment for TLC: two processes of different names and   *)
(* three alternatives, of which two share a name and one has its mapping     *)
(* validated.                                                                *)
EXTENDS Attachment

CONSTANTS p1, p2, game, emulator

TwoNames == [p \in Instances |-> IF p = p1 THEN game ELSE emulator]

\* Alternatives 1 and 2 are callable cores of one emulator, 3 a native state.
ThreeProviders == {1, 2, 3}
AcceptsByName == [i \in ThreeProviders |-> IF i = 3 THEN {game} ELSE {emulator}]
=============================================================================
