--------------------------- MODULE SnapshotHistory ---------------------------
(***************************************************************************)
(* What a script is promised of `old` and `current`: there are none until  *)
(* a complete snapshot was read; the first is both; from then on each poll *)
(* that succeeds makes a complete snapshot `current` and the one before,   *)
(* with the script's own changes, `old`.  Only fields that come into       *)
(* existence with the new shape have the same value in both.               *)
(***************************************************************************)
CONSTANTS Fields, Storage, Contents, Default, Assignable, Nothing,
          Exists(_, _),       \* Exists(f, s): the shape of snapshot s has field f
          Transition(_, _)    \* Transition(s, t): the slots that come into existence from s to t

VARIABLES current, old

vars == <<current, old>>

Slots == {Storage[f] : f \in Fields}

Complete(s) == \A f \in Fields : Exists(f, s) => s[Storage[f]] # Default

Init == current = Nothing /\ old = Nothing

First ==
  /\ current = Nothing
  /\ current' \in [Slots -> Contents] /\ Complete(current')
  /\ old' = current'

Advance ==
  /\ current # Nothing
  /\ current' \in [Slots -> Contents] /\ Complete(current')
  /\ old' = [x \in Slots |->
       IF x \in Transition(current, current') THEN current'[x] ELSE current[x]]

Assign ==
  /\ current # Nothing
  /\ \E f \in Assignable, v \in Contents \ {Default} :
       Exists(f, current) /\ current' = [current EXCEPT ![Storage[f]] = v]
  /\ UNCHANGED old

Detach == current # Nothing /\ current' = Nothing /\ old' = Nothing

Next == First \/ Advance \/ Assign \/ Detach

Spec == Init /\ [][Next]_vars
=============================================================================
