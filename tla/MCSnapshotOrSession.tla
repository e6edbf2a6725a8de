------------------------- MODULE MCSnapshotOrSession -------------------------
(* The state snapshots of a module, and the runtimes of a debugger session,   *)
(* for TLC.  The two share nothing: each behaviour is about one of them, and  *)
(* the other rests.                                                           *)
EXTENDS MCStateSnapshot, MCDebugRuntime

VARIABLE side     \* what a behaviour is about

sides == <<snapshotVars, vars, side>>

NoSession == Init /\ source = FALSE

EitherInit ==
  /\ SnapshotInit
  /\ \/ side = "snapshot" /\ NoSession
     \/ side = "session"  /\ Init

Read == side = "snapshot" /\ SnapshotNext /\ UNCHANGED <<side, vars>>
Debug == side = "session" /\ Next /\ UNCHANGED <<side, snapshotVars>>

\* As in SnapshotSpec and in Spec of DebugRuntime.
EitherSpec ==
  /\ EitherInit /\ [][Read \/ Debug]_sides
  /\ WF_sides(side = "session" /\ Work /\ UNCHANGED <<side, snapshotVars>>)
=============================================================================
