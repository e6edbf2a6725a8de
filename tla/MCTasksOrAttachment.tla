------------------------- MODULE MCTasksOrAttachment -------------------------
(* The compile commands of the editor and the attachments of a compiled       *)
(* module, for TLC.  The two share nothing: each behaviour is about one of    *)
(* them, and the other rests.                                                 *)
EXTENDS MCCompilerTasks, MCAttachment

VARIABLE side     \* what a behaviour is about

sides == <<tasksVars, vars, side>>

NoAttachment == Init /\ running = {}

EitherInit ==
  /\ TasksInit
  /\ \/ side = "tasks"      /\ NoAttachment
     \/ side = "attachment" /\ Init

Tasks  == side = "tasks" /\ TasksNext /\ UNCHANGED <<side, vars>>
Attach == side = "attachment" /\ Next /\ UNCHANGED <<side, tasksVars>>

\* The commands end; the update export is called for ever.
Over == side = "tasks" /\ UNCHANGED sides

\* As in TasksSpec and in Spec of Attachment.
EitherSpec ==
  /\ EitherInit /\ [][Tasks \/ Attach \/ Over]_sides
  /\ WF_sides(side = "tasks" /\ Work /\ UNCHANGED <<side, vars>>)
  /\ WF_sides(side = "attachment" /\ Update /\ UNCHANGED <<side, tasksVars>>)
=============================================================================
