------------------------- MODULE AttachmentProtocol -------------------------
(***************************************************************************)
(* What a script is promised about its attachments, whatever the provider  *)
(* and however discovery, preparation and `onAttach` are spread over       *)
(* updates: one process at a time, `onAttach` completing at most once per  *)
(* attachment, `onStateReady` once after it, `onDetach` once for a         *)
(* completed attachment and never otherwise, and a rejected process kept   *)
(* until it closes.                                                        *)
(***************************************************************************)
EXTENDS Integers

CONSTANTS Instances, None

VARIABLES
  running,     \* live instances
  process,     \* the instance the script is attached to, or None
  stage,       \* "idle", "rejected", "attached" (onAttach) or "ready" (onStateReady)
  owed         \* attachments completed and not yet followed by onDetach

vars == <<running, process, stage, owed>>

Init ==
  /\ running \in SUBSET Instances
  /\ process = None /\ stage = "idle" /\ owed = 0

\* Processes start and exit; the instance held does not come back to life.
World ==
  /\ running' \in SUBSET Instances
  /\ process \in running' => process \in running
  /\ UNCHANGED <<process, stage, owed>>

Open(p) ==
  /\ process = None /\ p \in running
  /\ process' = p
  /\ UNCHANGED <<running, stage, owed>>

Reject ==
  /\ process # None /\ stage = "idle"
  /\ stage' = "rejected"
  /\ UNCHANGED <<running, process, owed>>

Complete ==
  /\ process # None /\ stage = "idle"
  /\ stage' = "attached" /\ owed' = owed + 1
  /\ UNCHANGED <<running, process>>

Publish ==
  /\ stage = "attached"
  /\ stage' = "ready"
  /\ UNCHANGED <<running, process, owed>>

Ended ==
  /\ stage' = "idle"
  /\ owed' = IF stage \in {"attached", "ready"} THEN owed - 1 ELSE owed
  /\ UNCHANGED running

\* The process closed: the only end of a rejected attachment.
Close ==
  /\ process # None /\ process \notin running
  /\ process' = None
  /\ Ended

\* A provider mapping disappeared; the host process is kept for rediscovery.
Lose ==
  /\ process # None /\ stage # "rejected"
  /\ Ended
  /\ UNCHANGED process

Next ==
  \/ World \/ \E p \in Instances : Open(p)
  \/ Reject \/ Complete \/ Publish \/ Close \/ Lose

SafetySpec == Init /\ [][Next]_vars

\* A closed process is always noticed.
Spec == SafetySpec /\ WF_vars(Close)
=============================================================================
