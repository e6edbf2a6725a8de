---------------------------- MODULE UpdateExport ----------------------------
(***************************************************************************)
(* The whole `update` export: the timer is sampled first (TimerMonitor),   *)
(* the attachment is driven as far as it gets (Attachment), and only an    *)
(* update whose whileAttached completes goes on to the timer decisions.    *)
(* Game processes, emulator mappings and the user at the timer move        *)
(* between any two steps.                                                  *)
(*                                                                         *)
(* `pc` is the program counter of TimerMonitor and `stage` the one of      *)
(* Attachment; between updates both are at "host".                         *)
(***************************************************************************)
EXTENDS TimerMonitor

CONSTANTS
  Instances, Names, NameOf, Providers, Multi, Accepts, Identity, Validated,
  HasPreparation, HasAutomaticShape, HasOnAttach, AsyncWhileAttached,
  NeedsPointerSize, Lifetimes, None

VARIABLES
  running, mapped, handles, tick_rate,
  process, process_name, pointer_size,
  provider_value, provider_frame, selected,
  preparation_frame, preparation_value,
  attachment_globals, attach_ready, state_ready, current, async_frame,
  stage,
  lifetime, script, owed,
  snapshots            \* ghost: published in this lifetime, counted to 2

A == INSTANCE Attachment WITH pc <- stage

ASSUME AttachmentAssumption == A!ConstantsAssumption

attachment ==
  <<running, mapped, handles, tick_rate, process, process_name, pointer_size,
    provider_value, provider_frame, selected, preparation_frame, preparation_value,
    attachment_globals, attach_ready, state_ready, current, async_frame, stage,
    lifetime, script, owed>>

updateVars == <<vars, attachment, snapshots>>

ExportInit == Init /\ A!Init /\ snapshots = 0

-----------------------------------------------------------------------------
\* Fault: an attachment half that cannot go on is tried again, not returned from.
GoesOnTrying == UNCHANGED vars

\* The update goes on to the next step of the attachment half; an early return
\* of that half is a return of the whole update.
GoesOn == IF stage' = "host" THEN ReturnEarly ELSE UNCHANGED vars

AttachmentStep ==
  /\ pc = "attached?"
  /\ \/ A!Acquisition \/ A!Discovery \/ A!Completion
     \/ A!SnapshotAbandoned \/ A!WhileAttachedPending
  /\ snapshots' = IF state_ready' THEN snapshots ELSE 0
  /\ GoesOn

Publish ==
  /\ pc = "attached?"
  /\ A!SnapshotCommitted
  /\ snapshots' = IF snapshots = 2 THEN 2 ELSE snapshots + 1
  /\ GoesOn

\* whileAttached completes with true, or as a bare block, or with false.
WhileAttached ==
  /\ pc = "attached?"
  /\ A!WhileAttachedComplete
  /\ BeginDecisions \/ ReturnEarly
  /\ UNCHANGED snapshots

TimerStep ==
  /\ \/ Sample \/ DecideStart \/ DecideIsLoading \/ DecideGameTime
     \/ DecideReset \/ DecideSplit
  /\ UNCHANGED <<attachment, snapshots>>

\* Processes, mappings and the user.
World ==
  \/ User /\ UNCHANGED <<attachment, snapshots>>
  \/ A!Environment /\ UNCHANGED <<vars, snapshots>>

Export == TimerStep \/ AttachmentStep \/ Publish \/ WhileAttached

ExportNext == World \/ Export

\* update is called again and again, and always returns.
ExportSpec == ExportInit /\ [][ExportNext]_updateVars /\ WF_updateVars(Export)

-----------------------------------------------------------------------------
(* Properties. *)

Deciding == pc \in Decisions

\* The timer decisions are taken only for a complete attachment, and with two
\* snapshots of it to compare: `old` is never an earlier attachment's, nor the
\* blank it starts from.
DecisionsAreGated ==
  Deciding =>
    /\ process # None /\ attach_ready = A!ATTACH_READY /\ state_ready
    /\ snapshots = 2 /\ current = lifetime

\* The two halves do what they do alone, so what is true of each is true of
\* the update: neither starves the other.
ImplementsHalves == Spec /\ A!Spec
=============================================================================
