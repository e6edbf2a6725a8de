-------------------------- MODULE UpdateExportProofs --------------------------
(***************************************************************************)
(* Proofs about TimerMonitor, for every set of declared actions: types,    *)
(* the scope of attempt-dependent values, the alternation of onStart and   *)
(* onReset, and the inertness of a module whose attempt is not ready.      *)
(* These invariants are inductive together: alternation needs the          *)
(* readiness of the attempt, which needs the observed state.               *)
(*                                                                         *)
(* Then about UpdateExport, for every script: the timer decisions are      *)
(* taken only for a complete attachment with two snapshots to compare, and *)
(* each half of the update takes only the steps it takes alone.            *)
(***************************************************************************)
EXTENDS UpdateExport, TLAPS

IInv ==
  /\ TypeOK
  /\ AttemptScope
  /\ EventsAlternate
  /\ ~Both => balance = 0
  /\ timer # Ended => split_index < Segments    \* what bounds the splits

USE DEF NotRunning, Running, Paused, Ended, Unobserved

\* Lemma: what the host does to the timer keeps its type.
LEMMA HostTypes ==
  ASSUME TypeOK, timer # Ended => split_index < Segments,
         TimerStart \/ TimerSplit \/ TimerReset \/ TimerPause
  PROVE  /\ timer' # Ended => split_index' < Segments
         /\ timer' \in NotRunning .. Ended /\ split_index' \in 0 .. Segments
         /\ game_time' \in {"notInitialized", "running", "paused"}
PROOF
  <1>1. CASE TimerStart
    <2>1. CASE timer = NotRunning BY <1>1, <2>1 DEF TypeOK, TimerStart
    <2>2. CASE timer # NotRunning BY <1>1, <2>2 DEF TypeOK, TimerStart
    <2>3. QED BY <2>1, <2>2
  <1>2. CASE TimerSplit
    <2>1. CASE timer = Running
      <3>1. split_index \in 0 .. Segments /\ Segments \in Nat
        BY ConstantsAssumption DEF TypeOK
      <3>2. split_index + 1 = Segments \/ split_index + 1 < Segments \/ split_index = Segments
        BY <3>1
      <3>3. QED BY <1>2, <2>1, <3>1, <3>2 DEF TypeOK, TimerSplit
    <2>2. CASE timer # Running BY <1>2, <2>2 DEF TypeOK, TimerSplit
    <2>3. QED BY <2>1, <2>2
  <1>3. CASE TimerReset BY <1>3, ConstantsAssumption DEF TypeOK, TimerReset
  <1>4. CASE TimerPause BY <1>4 DEF TypeOK, TimerPause
  <1>5. QED BY <1>1, <1>2, <1>3, <1>4

\* Lemma: the head of an update preserves the invariant.
LEMMA SampleInvariant ==
  ASSUME IInv, Sample
  PROVE  IInv'
PROOF
  <1>1. /\ observed_timer_state' = timer /\ timer_state' = timer /\ timer' = timer
        /\ timer \in 0 .. 3 /\ pc' = "attached?"
        /\ UNCHANGED <<split_index, game_time>>
    BY DEF Sample, host, IInv, TypeOK
  <1>2. CASE Starts /\ "onStart" \in Actions
    <2> USE <1>2, <1>1, ConstantsAssumption DEF IInv, Sample, Events, Starts, OnStart
    <2>1. AttemptScope'
      <3>0. observed_timer_state = 0 /\ ~(0 \in Running .. Ended) OBVIOUS
      <3>1. ~attempt_ready /\ attempt_globals = "default" BY <3>0 DEF AttemptScope, TypeOK
      <3>2. timer \in 1 .. 3 OBVIOUS
      <3>3. CASE HasAttemptGlobals BY <3>2, <3>3 DEF AttemptScope
      <3>4. CASE ~HasAttemptGlobals BY <3>1, <3>4 DEF AttemptScope
      <3>5. QED BY <3>3, <3>4
    <2>2. EventsAlternate' BY DEF AttemptScope, EventsAlternate, Both, TypeOK
    <2>3. (~Both => balance = 0)' BY DEF Both
    <2>4. TypeOK'
      <3>1. balance' \in -1 .. 1 BY DEF EventsAlternate, TypeOK
      <3>2. attempt_ready' \in BOOLEAN /\ attempt_globals' \in {"default", "assigned"} BY DEF TypeOK
      <3>3. QED BY <3>1, <3>2 DEF TypeOK
    <2>5. QED BY <2>1, <2>2, <2>3, <2>4
  <1>3. CASE ~(Starts /\ "onStart" \in Actions) /\ Resets
    <2> USE <1>3, <1>1, ConstantsAssumption DEF IInv, Sample, Events, Resets, OnReset
    <2>1. AttemptScope' BY DEF AttemptScope, TypeOK
    <2>2. EventsAlternate' BY DEF AttemptScope, EventsAlternate, Both, TypeOK
    <2>3. (~Both => balance = 0)' BY DEF Both
    <2>4. TypeOK'
      <3>1. balance' \in -1 .. 1 BY DEF EventsAlternate, TypeOK
      <3>2. attempt_ready' \in BOOLEAN /\ attempt_globals' \in {"default", "assigned"} BY DEF TypeOK
      <3>3. QED BY <3>1, <3>2 DEF TypeOK
    <2>5. QED BY <2>1, <2>2, <2>3, <2>4
  <1>4. CASE ~(Starts /\ "onStart" \in Actions) /\ ~Resets
    <2> USE <1>4, <1>1, ConstantsAssumption DEF IInv, Sample, Events, Starts, Resets
    <2>1. AttemptScope' BY DEF AttemptScope, TypeOK
    <2>2. EventsAlternate' BY DEF AttemptScope, EventsAlternate, Both, TypeOK
    <2>3. (~Both => balance = 0)' BY DEF Both
    <2>4. TypeOK'
      <3>1. balance' \in -1 .. 1 BY DEF EventsAlternate, TypeOK
      <3>2. attempt_ready' \in BOOLEAN /\ attempt_globals' \in {"default", "assigned"} BY DEF TypeOK
      <3>3. QED BY <3>1, <3>2 DEF TypeOK
    <2>5. QED BY <2>1, <2>2, <2>3, <2>4
  <1>5. QED BY <1>2, <1>3, <1>4

\* Lemma: steps that leave the module's variables alone preserve the invariant.
LEMMA OtherInvariant ==
  ASSUME IInv, UNCHANGED module,
         timer' \in NotRunning .. Ended, split_index' \in 0 .. Segments,
         timer' # Ended => split_index' < Segments,
         game_time' \in {"notInitialized", "running", "paused"},
         timer_state' \in NotRunning .. Ended,
         pc' \in {"host", "attached?", "start", "isLoading", "gameTime", "reset", "split"}
  PROVE  IInv'
BY DEF IInv, TypeOK, AttemptScope, EventsAlternate, module

\* Lemma: every step preserves the invariant.
LEMMA Step ==
  ASSUME IInv, [Next]_vars
  PROVE  IInv'
PROOF
  <1> USE DEF module, host
  <1>t. TypeOK /\ (timer # Ended => split_index < Segments) BY DEF IInv
  <1>1. CASE User BY <1>1, <1>t, HostTypes, OtherInvariant DEF User, TypeOK
  <1>2. CASE Sample BY <1>2, SampleInvariant
  <1>3. CASE ReturnEarly \/ BeginDecisions
    BY <1>3, <1>t, OtherInvariant DEF ReturnEarly, BeginDecisions, TypeOK
  <1>4. CASE DecideStart
    BY <1>4, <1>t, HostTypes, OtherInvariant DEF DecideStart, TypeOK
  <1>5. CASE DecideIsLoading \/ DecideGameTime
    BY <1>5, <1>t, OtherInvariant DEF DecideIsLoading, DecideGameTime, TypeOK
  <1>6. CASE DecideReset
    BY <1>6, <1>t, HostTypes, OtherInvariant DEF DecideReset, TypeOK
  <1>7. CASE DecideSplit
    BY <1>7, <1>t, HostTypes, OtherInvariant DEF DecideSplit, TypeOK
  <1>8. CASE UNCHANGED vars
    BY <1>8, <1>t, OtherInvariant DEF vars, TypeOK
  <1>9. QED BY <1>1, <1>2, <1>3, <1>4, <1>5, <1>6, <1>7, <1>8 DEF Next, Update

\* Lemma: the invariant holds initially.
LEMMA InitInvariant == Init => IInv
PROOF
  <1> SUFFICES ASSUME Init PROVE IInv OBVIOUS
  <1>1. TypeOK
    <2>1. /\ split_index \in 0 .. Segments /\ balance \in -1 .. 1
          /\ observed_timer_state \in Unobserved .. Ended
          /\ timer_state \in NotRunning .. Ended
      BY ConstantsAssumption DEF Init
    <2>2. QED BY <2>1 DEF Init, TypeOK
  <1>2. AttemptScope BY DEF Init, AttemptScope
  <1>3. EventsAlternate BY DEF Init, EventsAlternate
  <1>4. QED BY <1>1, <1>2, <1>3, ConstantsAssumption DEF Init, IInv

\* The invariant holds in every reachable state.
THEOREM Invariance == Spec => []IInv
PROOF
  <1>1. IInv /\ [Next]_vars => IInv' BY Step
  <1>2. QED BY <1>1, InitInvariant, PTL DEF Spec

\* Attempt-scoped values exist only during the attempt whose start was observed,
\* and are assigned whenever an attempt-dependent action may run.
THEOREM AttemptScoped == Spec => []AttemptScope
PROOF
  <1>1. IInv => AttemptScope BY DEF IInv
  <1>2. QED BY <1>1, Invariance, PTL

\* onStart and onReset are delivered alternately, once per observed transition.
THEOREM Alternation == Spec => []EventsAlternate
PROOF
  <1>1. IInv => EventsAlternate BY DEF IInv
  <1>2. QED BY <1>1, Invariance, PTL

\* A module whose attempt is not ready leaves game time and splits alone.
THEOREM Inertness == Spec => UnreadyModuleIsInert
PROOF
  <1> DEFINE Inert == /\ pc' # pc /\ ~attempt_ready
                      /\ (Actions \cap Decisions) \ {"start"} \subseteq RequiresAttempt
                      => /\ UNCHANGED <<split_index, game_time>>
                         /\ timer' \in {timer, Running}
  <1>1. IInv /\ [Next]_vars => [Inert]_vars
    <2> SUFFICES ASSUME IInv, Next, pc' # pc, ~attempt_ready,
                        (Actions \cap Decisions) \ {"start"} \subseteq RequiresAttempt
                 PROVE  UNCHANGED <<split_index, game_time>> /\ timer' \in {timer, Running}
      BY DEF Inert
    <2> USE DEF module, host, Available
    <2>1. CASE User BY <2>1 DEF User
    <2>2. CASE Sample BY <2>2 DEF Sample
    <2>3. CASE ReturnEarly \/ BeginDecisions BY <2>3 DEF ReturnEarly, BeginDecisions
    <2>4. CASE DecideStart BY <2>4 DEF DecideStart, TimerStart
    <2>5. CASE DecideIsLoading \/ DecideGameTime
      BY <2>5 DEF DecideIsLoading, DecideGameTime, Decisions
    <2>6. CASE DecideReset BY <2>6 DEF DecideReset, Decisions
    <2>7. CASE DecideSplit BY <2>7 DEF DecideSplit, Decisions
    <2>8. QED BY <2>1, <2>2, <2>3, <2>4, <2>5, <2>6, <2>7 DEF Next, Update
  <1>2. QED BY <1>1, Invariance, PTL DEF Spec, UnreadyModuleIsInert
-----------------------------------------------------------------------------
(* The whole update. *)

\* What the early returns have established by each stage of the update.
GateInv ==
  /\ snapshots \in 0 .. 2
  /\ stage \notin {"host", "acquire"} => process # None
  /\ attach_ready = A!ATTACH_READY => process # None
  /\ stage \in {"snapshot", "run"} => attach_ready = A!ATTACH_READY
  /\ state_ready =>
       attach_ready = A!ATTACH_READY /\ current = lifetime /\ snapshots \in {1, 2}
  /\ stage = "run" \/ Deciding => state_ready /\ snapshots = 2

USE DEF A!ATTACH_NONE, A!ATTACH_READY, A!ATTACH_REJECTED, A!ATTACH_PREPARED

\* Lemma: the invariant holds initially.
LEMMA InitGate == ExportInit => GateInv
BY DEF ExportInit, Init, A!Init, GateInv, Deciding, Decisions, A!ATTACH_NONE, A!ATTACH_READY

\* Lemma: an update that returns or stays in its attachment half decides nothing.
LEMMA NotDeciding ==
  ASSUME pc = "attached?", GoesOn
  PROVE  ~Deciding'
PROOF
  <1>1. pc' \in {"host", "attached?"} BY DEF GoesOn, ReturnEarly, vars
  <1>2. QED BY <1>1 DEF Deciding, Decisions

USE DEF A!host, A!acquired, A!provider, A!prepared, A!lifecycle, A!ghosts, A!Return

\* Lemma: acquiring a process, or ending its attachment.
LEMMA AcquisitionGate ==
  ASSUME GateInv, A!Acquisition, ~Deciding',
         snapshots' = IF state_ready' THEN snapshots ELSE 0
  PROVE  GateInv'
PROOF
  <1> USE DEF GateInv
  <1>1. CASE A!BeginUpdate BY <1>1 DEF A!BeginUpdate
  <1>2. CASE A!AcquireNothing BY <1>2 DEF A!AcquireNothing
  <1>3. CASE \E p \in Instances : A!Acquire(p)
    BY <1>3, AttachmentAssumption DEF A!Acquire, A!ConstantsAssumption
  <1>4. CASE A!ProcessClosed
    BY <1>4 DEF A!ProcessClosed, A!DetachProcess, A!Teardown, A!ClearAttachment
  <1>5. CASE A!ProcessOpen \/ A!PointerSizeUnknown
    BY <1>5 DEF A!ProcessOpen, A!PointerSizeUnknown
  <1>6. QED BY <1>1, <1>2, <1>3, <1>4, <1>5 DEF A!Acquisition

\* Lemma: discovering and validating the provider, and preparing it.
LEMMA DiscoveryGate ==
  ASSUME GateInv, A!Discovery, ~Deciding',
         snapshots' = IF state_ready' THEN snapshots ELSE 0
  PROVE  GateInv'
PROOF
  <1> USE DEF GateInv
  <1>1. CASE A!DiscoveryPending BY <1>1 DEF A!DiscoveryPending
  <1>2. CASE A!DiscoveryComplete BY <1>2 DEF A!DiscoveryComplete
  <1>3. CASE A!AlreadyDiscovered BY <1>3 DEF A!AlreadyDiscovered
  <1>4. CASE \E winner \in Providers \cup {None} : A!DiscoverAlternatives(winner)
    BY <1>4 DEF A!DiscoverAlternatives
  <1>5. CASE A!MappingLost
    BY <1>5 DEF A!MappingLost, A!Teardown, A!ClearAttachment
  <1>6. CASE A!MappingValid BY <1>6 DEF A!MappingValid
  <1>7. CASE A!PreparationPending \/ A!PreparationComplete \/ A!PreparationDone
    BY <1>7 DEF A!PreparationPending, A!PreparationComplete, A!PreparationDone
  <1>8. QED BY <1>1, <1>2, <1>3, <1>4, <1>5, <1>6, <1>7 DEF A!Discovery, A!Discover

\* Lemma: completing or rejecting the attachment.
LEMMA CompletionGate ==
  ASSUME GateInv, A!Completion, ~Deciding',
         snapshots' = IF state_ready' THEN snapshots ELSE 0
  PROVE  GateInv'
PROOF
  <1> USE DEF GateInv, A!BecomeReady, A!OnAttachDue
  <1>1. CASE A!ShapeRejected BY <1>1 DEF A!ShapeRejected
  <1>2. CASE A!ShapeSelected BY <1>2 DEF A!ShapeSelected
  <1>3. CASE A!OnAttachPending BY <1>3 DEF A!OnAttachPending
  <1>4. CASE A!OnAttachRejected BY <1>4 DEF A!OnAttachRejected
  <1>5. CASE A!OnAttachComplete BY <1>5 DEF A!OnAttachComplete
  <1>6. CASE A!NothingToAttach BY <1>6 DEF A!NothingToAttach
  <1>7. CASE A!AttachSettled BY <1>7 DEF A!AttachSettled
  <1>8. QED BY <1>1, <1>2, <1>3, <1>4, <1>5, <1>6, <1>7 DEF A!Completion, A!Settle

\* Lemma: every step preserves the invariant.
LEMMA StepGate ==
  ASSUME GateInv, [ExportNext]_updateVars
  PROVE  GateInv'
PROOF
  <1>1. CASE AttachmentStep
    <2>1. ~Deciding' BY <1>1, NotDeciding DEF AttachmentStep
    <2>2. CASE A!SnapshotAbandoned \/ A!WhileAttachedPending
      BY <1>1, <2>1, <2>2 DEF AttachmentStep, A!SnapshotAbandoned, A!WhileAttachedPending, GateInv
    <2>3. QED
      BY <1>1, <2>1, <2>2, AcquisitionGate, DiscoveryGate, CompletionGate DEF AttachmentStep
  <1>2. CASE Publish
    <2>1. ~Deciding' BY <1>2, NotDeciding DEF Publish
    <2>2. QED BY <1>2, <2>1 DEF Publish, A!SnapshotCommitted, GateInv
  <1>3. CASE WhileAttached
    BY <1>3 DEF WhileAttached, A!WhileAttachedComplete, GateInv
  <1>4. CASE TimerStep
    <2>1. Deciding' => Deciding
      BY <1>4 DEF TimerStep, Sample, DecideStart, DecideIsLoading, DecideGameTime,
                  DecideReset, DecideSplit, Deciding, Decisions
    <2>2. QED BY <1>4, <2>1 DEF TimerStep, attachment, GateInv
  <1>5. CASE World
    <2>1. CASE User /\ UNCHANGED <<attachment, snapshots>>
      BY <2>1 DEF User, attachment, GateInv, Deciding
    <2>2. CASE A!Environment /\ UNCHANGED <<vars, snapshots>>
      BY <2>2 DEF A!Environment, A!StartProcess, A!ExitProcess, A!ChangeMapping,
                  vars, GateInv, Deciding
    <2>3. QED BY <1>5, <2>1, <2>2 DEF World
  <1>6. CASE UNCHANGED updateVars
    BY <1>6 DEF updateVars, attachment, vars, GateInv, Deciding
  <1>7. QED BY <1>1, <1>2, <1>3, <1>4, <1>5, <1>6 DEF ExportNext, Export

\* The timer decisions of an update are taken only for the process attached, in
\* a complete attachment, with two snapshots of that attachment to compare.
THEOREM Gated == ExportSpec => []DecisionsAreGated
PROOF
  <1>1. GateInv => DecisionsAreGated BY DEF GateInv, DecisionsAreGated
  <1>2. GateInv /\ [ExportNext]_updateVars => GateInv' BY StepGate
  <1>3. QED BY <1>1, <1>2, InitGate, PTL DEF ExportSpec

-----------------------------------------------------------------------------
(* The halves. *)

\* Lemma: a step of the update is a step of the timer half, or leaves it alone.
LEMMA TimerHalf ==
  ASSUME [ExportNext]_updateVars
  PROVE  [Next]_vars
PROOF
  <1>1. GoesOn => [Next]_vars BY DEF GoesOn, Next, Update
  <1>2. CASE AttachmentStep \/ Publish BY <1>1, <1>2 DEF AttachmentStep, Publish
  <1>3. CASE WhileAttached BY <1>3 DEF WhileAttached, Next, Update
  <1>4. CASE TimerStep BY <1>4 DEF TimerStep, Next, Update
  <1>5. CASE World BY <1>5 DEF World, Next
  <1>6. CASE UNCHANGED updateVars BY <1>6 DEF updateVars
  <1>7. QED BY <1>2, <1>3, <1>4, <1>5, <1>6 DEF ExportNext, Export

\* Lemma: a step of the update is a step of the attachment half, or leaves it alone.
LEMMA AttachmentHalf ==
  ASSUME [ExportNext]_updateVars
  PROVE  [A!Next]_(A!vars)
PROOF
  <1>1. UNCHANGED attachment => UNCHANGED A!vars
    BY DEF attachment, A!vars, A!host, A!acquired, A!provider, A!prepared,
           A!lifecycle, A!ghosts
  <1>2. CASE AttachmentStep
    BY <1>2 DEF AttachmentStep, A!Next, A!Update, A!Attached
  <1>3. CASE Publish BY <1>3 DEF Publish, A!Next, A!Update, A!Attached
  <1>4. CASE WhileAttached BY <1>4 DEF WhileAttached, A!Next, A!Update, A!Attached
  <1>5. CASE TimerStep BY <1>1, <1>5 DEF TimerStep
  <1>6. CASE World BY <1>1, <1>6 DEF World, A!Next
  <1>7. CASE UNCHANGED updateVars BY <1>1, <1>7 DEF updateVars
  <1>8. QED BY <1>2, <1>3, <1>4, <1>5, <1>6, <1>7 DEF ExportNext, Export

\* The update does to the timer and to the attachment only what the two modules
\* say (the safety part of ImplementsHalves).
THEOREM ImplementsHalvesSafety ==
  ExportSpec => /\ Init /\ [][Next]_vars
                /\ A!Init /\ [][A!Next]_(A!vars)
PROOF
  <1>1. ExportInit => Init /\ A!Init BY DEF ExportInit
  <1>2. [ExportNext]_updateVars => [Next]_vars /\ [A!Next]_(A!vars)
    BY TimerHalf, AttachmentHalf
  <1>3. QED BY <1>1, <1>2, PTL DEF ExportSpec

\* Attempt-scoped values keep their scope, and onStart and onReset alternate, in
\* the whole update, whatever the attachment does between two samples.
THEOREM TimerInvariants == ExportSpec => []AttemptScope /\ []EventsAlternate
PROOF
  <1>1. IInv => AttemptScope /\ EventsAlternate BY DEF IInv
  <1>2. IInv /\ [Next]_vars => IInv' BY Step
  <1>3. QED BY <1>1, <1>2, InitInvariant, ImplementsHalvesSafety, PTL
=============================================================================
