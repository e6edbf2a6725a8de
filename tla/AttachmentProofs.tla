-------------------------- MODULE AttachmentProofs --------------------------
(* Proofs about Attachment, for every set of instances, providers and        *)
(* features of the compiled script.                                          *)
EXTENDS Attachment, TLAPS

\* The phase of the update agrees with the globals it has checked so far.
PhaseInv ==
  /\ pc = "acquire" => process = None
  /\ pc \notin {"host", "acquire"} => process # None
  /\ pc \in {"discover", "validate"} => Providers # {}
  /\ pc \in {"snapshot", "run"} => attach_ready = ATTACH_READY
  /\ pc = "run" => state_ready
  /\ state_ready => attach_ready = ATTACH_READY
  /\ process = None => attach_ready = ATTACH_NONE
  /\ attach_ready = ATTACH_REJECTED => HasAutomaticShape \/ HasOnAttach

\* The script has been told exactly what the globals say has happened.
ScriptInv ==
  /\ owed = IF attach_ready = ATTACH_READY THEN 1 ELSE 0
  /\ script = IF attach_ready = ATTACH_READY
                THEN IF state_ready THEN "ready" ELSE "attached"
                ELSE "idle"

\* An onAttach continuation exists only in a module with onAttach, and so with
\* a cancellation region to clear it.
FrameInv == async_frame.owner = "onAttach" => HasOnAttach

IInv == /\ TypeOK /\ NothingOutlivesItsAttachment /\ HoldsOneProcess
        /\ ContinuationHasOneOwner /\ PhaseInv /\ ScriptInv /\ FrameInv

USE ConstantsAssumption
USE DEF ATTACH_NONE, ATTACH_READY, ATTACH_REJECTED, ATTACH_PREPARED

LEMMA InitIInv == Init => IInv
  <1> SUFFICES ASSUME Init PROVE IInv
    OBVIOUS
  <1> USE DEF Init
  <1>1. TypeOK
    <2>1. /\ provider_value \in [Providers -> Tags]
          /\ provider_frame \in [Providers -> Tags]
      BY DEF Tags
    <2>2. lifetime \in Lives
      BY DEF Lives
    <2>3. running \subseteq Instances /\ mapped \subseteq running
      OBVIOUS
    <2> QED
      BY <2>1, <2>2, <2>3 DEF TypeOK, Tags
  <1>2. NothingOutlivesItsAttachment /\ HoldsOneProcess
    BY DEF NothingOutlivesItsAttachment, Own, HoldsOneProcess, NoFrame
  <1>3. ContinuationHasOneOwner /\ PhaseInv /\ ScriptInv /\ FrameInv
    BY DEF ContinuationHasOneOwner, PhaseInv, ScriptInv, FrameInv, NoFrame
  <1> QED
    BY <1>1, <1>2, <1>3 DEF IInv

LEMMA SingleProvider == ~Multi /\ Providers # {} => 1 \in Providers
  OBVIOUS

LEMMA NextLifetimeType == lifetime \in Lives => NextLifetime \in Lives
  BY DEF Lives, NextLifetime

USE DEF IInv, TypeOK, NothingOutlivesItsAttachment, Own, HoldsOneProcess,
        ContinuationHasOneOwner, PhaseInv, ScriptInv, FrameInv,
        Tags, Frames, NoFrame, Return,
        host, acquired, provider, prepared, lifecycle, ghosts

LEMMA EnvironmentPreserves == IInv /\ Environment => IInv'
  <1> SUFFICES ASSUME IInv, Environment PROVE IInv'
    OBVIOUS
  <1>1. CASE \E p \in Instances : StartProcess(p)
    BY <1>1 DEF StartProcess
  <1>2. CASE \E p \in Instances : ExitProcess(p)
    BY <1>2 DEF ExitProcess
  <1>3. CASE \E p \in Instances : ChangeMapping(p)
    BY <1>3 DEF ChangeMapping
  <1> QED
    BY <1>1, <1>2, <1>3 DEF Environment

LEMMA AcquisitionPreserves == IInv /\ Acquisition => IInv'
  <1> SUFFICES ASSUME IInv, Acquisition PROVE IInv'
    OBVIOUS
  <1>1. CASE BeginUpdate
    BY <1>1 DEF BeginUpdate
  <1>2. CASE AcquireNothing
    BY <1>2 DEF AcquireNothing
  <1>3. CASE \E p \in Instances : Acquire(p)
    BY <1>3 DEF Acquire
  <1>4. CASE ProcessClosed
    <2>1. TypeOK'
      <3>1. /\ provider_value' \in [Providers -> Tags]
            /\ provider_frame' \in [Providers -> Tags]
        BY <1>4 DEF ProcessClosed, Teardown, ClearAttachment, ClearProviders
      <3>2. lifetime' \in Lives
        BY <1>4, NextLifetimeType DEF ProcessClosed, Teardown
      <3>3. /\ owed' \in {0, 1} /\ script' \in {"idle", "attached", "ready"}
            /\ tick_rate' \in {"attached", "detached"}
        BY <1>4 DEF ProcessClosed, Teardown
      <3>4. async_frame' \in Frames \cup {NoFrame} /\ current' \in Tags
        BY <1>4 DEF ProcessClosed, Teardown, ClearAttachment, ClearProviders
      <3>6. state_ready' \in BOOLEAN /\ attach_ready' = ATTACH_NONE
        BY <1>4 DEF ProcessClosed, Teardown, ClearAttachment, ClearProviders
      <3>5. /\ running' \subseteq Instances /\ mapped' \subseteq running'
            /\ handles' \subseteq Instances /\ process' \in Instances \cup {None}
            /\ process_name' \in Names \cup {None}
            /\ pointer_size' \in Instances \cup {None}
        BY <1>4 DEF ProcessClosed, DetachProcess
      <3> QED
        BY <1>4, <3>1, <3>2, <3>3, <3>4, <3>5, <3>6 DEF ProcessClosed, Teardown, ClearAttachment, ClearProviders
    <2>2. NothingOutlivesItsAttachment'
      BY <1>4, NextLifetimeType DEF ProcessClosed, DetachProcess, Teardown, ClearAttachment, ClearProviders
    <2>3. HoldsOneProcess'
      BY <1>4, NextLifetimeType DEF ProcessClosed, DetachProcess, Teardown, ClearAttachment, ClearProviders
    <2>4. ContinuationHasOneOwner'
      BY <1>4, NextLifetimeType DEF ProcessClosed, DetachProcess, Teardown, ClearAttachment, ClearProviders
    <2>5. PhaseInv'
      BY <1>4, NextLifetimeType DEF ProcessClosed, DetachProcess, Teardown, ClearAttachment, ClearProviders
    <2>6. ScriptInv'
      BY <1>4, NextLifetimeType DEF ProcessClosed, DetachProcess, Teardown, ClearAttachment, ClearProviders
    <2>7. FrameInv'
      BY <1>4, NextLifetimeType DEF ProcessClosed, DetachProcess, Teardown, ClearAttachment, ClearProviders
    <2> QED
      BY <2>1, <2>2, <2>3, <2>4, <2>5, <2>6, <2>7
  <1>5. CASE ProcessOpen
    BY <1>5 DEF ProcessOpen
  <1>6. CASE PointerSizeUnknown
    BY <1>6 DEF PointerSizeUnknown
  <1> QED
    BY <1>1, <1>2, <1>3, <1>4, <1>5, <1>6 DEF Acquisition

LEMMA DiscoveryPreserves == IInv /\ Discovery => IInv'
  <1> SUFFICES ASSUME IInv, Discovery PROVE IInv'
    OBVIOUS
  <1>1. CASE DiscoveryPending
    <2>1. TypeOK'
      <3>0. Providers # {} /\ Providers \subseteq {1}
        BY <1>1 DEF DiscoveryPending
      <3>1. 1 \in Providers
        BY ONLY <3>0
      <3>2. /\ provider_value' \in [Providers -> Tags]
            /\ provider_frame' \in [Providers -> Tags]
        BY <1>1, <3>1 DEF DiscoveryPending, Started
      <3> QED
        BY <1>1, <3>2 DEF DiscoveryPending, Started
    <2>2. NothingOutlivesItsAttachment'
      BY <1>1 DEF DiscoveryPending, Started
    <2>3. HoldsOneProcess'
      BY <1>1 DEF DiscoveryPending, Started
    <2>4. ContinuationHasOneOwner'
      BY <1>1 DEF DiscoveryPending, Started
    <2>5. PhaseInv'
      BY <1>1 DEF DiscoveryPending, Started
    <2>6. ScriptInv'
      BY <1>1 DEF DiscoveryPending, Started
    <2>7. FrameInv'
      BY <1>1 DEF DiscoveryPending, Started
    <2> QED
      BY <2>1, <2>2, <2>3, <2>4, <2>5, <2>6, <2>7
  <1>2. CASE DiscoveryComplete
    <2>1. TypeOK'
      <3>0. Providers # {} /\ Providers \subseteq {1}
        BY <1>2 DEF DiscoveryComplete
      <3>1. 1 \in Providers
        BY ONLY <3>0
      <3>2. /\ provider_value' \in [Providers -> Tags]
            /\ provider_frame' \in [Providers -> Tags]
        BY <1>2, <3>1 DEF DiscoveryComplete, Started
      <3> QED
        BY <1>2, <3>2 DEF DiscoveryComplete, Started
    <2>2. NothingOutlivesItsAttachment'
      BY <1>2 DEF DiscoveryComplete, Started
    <2>3. HoldsOneProcess'
      BY <1>2 DEF DiscoveryComplete, Started
    <2>4. ContinuationHasOneOwner'
      BY <1>2 DEF DiscoveryComplete, Started
    <2>5. PhaseInv'
      BY <1>2 DEF DiscoveryComplete, Started
    <2>6. ScriptInv'
      BY <1>2 DEF DiscoveryComplete, Started
    <2>7. FrameInv'
      BY <1>2 DEF DiscoveryComplete, Started
    <2> QED
      BY <2>1, <2>2, <2>3, <2>4, <2>5, <2>6, <2>7
  <1>3. CASE AlreadyDiscovered
    BY <1>3 DEF AlreadyDiscovered
  <1>4. CASE \E winner \in Providers \cup {None} : DiscoverAlternatives(winner)
    BY <1>4 DEF DiscoverAlternatives, Started
  <1>5. CASE MappingLost
    <2>1. TypeOK'
      <3>1. /\ provider_value' \in [Providers -> Tags]
            /\ provider_frame' \in [Providers -> Tags]
        BY <1>5 DEF MappingLost, Teardown, ClearAttachment, ClearProviders
      <3>2. lifetime' \in Lives
        BY <1>5, NextLifetimeType DEF MappingLost, Teardown
      <3>3. /\ owed' \in {0, 1} /\ script' \in {"idle", "attached", "ready"}
            /\ tick_rate' \in {"attached", "detached"}
        BY <1>5 DEF MappingLost, Teardown
      <3>4. async_frame' \in Frames \cup {NoFrame} /\ current' \in Tags
        BY <1>5 DEF MappingLost, Teardown, ClearAttachment, ClearProviders
      <3>6. state_ready' \in BOOLEAN /\ attach_ready' = ATTACH_NONE
        BY <1>5 DEF MappingLost, Teardown, ClearAttachment, ClearProviders
      <3>5. /\ running' \subseteq Instances /\ mapped' \subseteq running'
            /\ handles' \subseteq Instances /\ process' \in Instances \cup {None}
            /\ process_name' \in Names \cup {None}
            /\ pointer_size' \in Instances \cup {None}
        BY <1>5 DEF MappingLost
      <3> QED
        BY <1>5, <3>1, <3>2, <3>3, <3>4, <3>5, <3>6 DEF MappingLost, Teardown, ClearAttachment, ClearProviders
    <2>2. NothingOutlivesItsAttachment'
      BY <1>5, NextLifetimeType DEF MappingLost, Teardown, ClearAttachment, ClearProviders
    <2>3. HoldsOneProcess'
      BY <1>5, NextLifetimeType DEF MappingLost, Teardown, ClearAttachment, ClearProviders
    <2>4. ContinuationHasOneOwner'
      BY <1>5, NextLifetimeType DEF MappingLost, Teardown, ClearAttachment, ClearProviders
    <2>5. PhaseInv'
      BY <1>5, NextLifetimeType DEF MappingLost, Teardown, ClearAttachment, ClearProviders
    <2>6. ScriptInv'
      BY <1>5, NextLifetimeType DEF MappingLost, Teardown, ClearAttachment, ClearProviders
    <2>7. FrameInv'
      BY <1>5, NextLifetimeType DEF MappingLost, Teardown, ClearAttachment, ClearProviders
    <2> QED
      BY <2>1, <2>2, <2>3, <2>4, <2>5, <2>6, <2>7
  <1>6. CASE MappingValid
    BY <1>6 DEF MappingValid
  <1>7. CASE PreparationPending
    BY <1>7 DEF PreparationPending
  <1>8. CASE PreparationComplete
    BY <1>8 DEF PreparationComplete
  <1>9. CASE PreparationDone
    BY <1>9 DEF PreparationDone
  <1> QED
    BY <1>1, <1>2, <1>3, <1>4, <1>5, <1>6, <1>7, <1>8, <1>9 DEF Discovery, Discover

LEMMA CompletionPreserves == IInv /\ Completion => IInv'
  <1> SUFFICES ASSUME IInv, Completion PROVE IInv'
    OBVIOUS
  <1>1. CASE ShapeRejected
    BY <1>1 DEF ShapeRejected
  <1>2. CASE ShapeSelected
    <2>1. TypeOK'
      BY <1>2 DEF ShapeSelected, BecomeReady
    <2>2. NothingOutlivesItsAttachment'
      BY <1>2 DEF ShapeSelected, BecomeReady
    <2>3. HoldsOneProcess'
      BY <1>2 DEF ShapeSelected, BecomeReady
    <2>4. ContinuationHasOneOwner'
      BY <1>2 DEF ShapeSelected, BecomeReady
    <2>5. PhaseInv'
      BY <1>2 DEF ShapeSelected, BecomeReady
    <2>6. ScriptInv'
      BY <1>2 DEF ShapeSelected, BecomeReady
    <2>7. FrameInv'
      BY <1>2 DEF ShapeSelected, BecomeReady
    <2> QED
      BY <2>1, <2>2, <2>3, <2>4, <2>5, <2>6, <2>7
  <1>3. CASE OnAttachPending
    BY <1>3 DEF OnAttachPending, OnAttachDue, Resumed
  <1>4. CASE OnAttachRejected
    BY <1>4 DEF OnAttachRejected, OnAttachDue, Resumed
  <1>5. CASE OnAttachComplete
    BY <1>5 DEF OnAttachComplete, OnAttachDue, Resumed, BecomeReady
  <1>6. CASE NothingToAttach
    <2>1. TypeOK'
      BY <1>6 DEF NothingToAttach, BecomeReady
    <2>2. NothingOutlivesItsAttachment'
      BY <1>6 DEF NothingToAttach, BecomeReady
    <2>3. HoldsOneProcess'
      BY <1>6 DEF NothingToAttach, BecomeReady
    <2>4. ContinuationHasOneOwner'
      BY <1>6 DEF NothingToAttach, BecomeReady
    <2>5. PhaseInv'
      BY <1>6 DEF NothingToAttach, BecomeReady
    <2>6. ScriptInv'
      BY <1>6 DEF NothingToAttach, BecomeReady
    <2>7. FrameInv'
      BY <1>6 DEF NothingToAttach, BecomeReady
    <2> QED
      BY <2>1, <2>2, <2>3, <2>4, <2>5, <2>6, <2>7
  <1>7. CASE AttachSettled
    BY <1>7 DEF AttachSettled
  <1> QED
    BY <1>1, <1>2, <1>3, <1>4, <1>5, <1>6, <1>7 DEF Completion, Settle

LEMMA AttachedPreserves == IInv /\ Attached => IInv'
  <1> SUFFICES ASSUME IInv, Attached PROVE IInv'
    OBVIOUS
  <1>1. CASE SnapshotAbandoned
    BY <1>1 DEF SnapshotAbandoned
  <1>2. CASE SnapshotCommitted
    BY <1>2 DEF SnapshotCommitted
  <1>3. CASE WhileAttachedPending
    BY <1>3 DEF WhileAttachedPending, Resumed
  <1>4. CASE WhileAttachedComplete
    BY <1>4 DEF WhileAttachedComplete
  <1> QED
    BY <1>1, <1>2, <1>3, <1>4 DEF Attached

LEMMA NextPreserves == IInv /\ [Next]_vars => IInv'
  <1> SUFFICES ASSUME IInv, [Next]_vars PROVE IInv'
    OBVIOUS
  <1>1. CASE UNCHANGED vars
    BY <1>1 DEF vars
  <1> QED
    BY <1>1, EnvironmentPreserves, AcquisitionPreserves, DiscoveryPreserves,
       CompletionPreserves, AttachedPreserves DEF Next, Update

HIDE DEF IInv, TypeOK, NothingOutlivesItsAttachment, HoldsOneProcess,
         ContinuationHasOneOwner

\* The invariant holds in every reachable state.
THEOREM Invariance == Spec => []IInv
  BY InitIInv, NextPreserves, PTL DEF Spec

\* The generated module keeps its globals within their types: in particular an
\* attachment is never owed more than one onDetach.
THEOREM TypeCorrect == Spec => []TypeOK
  BY Invariance, PTL DEF IInv

\* No future, provider value, binding, global or snapshot of an attachment is
\* visible once the attachment has ended.
THEOREM AttachmentScoping == Spec => []NothingOutlivesItsAttachment
  BY Invariance, PTL DEF IInv

\* At most one process handle is held, and it is the attached process's.
THEOREM HandleOwnership == Spec => []HoldsOneProcess
  BY Invariance, PTL DEF IInv

\* onAttach and whileAttached never find each other's continuation in the frame.
THEOREM ContinuationOwnership == Spec => []ContinuationHasOneOwner
  BY Invariance, PTL DEF IInv

-----------------------------------------------------------------------------
USE DEF IInv, TypeOK, HoldsOneProcess, RejectedStep

LEMMA EnvironmentRejected == IInv /\ Environment => RejectedStep
  <1> SUFFICES ASSUME IInv, Environment PROVE RejectedStep
    OBVIOUS
  <1>1. CASE \E p \in Instances : StartProcess(p)
    BY <1>1 DEF StartProcess
  <1>2. CASE \E p \in Instances : ExitProcess(p)
    BY <1>2 DEF ExitProcess
  <1>3. CASE \E p \in Instances : ChangeMapping(p)
    BY <1>3 DEF ChangeMapping
  <1> QED
    BY <1>1, <1>2, <1>3 DEF Environment

LEMMA AcquisitionRejected == IInv /\ Acquisition => RejectedStep
  <1> SUFFICES ASSUME IInv, Acquisition PROVE RejectedStep
    OBVIOUS
  <1>1. CASE BeginUpdate
    BY <1>1 DEF BeginUpdate
  <1>2. CASE AcquireNothing
    BY <1>2 DEF AcquireNothing
  <1>3. CASE \E p \in Instances : Acquire(p)
    BY <1>3 DEF Acquire
  <1>4. CASE ProcessClosed
    BY <1>4 DEF ProcessClosed, DetachProcess, Teardown, ClearAttachment, ClearProviders
  <1>5. CASE ProcessOpen
    BY <1>5 DEF ProcessOpen
  <1>6. CASE PointerSizeUnknown
    BY <1>6 DEF PointerSizeUnknown
  <1> QED
    BY <1>1, <1>2, <1>3, <1>4, <1>5, <1>6 DEF Acquisition

LEMMA DiscoveryRejected == IInv /\ Discovery => RejectedStep
  <1> SUFFICES ASSUME IInv, Discovery PROVE RejectedStep
    OBVIOUS
  <1>1. CASE DiscoveryPending
    BY <1>1 DEF DiscoveryPending, Started
  <1>2. CASE DiscoveryComplete
    BY <1>2 DEF DiscoveryComplete, Started
  <1>3. CASE AlreadyDiscovered
    BY <1>3 DEF AlreadyDiscovered
  <1>4. CASE \E winner \in Providers \cup {None} : DiscoverAlternatives(winner)
    BY <1>4 DEF DiscoverAlternatives, Started
  <1>5. CASE MappingLost
    BY <1>5 DEF MappingLost, Teardown, ClearAttachment, ClearProviders
  <1>6. CASE MappingValid
    BY <1>6 DEF MappingValid
  <1>7. CASE PreparationPending
    BY <1>7 DEF PreparationPending
  <1>8. CASE PreparationComplete
    BY <1>8 DEF PreparationComplete
  <1>9. CASE PreparationDone
    BY <1>9 DEF PreparationDone
  <1> QED
    BY <1>1, <1>2, <1>3, <1>4, <1>5, <1>6, <1>7, <1>8, <1>9 DEF Discovery, Discover

LEMMA CompletionRejected == IInv /\ Completion => RejectedStep
  <1> SUFFICES ASSUME IInv, Completion PROVE RejectedStep
    OBVIOUS
  <1>1. CASE ShapeRejected
    BY <1>1 DEF ShapeRejected
  <1>2. CASE ShapeSelected
    BY <1>2 DEF ShapeSelected, BecomeReady
  <1>3. CASE OnAttachPending
    BY <1>3 DEF OnAttachPending, OnAttachDue, Resumed
  <1>4. CASE OnAttachRejected
    BY <1>4 DEF OnAttachRejected, OnAttachDue, Resumed
  <1>5. CASE OnAttachComplete
    BY <1>5 DEF OnAttachComplete, OnAttachDue, Resumed, BecomeReady
  <1>6. CASE NothingToAttach
    BY <1>6 DEF NothingToAttach, BecomeReady
  <1>7. CASE AttachSettled
    BY <1>7 DEF AttachSettled
  <1> QED
    BY <1>1, <1>2, <1>3, <1>4, <1>5, <1>6, <1>7 DEF Completion, Settle

LEMMA AttachedRejected == IInv /\ Attached => RejectedStep
  <1> SUFFICES ASSUME IInv, Attached PROVE RejectedStep
    OBVIOUS
  <1>1. CASE SnapshotAbandoned
    BY <1>1 DEF SnapshotAbandoned
  <1>2. CASE SnapshotCommitted
    BY <1>2 DEF SnapshotCommitted
  <1>3. CASE WhileAttachedPending
    BY <1>3 DEF WhileAttachedPending, Resumed
  <1>4. CASE WhileAttachedComplete
    BY <1>4 DEF WhileAttachedComplete
  <1> QED
    BY <1>1, <1>2, <1>3, <1>4 DEF Attached

HIDE DEF IInv, TypeOK, HoldsOneProcess

\* A rejected process is neither retried nor given up while it runs.
THEOREM RejectedUntilClosedHolds == Spec => RejectedUntilClosed
  <1>1. IInv /\ [Next]_vars => [RejectedStep]_vars
    BY EnvironmentRejected, AcquisitionRejected, DiscoveryRejected,
       CompletionRejected, AttachedRejected DEF Next, Update
  <1> QED
    BY Invariance, <1>1, PTL DEF Spec, RejectedUntilClosed

-----------------------------------------------------------------------------
(* The attachment half of `update` implements AttachmentProtocol. *)

USE DEF IInv, TypeOK, HoldsOneProcess

USE DEF Protocol!Next, Protocol!vars, Protocol!World, Protocol!Open,
        Protocol!Reject, Protocol!Complete, Protocol!Publish, 
        Protocol!Ended, Protocol!Close, Protocol!Lose

LEMMA EnvironmentImplements == IInv /\ Environment => [Protocol!Next]_(Protocol!vars)
  <1> SUFFICES ASSUME IInv, Environment PROVE [Protocol!Next]_(Protocol!vars)
    OBVIOUS
  <1>1. CASE \E p \in Instances : StartProcess(p)
    BY <1>1 DEF StartProcess
  <1>2. CASE \E p \in Instances : ExitProcess(p)
    BY <1>2 DEF ExitProcess
  <1>3. CASE \E p \in Instances : ChangeMapping(p)
    BY <1>3 DEF ChangeMapping
  <1> QED
    BY <1>1, <1>2, <1>3 DEF Environment

LEMMA AcquisitionImplements == IInv /\ Acquisition => [Protocol!Next]_(Protocol!vars)
  <1> SUFFICES ASSUME IInv, Acquisition PROVE [Protocol!Next]_(Protocol!vars)
    OBVIOUS
  <1>1. CASE BeginUpdate
    BY <1>1 DEF BeginUpdate
  <1>2. CASE AcquireNothing
    BY <1>2 DEF AcquireNothing
  <1>3. CASE \E p \in Instances : Acquire(p)
    BY <1>3 DEF Acquire
  <1>4. CASE ProcessClosed
    BY <1>4 DEF ProcessClosed, DetachProcess, Teardown, ClearAttachment, ClearProviders
  <1>5. CASE ProcessOpen
    BY <1>5 DEF ProcessOpen
  <1>6. CASE PointerSizeUnknown
    BY <1>6 DEF PointerSizeUnknown
  <1> QED
    BY <1>1, <1>2, <1>3, <1>4, <1>5, <1>6 DEF Acquisition

LEMMA DiscoveryImplements == IInv /\ Discovery => [Protocol!Next]_(Protocol!vars)
  <1> SUFFICES ASSUME IInv, Discovery PROVE [Protocol!Next]_(Protocol!vars)
    OBVIOUS
  <1>1. CASE DiscoveryPending
    BY <1>1 DEF DiscoveryPending, Started
  <1>2. CASE DiscoveryComplete
    BY <1>2 DEF DiscoveryComplete, Started
  <1>3. CASE AlreadyDiscovered
    BY <1>3 DEF AlreadyDiscovered
  <1>4. CASE \E winner \in Providers \cup {None} : DiscoverAlternatives(winner)
    BY <1>4 DEF DiscoverAlternatives, Started
  <1>5. CASE MappingLost
    BY <1>5 DEF MappingLost, Teardown, ClearAttachment, ClearProviders
  <1>6. CASE MappingValid
    BY <1>6 DEF MappingValid
  <1>7. CASE PreparationPending
    BY <1>7 DEF PreparationPending
  <1>8. CASE PreparationComplete
    BY <1>8 DEF PreparationComplete
  <1>9. CASE PreparationDone
    BY <1>9 DEF PreparationDone
  <1> QED
    BY <1>1, <1>2, <1>3, <1>4, <1>5, <1>6, <1>7, <1>8, <1>9 DEF Discovery, Discover

LEMMA CompletionImplements == IInv /\ Completion => [Protocol!Next]_(Protocol!vars)
  <1> SUFFICES ASSUME IInv, Completion PROVE [Protocol!Next]_(Protocol!vars)
    OBVIOUS
  <1>1. CASE ShapeRejected
    BY <1>1 DEF ShapeRejected
  <1>2. CASE ShapeSelected
    BY <1>2 DEF ShapeSelected, BecomeReady
  <1>3. CASE OnAttachPending
    BY <1>3 DEF OnAttachPending, OnAttachDue, Resumed
  <1>4. CASE OnAttachRejected
    BY <1>4 DEF OnAttachRejected, OnAttachDue, Resumed
  <1>5. CASE OnAttachComplete
    BY <1>5 DEF OnAttachComplete, OnAttachDue, Resumed, BecomeReady
  <1>6. CASE NothingToAttach
    BY <1>6 DEF NothingToAttach, BecomeReady
  <1>7. CASE AttachSettled
    BY <1>7 DEF AttachSettled
  <1> QED
    BY <1>1, <1>2, <1>3, <1>4, <1>5, <1>6, <1>7 DEF Completion, Settle

LEMMA AttachedImplements == IInv /\ Attached => [Protocol!Next]_(Protocol!vars)
  <1> SUFFICES ASSUME IInv, Attached PROVE [Protocol!Next]_(Protocol!vars)
    OBVIOUS
  <1>1. CASE SnapshotAbandoned
    BY <1>1 DEF SnapshotAbandoned
  <1>2. CASE SnapshotCommitted
    BY <1>2 DEF SnapshotCommitted
  <1>3. CASE WhileAttachedPending
    BY <1>3 DEF WhileAttachedPending, Resumed
  <1>4. CASE WhileAttachedComplete
    BY <1>4 DEF WhileAttachedComplete
  <1> QED
    BY <1>1, <1>2, <1>3, <1>4 DEF Attached

HIDE DEF IInv, TypeOK, HoldsOneProcess, Protocol!Next, Protocol!vars, Protocol!World, Protocol!Open,
        Protocol!Reject, Protocol!Complete, Protocol!Publish, 
        Protocol!Ended, Protocol!Close, Protocol!Lose

\* The callbacks a script sees are those of the abstract protocol: at most one
\* onDetach per completed attachment and none for any other, onStateReady once
\* and after onAttach, and a rejected process kept until it closes.
THEOREM ImplementsProtocolSafety == Spec => Protocol!SafetySpec
  <1>1. Init => Protocol!Init
    BY DEF Init, Protocol!Init
  <1>2. UNCHANGED vars => UNCHANGED Protocol!vars
    BY DEF vars, host, acquired, lifecycle, ghosts, Protocol!vars
  <1>3. IInv /\ [Next]_vars => [Protocol!Next]_(Protocol!vars)
    BY <1>2, EnvironmentImplements, AcquisitionImplements, DiscoveryImplements,
       CompletionImplements, AttachedImplements DEF Next, Update
  <1> QED
    BY Invariance, <1>1, <1>3, PTL DEF Spec, Protocol!SafetySpec

-----------------------------------------------------------------------------
(* The update cadence. *)

Available == IF Multi THEN selected # None ELSE provider_value[1] # None

Discovering == \E i \in Providers : provider_frame[i] # None

\* The attached cadence is requested before anything is discovered, stays
\* while a provider is available, and is given up with all of them.
CadenceInv ==
  /\ process = None => /\ tick_rate = "detached" /\ ~Discovering
                       /\ Providers # {} => ~Available
  /\ process # None /\ (Providers = {} \/ Discovering \/ Available)
       => tick_rate = "attached"
  /\ Providers # {} /\ pc \in {"validate", "prepare", "attach", "snapshot", "run"}
       => Available
  /\ Providers # {} /\ attach_ready # ATTACH_NONE => Available

CInv == IInv /\ CadenceInv

USE DEF IInv, TypeOK, CInv, CadenceInv, Available, Discovering

LEMMA EnvironmentCadence == CInv /\ Environment => CadenceInv'
  <1> SUFFICES ASSUME CInv, Environment PROVE CadenceInv'
    OBVIOUS
  <1>1. CASE \E p \in Instances : StartProcess(p)
    BY <1>1 DEF StartProcess
  <1>2. CASE \E p \in Instances : ExitProcess(p)
    BY <1>2 DEF ExitProcess
  <1>3. CASE \E p \in Instances : ChangeMapping(p)
    BY <1>3 DEF ChangeMapping
  <1> QED
    BY <1>1, <1>2, <1>3 DEF Environment

LEMMA AcquisitionCadence == CInv /\ Acquisition => CadenceInv'
  <1> SUFFICES ASSUME CInv, Acquisition PROVE CadenceInv'
    OBVIOUS
  <1>1. CASE BeginUpdate
    BY <1>1 DEF BeginUpdate
  <1>2. CASE AcquireNothing
    BY <1>2 DEF AcquireNothing
  <1>3. CASE \E p \in Instances : Acquire(p)
    BY <1>3 DEF Acquire
  <1>4. CASE ProcessClosed
    BY <1>4, SingleProvider DEF ProcessClosed, DetachProcess, Teardown, ClearAttachment, ClearProviders
  <1>5. CASE ProcessOpen
    BY <1>5 DEF ProcessOpen
  <1>6. CASE PointerSizeUnknown
    BY <1>6 DEF PointerSizeUnknown
  <1> QED
    BY <1>1, <1>2, <1>3, <1>4, <1>5, <1>6 DEF Acquisition

LEMMA DiscoveryCadence == CInv /\ Discovery => CadenceInv'
  <1> SUFFICES ASSUME CInv, Discovery PROVE CadenceInv'
    OBVIOUS
  <1>1. CASE DiscoveryPending
    BY <1>1 DEF DiscoveryPending, Started
  <1>2. CASE DiscoveryComplete
    <2>1. 1 \in Providers /\ ~Multi /\ process # None /\ process' = process
      BY <1>2, SingleProvider DEF DiscoveryComplete
    <2>2. tick_rate' = "attached"
      BY <1>2, <2>1 DEF DiscoveryComplete
    <2>3. Available'
      BY <1>2, <2>1 DEF DiscoveryComplete, Started, Lives
    <2> QED
      BY <2>1, <2>2, <2>3
  <1>3. CASE AlreadyDiscovered
    BY <1>3 DEF AlreadyDiscovered
  <1>4. CASE \E winner \in Providers \cup {None} : DiscoverAlternatives(winner)
    <2> PICK winner \in Providers \cup {None} : DiscoverAlternatives(winner)
      BY <1>4
    <2>1. Providers # {} /\ Multi /\ process # None /\ selected' = winner
      BY DEF DiscoverAlternatives
    <2>2. CASE winner = None
      <3>1. pc' = "host" /\ attach_ready' = attach_ready /\ process' = process
        BY <2>2 DEF DiscoverAlternatives
      <3>2. attach_ready = ATTACH_NONE
        BY <2>1 DEF DiscoverAlternatives
      <3>3. Discovering' => tick_rate' = "attached"
        BY <2>2 DEF DiscoverAlternatives
      <3> QED
        BY <2>1, <2>2, <3>1, <3>2, <3>3
    <2>3. CASE winner # None
      <3>1. winner \in Eligible /\ winner \in Nat
        BY <2>3 DEF DiscoverAlternatives, Completes, Eligible
      <3>2. winner \notin Identity => winner \in Polled(winner)
        BY <3>1 DEF Polled
      <3>3. tick_rate' = "attached"
        <4>1. CASE winner \in Identity
          BY <4>1 DEF DiscoverAlternatives
        <4>2. CASE winner \notin Identity /\ provider_frame[winner] = None
          BY <3>2, <4>2 DEF DiscoverAlternatives
        <4>3. CASE winner \notin Identity /\ provider_frame[winner] # None
          BY <2>1, <2>3, <4>3 DEF DiscoverAlternatives
        <4> QED
          BY <4>1, <4>2, <4>3
      <3>4. Available' /\ process' = process
        BY <2>1, <2>3 DEF DiscoverAlternatives
      <3> QED
        BY <2>1, <3>3, <3>4
    <2> QED
      BY <2>2, <2>3
  <1>5. CASE MappingLost
    BY <1>5, SingleProvider DEF MappingLost, Teardown, ClearAttachment, ClearProviders
  <1>6. CASE MappingValid
    BY <1>6 DEF MappingValid
  <1>7. CASE PreparationPending
    BY <1>7 DEF PreparationPending
  <1>8. CASE PreparationComplete
    BY <1>8 DEF PreparationComplete
  <1>9. CASE PreparationDone
    BY <1>9 DEF PreparationDone
  <1> QED
    BY <1>1, <1>2, <1>3, <1>4, <1>5, <1>6, <1>7, <1>8, <1>9 DEF Discovery, Discover

LEMMA CompletionCadence == CInv /\ Completion => CadenceInv'
  <1> SUFFICES ASSUME CInv, Completion PROVE CadenceInv'
    OBVIOUS
  <1>1. CASE ShapeRejected
    BY <1>1 DEF ShapeRejected
  <1>2. CASE ShapeSelected
    BY <1>2 DEF ShapeSelected, BecomeReady
  <1>3. CASE OnAttachPending
    BY <1>3 DEF OnAttachPending, OnAttachDue, Resumed
  <1>4. CASE OnAttachRejected
    BY <1>4 DEF OnAttachRejected, OnAttachDue, Resumed
  <1>5. CASE OnAttachComplete
    BY <1>5 DEF OnAttachComplete, OnAttachDue, Resumed, BecomeReady
  <1>6. CASE NothingToAttach
    BY <1>6 DEF NothingToAttach, BecomeReady
  <1>7. CASE AttachSettled
    BY <1>7 DEF AttachSettled
  <1> QED
    BY <1>1, <1>2, <1>3, <1>4, <1>5, <1>6, <1>7 DEF Completion, Settle

LEMMA AttachedCadence == CInv /\ Attached => CadenceInv'
  <1> SUFFICES ASSUME CInv, Attached PROVE CadenceInv'
    OBVIOUS
  <1>1. CASE SnapshotAbandoned
    BY <1>1 DEF SnapshotAbandoned
  <1>2. CASE SnapshotCommitted
    BY <1>2 DEF SnapshotCommitted
  <1>3. CASE WhileAttachedPending
    BY <1>3 DEF WhileAttachedPending, Resumed
  <1>4. CASE WhileAttachedComplete
    BY <1>4 DEF WhileAttachedComplete
  <1> QED
    BY <1>1, <1>2, <1>3, <1>4 DEF Attached

HIDE DEF IInv, TypeOK, CInv, CadenceInv, Available, Discovering

LEMMA CadenceInvariance == Spec => []CInv
  <1>1. Init => CadenceInv
    BY SingleProvider DEF Init, CadenceInv, Available, Discovering
  <1>2. CInv /\ [Next]_vars => CadenceInv'
    <2>1. CInv /\ UNCHANGED vars => CadenceInv'
      BY DEF vars, CInv, CadenceInv, Available, Discovering
    <2> QED
      BY <2>1, EnvironmentCadence, AcquisitionCadence, DiscoveryCadence,
         CompletionCadence, AttachedCadence DEF Next, Update
  <1> QED
    BY <1>1, <1>2, InitIInv, NextPreserves, PTL DEF Spec, CInv

\* The host is asked for the attached cadence exactly while something is
\* attached or being discovered.
THEOREM CadenceHolds == Spec => []CadenceFollowsAttachment
  <1>1. CInv => CadenceFollowsAttachment
    BY DEF CInv, IInv, CadenceInv, Available, Discovering, CadenceFollowsAttachment
  <1> QED
    BY <1>1, CadenceInvariance, PTL
=============================================================================
