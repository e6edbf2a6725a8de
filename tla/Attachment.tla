----------------------------- MODULE Attachment -----------------------------
(***************************************************************************)
(* The attachment half of the `update` export that                         *)
(* src/src/codegen/update.rs generates for every script: acquiring a       *)
(* process, discovering a provider, preparing it, running `onAttach`,      *)
(* publishing the first snapshot, running `whileAttached`, and tearing the *)
(* attachment down when the process closes or its mapping disappears.      *)
(*                                                                         *)
(* One update is a sequence of steps through `pc`; game processes and      *)
(* emulator mappings may change between any two of them.  An early return  *)
(* of the generated code is a step to pc = "host".                         *)
(*                                                                         *)
(* Data are abstracted to the attachment lifetime that produced them: a    *)
(* frame, a binding, an attachment-scoped global or a snapshot is the      *)
(* `lifetime` in which it was made, or None for the default.               *)
(***************************************************************************)
EXTENDS Integers

CONSTANTS
  Instances,           \* operating-system process instances
  Names,               \* process names the script declares
  NameOf,              \* the declared name each instance runs under
  Providers,           \* indexes of the state providers, empty for a native state
  Multi,               \* the state declares provider alternatives
  Accepts,             \* Accepts[i]: the names alternative i takes
  Identity,            \* the alternatives attached by identity, with no future
  Validated,           \* the providers with a mapping-validation function
  HasPreparation, HasAutomaticShape, HasOnAttach, AsyncWhileAttached,
  NeedsPointerSize,    \* some reachable operation needs the pointer width
  Lifetimes,           \* lifetimes told apart before the ghost label wraps
  None

\* Features a compiled script can have: see codegen.rs and global_plan.rs.
ASSUME ConstantsAssumption ==
  /\ NameOf \in [Instances -> Names]
  /\ Providers \subseteq Nat \ {0}
  /\ Multi \in BOOLEAN
  /\ ~Multi => Providers \subseteq {1}
  /\ Accepts \in [Providers -> SUBSET Names]
  /\ Identity \subseteq Providers /\ (Identity # {} => Multi)
  /\ Validated \subseteq Providers \ Identity
  /\ {HasPreparation, HasAutomaticShape, HasOnAttach, AsyncWhileAttached,
      NeedsPointerSize} \subseteq BOOLEAN
  /\ Lifetimes \in Nat /\ Lifetimes > 1
  /\ None \notin Instances \cup Names \cup Nat

ATTACH_NONE     == 0
ATTACH_READY    == 1
ATTACH_REJECTED == 2
ATTACH_PREPARED == 3

VARIABLES
  \* the host
  running,             \* instances that are alive
  mapped,              \* emulator instances whose guest memory is mapped
  handles,             \* instances whose process handle the module holds
  tick_rate,           \* the cadence last requested: "attached" or "detached"
  \* globals of the generated module
  process, process_name, pointer_size,
  provider_value, provider_frame, selected,
  preparation_frame, preparation_value,
  attachment_globals, attach_ready, state_ready, current, async_frame,
  \* the update in progress, and ghosts
  pc,
  lifetime,            \* label of the present attachment lifetime
  script,              \* what the callbacks have told the script so far
  owed                 \* completed attachments whose onDetach has not run

host      == <<running, mapped, handles, tick_rate>>
acquired  == <<process, process_name, pointer_size>>
provider  == <<provider_value, provider_frame, selected>>
prepared  == <<preparation_frame, preparation_value>>
lifecycle == <<attach_ready, state_ready, current, async_frame, attachment_globals>>
ghosts    == <<lifetime, script, owed>>
vars == <<host, acquired, provider, prepared, lifecycle, pc, ghosts>>

Lives  == 0 .. Lifetimes - 1
Tags   == Lives \cup {None}
Frames == [owner : {"onAttach", "whileAttached"}, life : Lives]
NoFrame == [owner |-> "none", life |-> None]

-----------------------------------------------------------------------------
Init ==
  /\ running \in SUBSET Instances
  /\ mapped \in SUBSET running
  /\ handles = {}
  /\ tick_rate = "detached"
  /\ process = None /\ process_name = None /\ pointer_size = None
  /\ provider_value = [i \in Providers |-> None]
  /\ provider_frame = [i \in Providers |-> None]
  /\ selected = None
  /\ preparation_frame = None /\ preparation_value = None
  /\ attach_ready = ATTACH_NONE /\ state_ready = FALSE
  /\ current = None /\ async_frame = NoFrame /\ attachment_globals = None
  /\ pc = "host"
  /\ lifetime = 0 /\ script = "idle" /\ owed = 0

-----------------------------------------------------------------------------
(* The world outside the script. *)

\* A model value stands for a later instance once no handle refers to it.
StartProcess(p) ==
  /\ p \notin running /\ p \notin handles
  /\ running' = running \cup {p}
  /\ UNCHANGED <<mapped, handles, tick_rate, acquired, provider, prepared,
                 lifecycle, pc, ghosts>>

ExitProcess(p) ==
  /\ p \in running
  /\ running' = running \ {p}
  /\ mapped' = mapped \ {p}
  /\ UNCHANGED <<handles, tick_rate, acquired, provider, prepared, lifecycle,
                 pc, ghosts>>

\* An emulator maps or unmaps its guest memory while the process stays open.
ChangeMapping(p) ==
  /\ p \in running
  /\ mapped' = IF p \in mapped THEN mapped \ {p} ELSE mapped \cup {p}
  /\ UNCHANGED <<running, handles, tick_rate, acquired, provider, prepared,
                 lifecycle, pc, ghosts>>

Environment ==
  \E p \in Instances : StartProcess(p) \/ ExitProcess(p) \/ ChangeMapping(p)

-----------------------------------------------------------------------------
(* Acquiring the process. *)

Return == pc' = "host"

BeginUpdate ==
  /\ pc = "host"
  /\ pc' = IF process = None THEN "acquire" ELSE "open"
  /\ UNCHANGED <<host, acquired, provider, prepared, lifecycle, ghosts>>

\* A declared name resolves to a live instance, and selectProcess accepts it.
Acquire(p) ==
  /\ pc = "acquire" /\ p \in running
  /\ handles' = handles \cup {p}
  /\ process' = p /\ process_name' = NameOf[p]
  /\ tick_rate' = IF Providers = {} THEN "attached" ELSE tick_rate
  /\ pc' = "open"
  /\ UNCHANGED <<running, mapped, pointer_size, provider, prepared, lifecycle,
                 ghosts>>

\* No declared name is running, or every candidate was rejected.
AcquireNothing ==
  /\ pc = "acquire"
  /\ Return
  /\ UNCHANGED <<host, acquired, provider, prepared, lifecycle, ghosts>>

-----------------------------------------------------------------------------
(* Ending an attachment: emit_attachment_teardown. *)

NextLifetime == IF lifetime + 1 = Lifetimes THEN 0 ELSE lifetime + 1

DetachProcess ==
  /\ handles' = handles \ {process}
  /\ process' = None /\ process_name' = None /\ pointer_size' = None

ClearProviders ==
  /\ provider_value' = [i \in Providers |-> None]
  /\ provider_frame' = [i \in Providers |-> None]
  /\ selected' = None

\* Fault: the attachment-scoped globals are not cleared.
ClearAttachmentKeepingGlobals ==
  /\ ClearProviders
  /\ preparation_frame' = None /\ preparation_value' = None
  /\ attach_ready' = ATTACH_NONE /\ state_ready' = FALSE /\ async_frame' = NoFrame
  /\ UNCHANGED <<attachment_globals, current>>

ClearAttachment ==
  /\ ClearProviders
  /\ preparation_frame' = None /\ preparation_value' = None
  /\ attachment_globals' = None
  /\ attach_ready' = ATTACH_NONE /\ state_ready' = FALSE
  /\ async_frame' = IF HasOnAttach \/ AsyncWhileAttached THEN NoFrame ELSE async_frame
  /\ UNCHANGED current

\* Fault: the cadence of the attachment stays.
TeardownKeepingCadence ==
  /\ ClearAttachment
  /\ lifetime' = NextLifetime
  /\ script' = IF attach_ready = ATTACH_READY THEN "idle" ELSE script
  /\ owed' = IF attach_ready = ATTACH_READY THEN owed - 1 ELSE owed
  /\ Return
  /\ UNCHANGED tick_rate

\* Fault: onDetach runs only once a snapshot was published.
TeardownOfPublished ==
  /\ ClearAttachment
  /\ tick_rate' = "detached"
  /\ lifetime' = NextLifetime
  /\ script' = IF state_ready THEN "idle" ELSE script
  /\ owed' = IF state_ready THEN owed - 1 ELSE owed
  /\ Return

\* onDetach runs when the attachment that ends had completed.
Teardown ==
  /\ ClearAttachment
  /\ tick_rate' = "detached"
  /\ lifetime' = NextLifetime
  /\ script' = IF attach_ready = ATTACH_READY THEN "idle" ELSE script
  /\ owed' = IF attach_ready = ATTACH_READY THEN owed - 1 ELSE owed
  /\ Return

ProcessClosed ==
  /\ pc = "open" /\ process \notin running
  /\ DetachProcess
  /\ Teardown
  /\ UNCHANGED <<running, mapped>>

\* The process is open; its pointer width is known, not needed, or found now.
ProcessOpen ==
  /\ pc = "open" /\ process \in running
  /\ pointer_size' = IF NeedsPointerSize THEN process ELSE pointer_size
  /\ pc' = IF Providers = {} THEN "prepare" ELSE "discover"
  /\ UNCHANGED <<host, process, process_name, provider, prepared, lifecycle, ghosts>>

PointerSizeUnknown ==
  /\ pc = "open" /\ process \in running
  /\ NeedsPointerSize /\ pointer_size = None
  /\ Return
  /\ UNCHANGED <<host, acquired, provider, prepared, lifecycle, ghosts>>

-----------------------------------------------------------------------------
(* Discovering the provider and preparing it. *)

Chosen == IF Multi THEN selected ELSE 1

\* A provider future is created in this poll, or continues; the cadence is
\* raised before it starts.
Started(i) == IF provider_frame[i] = None THEN lifetime ELSE provider_frame[i]

DiscoveryPending ==
  /\ pc = "discover" /\ ~Multi /\ provider_value[1] = None
  /\ \E polled \in {Started(1), None} :       \* None: completed, but unavailable
       provider_frame' = [provider_frame EXCEPT ![1] = polled]
  /\ tick_rate' = IF provider_frame[1] = None THEN "attached" ELSE tick_rate
  /\ Return
  /\ UNCHANGED <<running, mapped, handles, acquired, provider_value, selected,
                 prepared, lifecycle, ghosts>>

DiscoveryComplete ==
  /\ pc = "discover" /\ ~Multi /\ provider_value[1] = None
  /\ process \in mapped
  /\ provider_value' = [provider_value EXCEPT ![1] = Started(1)]
  /\ provider_frame' = [provider_frame EXCEPT ![1] = None]
  /\ tick_rate' = IF provider_frame[1] = None THEN "attached" ELSE tick_rate
  /\ pc' = "validate"
  /\ UNCHANGED <<running, mapped, handles, acquired, selected, prepared,
                 lifecycle, ghosts>>

\* The alternatives of this process are polled in order until one is selected.
Eligible == {i \in Providers : process_name \in Accepts[i]}

Polled(winner) ==
  {i \in Eligible \ Identity : winner # None => i <= winner}

Completes(i) ==
  /\ i \in Eligible
  /\ i \notin Identity => process \in mapped
  /\ \A j \in Eligible \cap Identity : i <= j

DiscoverAlternatives(winner) ==
  /\ pc = "discover" /\ Multi /\ selected = None
  /\ IF winner = None THEN Eligible \cap Identity = {} ELSE Completes(winner)
  /\ provider_frame' = [i \in Providers |->
       IF i = winner THEN None
       ELSE IF i \in Polled(winner) THEN Started(i) ELSE provider_frame[i]]
  /\ provider_value' = [i \in Providers |->
       IF i = winner /\ i \notin Identity THEN Started(i) ELSE provider_value[i]]
  /\ selected' = winner
  /\ tick_rate' = IF \/ winner \in Identity
                     \/ \E i \in Polled(winner) : provider_frame[i] = None
                    THEN "attached" ELSE tick_rate
  /\ pc' = IF winner = None THEN "host" ELSE "validate"
  /\ UNCHANGED <<running, mapped, handles, acquired, prepared, lifecycle, ghosts>>

\* One provider has one future; of alternatives one wins.
Discover(winner) ==
  IF Multi THEN DiscoverAlternatives(winner)
  ELSE IF winner = None THEN DiscoveryPending ELSE DiscoveryComplete

AlreadyDiscovered ==
  /\ pc = "discover"
  /\ IF Multi THEN selected # None ELSE provider_value[1] # None
  /\ pc' = "validate"
  /\ UNCHANGED <<host, acquired, provider, prepared, lifecycle, ghosts>>

\* Fault: a rejected attachment is validated too.
MappingLostWhenRejected ==
  /\ pc = "validate"
  /\ Chosen \in Validated /\ process \notin mapped
  /\ Teardown
  /\ UNCHANGED <<running, mapped, handles, acquired>>

\* The mapping of an attachment that is not rejected has disappeared.
MappingLost ==
  /\ pc = "validate"
  /\ Chosen \in Validated /\ attach_ready # ATTACH_REJECTED
  /\ process \notin mapped
  /\ Teardown
  /\ UNCHANGED <<running, mapped, handles, acquired>>

\* Fault: the provider is validated only until the attachment completes.
MappingValidOnceReady ==
  /\ pc = "validate"
  /\ Chosen \in Validated /\ attach_ready = ATTACH_NONE => process \in mapped
  /\ pc' = "prepare"
  /\ UNCHANGED <<host, acquired, provider, prepared, lifecycle, ghosts>>

MappingValid ==
  /\ pc = "validate"
  /\ Chosen \in Validated /\ attach_ready # ATTACH_REJECTED => process \in mapped
  /\ pc' = "prepare"
  /\ UNCHANGED <<host, acquired, provider, prepared, lifecycle, ghosts>>

Preparing == HasPreparation /\ preparation_value = None

PreparationPending ==
  /\ pc = "prepare" /\ Preparing
  /\ preparation_frame' =
       IF preparation_frame = None THEN lifetime ELSE preparation_frame
  /\ Return
  /\ UNCHANGED <<host, acquired, provider, preparation_value, lifecycle, ghosts>>

PreparationComplete ==
  /\ pc = "prepare" /\ Preparing
  /\ preparation_value' =
       IF preparation_frame = None THEN lifetime ELSE preparation_frame
  /\ preparation_frame' = None
  /\ pc' = "attach"
  /\ UNCHANGED <<host, acquired, provider, lifecycle, ghosts>>

PreparationDone ==
  /\ pc = "prepare" /\ ~Preparing
  /\ pc' = "attach"
  /\ UNCHANGED <<host, acquired, provider, prepared, lifecycle, ghosts>>

-----------------------------------------------------------------------------
(* Completing the attachment. *)

BecomeReady ==
  /\ attach_ready' = ATTACH_READY
  /\ script' = "attached"
  /\ owed' = owed + 1
  /\ UNCHANGED lifetime

\* No layout matches, or the matching one sets the discovered enum globals.
ShapeRejected ==
  /\ pc = "attach" /\ HasAutomaticShape /\ attach_ready = ATTACH_NONE
  /\ attach_ready' = ATTACH_REJECTED
  /\ Return
  /\ UNCHANGED <<host, acquired, provider, prepared, state_ready, current,
                 async_frame, attachment_globals, ghosts>>

ShapeSelected ==
  /\ pc = "attach" /\ HasAutomaticShape /\ attach_ready = ATTACH_NONE
  /\ attachment_globals' = lifetime
  /\ IF HasOnAttach
       THEN attach_ready' = ATTACH_PREPARED /\ UNCHANGED ghosts
       ELSE BecomeReady
  /\ UNCHANGED <<host, acquired, provider, prepared, state_ready, current,
                 async_frame, pc>>

\* The continuation that a poll of an asynchronous action resumes, or starts.
Resumed(action) ==
  IF async_frame = NoFrame THEN [owner |-> action, life |-> lifetime] ELSE async_frame

OnAttachDue ==
  /\ pc = "attach" /\ HasOnAttach
  /\ attach_ready = IF HasAutomaticShape THEN ATTACH_PREPARED ELSE ATTACH_NONE

OnAttachPending ==
  /\ OnAttachDue
  /\ async_frame' = Resumed("onAttach")
  /\ attachment_globals' \in {attachment_globals, lifetime}
  /\ Return
  /\ UNCHANGED <<host, acquired, provider, prepared, attach_ready, state_ready,
                 current, ghosts>>

\* `throw` or postfix `?` in onAttach, or a managed field its shape lacks.
OnAttachRejected ==
  /\ OnAttachDue
  /\ async_frame' = Resumed("onAttach")
  /\ attachment_globals' \in {attachment_globals, lifetime}
  /\ attach_ready' = ATTACH_REJECTED
  /\ Return
  /\ UNCHANGED <<host, acquired, provider, prepared, state_ready, current, ghosts>>

\* Fault: the finished continuation is left in the frame.
OnAttachCompleteKeepingFrame ==
  /\ OnAttachDue
  /\ async_frame' = Resumed("onAttach")
  /\ attachment_globals' \in {attachment_globals, lifetime}
  /\ BecomeReady
  /\ UNCHANGED <<host, acquired, provider, prepared, state_ready, current, pc>>

OnAttachComplete ==
  /\ OnAttachDue
  /\ async_frame' = IF AsyncWhileAttached THEN NoFrame ELSE Resumed("onAttach")
  /\ attachment_globals' \in {attachment_globals, lifetime}
  /\ BecomeReady
  /\ UNCHANGED <<host, acquired, provider, prepared, state_ready, current, pc>>

NothingToAttach ==
  /\ pc = "attach" /\ ~HasAutomaticShape /\ ~HasOnAttach
  /\ attach_ready # ATTACH_READY
  /\ BecomeReady
  /\ UNCHANGED <<host, acquired, provider, prepared, state_ready, current,
                 async_frame, attachment_globals, pc>>

\* A rejected process is kept, and does nothing, until it closes.
AttachSettled ==
  /\ pc = "attach" /\ attach_ready \in {ATTACH_READY, ATTACH_REJECTED}
  /\ pc' = IF attach_ready = ATTACH_READY THEN "snapshot" ELSE "host"
  /\ UNCHANGED <<host, acquired, provider, prepared, lifecycle, ghosts>>

\* The update goes past `onAttach`.
Settle == IF attach_ready = ATTACH_NONE THEN NothingToAttach ELSE AttachSettled

-----------------------------------------------------------------------------
(* Publishing snapshots and running the attached script. *)

SnapshotAbandoned ==
  /\ pc = "snapshot"
  /\ Return
  /\ UNCHANGED <<host, acquired, provider, prepared, lifecycle, ghosts>>

\* Fault: the update goes on after the first snapshot.
SnapshotCommittedGoesOn ==
  /\ pc = "snapshot"
  /\ current' \in {lifetime} \cup (IF state_ready THEN {current} ELSE {})
  /\ state_ready' = TRUE
  /\ pc' = "run"
  /\ script' = "ready"
  /\ UNCHANGED <<host, acquired, provider, prepared, attach_ready, async_frame,
                 attachment_globals, lifetime, owed>>

\* Before the first snapshot every field is read; afterwards a field that
\* cannot be read keeps the value of `current`.
SnapshotCommitted ==
  /\ pc = "snapshot"
  /\ current' \in {lifetime} \cup (IF state_ready THEN {current} ELSE {})
  /\ state_ready' = TRUE
  /\ IF state_ready
       THEN pc' = "run" /\ UNCHANGED script
       ELSE Return /\ script' = "ready"
  /\ UNCHANGED <<host, acquired, provider, prepared, attach_ready, async_frame,
                 attachment_globals, lifetime, owed>>

WhileAttachedPending ==
  /\ pc = "run" /\ AsyncWhileAttached
  /\ async_frame' = Resumed("whileAttached")
  /\ Return
  /\ UNCHANGED <<host, acquired, provider, prepared, attach_ready, state_ready,
                 current, attachment_globals, ghosts>>

\* whileAttached completes; the timer decisions follow (TimerMonitor).
WhileAttachedComplete ==
  /\ pc = "run"
  /\ async_frame' = IF AsyncWhileAttached THEN NoFrame ELSE async_frame
  /\ Return
  /\ UNCHANGED <<host, acquired, provider, prepared, attach_ready, state_ready,
                 current, attachment_globals, ghosts>>

-----------------------------------------------------------------------------
Acquisition ==
  \/ BeginUpdate \/ AcquireNothing \/ \E p \in Instances : Acquire(p)
  \/ ProcessClosed \/ ProcessOpen \/ PointerSizeUnknown

Discovery ==
  \/ AlreadyDiscovered \/ \E winner \in Providers \cup {None} : Discover(winner)
  \/ MappingLost \/ MappingValid
  \/ PreparationPending \/ PreparationComplete \/ PreparationDone

Completion ==
  \/ ShapeRejected \/ ShapeSelected
  \/ OnAttachPending \/ OnAttachRejected \/ OnAttachComplete
  \/ Settle

Attached ==
  \/ SnapshotAbandoned \/ SnapshotCommitted
  \/ WhileAttachedPending \/ WhileAttachedComplete

Update == Acquisition \/ Discovery \/ Completion \/ Attached

Next == Environment \/ Update

\* The runtime calls `update` again and again, and a call always returns.
Spec == Init /\ [][Next]_vars /\ WF_vars(Update)

-----------------------------------------------------------------------------
(* Properties. *)

TypeOK ==
  /\ running \subseteq Instances /\ mapped \subseteq running
  /\ handles \subseteq Instances
  /\ tick_rate \in {"attached", "detached"}
  /\ process \in Instances \cup {None}
  /\ process_name \in Names \cup {None}
  /\ pointer_size \in Instances \cup {None}
  /\ provider_value \in [Providers -> Tags]
  /\ provider_frame \in [Providers -> Tags]
  /\ selected \in Providers \cup {None}
  /\ preparation_frame \in Tags /\ preparation_value \in Tags
  /\ attachment_globals \in Tags
  /\ attach_ready \in {ATTACH_NONE, ATTACH_READY, ATTACH_REJECTED, ATTACH_PREPARED}
  /\ state_ready \in BOOLEAN /\ current \in Tags
  /\ async_frame \in Frames \cup {NoFrame}
  /\ pc \in {"host", "acquire", "open", "discover", "validate", "prepare",
             "attach", "snapshot", "run"}
  /\ lifetime \in Lives
  /\ script \in {"idle", "attached", "ready"}
  /\ owed \in {0, 1}

Own(tag) == tag \in {None, lifetime}

\* Nothing an attachment owns outlives it: after a teardown, every future,
\* provider value, binding, attachment-scoped global and published snapshot
\* belongs to the present lifetime (emit_attachment_teardown clears it all,
\* except `current` and `old`, which state_ready hides).
NothingOutlivesItsAttachment ==
  /\ \A i \in Providers : Own(provider_value[i]) /\ Own(provider_frame[i])
  /\ Own(preparation_frame) /\ Own(preparation_value)
  /\ Own(attachment_globals) /\ Own(async_frame.life)
  /\ state_ready => current = lifetime

\* The module holds the handle of its process and no other, and the name and
\* pointer width it remembers are that process's.
HoldsOneProcess ==
  /\ handles = IF process = None THEN {} ELSE {process}
  /\ process_name = IF process = None THEN None ELSE NameOf[process]
  /\ pointer_size \in {None, process}

\* onAttach and whileAttached share one continuation frame, so neither may
\* ever be polled while the frame still holds the other one's continuation.
ContinuationHasOneOwner ==
  /\ async_frame.owner = "onAttach" =>
       attach_ready # ATTACH_READY \/ ~AsyncWhileAttached
  /\ async_frame.owner = "whileAttached" =>
       AsyncWhileAttached /\ attach_ready = ATTACH_READY /\ state_ready

\* Between updates the cadence is the detached one unless something is
\* attached or being discovered, and then it is the attached one.
CadenceFollowsAttachment ==
  pc = "host" =>
    /\ process = None => tick_rate = "detached"
    /\ \/ Providers = {} /\ process # None
       \/ \E i \in Providers : provider_frame[i] # None
       \/ attach_ready # ATTACH_NONE
       => tick_rate = "attached"

RejectedStep ==
  attach_ready = ATTACH_REJECTED =>
    \/ attach_ready' = ATTACH_REJECTED /\ UNCHANGED <<process, process_name, async_frame>>
    \/ process' = None /\ process \notin running

\* A rejected process is retained, inert, until it closes: it is neither
\* retried nor given up while it runs.
RejectedUntilClosed == [][RejectedStep]_vars

\* An attachment whose validated mapping is gone for good ends, with its
\* onDetach, even though the host process stays open.
LostMappingEndsAttachment ==
  (owed = 1 /\ Chosen \in Validated /\ process \notin mapped)
    ~> (owed = 0 \/ process \in mapped)

\* The attachment protocol the script sees is the promised one.
Protocol == INSTANCE AttachmentProtocol WITH
  stage <- IF attach_ready = ATTACH_REJECTED THEN "rejected" ELSE script

ImplementsProtocol == Protocol!Spec
=============================================================================
