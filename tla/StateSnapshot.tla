---------------------------- MODULE StateSnapshot ----------------------------
(***************************************************************************)
(* The snapshot half of the generated `update`: polling the state fields   *)
(* into a candidate, retaining what could not be read, sharing managed     *)
(* static reads, and publishing the candidate as `current` with the        *)
(* snapshot before it as `old`.                                            *)
(*                                                                         *)
(* Snapshots are mutable structs behind references, so `current`, `old`    *)
(* and the candidate name objects of a heap and may be the same object.    *)
(* The fields are those of one attachment: what its providers and its      *)
(* attachment-wide shape globals select is fixed for all of it.            *)
(***************************************************************************)
EXTENDS Naturals, Sequences

CONSTANTS
  Fields,            \* the state fields
  Order,             \* the fields in state_dependency_order
  Dependencies,      \* Dependencies[f]: the fields its source, its filter and its predicate read
  Storage,           \* Storage[f]: its slot; compatible conditional fields share one
  Discriminators,    \* the enum fields that conditional groups test
  Conditional,       \* the fields of conditional groups
  Alternatives,      \* Alternatives[f]: the assignments of the discriminators under which f exists
  Filtered,          \* the fields with a filter
  Statics,           \* managed static fields
  ReadsStatic,       \* ReadsStatic[f]: the managed static f is read through, or NoStatic
  NoStatic,
  Values, Variants,  \* what fields and discriminators may hold
  Default,           \* the backend default of a slot: zero or null, never read by anyone
  Nothing,           \* what the script sees of snapshots when there is none
  Failed, Unread,    \* a failed read, and a read not made
  Assignable,        \* the fields the script assigns through `current`
  AssignsWhenReady   \* it does so in onStateReady too

Slots     == {Storage[f] : f \in Fields}
Contents  == Values \cup Variants \cup {Default}
Snapshots == [Slots -> Contents]
Objects   == 1..3

\* The shape predicate of f on a snapshot.  Unconditional fields always exist.
Holds(f, s) ==
  f \in Conditional =>
    \E a \in Alternatives[f] : \A d \in Discriminators : s[Storage[d]] = a[d]

\* Evaluating it reads every discriminator it names, and a null one traps.
Undefined(f, s) == Alternatives[f] # {} /\ \E d \in Discriminators : s[Storage[d]] = Default

\* Readable(f): what its memory may hold.
Readable(f) == IF f \in Discriminators THEN Variants ELSE Values

Before(f) == {Order[i] : i \in {j \in 1..Len(Order) : \E k \in j+1..Len(Order) : Order[k] = f}}

ASSUME ConstantsAssumption ==
  /\ Order \in Seq(Fields) /\ \A f \in Fields : \E i \in 1..Len(Order) : Order[i] = f
  /\ \A i, j \in 1..Len(Order) : Order[i] = Order[j] => i = j
  /\ Dependencies \in [Fields -> SUBSET Fields] /\ DOMAIN Storage = Fields
  /\ \A f \in Fields : Dependencies[f] \subseteq Before(f)
  /\ Discriminators \subseteq Fields /\ Conditional \subseteq Fields \ Discriminators
  /\ Alternatives \in [Conditional -> SUBSET [Discriminators -> Variants]]
  /\ \A f \in Conditional : Discriminators \subseteq Dependencies[f]
  /\ \A f \in Fields : \A d \in Dependencies[f] \cap Conditional :
       f \in Conditional /\ Alternatives[f] \subseteq Alternatives[d]
  /\ \A f, g \in Fields : f # g /\ Storage[f] = Storage[g] =>
       {f, g} \subseteq Conditional /\ Alternatives[f] \cap Alternatives[g] = {}
  /\ Filtered \subseteq Fields \ Discriminators /\ Assignable \subseteq Fields
  /\ ReadsStatic \in [Fields \ Discriminators -> Statics \cup {NoStatic}] /\ NoStatic \notin Statics
  /\ {Default, Failed, Unread} \cap (Values \cup Variants) = {}
  /\ Default # Failed /\ Default # Unread /\ Failed # Unread
  /\ Nothing \notin Snapshots
  /\ AssignsWhenReady \in BOOLEAN

VARIABLES
  heap,             \* the contents of the snapshot structs
  current, old, state_ready,
  candidate_state,  \* the struct being filled
  next,             \* index in Order of the next field to poll
  poll_result,      \* poll_result[f]: what polling f gave in this update
  active,           \* the managed read cache is in use
  cache,            \* cache[m]: the read result its slot holds
  host_reads,       \* ghost: host_reads[m], the results the host returned for m in this poll
  pc                \* "host", "poll", "onStateReady", "attached" or "trap"

globals      == <<current, old, state_ready>>
reads        == <<active, cache, host_reads>>
snapshotVars == <<heap, globals, candidate_state, next, poll_result, reads, pc>>

Blank == [x \in Slots |-> Default]

\* emit_initial_state gives `current` and `old` a struct of defaults each.
SnapshotInit ==
  /\ heap = [o \in Objects |-> Blank]
  /\ current = 1 /\ old = 2 /\ state_ready = FALSE
  /\ candidate_state = 1 /\ next = 1
  /\ poll_result = [f \in Fields |-> Unread]
  /\ active = FALSE /\ cache = [m \in Statics |-> Unread]
  /\ host_reads = [m \in Statics |-> {}]
  /\ pc = "host"

Candidate == heap[candidate_state]

\* The update returns: its locals, the reference to the candidate among them, are gone.
Return ==
  /\ pc' = "host"
  /\ next' = 1 /\ candidate_state' = current
  /\ poll_result' = [f \in Fields |-> Unread]
  /\ host_reads' = [m \in Statics |-> {}]

-----------------------------------------------------------------------------
(* The attachment: it ends between two updates, and leaves both snapshots.   *)

Teardown ==
  /\ pc = "host" /\ state_ready
  /\ state_ready' = FALSE
  /\ UNCHANGED <<heap, current, old, candidate_state, next, poll_result, reads, pc>>

-----------------------------------------------------------------------------
(* Polling.                                                                  *)

\* Fault: the slots of the last poll are left.
KeepReads == UNCHANGED cache

ClearReads == cache' = [m \in Statics |-> Unread]

BeginPoll ==
  /\ pc = "host" /\ pc' = "poll"
  /\ active' = TRUE /\ ClearReads
  /\ candidate_state' = CHOOSE o \in Objects : o \notin {current, old}
  /\ heap' = [heap EXCEPT ![candidate_state'] = Blank]
  /\ UNCHANGED <<globals, next, poll_result, host_reads>>

\* The result of a managed static read that ends in `r`: cached ones are not
\* repeated within a poll, and the slot is written in any case.
StaticRead(m, r) ==
  IF active /\ cache[m] # Unread
    THEN r = cache[m] /\ UNCHANGED cache
    ELSE r \in Values \cup {Failed} /\ cache' = [cache EXCEPT ![m] = r]

RawRead(f, r) ==
  IF f \notin Discriminators /\ ReadsStatic[f] # NoStatic
    THEN StaticRead(ReadsStatic[f], r)
    ELSE r \in Readable(f) \cup {Failed} /\ UNCHANGED cache

\* Fault: a field is read whatever became of its dependencies.
PollAnyway(f, r) ==
  /\ pc = "poll" /\ next <= Len(Order) /\ f = Order[next] /\ Holds(f, Candidate)
  /\ RawRead(f, r)

\* A field with an unavailable dependency is not read; a failed read bypasses
\* the filter, and the filter may reject what was read.
Poll(f, r) ==
  /\ pc = "poll" /\ next <= Len(Order) /\ f = Order[next] /\ Holds(f, Candidate)
  /\ IF \E d \in Dependencies[f] : poll_result[d] = Failed
       THEN r = Failed /\ UNCHANGED cache
       ELSE \E raw \in Readable(f) \cup {Failed} :
              RawRead(f, raw) /\ (r = raw \/ (f \in Filtered /\ r = Failed))

\* The poll goes on with `v` in the slot of `f`.
Proceed(f, r, v) ==
  /\ heap' = [heap EXCEPT ![candidate_state][Storage[f]] = v]
  /\ poll_result' = [poll_result EXCEPT ![f] = r]
  /\ next' = next + 1
  /\ host_reads' = IF cache' = cache THEN host_reads
       ELSE [host_reads EXCEPT ![ReadsStatic[f]] = @ \cup {cache'[ReadsStatic[f]]}]
  /\ UNCHANGED <<globals, candidate_state, active, pc>>

FieldAccepted(f) == \E r \in Readable(f) : Poll(f, r) /\ Proceed(f, r, r)

\* Whether a failure gives up the whole candidate.  Both halves are evaluated,
\* so the predicate reads `current` before there is a first snapshot as well.
TrapsOnFailure(f)    == f \in Conditional /\ Undefined(f, heap[current])

\* Fault: a field that has just come into existence is retained.
AbandonsBeforeReady(f) == ~state_ready

AbandonsOnFailure(f) == ~state_ready \/ ~Holds(f, heap[current])

FieldRetained(f) ==
  /\ Poll(f, Failed) /\ ~TrapsOnFailure(f) /\ ~AbandonsOnFailure(f)
  /\ Proceed(f, Failed, heap[current][Storage[f]])

Abandon ==
  /\ active' = FALSE
  /\ Return /\ heap' = [heap EXCEPT ![candidate_state] = Blank]
  /\ UNCHANGED globals

SnapshotAbandoned(f) ==
  Poll(f, Failed) /\ ~TrapsOnFailure(f) /\ AbandonsOnFailure(f) /\ Abandon

FieldTraps(f) ==
  /\ Poll(f, Failed) /\ TrapsOnFailure(f)
  /\ pc' = "trap"
  /\ UNCHANGED <<heap, globals, candidate_state, next, poll_result, active, host_reads>>

\* A conditional field of another shape is left out of the candidate.
FieldSkipped ==
  /\ pc = "poll" /\ next <= Len(Order) /\ ~Holds(Order[next], Candidate)
  /\ next' = next + 1
  /\ UNCHANGED <<heap, globals, candidate_state, poll_result, reads, pc>>

-----------------------------------------------------------------------------
(* Publishing.                                                               *)

Polled == pc = "poll" /\ next > Len(Order)

\* Fault: `old` keeps the snapshot it had.
SetCurrentOnly == current' = candidate_state /\ UNCHANGED old

SetBoth == current' = candidate_state /\ old' = candidate_state

PublishFirst ==
  /\ Polled /\ ~state_ready
  /\ SetBoth /\ state_ready' = TRUE
  /\ heap' = [o \in Objects |-> IF o = candidate_state THEN Candidate ELSE Blank]
  /\ active' = FALSE /\ pc' = "onStateReady"
  /\ UNCHANGED <<candidate_state, next, poll_result, cache, host_reads>>

\* The slots of conditional fields that the candidate has and `current` has not
\* are seeded in `current`, which becomes `old`.
Activated(s, t) ==
  {Storage[f] : f \in {g \in Conditional : Holds(g, t) /\ ~Holds(g, s)}}

Seeded(s, t) == [x \in Slots |-> IF x \in Activated(s, t) THEN t[x] ELSE s[x]]

Rotate ==
  /\ Polled /\ state_ready
  /\ old' = current /\ current' = candidate_state
  /\ heap' = [o \in Objects |->
       CASE o = current         -> Seeded(heap[current], Candidate)
         [] o = candidate_state -> Candidate
         [] OTHER               -> Blank]       \* `old`, unless it is `current`, is garbage
  /\ active' = FALSE /\ pc' = "attached"
  /\ UNCHANGED <<state_ready, candidate_state, next, poll_result, cache, host_reads>>

-----------------------------------------------------------------------------
(* The script: onStateReady after the first snapshot, whileAttached and the  *)
(* decisions after every other.                                              *)

\* `current.f = v`, for a field that exists in the present shape.
Assign(f) ==
  /\ pc = "attached" \/ (pc = "onStateReady" /\ AssignsWhenReady)
  /\ f \in Assignable /\ Holds(f, heap[current])
  /\ \E v \in Readable(f) : heap' = [heap EXCEPT ![current][Storage[f]] = v]
  /\ UNCHANGED <<globals, candidate_state, next, poll_result, reads, pc>>

\* A managed static read by a callback: outside a poll it is made afresh.
ScriptReads(m) ==
  /\ pc \in {"host", "onStateReady", "attached"}
  /\ \E r \in Values \cup {Failed} : StaticRead(m, r)
  /\ UNCHANGED <<heap, globals, candidate_state, next, poll_result, active, host_reads, pc>>

EndUpdate ==
  /\ pc \in {"onStateReady", "attached"} /\ Return
  /\ UNCHANGED <<heap, globals, active, cache>>

-----------------------------------------------------------------------------

PollStep ==
  \/ \E f \in Fields : \/ FieldAccepted(f) \/ FieldRetained(f)
                       \/ SnapshotAbandoned(f) \/ FieldTraps(f)
  \/ FieldSkipped \/ PublishFirst \/ Rotate

ScriptStep ==
  \/ \E f \in Fields : Assign(f)
  \/ \E m \in Statics : ScriptReads(m)
  \/ EndUpdate

SnapshotNext == Teardown \/ BeginPoll \/ PollStep \/ ScriptStep

SnapshotSpec == SnapshotInit /\ [][SnapshotNext]_snapshotVars

-----------------------------------------------------------------------------
(* Properties.                                                               *)

SnapshotTypeOK ==
  /\ heap \in [Objects -> Snapshots]
  /\ current \in Objects /\ old \in Objects /\ candidate_state \in Objects
  /\ state_ready \in BOOLEAN /\ active \in BOOLEAN
  /\ next \in 1..Len(Order)+1
  /\ poll_result \in [Fields -> Values \cup Variants \cup {Failed, Unread}]
  /\ cache \in [Statics -> Values \cup {Failed, Unread}]
  /\ host_reads \in [Statics -> SUBSET (Values \cup {Failed})]
  /\ pc \in {"host", "poll", "onStateReady", "attached", "trap"}

ScriptRuns == pc \in {"onStateReady", "attached"}

\* Action code never observes synthetic state: every field of the present shape
\* holds something that was read, in `current` and, so that no transition is
\* made up, in `old` too.
NoSyntheticState ==
  ScriptRuns => \A f \in Fields : Holds(f, heap[current]) =>
                  heap[current][Storage[f]] # Default /\ heap[old][Storage[f]] # Default

\* The first snapshot of an attachment is read whole: nothing in it was kept
\* from an earlier attachment, however its reads failed before.
FirstSnapshotIsRead ==
  pc = "onStateReady" =>
    \A f \in Fields : Holds(f, heap[current]) => poll_result[f] \notin {Failed, Unread}

\* A field is accepted only from a poll that accepted everything it depends on,
\* so it is never computed from a retained, and so possibly stale, value.
DependenciesAreFresh ==
  pc = "attached" => \A f \in Fields : poll_result[f] \notin {Failed, Unread} =>
    \A d \in Dependencies[f] : poll_result[d] \notin {Failed, Unread}

\* The host is asked at most once per poll for a managed static, in that poll,
\* and every field accepted through it holds what the host returned.
ReadsAgree ==
  pc = "poll" => \A f \in Fields \ Discriminators : \A m \in Statics :
    (ReadsStatic[f] = m /\ poll_result[f] \notin {Failed, Unread})
      => host_reads[m] = {poll_result[f]}

\* Cached reads are served only while a candidate is assembled: no callback can
\* see one, however the poll ended.
CacheIsClosed == active => pc \in {"poll", "trap"}

\* Initialisation waits for a poll in which every required field succeeds: a
\* failed one is abandoned, and the module lives on to poll again.
InitializationWaits == pc # "trap"

-----------------------------------------------------------------------------
(* Refinement: what the script sees, between two polls and during one.       *)

Seen(o) == IF state_ready THEN heap[o] ELSE Nothing

History == INSTANCE SnapshotHistory WITH
  Exists <- Holds, Transition <- Activated,
  current <- Seen(current), old <- Seen(old)

\* The script is given the snapshots SnapshotHistory promises: complete ones,
\* each the successor of the one that is then `old`.
ImplementsHistory == History!Spec
=============================================================================
