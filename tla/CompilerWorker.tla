--------------------------- MODULE CompilerWorker ---------------------------
(***************************************************************************)
(* The editor's compiler worker: the connection the extension holds        *)
(* (EmbeddedCompilerWorkerConnection), the worker that answers it and the  *)
(* staged compilation retained inside its Wasm service.                    *)
(*                                                                         *)
(* A compilation runs in three parts between which the worker yields, so a *)
(* cancellation or a newer compilation can overtake it.  The service keeps *)
(* one stage for all of them.  Who calls the connection is left open here: *)
(* after every event the caller may compile, cancel or do nothing          *)
(* (CompilerTasks says which).                                             *)
(***************************************************************************)
EXTENDS Integers, Sequences

CONSTANTS
  Sources,      \* the source snapshots that may be compiled
  NoSource,     \* what an answer without a response carries
  MaxRequests   \* bound on request ids

ASSUME WorkerAssumption ==
  /\ NoSource \notin Sources
  /\ MaxRequests \in Nat

Ids  == 1 .. MaxRequests
Absent == 0                       \* `undefined` where the code keeps an id

CompileMessage(i, s) == [kind |-> "compile", id |-> i, target |-> Absent, source |-> s]
CancelMessage(i, t)  == [kind |-> "cancel", id |-> i, target |-> t, source |-> NoSource]
Response(i, o, s)    == [id |-> i, outcome |-> o, source |-> s]

\* built and rejected are responses (with and without an artifact), the rest
\* are errors; ack answers a cancellation.
Outcomes == {"built", "rejected", "cancelled", "failed", "outOfOrder", "ack"}
Discarded == [level |-> "none", source |-> NoSource]

VARIABLES
  link,         \* the connection: its fields, and the messages posted to the worker
  alive,        \* the worker runs
  activeCompileId, cancelledCompiles,
  suspended,    \* for each compile: "idle", or the stage after which it yielded
  retained,     \* PENDING_COMPILATION of the service
  toHost        \* answers on their way

worker     == <<activeCompileId, cancelledCompiles, suspended, retained, toHost>>
workerVars == <<link, alive, worker>>

\* The connection as `create` returns it: `initialize` had id 1 and is answered.
\* `posted` is what each caller keeps of its request.
NewLink ==
  [nextRequestId |-> 2, activeCompileRequestId |-> Absent, cancellationRequested |-> FALSE,
   stopped |-> FALSE, pending |-> {}, posted |-> [i \in Ids |-> NoSource], outgoing |-> <<>>]

NoSuspended == [i \in Ids |-> "idle"]

WorkerInit ==
  /\ link = NewLink /\ alive = TRUE
  /\ activeCompileId = Absent /\ cancelledCompiles = {}
  /\ suspended = NoSuspended
  /\ retained = Discarded /\ toHost = <<>>

-----------------------------------------------------------------------------
(* The connection.  Each operator is one of its methods, on a value of `link`. *)

CanPost(k) == k.nextRequestId \in Ids        \* bound

\* `compile` does not look at `stopped`, `request` (of a cancellation) does.
Compile(k, s) ==
  [k EXCEPT !.nextRequestId = @ + 1,
            !.activeCompileRequestId = k.nextRequestId,
            !.cancellationRequested = FALSE,
            !.pending = @ \cup {k.nextRequestId},
            !.posted = [@ EXCEPT ![k.nextRequestId] = s],
            !.outgoing = Append(@, CompileMessage(k.nextRequestId, s))]

MayCancel(k) ==
  /\ k.activeCompileRequestId # Absent
  /\ ~k.cancellationRequested
  /\ ~k.stopped

CancelCurrent(k) ==
  IF MayCancel(k)
  THEN [k EXCEPT !.nextRequestId = @ + 1,
                 !.cancellationRequested = TRUE,
                 !.pending = @ \cup {k.nextRequestId},
                 !.outgoing = Append(@, CancelMessage(k.nextRequestId, k.activeCompileRequestId))]
  ELSE k

\* The promises of the requests I settle: `finally` of `compile`, and the caller
\* forgets what it asked for.
Release(k, I) ==
  LET own == k.activeCompileRequestId \in I
  IN [k EXCEPT !.pending = @ \ I,
               !.posted = [i \in Ids |-> IF i \in I THEN NoSource ELSE @[i]],
               !.activeCompileRequestId = IF own THEN Absent ELSE @,
               !.cancellationRequested = @ /\ ~own]

\* handleResponse, and the microtasks up to the caller of `compile`.
SettleRequest(k, i) ==
  IF i \in k.pending THEN Release(k, {i}) ELSE k

\* Fault: marks the connection and rejects nothing.
StopSilently(k) == [k EXCEPT !.stopped = TRUE]

\* `stop` rejects everything pending, once.
Stop(k) ==
  IF k.stopped THEN k ELSE [Release(k, k.pending) EXCEPT !.stopped = TRUE]

-----------------------------------------------------------------------------
(* The worker. *)

Superseded ==
  IF activeCompileId = Absent THEN cancelledCompiles ELSE cancelledCompiles \cup {activeCompileId}

\* The end of compileStaged for i and the answer of `handle`.
Finish(i, cancelled, outcome, source) ==
  /\ suspended' = [suspended EXCEPT ![i] = "idle"]
  /\ cancelledCompiles' = cancelled \ {i}
  /\ toHost' = Append(toHost, Response(i, outcome, source))

Received(kind) ==
  /\ alive
  /\ link.outgoing # <<>>
  /\ Head(link.outgoing).kind = kind
  /\ link' = [link EXCEPT !.outgoing = Tail(@)]

\* A compile message supersedes the compile that is active.  Analysis rejects
\* the source, or the service refuses the request, or a stage is retained.
ReceiveCompile ==
  /\ Received("compile")
  /\ LET message == Head(link.outgoing)
     IN \/ /\ activeCompileId' = message.id
           /\ cancelledCompiles' = Superseded
           /\ retained' = [level |-> "analyzed", source |-> message.source]
           /\ suspended' = [suspended EXCEPT ![message.id] = "analyzed"]
           /\ UNCHANGED toHost
        \/ /\ activeCompileId' = Absent
           /\ retained' = Discarded
           /\ \/ Finish(message.id, Superseded, "rejected", message.source)
              \/ Finish(message.id, Superseded, "failed", NoSource)
  /\ UNCHANGED alive

ReceiveCancel ==
  /\ Received("cancel")
  /\ LET message == Head(link.outgoing)
     IN /\ IF activeCompileId = message.target
           THEN /\ cancelledCompiles' = cancelledCompiles \cup {message.target}
                /\ retained' = Discarded
           ELSE UNCHANGED <<cancelledCompiles, retained>>
        /\ toHost' = Append(toHost, Response(message.id, "ack", NoSource))
  /\ UNCHANGED <<alive, activeCompileId, suspended>>

\* Fault: only a newer compile counts.
IsSuperseded(i) == activeCompileId # i

IsCancelled(i) == activeCompileId # i \/ i \in cancelledCompiles

Deactivate(i) == activeCompileId' = IF activeCompileId = i THEN Absent ELSE activeCompileId

\* The timer of a yield fires: throwIfCancelled, or the next stage.  The service
\* may report an error in either stage.
ThrowCancelled(i) ==
  /\ alive /\ suspended[i] # "idle"
  /\ IsCancelled(i)
  /\ Finish(i, cancelledCompiles, "cancelled", NoSource)
  /\ Deactivate(i)
  /\ UNCHANGED <<link, alive, retained>>

LowerCompile(i) ==
  /\ alive /\ suspended[i] = "analyzed"
  /\ ~IsCancelled(i)
  /\ IF retained.level = "analyzed"
     THEN \/ /\ retained' = [retained EXCEPT !.level = "lowered"]
             /\ suspended' = [suspended EXCEPT ![i] = "lowered"]
             /\ UNCHANGED <<activeCompileId, cancelledCompiles, toHost>>
          \/ /\ Finish(i, cancelledCompiles, "failed", NoSource)
             /\ Deactivate(i)
             /\ retained' = Discarded
     ELSE /\ Finish(i, cancelledCompiles, "outOfOrder", NoSource)
          /\ Deactivate(i)
          /\ UNCHANGED retained
  /\ UNCHANGED <<link, alive>>

FinishCompile(i) ==
  /\ alive /\ suspended[i] = "lowered"
  /\ ~IsCancelled(i)
  /\ IF retained.level = "lowered"
     THEN /\ \/ Finish(i, cancelledCompiles, "built", retained.source)
             \/ Finish(i, cancelledCompiles, "failed", NoSource)
          /\ retained' = Discarded
     ELSE /\ Finish(i, cancelledCompiles, "outOfOrder", NoSource)
          /\ UNCHANGED retained
  /\ Deactivate(i)
  /\ UNCHANGED <<link, alive>>

WorkerStep ==
  \/ ReceiveCompile \/ ReceiveCancel
  \/ \E i \in Ids : ThrowCancelled(i) \/ LowerCompile(i) \/ FinishCompile(i)

-----------------------------------------------------------------------------
(* The caller. *)

\* What its code may do with the connection in one turn of the event loop.
Reactions(k) ==
  {k} \cup (IF CanPost(k) THEN {Compile(k, s) : s \in Sources} \cup {CancelCurrent(k)} ELSE {})

Call ==
  /\ link' \in Reactions(link)
  /\ UNCHANGED <<alive, worker>>

Deliver ==
  /\ toHost # <<>>
  /\ link' \in Reactions(SettleRequest(link, Head(toHost).id))
  /\ toHost' = Tail(toHost)
  /\ UNCHANGED <<alive, activeCompileId, cancelledCompiles, suspended, retained>>

\* The worker fails, or the connection is disposed, perhaps after a last
\* cancellation: the thread and all it holds are gone.
Terminated(k) == [Stop(k) EXCEPT !.outgoing = <<>>]

WorkerGone ==
  /\ alive' = FALSE
  /\ activeCompileId' = Absent /\ cancelledCompiles' = {}
  /\ suspended' = NoSuspended
  /\ retained' = Discarded /\ toHost' = <<>>

Terminate ==
  /\ WorkerGone
  /\ \/ link' = Terminated(link)
     \/ CanPost(link) /\ link' = Terminated(CancelCurrent(link))

WorkerNext == WorkerStep \/ Call \/ Deliver \/ Terminate

WorkerSpec == WorkerInit /\ [][WorkerNext]_workerVars

-----------------------------------------------------------------------------
(* Properties. *)

Messages ==
  [kind : {"compile"}, id : Ids, target : {Absent}, source : Sources]
    \cup [kind : {"cancel"}, id : Ids, target : Ids, source : {NoSource}]

Links ==
  [nextRequestId : 1 .. MaxRequests + 2,
   activeCompileRequestId : Ids \cup {Absent},
   cancellationRequested : BOOLEAN, stopped : BOOLEAN,
   pending : SUBSET Ids,
   posted : [Ids -> Sources \cup {NoSource}],
   outgoing : Seq(Messages)]

Responses == [id : Ids, outcome : Outcomes, source : Sources \cup {NoSource}]

WorkerTypeOK ==
  /\ link \in Links
  /\ alive \in BOOLEAN
  /\ activeCompileId \in Ids \cup {Absent}
  /\ cancelledCompiles \in SUBSET Ids
  /\ suspended \in [Ids -> {"idle", "analyzed", "lowered"}]
  /\ retained \in [level : {"none", "analyzed", "lowered"}, source : Sources \cup {NoSource}]
  /\ toHost \in Seq(Responses)

\* The one stage the service keeps is the stage of the active compile, made from
\* that compile's source, and the active compile has it as long as it is not
\* cancelled: a compile that resumes never lowers or encodes another's product.
StageBelongsToActive ==
  /\ retained.level # "none" =>
       /\ activeCompileId # Absent
       /\ activeCompileId \notin cancelledCompiles
       /\ suspended[activeCompileId] = retained.level
       /\ link.posted[activeCompileId] = retained.source
  /\ activeCompileId # Absent /\ activeCompileId \notin cancelledCompiles =>
       retained.level = suspended[activeCompileId]

\* An answer carries the source its own request was for, and the service never
\* meets a stage it did not expect, however compiles and cancellations overtake
\* each other.
AnswersAreOwn ==
  \A n \in 1 .. Len(toHost) :
    /\ toHost[n].outcome # "outOfOrder"
    /\ toHost[n].outcome \in {"built", "rejected"} =>
         toHost[n].source = link.posted[toHost[n].id]

Occurs(queue, i) == \E n \in 1 .. Len(queue) : queue[n].id = i

\* While the worker runs, every request whose promise is pending is in exactly
\* one place: on its way to the worker, suspended in it, or answered.  Absent is
\* lost, and none can be answered twice.
PendingIsInFlight ==
  alive => \A i \in link.pending :
    \/ Occurs(link.outgoing, i) /\ suspended[i] = "idle" /\ ~Occurs(toHost, i)
    \/ ~Occurs(link.outgoing, i) /\ suspended[i] # "idle" /\ ~Occurs(toHost, i)
    \/ ~Occurs(link.outgoing, i) /\ suspended[i] = "idle" /\ Occurs(toHost, i)

\* The set of cancelled compiles holds suspended compiles only, so it does not
\* grow over the life of the worker.
OnlySuspendedAreCancelled ==
  \A i \in cancelledCompiles : suspended[i] # "idle"
=============================================================================
