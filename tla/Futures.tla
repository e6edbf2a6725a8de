------------------------------ MODULE Futures ------------------------------
(***************************************************************************)
(* The futures of asynchronous code, as the generated module polls them:   *)
(* source functions and closures, `nextTick`, host queries, `future.race`  *)
(* and `future.timeout`.  An update polls the continuation of `onAttach`,  *)
(* which polls what it awaits, and so on down the calls of the resume      *)
(* functions; `stack` is that chain of calls.                              *)
(*                                                                         *)
(* A handle may be shared by any number of waiters, kept in the array of a *)
(* race that the futures themselves change, and awaited by the very body   *)
(* it belongs to.  What the futures compute is left out: a future          *)
(* completes with its own name, or with the value it forwards.             *)
(***************************************************************************)
EXTENDS Integers, Sequences, FiniteSets

CONSTANTS
  Futures,             \* the handles of one attachment
  Main,                \* the continuation of onAttach: not a handle
  Programs,            \* the scripts: what each frame is made from
  MaxDuration,         \* bound: deadlines and the ages of timeouts
  None                 \* a null child, and the default of a completion

Frames   == Futures \cup {Main}
TimedOut == "future timed out"
Values   == Futures \cup {Main, None, TimedOut}

Operations ==
  [do : {"await"}, future : Futures] \cup [do : {"nextTick"}]
    \cup [do : {"push", "set"}, future : Futures, array : Futures]
    \cup [do : {"clear"}, array : Futures]

Definitions ==
  [kind : {"body"}, script : Seq(Operations)]
    \cup [kind : {"nextTick", "query"}]
    \cup [kind : {"race"}, operations : Seq(Futures)]
    \cup [kind : {"timeout"}, operation : Futures, duration : 0 .. MaxDuration]

\* A duration that is not positive is 0.
ASSUME ConstantsAssumption ==
  /\ MaxDuration \in Nat /\ Main \notin Futures /\ None \notin Frames
  /\ TimedOut \notin Frames \cup {None}
  /\ \A p \in Programs : p \in [Frames -> Definitions] /\ p[Main].kind = "body"

Complete == -1

VARIABLES
  program,
  operations, version,  \* the arrays of the races
  state,                \* where each frame resumes: even a block, odd a poll of a body
  child,                \* the future a body awaits, or None
  value,                \* the completion
  begun, age,           \* whether a timeout has its start, and the time since
  polled,               \* the frames whose epoch is that of the present update
  stack,                \* the resume functions being called, the innermost last
  answer,               \* what the last poll returned to the top of the stack
  trapped,
  \* ghosts
  taken,                \* what each body has received from its awaits
  ran                   \* the frames resumed in this update

arrays == <<operations, version>>
clocks == <<begun, age>>
frames == <<state, child, value>>
vars   == <<program, arrays, frames, clocks, polled, stack, answer, trapped,
            taken, ran>>

Kind(f)   == program[f].kind
Script(f) == program[f].script

Activation(f) ==
  [frame |-> f, index |-> 0, polling |-> None,
   length  |-> IF Kind(f) = "race" THEN Len(operations[f]) ELSE 0,
   version |-> IF Kind(f) = "race" THEN version[f] ELSE 0]

Init ==
  /\ program \in Programs
  /\ operations = [f \in Futures |->
       IF Kind(f) = "race" THEN program[f].operations ELSE << >>]
  /\ version = [f \in Futures |-> 0]
  /\ state = [f \in Frames |-> 0]
  /\ child = [f \in Frames |-> None] /\ value = [f \in Frames |-> None]
  /\ begun = [f \in Futures |-> FALSE] /\ age = [f \in Futures |-> 0]
  /\ polled = {} /\ stack = << >> /\ answer = "none" /\ trapped = FALSE
  /\ taken = [f \in Frames |-> << >>] /\ ran = {}

-----------------------------------------------------------------------------
(* The update, and polls. *)

Older(f, time) ==
  IF ~begun[f] THEN 0
  ELSE IF age[f] + time > MaxDuration THEN MaxDuration ELSE age[f] + time

\* The host calls update, some time after the last; the process stays open.
\* The new epoch is no frame's.
BeginUpdate ==
  /\ stack = << >> /\ ~trapped /\ state[Main] # Complete
  /\ polled' = {}
  /\ \E time \in 1 .. 2 : age' = [f \in Futures |-> Older(f, time)]
  /\ stack' = <<Activation(Main)>> /\ answer' = "none"
  /\ ran' = {Main}
  /\ UNCHANGED <<program, arrays, frames, begun, trapped, taken>>

Top     == stack[Len(stack)]
Callers == SubSeq(stack, 1, Len(stack) - 1)
Frame   == Top.frame

Resuming(kind) == stack # << >> /\ Kind(Frame) = kind

\* Fault: whatever was polled in this update is pending, complete or not.
PollOfPolled(f) ==
  /\ polled' = polled \cup {f}
  /\ IF f \in polled
       THEN answer' = "pending" /\ stack' = Append(Callers, [Top EXCEPT !.polling = f])
            /\ UNCHANGED ran
     ELSE IF state[f] = Complete
       THEN answer' = "ready" /\ stack' = Append(Callers, [Top EXCEPT !.polling = f])
            /\ UNCHANGED ran
     ELSE /\ answer' = "none"
          /\ stack' = Append(Append(Callers, [Top EXCEPT !.polling = f]), Activation(f))
          /\ ran' = ran \cup {f}

\* Fault: the epoch of the frame is not looked at.
PollAlways(f) ==
  /\ polled' = polled \cup {f}
  /\ IF state[f] = Complete
       THEN answer' = "ready" /\ stack' = Append(Callers, [Top EXCEPT !.polling = f])
            /\ UNCHANGED ran
     ELSE /\ answer' = "none"
          /\ stack' = Append(Append(Callers, [Top EXCEPT !.polling = f]), Activation(f))
          /\ ran' = ran \cup {f}

\* A pending future that was polled in this update is not resumed again; one
\* that is complete has nothing to resume, and answers with what it retains.
Poll(f) ==
  /\ polled' = polled \cup {f}
  /\ IF state[f] = Complete
       THEN answer' = "ready" /\ stack' = Append(Callers, [Top EXCEPT !.polling = f])
            /\ UNCHANGED ran
     ELSE IF f \in polled
       THEN answer' = "pending" /\ stack' = Append(Callers, [Top EXCEPT !.polling = f])
            /\ UNCHANGED ran
     ELSE /\ answer' = "none"
          /\ stack' = Append(Append(Callers, [Top EXCEPT !.polling = f]), Activation(f))
          /\ ran' = ran \cup {f}

Return(status) == stack' = Callers /\ answer' = status

CompleteWith(v) ==
  /\ state' = [state EXCEPT ![Frame] = Complete]
  /\ value' = [value EXCEPT ![Frame] = v]
  /\ Return("ready")

-----------------------------------------------------------------------------
(* Bodies: state 2k is the block before the k-th operation, 2k+1 its poll.    *)
(* All the awaits of a body share one child, as those of a loop do.           *)

Operation == Script(Frame)[state[Frame] \div 2 + 1]

InBlock == Resuming("body") /\ state[Frame] % 2 = 0
InPoll  == Resuming("body") /\ state[Frame] % 2 = 1

AtEnd == state[Frame] \div 2 = Len(Script(Frame))

SetState(n) == state' = [state EXCEPT ![Frame] = n]

\* Suspending enters the poll at once, except for nextTick.
BodySuspends ==
  /\ InBlock /\ ~AtEnd /\ Operation.do \in {"await", "nextTick"}
  /\ SetState(state[Frame] + 1)
  /\ IF Operation.do = "nextTick" THEN Return("pending") ELSE UNCHANGED <<stack, answer>>
  /\ UNCHANGED <<program, arrays, child, value, clocks, polled, trapped, taken,
                 ran>>

BodyResumesNextTick ==
  /\ InPoll /\ Operation.do = "nextTick"
  /\ SetState(state[Frame] + 1)
  /\ UNCHANGED <<program, arrays, child, value, clocks, polled, stack, answer,
                 trapped, taken, ran>>

\* The operand is evaluated when there is no child yet.
Awaited == IF child[Frame] = None THEN Operation.future ELSE child[Frame]

BodyPolls ==
  /\ InPoll /\ Operation.do = "await" /\ answer = "none"
  /\ child' = [child EXCEPT ![Frame] = Awaited]
  /\ Poll(Awaited)
  /\ UNCHANGED <<program, arrays, state, value, clocks, trapped, taken>>

BodyWaits ==
  /\ InPoll /\ Operation.do = "await" /\ answer = "pending"
  /\ Return("pending")
  /\ UNCHANGED <<program, arrays, frames, clocks, polled, trapped, taken, ran>>

\* Fault: the finished child is left in its field.
BodyTakesKeepingChild ==
  /\ InPoll /\ Operation.do = "await" /\ answer = "ready"
  /\ taken' = [taken EXCEPT ![Frame] = Append(@, value[child[Frame]])]
  /\ SetState(state[Frame] + 1)
  /\ answer' = "none"
  /\ UNCHANGED <<program, arrays, child, value, clocks, polled, stack, trapped,
                 ran>>

BodyTakes ==
  /\ InPoll /\ Operation.do = "await" /\ answer = "ready"
  /\ taken' = [taken EXCEPT ![Frame] = Append(@, value[child[Frame]])]
  /\ child' = [child EXCEPT ![Frame] = None]
  /\ SetState(state[Frame] + 1)
  /\ answer' = "none"
  /\ UNCHANGED <<program, arrays, value, clocks, polled, stack, trapped, ran>>

\* The body changes the array of a race: only a change of its length is a
\* structural one.  An element is set only where there is one.
BodyMutates ==
  /\ InBlock /\ ~AtEnd /\ Operation.do \in {"push", "set", "clear"}
  /\ Operation.do = "set" => operations[Operation.array] # << >>
  /\ LET r == Operation.array IN
     /\ operations' = [operations EXCEPT ![r] =
          CASE Operation.do = "push"  -> Append(@, Operation.future)
            [] Operation.do = "set"   -> [@ EXCEPT ![1] = Operation.future]
            [] Operation.do = "clear" -> << >>]
     /\ version' = IF Operation.do = "set" THEN version ELSE [version EXCEPT ![r] = @ + 1]
  /\ SetState(state[Frame] + 2)
  /\ UNCHANGED <<program, child, value, clocks, polled, stack, answer, trapped,
                 taken, ran>>

\* The body returns what it received last, or its own value.
BodyCompletes ==
  /\ InBlock /\ AtEnd
  /\ CompleteWith(IF taken[Frame] = << >> THEN Frame ELSE taken[Frame][Len(taken[Frame])])
  /\ UNCHANGED <<program, arrays, child, clocks, polled, trapped, taken, ran>>

-----------------------------------------------------------------------------
(* Leaves. *)

NextTick ==
  /\ Resuming("nextTick")
  /\ IF state[Frame] = 0
       THEN SetState(1) /\ Return("pending") /\ UNCHANGED value
       ELSE CompleteWith(Frame)
  /\ UNCHANGED <<program, arrays, child, clocks, polled, trapped, taken, ran>>

\* A module, a scan, process.closed(): the host decides, in any poll.
Query ==
  /\ Resuming("query")
  /\ \/ CompleteWith(Frame)
     \/ Return("pending") /\ UNCHANGED <<state, value>>
  /\ UNCHANGED <<program, arrays, child, clocks, polled, trapped, taken, ran>>

-----------------------------------------------------------------------------
(* future.race *)

Array == operations[Frame]

\* Fault: the shape of the array is not looked at again.
PassIsAtEnd == Top.index >= Top.length

\* The end of the pass, or the array has changed its shape since it began.
PassIsOver == Top.index >= Top.length \/ version[Frame] # Top.version

RacePending ==
  /\ Resuming("race") /\ answer = "none" /\ PassIsOver
  /\ Return("pending")
  /\ UNCHANGED <<program, arrays, frames, clocks, polled, trapped, taken, ran>>

\* Beyond the length the backing storage holds null.
RacePolls ==
  /\ Resuming("race") /\ answer = "none" /\ ~PassIsOver
  /\ IF Top.index < Len(Array)
       THEN Poll(Array[Top.index + 1]) /\ UNCHANGED trapped
       ELSE trapped' = TRUE /\ stack' = << >> /\ UNCHANGED <<answer, polled, ran>>
  /\ UNCHANGED <<program, arrays, frames, clocks, taken>>

RaceGoesOn ==
  /\ Resuming("race") /\ answer = "pending"
  /\ stack' = Append(Callers, [Top EXCEPT !.index = @ + 1])
  /\ answer' = "none"
  /\ UNCHANGED <<program, arrays, frames, clocks, polled, trapped, taken, ran>>

\* The completion is read from the element that is at the index now.  If that
\* is not the future that was polled, it is one of the same function, or the
\* cast to its frame traps.
RaceTakes ==
  /\ Resuming("race") /\ answer = "ready"
  /\ LET now == IF Top.index < Len(Array) THEN Array[Top.index + 1] ELSE None IN
     \E traps \in IF now = Top.polling THEN {FALSE} ELSE IF now = None THEN {TRUE} ELSE BOOLEAN :
       IF traps
         THEN trapped' = TRUE /\ stack' = << >> /\ UNCHANGED <<state, value, answer>>
         ELSE CompleteWith(value[now]) /\ UNCHANGED trapped
  /\ UNCHANGED <<program, arrays, child, clocks, polled, taken, ran>>

-----------------------------------------------------------------------------
(* future.timeout *)

TimeoutPolls ==
  /\ Resuming("timeout") /\ answer = "none"
  /\ Poll(program[Frame].operation)
  /\ UNCHANGED <<program, arrays, frames, clocks, trapped, taken>>

TimeoutTakes ==
  /\ Resuming("timeout") /\ answer = "ready"
  /\ CompleteWith(value[program[Frame].operation])
  /\ UNCHANGED <<program, arrays, child, clocks, polled, trapped, taken, ran>>

\* Fault: it waits for its deadline, and does not return to the host.
TimeoutBlocks ==
  /\ Resuming("timeout") /\ answer = "pending"
  /\ begun' = [begun EXCEPT ![Frame] = TRUE]
  /\ age[Frame] >= program[Frame].duration /\ CompleteWith(TimedOut)
  /\ UNCHANGED <<program, arrays, child, age, polled, trapped, taken, ran>>

\* The clock starts in the first poll that finds the operation pending.
TimeoutLooksAtClock ==
  /\ Resuming("timeout") /\ answer = "pending"
  /\ begun' = [begun EXCEPT ![Frame] = TRUE]
  /\ IF age[Frame] >= program[Frame].duration
       THEN CompleteWith(TimedOut)
       ELSE Return("pending") /\ UNCHANGED <<state, value>>
  /\ UNCHANGED <<program, arrays, child, age, polled, trapped, taken, ran>>

-----------------------------------------------------------------------------
Body ==
  \/ BodySuspends \/ BodyResumesNextTick \/ BodyPolls \/ BodyWaits \/ BodyTakes
  \/ BodyMutates \/ BodyCompletes

Race    == RacePending \/ RacePolls \/ RaceGoesOn \/ RaceTakes
Timeout == TimeoutPolls \/ TimeoutTakes \/ TimeoutLooksAtClock

Next == BeginUpdate \/ Body \/ NextTick \/ Query \/ Race \/ Timeout

\* The host calls update again and again, and a resume function runs on.
Spec == Init /\ [][Next]_vars /\ WF_vars(Next)

-----------------------------------------------------------------------------
(* Properties. *)

Activations ==
  [frame : Frames, index : Nat, polling : Futures \cup {None}, length : Nat, version : Nat]

TypeOK ==
  /\ program \in [Frames -> Definitions]
  /\ operations \in [Futures -> Seq(Futures)] /\ version \in [Futures -> Nat]
  /\ state \in [Frames -> Nat \cup {Complete}]
  /\ child \in [Frames -> Futures \cup {None}]
  /\ value \in [Frames -> Values]
  /\ begun \in [Futures -> BOOLEAN] /\ age \in [Futures -> 0 .. MaxDuration]
  /\ polled \subseteq Futures
  /\ stack \in Seq(Activations)
  /\ answer \in {"none", "pending", "ready"}
  /\ trapped \in BOOLEAN
  /\ taken \in [Frames -> Seq(Values)]
  /\ ran \subseteq Frames

\* No resume function is entered while it runs, whoever awaits whom, and none
\* is entered twice in one update.
Entered == IF Len(stack') > Len(stack) /\ stack # << >> THEN {stack'[Len(stack')].frame} ELSE {}

ResumedOncePerUpdate == [][Entered \cap ran = {}]_vars

NoReentry ==
  \A i, j \in 1 .. Len(stack) : stack[i].frame = stack[j].frame => i = j

\* The awaits among the first n operations of a body.
AwaitsAmong(f, n) == Cardinality({m \in 1 .. n : Script(f)[m].do = "await"})

\* The k-th await is the n-th operation, and received the completion of its operand.
ReceivedAt(f, k, n) ==
  /\ Script(f)[n].do = "await" /\ AwaitsAmong(f, n) = k
  /\ LET h == Script(f)[n].future IN state[h] = Complete /\ taken[f][k] = value[h]

\* Every await of a body has received the completion of its own operand, and
\* that completion is retained: it is what any later await will receive.
AwaitsGetTheirOwn ==
  \A f \in Frames : Kind(f) = "body" =>
    \A k \in 1 .. Len(taken[f]) : \E n \in 1 .. Len(Script(f)) : ReceivedAt(f, k, n)

Completed(f) == state[f] # Complete /\ state'[f] = Complete

\* A race is won by the first element that is ready: those before it are
\* pending for the rest of the update.  No pass reads beyond an array that its
\* elements have made shorter.
RaceIsLeftBiased ==
  [][~trapped' /\ \A f \in Futures : Kind(f) = "race" /\ Completed(f) =>
       \A i \in 1 .. Top.index :
         i <= Len(operations[f]) => state[operations[f][i]] # Complete]_vars

\* A race completes with the completion of a future that is complete.
FirstReadyWins ==
  [][\A f \in Futures : Kind(f) = "race" /\ Completed(f) =>
       state[Top.polling] = Complete /\ value'[f] = value[Top.polling]]_vars

\* An operation that is ready wins over its deadline, whichever waiter made
\* it so, and the deadline is not announced early.
ReadyBeatsDeadline ==
  [][\A f \in Futures : Kind(f) = "timeout" /\ Completed(f) =>
       LET operation == program[f].operation IN
       IF state[operation] = Complete
         THEN value'[f] = value[operation]
         ELSE value'[f] = TimedOut /\ begun'[f] /\ age[f] >= program[f].duration]_vars

\* onAttach does not wait for a timeout for ever, whatever it limits.
TimeoutsEnd ==
  \A f \in Futures :
    (child[Main] = f /\ Kind(f) = "timeout") ~> state[f] = Complete
=============================================================================
