--------------------------- MODULE ScopedGlobalUse ---------------------------
(* A script from its check to its runs: what is accepted by the analysis of   *)
(* ScopedGlobals is executed, action by action, as the update export calls    *)
(* the actions: attach, poll and act, detach, start and end an attempt.       *)
EXTENDS ScopedGlobals

CONSTANTS Scripts        \* scripts, each with its bare globals and whether its shape is automatic

VARIABLES checked,       \* the script
          verdict,       \* what the analysis found, or none yet
          profile,       \* "debug" or "release", once it is built
          attached, attempted,  \* whether there is an attachment, an attempt
          action,        \* the action that runs, or "none"
          rest,          \* what is left of it
          closure,       \* the body of the closure it created last
          assigned,      \* the globals that hold a value
          kinds,         \* the values of the dimensions
          defaults       \* ghost: the globals whose default was read

lifetimes  == <<attached, attempted>>
scopedVars == <<checked, verdict, profile, lifetimes, action, rest, closure, assigned, kinds, defaults>>

Unchecked == [accepted |-> FALSE, gated |-> {}, attachment |-> {}, attempt |-> {}]

Idle == verdict.accepted /\ action = "none"

ScopedInit ==
  /\ checked \in Scripts /\ profile = "none"
  /\ verdict = Unchecked /\ attached = FALSE /\ attempted = FALSE
  /\ action = "none" /\ rest = << >> /\ closure = << >>
  /\ assigned = {} /\ kinds = << >> /\ defaults = {}

\* The compiler rejects the script, or the module is built and loaded.
Check ==
  /\ verdict = Unchecked
  /\ verdict' = Analyze(checked.script, checked.bare, checked.automatic)
  /\ profile' \in {"debug", "release"}
  /\ UNCHANGED <<checked, lifetimes, action, rest, closure, assigned, kinds, defaults>>

-----------------------------------------------------------------------------
(* Lifetimes. *)

Enter(a) ==
  /\ action' = a /\ rest' = checked.script[a] /\ closure' = << >>
  /\ UNCHANGED <<checked, verdict, profile, defaults>>

\* An automatic shape is selected before onAttach.
BeginAttachment ==
  /\ Idle /\ ~attached
  /\ IF checked.automatic
       THEN kinds' \in AttachmentShapes /\ assigned' = assigned \cup Dimensions
       ELSE UNCHANGED <<kinds, assigned>>
  /\ Enter("onAttach")
  /\ UNCHANGED lifetimes

BeginAttempt == Idle /\ ~attempted /\ Enter("onStart") /\ UNCHANGED <<lifetimes, assigned, kinds>>

\* An action that needs an attempt is skipped without one.
RunAttached(a) ==
  /\ Idle /\ attached /\ (a \in verdict.gated => attempted)
  /\ Enter(a) /\ UNCHANGED <<lifetimes, assigned, kinds>>

\* Teardown clears what onAttach assigned, onReset what onStart did.
EndAttachment ==
  /\ Idle /\ attached
  /\ attached' = FALSE /\ assigned' = assigned \ verdict.attachment /\ kinds' = << >>
  /\ UNCHANGED <<checked, verdict, profile, attempted, action, rest, closure, defaults>>

EndAttempt ==
  /\ Idle /\ attempted
  /\ attempted' = FALSE /\ assigned' = assigned \ verdict.attempt
  /\ UNCHANGED <<checked, verdict, profile, attached, action, rest, closure, kinds, defaults>>

-----------------------------------------------------------------------------
(* The run of an action. *)

Node == rest[1]

Running(do) == rest # << >> /\ Node.do = do

\* Marks: the end of a helper or closure, and the start of another iteration.
EndOf == <<[do |-> "end"]>>

\* What is left after the first node that is marked so, or nothing.
After(mark) ==
  LET at == {i \in DOMAIN rest : rest[i].do = mark}
  IN  IF at = {} THEN << >> ELSE SubSeq(rest, 1 + Min(at), Len(rest))

From(mark) == SubSeq(rest, Min({i \in DOMAIN rest : rest[i].do = mark}), Len(rest))

Continue(block) == rest' = block \o Tail(rest)

StoringNothing == UNCHANGED <<checked, verdict, profile, lifetimes, action, assigned, kinds>>

Observe(globals) == defaults' = defaults \cup ((globals \cap checked.bare) \ assigned)

ReadGlobal ==
  /\ Running("read") /\ Observe({Node.global}) /\ Continue(<< >>)
  /\ UNCHANGED closure /\ StoringNothing

AssignGlobal ==
  /\ Running("write") \/ Running("select")
  /\ assigned' = assigned \cup {Node.global}
  /\ IF Node.do = "write" THEN UNCHANGED kinds
     ELSE \E v \in IF Node.variant = "computed" THEN Variants ELSE {Node.variant} :
            kinds' = (Node.global :> v) @@ kinds
  /\ Continue(<< >>)
  /\ UNCHANGED <<checked, verdict, profile, lifetimes, action, closure, defaults>>

\* What a test of an enum finds; a dimension that was never assigned has its
\* default.
Holds(test) ==
  IF test.global \in DOMAIN kinds THEN {kinds[test.global] = test.variant} ELSE BOOLEAN

Branch ==
  /\ Running("if") /\ Observe({Node.test.global})
  /\ \E holds \in Holds(Node.test) : Continue(IF holds THEN Node.then ELSE Node.else)
  /\ UNCHANGED closure /\ StoringNothing

\* The first arm that takes the value; a guard may refuse.
SelectArm ==
  /\ Running("match") /\ Observe({Node.global})
  /\ \E i \in DOMAIN Node.arms :
       LET Takes(arm) == arm.variant = "any" \/ TRUE \in Holds([global |-> Node.global, variant |-> arm.variant])
       IN  /\ Takes(Node.arms[i])
           /\ \A j \in 1 .. i - 1 : Takes(Node.arms[j]) => Node.arms[j].guarded
           /\ Continue(Node.arms[i].block)
  /\ UNCHANGED closure /\ StoringNothing

Iterate ==
  /\ \/ Running("while") \/ Running("loop")
  /\ \/ rest' = Node.block \o <<[do |-> "again", of |-> Node]>> \o Tail(rest)
     \/ Node.do = "while" /\ Continue(<< >>)
  /\ UNCHANGED <<closure, defaults>> /\ StoringNothing

EndIteration ==
  /\ Running("again") /\ Continue(<<Node.of>>)
  /\ UNCHANGED <<closure, defaults>> /\ StoringNothing

Jump ==
  /\ \/ Running("break")    /\ rest' = After("again")
     \/ Running("continue") /\ rest' = From("again")
     \/ Running("return")   /\ rest' = After("end")
  /\ UNCHANGED <<closure, defaults>> /\ StoringNothing

Evaluate ==
  /\ \/ Running("call")   /\ Continue(checked.script[Node.global] \o EndOf)
     \/ Running("invoke") /\ Continue(closure \o EndOf)
     \/ Running("end")    /\ Continue(<< >>)
     \/ Running("and")    /\ (Continue(Node.block) \/ Continue(<< >>))
     \/ Running("try")    /\ (Continue(Node.block) \/ \E n \in 0 .. Len(Node.block) :
                                                          Continue(SubSeq(Node.block, 1, n) \o Node.fallback))
     \/ Running("debug")  /\ Continue(IF profile = "debug" THEN <<Node.statement>> ELSE << >>)
  /\ UNCHANGED <<closure, defaults>> /\ StoringNothing

CreateClosure ==
  /\ Running("closure") /\ closure' = Node.block /\ Continue(<< >>)
  /\ UNCHANGED defaults /\ StoringNothing

\* An error, or a wait for the end of the process: onAttach does not complete,
\* and the process is kept until it closes, as it may while an action waits.
Reject ==
  /\ Running("reject") \/ action \in {"onAttach", "whileAttached"}
  /\ attached' = FALSE /\ assigned' = assigned \ verdict.attachment /\ kinds' = << >>
  /\ action' = "none" /\ rest' = << >> /\ closure' = << >>
  /\ UNCHANGED <<checked, verdict, profile, attempted, defaults>>

Complete ==
  /\ action # "none" /\ rest = << >>
  /\ attached' = (attached \/ action = "onAttach") /\ attempted' = (attempted \/ action = "onStart")
  /\ action' = "none" /\ closure' = << >>
  /\ UNCHANGED <<checked, verdict, profile, rest, assigned, kinds, defaults>>

Lifecycle ==
  \/ BeginAttachment \/ BeginAttempt \/ EndAttachment \/ EndAttempt
  \/ \E a \in {"poll", "whileAttached", "split"} : RunAttached(a)

Execute ==
  \/ ReadGlobal \/ AssignGlobal \/ Branch \/ SelectArm \/ Iterate \/ EndIteration \/ Jump
  \/ Evaluate \/ CreateClosure \/ Reject \/ Complete

ScopedNext == Check \/ Lifecycle \/ Execute

-----------------------------------------------------------------------------
(* Properties. *)

\* The default of the storage of a bare global is never read: whatever the
\* paths of onAttach and onStart, the shape of the attachment and the end of
\* attachments and attempts, an accepted script has assigned what it reads.
NoDefaultIsObserved == defaults = {}
=============================================================================
