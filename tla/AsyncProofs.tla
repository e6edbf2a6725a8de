---------------------------- MODULE AsyncProofs ----------------------------
(***************************************************************************)
(* Proofs about Futures, for any scripts, and about MemoryScan, for any    *)
(* ranges, signatures, page and window sizes and any number of changes of  *)
(* the memory.                                                             *)
(*                                                                         *)
(* Futures: the calls on the stack are of distinct frames, all but         *)
(* onAttach's polled in this update and none of them complete; an answer   *)
(* is about the frame that its caller has polled; a body has passed one    *)
(* await for every two of its states, and each of them has received what   *)
(* its operand completed with; and what a race's pass has left behind is   *)
(* pending while the array is the one the pass began with.                 *)
(*                                                                         *)
(* MemoryScan: what scanOnce has still to inspect lies at or beyond the    *)
(* offset it keeps: a window that is passed has no candidate that has      *)
(* matched throughout.                                                     *)
(***************************************************************************)
EXTENDS Futures, MemoryScan, SequenceTheorems, FiniteSetTheorems, WellFoundedInduction, TLAPS

\* A body resumes within its script.
BodyStateOK ==
  \A f \in Frames : Kind(f) = "body" => state[f] <= 2 * Len(Script(f))

\* onAttach is a body: a script is one of Programs for ever.
ProgramOK == program[Main].kind = "body"

MainAtBottom == stack # << >> => stack[1].frame = Main

CalleesArePolled ==
  \A i \in 2 .. Len(stack) : stack[i].frame \in polled /\ stack[i].frame = stack[i - 1].polling

CallsAreIncomplete == \A i \in 1 .. Len(stack) : state[stack[i].frame] # Complete

RanWasPolled == ran \subseteq polled \cup {Main}

TimeoutPollsOperation ==
  \A i \in 1 .. Len(stack) : Kind(stack[i].frame) = "timeout" =>
    stack[i].polling \in {None, program[stack[i].frame].operation}

AnswerIsOfPolled ==
  stack # << >> /\ answer # "none" =>
    Top.polling \in Futures /\ (answer = "ready" <=> state[Top.polling] = Complete)

BodyPollsChild ==
  \A i \in 1 .. Len(stack) :
    Kind(stack[i].frame) = "body" /\ (i < Len(stack) \/ answer # "none") =>
      child[stack[i].frame] = stack[i].polling

StackInv ==
  /\ MainAtBottom /\ CalleesArePolled /\ NoReentry /\ CallsAreIncomplete
  /\ RanWasPolled /\ TimeoutPollsOperation /\ AnswerIsOfPolled /\ BodyPollsChild

Inv == TypeOK /\ ProgramOK /\ BodyStateOK /\ StackInv

-----------------------------------------------------------------------------
(* Definitions and the stack. *)

LEMMA Longer ==
  ASSUME NEW S, NEW s \in Seq(S), NEW e \in S
  PROVE  /\ Append(s, e) \in Seq(S) /\ Len(Append(s, e)) = Len(s) + 1
         /\ \A i \in 1 .. Len(s) : Append(s, e)[i] = s[i]
         /\ Append(s, e)[Len(s) + 1] = e
OBVIOUS

LEMMA Shorter ==
  ASSUME NEW S, NEW s \in Seq(S), s # << >>
  PROVE  /\ Len(s) \in Nat \ {0} /\ s[Len(s)] \in S
         /\ SubSeq(s, 1, Len(s) - 1) \in Seq(S)
         /\ Len(SubSeq(s, 1, Len(s) - 1)) = Len(s) - 1
         /\ \A i \in 1 .. Len(s) - 1 : SubSeq(s, 1, Len(s) - 1)[i] = s[i]
<1>1. Len(s) \in Nat \ {0} /\ s[Len(s)] \in S
  OBVIOUS
<1>2. /\ SubSeq(s, 1, Len(s) - 1) \in Seq(S)
      /\ Len(SubSeq(s, 1, Len(s) - 1)) = Len(s) - 1
      /\ \A i \in 1 .. Len(s) - 1 : SubSeq(s, 1, Len(s) - 1)[i] = s[i]
  <2>1. \A i \in 1 .. Len(s) - 1 : s[i] \in S
    OBVIOUS
  <2> DEFINE n == Len(s) - 1
  <2>2. n \in Nat
    BY ONLY <1>1
  <2> HIDE DEF n
  <2>3. 1 \in Int /\ n \in Int /\ n - 1 + 1 = n /\ (1 <= n \/ n = 0)
    BY ONLY <2>2
  <2>4. /\ SubSeq(s, 1, n) \in Seq(S) /\ Len(SubSeq(s, 1, n)) = n
        /\ \A i \in 1 .. n : SubSeq(s, 1, n)[i] = s[1 + i - 1]
    BY <2>1, <2>3, SubSeqProperties DEF n
  <2>5. \A i \in 1 .. n : 1 + i - 1 = i
    BY ONLY <2>2
  <2> QED
    BY <2>4, <2>5 DEF n
<1> QED
  BY <1>1, <1>2

LEMMA DefinitionTypes ==
  ASSUME TypeOK, NEW f \in Frames
  PROVE  /\ Kind(f) \in {"body", "nextTick", "query", "race", "timeout"}
         /\ Kind(f) = "body" => Script(f) \in Seq(Operations)
         /\ Kind(f) = "timeout" =>
              program[f].operation \in Futures /\ program[f].duration \in 0 .. MaxDuration
<1>1. program[f] \in Definitions
  BY DEF TypeOK
<1> QED
  BY <1>1 DEF Definitions, Kind, Script

LEMMA ActivationType ==
  ASSUME TypeOK, NEW f \in Futures
  PROVE  /\ Activation(f) \in Activations
         /\ Activation(f).frame = f /\ Activation(f).polling = None
<1>1. operations[f] \in Seq(Futures) /\ version[f] \in Nat
  BY DEF TypeOK
<1>2. Len(operations[f]) \in Nat
  BY <1>1
<1> QED
  BY <1>1, <1>2 DEF Activation, Activations, Frames

LEMMA TopType ==
  ASSUME TypeOK, stack # << >>
  PROVE  /\ Len(stack) \in Nat \ {0} /\ Top \in Activations /\ Frame \in Frames
         /\ Callers \in Seq(Activations) /\ Len(Callers) = Len(stack) - 1
         /\ \A i \in 1 .. Len(stack) - 1 : Callers[i] = stack[i]
<1>1. stack \in Seq(Activations)
  BY DEF TypeOK
<1>2. Top \in Activations
  BY <1>1, Shorter DEF Top
<1>3. Frame \in Frames
  BY <1>2 DEF Frame, Activations
<1> QED
  BY <1>1, <1>2, <1>3, Shorter DEF Callers

\* What a poll does to the stack of calls.
LEMMA PollStack ==
  ASSUME TypeOK, stack # << >>, NEW f \in Futures, Poll(f)
  PROVE  /\ stack' \in Seq(Activations)
         /\ Len(stack') \in {Len(stack), Len(stack) + 1}
         /\ \A i \in 1 .. Len(stack) - 1 : stack'[i] = stack[i]
         /\ stack'[Len(stack)] = [Top EXCEPT !.polling = f]
         /\ Len(stack') = Len(stack) =>
              /\ answer' \in {"pending", "ready"} /\ ran' = ran
              /\ answer' = "ready" <=> state[f] = Complete
         /\ Len(stack') = Len(stack) + 1 =>
              /\ stack'[Len(stack) + 1] = Activation(f)
              /\ f \notin polled /\ state[f] # Complete
              /\ answer' = "none" /\ ran' = ran \cup {f}
<1> DEFINE caller == [Top EXCEPT !.polling = f]
           n == Len(stack)
<1>1. /\ n \in Nat \ {0} /\ Top \in Activations
      /\ Callers \in Seq(Activations) /\ Len(Callers) = n - 1
      /\ \A i \in 1 .. n - 1 : Callers[i] = stack[i]
  BY TopType
<1>2. caller \in Activations
  BY <1>1 DEF Activations
<1>3. Activation(f) \in Activations
  BY ActivationType
<1>4. DEFINE called == Append(Callers, caller)
<1>5. /\ called \in Seq(Activations) /\ Len(called) = n
      /\ \A i \in 1 .. n - 1 : called[i] = stack[i]
      /\ called[n] = caller
  <2>1. /\ called \in Seq(Activations) /\ Len(called) = Len(Callers) + 1
        /\ \A i \in 1 .. Len(Callers) : called[i] = Callers[i]
        /\ called[Len(Callers) + 1] = caller
    BY ONLY <1>1, <1>2, Longer
  <2> HIDE DEF caller, n, called
  <2> QED BY ONLY <2>1, <1>1
<1>6. DEFINE calling == Append(called, Activation(f))
<1>7. /\ calling \in Seq(Activations) /\ Len(calling) = n + 1
      /\ \A i \in 1 .. n : calling[i] = called[i]
      /\ calling[n + 1] = Activation(f)
  <2> HIDE DEF called
  <2> QED BY ONLY <1>5, <1>3, Longer
<1>8. \A i \in 1 .. n - 1 : calling[i] = stack[i]
  <2> HIDE DEF caller, n, called, calling
  <2> QED BY ONLY <1>1, <1>5, <1>7
<1>9. n \in 1 .. n
  <2> HIDE DEF n
  <2> QED BY ONLY <1>1
<1>10. calling[n] = caller
  <2> HIDE DEF caller, n, called, calling
  <2> QED BY ONLY <1>5, <1>7, <1>9
<1>11. \/ /\ stack' = called /\ ran' = ran
          /\ answer' \in {"pending", "ready"} /\ (answer' = "ready" <=> state[f] = Complete)
       \/ /\ stack' = calling /\ answer' = "none" /\ ran' = ran \cup {f}
          /\ f \notin polled /\ state[f] # Complete
  BY DEF Poll
<1> HIDE DEF caller, n, called, calling
<1>12. n # n + 1
  BY ONLY <1>1
<1> QED
  BY <1>1, <1>5, <1>7, <1>8, <1>10, <1>11, <1>12 DEF caller, n

-----------------------------------------------------------------------------
(* How the four ways to move on in the chain of calls preserve StackInv.     *)

\* A poll of a future other than those being resumed.
LEMMA PollKeepsStack ==
  ASSUME TypeOK, StackInv, stack # << >>, NEW f \in Futures, Poll(f),
         UNCHANGED <<program, state>>,
         Kind(Frame) = "timeout" => f = program[Frame].operation,
         child' = IF Kind(Frame) = "body" THEN [child EXCEPT ![Frame] = f] ELSE child
  PROVE  StackInv'
<1> DEFINE n == Len(stack)
<1>1. /\ n \in Nat \ {0} /\ Top = stack[n] /\ Top \in Activations /\ stack \in Seq(Activations)
      /\ \A i \in 1 .. n : stack[i] \in Activations
  BY TopType DEF Top, TypeOK
<1>2. /\ Len(stack') \in {n, n + 1}
      /\ \A i \in 1 .. n - 1 : stack'[i] = stack[i]
      /\ stack'[n] = [Top EXCEPT !.polling = f]
      /\ Len(stack') = n + 1 =>
           stack'[n + 1] = Activation(f) /\ f \notin polled /\ state[f] # Complete
      /\ polled' = polled \cup {f} /\ ran' \subseteq ran \cup {f}
  <2>1. polled' = polled \cup {f} /\ ran' \subseteq ran \cup {f}
    BY DEF Poll
  <2> QED
    BY <2>1, PollStack
<1>3. /\ stack'[n].frame = stack[n].frame /\ stack'[n].polling = f
      /\ \A i \in 1 .. n : stack'[i].frame = stack[i].frame
      /\ Activation(f).frame = f /\ Activation(f).polling = None
  <2>1. stack'[n].frame = stack[n].frame /\ stack'[n].polling = f
    BY <1>1, <1>2 DEF Activations
  <2>2. \A i \in 1 .. n : i \in 1 .. n - 1 \/ i = n
    BY <1>1
  <2> QED
    BY <1>2, <2>1, <2>2, ActivationType
<1>4. \A i \in 1 .. n : stack[i].frame # f \/ Len(stack') = n
  <2> SUFFICES ASSUME NEW i \in 1 .. n, Len(stack') = n + 1 PROVE stack[i].frame # f
    BY <1>2
  <2>1. CASE i = 1
    BY <2>1, ConstantsAssumption DEF StackInv, MainAtBottom
  <2>2. CASE i \in 2 .. n
    BY <2>2, <1>2 DEF StackInv, CalleesArePolled
  <2> QED
    BY <2>1, <2>2, <1>1
<1> HIDE DEF n
<1>5. MainAtBottom'
  <2>1. stack[1].frame = Main /\ 1 \in 1 .. n
    BY <1>1 DEF StackInv, MainAtBottom
  <2> QED
    BY <2>1, <1>3 DEF MainAtBottom
<1>6. CalleesArePolled'
  <2> SUFFICES ASSUME NEW i \in 2 .. Len(stack')
               PROVE  stack'[i].frame \in polled' /\ stack'[i].frame = stack'[i - 1].polling
    BY DEF CalleesArePolled
  <2>1. CASE i = n + 1
    <3>1. Len(stack') = n + 1 /\ i - 1 = n
      BY <2>1, <1>1, <1>2
    <3> QED
      BY ONLY <2>1, <3>1, <1>2, <1>3, f \in Futures
  <2>2. CASE i \in 2 .. n
    <3>1. stack[i].frame \in polled /\ stack[i].frame = stack[i - 1].polling
      BY <2>2 DEF StackInv, CalleesArePolled, n
    <3>2. i - 1 \in 1 .. n - 1
      BY ONLY <2>2, <1>1
    <3>3. stack'[i - 1].polling = stack[i - 1].polling
      BY <1>2, <3>2
    <3> QED
      BY <2>2, <3>1, <3>3, <1>2, <1>3
  <2> QED
    BY <2>1, <2>2, <1>1, <1>2
<1>7. NoReentry'
  BY <1>1, <1>2, <1>3, <1>4 DEF StackInv, NoReentry, n
<1>8. CallsAreIncomplete'
  BY <1>1, <1>2, <1>3 DEF StackInv, CallsAreIncomplete, n
<1>9. RanWasPolled'
  BY <1>2 DEF StackInv, RanWasPolled
<1>10. TimeoutPollsOperation'
  <2> SUFFICES ASSUME NEW i \in 1 .. Len(stack'), Kind(stack'[i].frame) = "timeout"
               PROVE  stack'[i].polling \in {None, program[stack'[i].frame].operation}
    BY DEF TimeoutPollsOperation, Kind
  <2>1. CASE i = n + 1
    BY <2>1, <1>1, <1>2, <1>3
  <2>2. CASE i = n
    BY <2>2, <1>1, <1>3 DEF Frame, Kind
  <2>3. CASE i \in 1 .. n - 1
    BY <2>3, <1>1, <1>2 DEF StackInv, TimeoutPollsOperation, n
  <2> QED
    BY <2>1, <2>2, <2>3, <1>1, <1>2
<1>11. AnswerIsOfPolled'
  <2>1. CASE Len(stack') = n
    <3>1. answer' = "ready" <=> state[f] = Complete
      BY <2>1, PollStack DEF n
    <3> QED
      BY <2>1, <1>3, <3>1 DEF AnswerIsOfPolled, Top
  <2>2. CASE Len(stack') = n + 1
    <3>1. answer' = "none"
      BY <2>2, PollStack DEF n
    <3> QED
      BY <3>1 DEF AnswerIsOfPolled
  <2> QED
    BY <2>1, <2>2, <1>2
<1>12. BodyPollsChild'
  <2> SUFFICES ASSUME NEW i \in 1 .. Len(stack'), Kind(stack'[i].frame) = "body",
                      i < Len(stack') \/ answer' # "none"
               PROVE  child'[stack'[i].frame] = stack'[i].polling
    BY DEF BodyPollsChild, Kind
  <2>1. i \in 1 .. n
    <3>1. CASE Len(stack') = n
      BY <3>1
    <3>2. CASE Len(stack') = n + 1
      <4>1. answer' = "none"
        BY <3>2, PollStack DEF n
      <4> QED
        BY <3>2, <4>1, <1>1
    <3> QED
      BY <3>1, <3>2, <1>2
  <2>2. CASE i = n
    BY <2>2, <1>1, <1>3 DEF Frame, Kind, TypeOK, Activations
  <2>3. CASE i \in 1 .. n - 1
    <3>0. n \in Nat \ {0} /\ i \in 1 .. n - 1
      BY <2>3, <1>1
    <3>1. stack'[i] = stack[i] /\ i < n /\ n \in 1 .. n
      <4>1. i < n /\ n \in 1 .. n
        BY ONLY <3>0
      <4> QED
        BY <4>1, <3>0, <1>2
    <3>2. stack[i].frame # Frame
      BY <2>3, <3>1, <1>1 DEF StackInv, NoReentry, n, Frame
    <3>3. child[stack[i].frame] = stack[i].polling
      BY <2>1, <3>1 DEF StackInv, BodyPollsChild, n, Kind
    <3>4. stack[i].frame \in Frames
      BY <2>1, <1>1 DEF Activations
    <3> QED
      BY <3>1, <3>2, <3>3, <3>4 DEF TypeOK
  <2> QED
    BY <2>1, <2>2, <2>3, <1>1
<1> QED
  BY <1>5, <1>6, <1>7, <1>8, <1>9, <1>10, <1>11, <1>12 DEF StackInv

\* A return to the caller, which was polling this frame.
LEMMA ReturnKeepsStack ==
  ASSUME TypeOK, StackInv, stack # << >>, NEW status \in {"pending", "ready"},
         NEW v \in Nat \cup {Complete}, Return(status),
         state' = [state EXCEPT ![Frame] = v], status = "ready" <=> v = Complete,
         UNCHANGED <<program, child, polled, ran>>
  PROVE  StackInv'
<1> DEFINE n == Len(stack)
<1>1. /\ n \in Nat \ {0} /\ Frame \in Frames /\ Frame = stack[n].frame
      /\ stack' \in Seq(Activations) /\ Len(stack') = n - 1 /\ answer' = status
      /\ \A i \in 1 .. n - 1 : stack'[i] = stack[i]
      /\ \A i \in 1 .. n - 1 : stack[i].frame \in Frames
  <2>1. stack \in Seq(Activations) /\ \A i \in 1 .. n - 1 : stack[i] \in Activations
    BY DEF TypeOK
  <2> QED
    BY <2>1, TopType DEF Return, Frame, Top, Activations
<1>2. state \in [Frames -> Nat \cup {Complete}]
  BY DEF TypeOK
<1>3. \A i \in 1 .. n - 1 : stack[i].frame # Frame
  BY <1>1 DEF StackInv, NoReentry
<1>4. n >= 2 => Frame = stack[n - 1].polling /\ Frame \in polled
  BY <1>1 DEF StackInv, CalleesArePolled
<1> HIDE DEF n
<1>5. stack' # << >> => n >= 2
  BY <1>1
<1>6. MainAtBottom'
  BY <1>1, <1>5 DEF StackInv, MainAtBottom, n
<1>7. CalleesArePolled'
  BY <1>1 DEF StackInv, CalleesArePolled, n
<1>8. NoReentry'
  BY <1>1 DEF StackInv, NoReentry, n
<1>9. CallsAreIncomplete'
  BY <1>1, <1>2, <1>3 DEF StackInv, CallsAreIncomplete, n
<1>10. RanWasPolled'
  BY DEF StackInv, RanWasPolled
<1>11. TimeoutPollsOperation'
  BY <1>1 DEF StackInv, TimeoutPollsOperation, n, Kind
<1>12. AnswerIsOfPolled'
  <2> SUFFICES ASSUME stack' # << >>
               PROVE  /\ stack'[Len(stack')].polling \in Futures
                      /\ answer' = "ready" <=> state'[stack'[Len(stack')].polling] = Complete
    BY DEF AnswerIsOfPolled, Top
  <2>1. stack'[n - 1] = stack[n - 1] /\ Len(stack') = n - 1
    BY <1>1, <1>5
  <2>2. stack'[Len(stack')].polling = Frame /\ Frame \in polled
    BY <2>1, <1>4, <1>5
  <2>3. Frame \in Futures
    BY <2>2 DEF TypeOK
  <2>4. state'[Frame] = v
    BY <1>1, <1>2
  <2> QED
    BY <2>2, <2>3, <2>4, <1>1
<1>13. BodyPollsChild'
  BY <1>1 DEF StackInv, BodyPollsChild, n, Kind
<1> QED
  BY <1>6, <1>7, <1>8, <1>9, <1>10, <1>11, <1>12, <1>13 DEF StackInv

\* A step of the innermost resume function.
LEMMA StepKeepsStack ==
  ASSUME TypeOK, StackInv, stack # << >>, NEW v \in Nat,
         state' = [state EXCEPT ![Frame] = v], answer' \in {answer, "none"},
         UNCHANGED <<program, stack, polled, ran>>,
         answer' = "none" \/ child' = child,
         \A g \in Frames \ {Frame} : child'[g] = child[g]
  PROVE  StackInv'
<1>1. Len(stack) \in 1 .. Len(stack) /\ Frame = stack[Len(stack)].frame
  BY TopType DEF Frame, Top
<1>2. v # Complete /\ state[Frame] # Complete
  BY <1>1 DEF StackInv, CallsAreIncomplete, Complete
<1>3. \A g \in Frames : state'[g] = Complete <=> state[g] = Complete
  BY <1>2 DEF TypeOK
<1>4. CallsAreIncomplete'
  <2>1. stack' = stack /\ \A i \in 1 .. Len(stack) : stack[i] \in Activations
    BY DEF TypeOK
  <2>2. \A i \in 1 .. Len(stack) : stack[i].frame \in Frames
    BY <2>1 DEF Activations
  <2> QED
    BY <1>3, <2>1, <2>2 DEF StackInv, CallsAreIncomplete
<1>5. AnswerIsOfPolled'
  BY <1>3 DEF StackInv, AnswerIsOfPolled, Top, Frames
<1>6. BodyPollsChild'
  <2> SUFFICES ASSUME NEW i \in 1 .. Len(stack), Kind(stack[i].frame) = "body",
                      i < Len(stack) \/ answer' # "none"
               PROVE  child'[stack[i].frame] = stack[i].polling
    BY DEF BodyPollsChild, Kind
  <2>1. stack[i].frame \in Frames
    <3>1. stack[i] \in Activations
      BY DEF TypeOK
    <3> QED
      BY <3>1 DEF Activations
  <2>2. CASE child' = child
    BY <2>2, <1>1 DEF StackInv, BodyPollsChild
  <2>3. CASE answer' = "none"
    <3>1. i < Len(stack)
      BY <2>3
    <3>2. stack[i].frame # Frame
      BY <3>1, <1>1 DEF StackInv, NoReentry
    <3> QED
      BY <3>1, <3>2, <2>1 DEF StackInv, BodyPollsChild
  <2> QED
    BY <2>2, <2>3
<1> QED
  BY <1>4, <1>5, <1>6 DEF StackInv, MainAtBottom, CalleesArePolled, NoReentry, RanWasPolled,
     TimeoutPollsOperation, Kind

\* After a trap there is no call.
LEMMA TrapKeepsStack ==
  ASSUME StackInv, stack' = << >>, UNCHANGED <<polled, ran>>
  PROVE  StackInv'
BY DEF StackInv, MainAtBottom, CalleesArePolled, NoReentry, CallsAreIncomplete,
   RanWasPolled, TimeoutPollsOperation, AnswerIsOfPolled, BodyPollsChild

-----------------------------------------------------------------------------
(* The steps. *)

\* Where a body is in its script.
LEMMA BodyPosition ==
  ASSUME TypeOK, BodyStateOK, StackInv, Resuming("body")
  PROVE  /\ Frame \in Frames /\ state[Frame] \in Nat
         /\ Script(Frame) \in Seq(Operations)
         /\ InBlock /\ ~AtEnd => state[Frame] + 2 <= 2 * Len(Script(Frame)) /\ Operation \in Operations
         /\ InPoll => state[Frame] + 1 <= 2 * Len(Script(Frame)) /\ Operation \in Operations
<1> DEFINE s == state[Frame]
           l == Len(Script(Frame))
<1>1. /\ Len(stack) \in 1 .. Len(stack) /\ Frame = stack[Len(stack)].frame /\ Frame \in Frames
  BY TopType DEF Frame, Top, Resuming
<1>2. s \in Nat /\ s <= 2 * l
  BY <1>1 DEF TypeOK, BodyStateOK, StackInv, CallsAreIncomplete, Resuming
<1>3. Script(Frame) \in Seq(Operations) /\ l \in Nat
  BY <1>1, DefinitionTypes DEF Resuming
<1> HIDE DEF s, l
<1>4. s % 2 = 0 /\ s \div 2 # l => s + 2 <= 2 * l /\ s \div 2 + 1 \in 1 .. l
  BY ONLY <1>2, <1>3
<1>5. s % 2 = 1 => s + 1 <= 2 * l /\ s \div 2 + 1 \in 1 .. l
  BY ONLY <1>2, <1>3
<1>6. \A i \in 1 .. l : Script(Frame)[i] \in Operations
  BY <1>3 DEF l
<1> QED
  BY <1>1, <1>2, <1>3, <1>4, <1>5, <1>6 DEF InBlock, InPoll, AtEnd, Operation, s, l

\* A frame that moves on within its kind.
LEMMA MoveOn ==
  ASSUME TypeOK, BodyStateOK, stack # << >>, UNCHANGED program,
         NEW v \in Nat \cup {Complete}, state' = [state EXCEPT ![Frame] = v],
         Kind(Frame) = "body" => v <= 2 * Len(Script(Frame))
  PROVE  BodyStateOK' /\ state' \in [Frames -> Nat \cup {Complete}]
BY TopType DEF TypeOK, BodyStateOK, Kind, Script

\* What a poll leaves of the types.
LEMMA PollTypes ==
  ASSUME TypeOK, stack # << >>, NEW f \in Futures, Poll(f)
  PROVE  /\ polled' \subseteq Futures /\ ran' \subseteq Frames
         /\ stack' \in Seq(Activations) /\ answer' \in {"none", "pending", "ready"}
<1>1. polled' = polled \cup {f} /\ ran' \subseteq ran \cup {f}
  BY DEF Poll
<1>2. answer' \in {"none", "pending", "ready"}
  BY DEF Poll
<1> QED
  BY <1>1, <1>2, PollStack DEF TypeOK, Frames

\* A completion within the types.
LEMMA CompletionKeepsInv ==
  ASSUME Inv, stack # << >>, NEW v \in Values, CompleteWith(v),
         UNCHANGED <<program, polled, ran, taken, trapped, child>>,
         operations' \in [Futures -> Seq(Futures)], version' \in [Futures -> Nat],
         begun' \in [Futures -> BOOLEAN], age' \in [Futures -> 0 .. MaxDuration]
  PROVE  Inv'
<1>1. Complete \in Nat \cup {Complete} /\ (Kind(Frame) = "body" => Complete <= 2 * Len(Script(Frame)))
  <2>1. Kind(Frame) = "body" => Len(Script(Frame)) \in Nat
    BY TopType, DefinitionTypes DEF Inv
  <2> QED
    BY <2>1 DEF Complete
<1>2. BodyStateOK' /\ state' \in [Frames -> Nat \cup {Complete}]
  BY <1>1, MoveOn DEF Inv, CompleteWith
<1>3. StackInv'
  BY <1>1, ReturnKeepsStack DEF Inv, CompleteWith, Return
<1>4. stack' \in Seq(Activations) /\ answer' = "ready" /\ value' \in [Frames -> Values]
  BY TopType DEF Inv, TypeOK, CompleteWith, Return
<1> QED
  BY <1>2, <1>3, <1>4 DEF Inv, ProgramOK, TypeOK

\* A frame that stays pending, whatever its next state.
LEMMA PendingKeepsInv ==
  ASSUME Inv, stack # << >>, NEW v \in Nat, state' = [state EXCEPT ![Frame] = v],
         Return("pending"), Kind(Frame) = "body" => v <= 2 * Len(Script(Frame)),
         UNCHANGED <<program, arrays, child, value, age, polled, ran, taken, trapped>>,
         begun' \in [Futures -> BOOLEAN]
  PROVE  Inv'
<1>1. BodyStateOK' /\ state' \in [Frames -> Nat \cup {Complete}]
  BY MoveOn DEF Inv
<1>2. StackInv'
  <2>1. v \in Nat \cup {Complete} /\ "pending" \in {"pending", "ready"}
    OBVIOUS
  <2>2. "pending" = "ready" <=> v = Complete
    BY DEF Complete
  <2> QED
    BY <2>1, <2>2, ReturnKeepsStack DEF Inv
<1>3. stack' \in Seq(Activations) /\ answer' = "pending"
  BY TopType DEF Inv, TypeOK, Return
<1> QED
  BY <1>1, <1>2, <1>3 DEF Inv, ProgramOK, TypeOK, arrays

LEMMA StepKeepsInv ==
  ASSUME Inv, stack # << >>, NEW v \in Nat, state' = [state EXCEPT ![Frame] = v],
         Kind(Frame) = "body" => v <= 2 * Len(Script(Frame)),
         answer' \in {answer, "none"},
         UNCHANGED <<program, value, clocks, stack, polled, ran, trapped>>,
         operations' \in [Futures -> Seq(Futures)], version' \in [Futures -> Nat],
         child' \in [Frames -> Futures \cup {None}], taken' \in [Frames -> Seq(Values)],
         answer' = "none" \/ child' = child,
         \A g \in Frames \ {Frame} : child'[g] = child[g]
  PROVE  Inv'
<1>1. BodyStateOK' /\ state' \in [Frames -> Nat \cup {Complete}]
  BY MoveOn DEF Inv
<1>2. StackInv'
  BY StepKeepsStack DEF Inv
<1> QED
  BY <1>1, <1>2 DEF Inv, ProgramOK, TypeOK, clocks

LEMMA PollKeepsInv ==
  ASSUME Inv, stack # << >>, NEW f \in Futures, Poll(f),
         Kind(Frame) = "timeout" => f = program[Frame].operation,
         UNCHANGED <<program, arrays, state, value, clocks, trapped, taken>>,
         child' = IF Kind(Frame) = "body" THEN [child EXCEPT ![Frame] = f] ELSE child
  PROVE  Inv'
<1>1. StackInv'
  BY PollKeepsStack DEF Inv
<1>2. /\ polled' \subseteq Futures /\ ran' \subseteq Frames
      /\ stack' \in Seq(Activations) /\ answer' \in {"none", "pending", "ready"}
      /\ child' \in [Frames -> Futures \cup {None}]
  BY PollTypes DEF Inv, TypeOK
<1>3. BodyStateOK'
  BY DEF Inv, BodyStateOK, Kind, Script
<1> QED
  BY <1>1, <1>2, <1>3 DEF Inv, ProgramOK, TypeOK, arrays, clocks

LEMMA TrapKeepsInv ==
  ASSUME Inv, trapped' = TRUE, stack' = << >>,
         UNCHANGED <<program, arrays, frames, clocks, polled, answer, taken, ran>>
  PROVE  Inv'
<1>1. StackInv'
  BY TrapKeepsStack DEF Inv
<1>2. BodyStateOK'
  BY DEF Inv, BodyStateOK, Kind, Script, frames
<1> QED
  BY <1>1, <1>2 DEF Inv, ProgramOK, TypeOK, arrays, clocks, frames

\* What was proved before about whoever is being resumed.
LEMMA Resumed ==
  ASSUME Inv, stack # << >>
  PROVE  /\ Frame \in Frames /\ Top \in Activations
         /\ state[Frame] \in Nat /\ state = [state EXCEPT ![Frame] = state[Frame]]
         /\ Kind(Frame) = "body" => state[Frame] <= 2 * Len(Script(Frame))
         /\ Kind(Frame) # "body" => Frame \in Futures
<1>1. /\ Len(stack) \in 1 .. Len(stack) /\ Frame = stack[Len(stack)].frame /\ Frame \in Frames
      /\ Top \in Activations
  BY TopType DEF Frame, Top, Inv
<1>2. state[Frame] \in Nat
  BY <1>1 DEF Inv, TypeOK, StackInv, CallsAreIncomplete
<1>3. Kind(Main) = "body"
  BY DEF Inv, ProgramOK, Kind
<1> QED
  BY <1>1, <1>2, <1>3 DEF Inv, TypeOK, BodyStateOK, Frames

LEMMA InitInv == Init => Inv
<1> SUFFICES ASSUME Init PROVE Inv
  OBVIOUS
<1>1. program \in [Frames -> Definitions] /\ ProgramOK
  BY ConstantsAssumption DEF Init, ProgramOK
<1>2. operations \in [Futures -> Seq(Futures)]
  <2> SUFFICES ASSUME NEW f \in Futures
               PROVE (IF Kind(f) = "race" THEN program[f].operations ELSE << >>) \in Seq(Futures)
    BY DEF Init
  <2>1. program[f] \in Definitions
    BY <1>1 DEF Frames
  <2> QED
    BY <2>1 DEF Definitions, Kind
<1>3. TypeOK
  <2>1. version \in [Futures -> Nat] /\ state \in [Frames -> Nat \cup {Complete}]
    BY DEF Init
  <2>2. child \in [Frames -> Futures \cup {None}] /\ value \in [Frames -> Values]
    BY DEF Init, Values
  <2>3. begun \in [Futures -> BOOLEAN] /\ age \in [Futures -> 0 .. MaxDuration]
    BY ConstantsAssumption DEF Init
  <2>4. taken \in [Frames -> Seq(Values)] /\ stack \in Seq(Activations)
    BY DEF Init
  <2> QED
    BY <1>1, <1>2, <2>1, <2>2, <2>3, <2>4 DEF Init, TypeOK
<1>4. BodyStateOK
  BY <1>3, DefinitionTypes DEF BodyStateOK, Init
<1>5. StackInv
  BY DEF Init, StackInv, MainAtBottom, CalleesArePolled, NoReentry, CallsAreIncomplete,
     RanWasPolled, TimeoutPollsOperation, AnswerIsOfPolled, BodyPollsChild
<1> QED
  BY <1>1, <1>3, <1>4, <1>5 DEF Inv

LEMMA BeginUpdateKeepsInv == ASSUME Inv, BeginUpdate PROVE Inv'
<1>1. age' \in [Futures -> 0 .. MaxDuration]
  <2>1. PICK time \in 1 .. 2 : age' = [f \in Futures |-> Older(f, time)]
    BY DEF BeginUpdate
  <2>2. \A f \in Futures : Older(f, time) \in 0 .. MaxDuration
    BY ConstantsAssumption DEF Older, Inv, TypeOK
  <2> QED
    BY <2>1, <2>2
<1>2. /\ Activation(Main) \in Activations
      /\ Activation(Main).frame = Main /\ Activation(Main).polling = None
  BY DEF Inv, ProgramOK, Activation, Activations, Kind, Frames
<1>3. stack' = <<Activation(Main)>> /\ stack' \in Seq(Activations) /\ Len(stack') = 1
      /\ stack'[1] = Activation(Main)
  BY <1>2 DEF BeginUpdate
<1>4. TypeOK'
  BY <1>1, <1>3 DEF BeginUpdate, Inv, TypeOK, arrays, frames, Frames
<1>5. BodyStateOK'
  BY DEF BeginUpdate, Inv, BodyStateOK, Kind, Script, frames
<1>6. state'[Main] # Complete
  BY DEF BeginUpdate, frames
<1>7. Kind(Main) = "body"
  BY DEF Inv, ProgramOK, Kind
<1>8. CallsAreIncomplete' /\ MainAtBottom'
  BY <1>2, <1>3, <1>6 DEF CallsAreIncomplete, MainAtBottom
<1>9. CalleesArePolled' /\ NoReentry'
  BY <1>3 DEF CalleesArePolled, NoReentry
<1>10. TimeoutPollsOperation'
  BY <1>2, <1>3 DEF TimeoutPollsOperation
<1>11. RanWasPolled' /\ AnswerIsOfPolled' /\ BodyPollsChild'
  BY <1>3 DEF BeginUpdate, RanWasPolled, AnswerIsOfPolled, BodyPollsChild
<1> QED
  BY <1>4, <1>5, <1>8, <1>9, <1>10, <1>11 DEF Inv, StackInv, ProgramOK, BeginUpdate

LEMMA BodyKeepsInv == ASSUME Inv, Body PROVE Inv'
<1>1. Resuming("body") /\ stack # << >> /\ Kind(Frame) = "body"
  BY DEF Body, BodySuspends, BodyResumesNextTick, BodyPolls, BodyWaits, BodyTakes,
     BodyMutates, BodyCompletes, InBlock, InPoll, Resuming
<1>2. /\ Frame \in Frames /\ state[Frame] \in Nat
      /\ Script(Frame) \in Seq(Operations)
      /\ InBlock /\ ~AtEnd => state[Frame] + 2 <= 2 * Len(Script(Frame)) /\ Operation \in Operations
      /\ InPoll => state[Frame] + 1 <= 2 * Len(Script(Frame)) /\ Operation \in Operations
  BY <1>1, BodyPosition DEF Inv
<1>3. /\ state[Frame] + 1 \in Nat /\ state[Frame] + 2 \in Nat
      /\ InBlock /\ ~AtEnd => state[Frame] + 1 <= 2 * Len(Script(Frame))
  BY <1>2
<1>4. TypeOK
  BY DEF Inv
<1>5. /\ \A o \in Operations : o.do = "await" => o.future \in Futures
      /\ \A o \in Operations : o.do \in {"push", "set"} => o.future \in Futures /\ o.array \in Futures
      /\ \A o \in Operations : o.do = "clear" => o.array \in Futures
  BY DEF Operations
<1>6. ASSUME BodySuspends PROVE Inv'
  <2>1. CASE Operation.do = "nextTick"
    BY <1>1, <1>2, <1>3, <1>6, <2>1, PendingKeepsInv, <1>4
       DEF BodySuspends, SetState, arrays, clocks, TypeOK
  <2>2. CASE Operation.do # "nextTick"
    BY <1>1, <1>2, <1>3, <1>6, <2>2, StepKeepsInv, <1>4
       DEF BodySuspends, SetState, arrays, clocks, TypeOK
  <2> QED
    BY <2>1, <2>2
<1>7. ASSUME BodyResumesNextTick PROVE Inv'
  BY <1>1, <1>2, <1>3, <1>7, StepKeepsInv, <1>4
     DEF BodyResumesNextTick, SetState, arrays, clocks, TypeOK
<1>8. ASSUME BodyPolls PROVE Inv'
  <2>1. Awaited \in Futures
    BY <1>2, <1>4, <1>5, <1>8 DEF BodyPolls, Awaited, TypeOK
  <2> QED
    BY <1>1, <1>8, <2>1, PollKeepsInv DEF BodyPolls
<1>9. ASSUME BodyWaits PROVE Inv'
  <2>1. state' = [state EXCEPT ![Frame] = state[Frame]]
    BY <1>4, <1>9 DEF BodyWaits, frames, TypeOK
  <2>2. state[Frame] <= 2 * Len(Script(Frame))
    BY <1>1, <1>2 DEF Inv, BodyStateOK
  <2> QED
    BY <1>1, <1>2, <1>4, <1>9, <2>1, <2>2, PendingKeepsInv DEF BodyWaits, frames, clocks, TypeOK
<1>10. ASSUME BodyTakes PROVE Inv'
  <2>1. child[Frame] \in Futures
    <3>1. Len(stack) \in 1 .. Len(stack) /\ Frame = stack[Len(stack)].frame
      BY <1>1, <1>4, TopType DEF Frame, Top
    <3>2. child[Frame] = Top.polling /\ Top.polling \in Futures
      BY <1>1, <1>10, <3>1 DEF BodyTakes, Inv, StackInv, BodyPollsChild, AnswerIsOfPolled, Top, Frame
    <3> QED
      BY <3>2
  <2>2. value[child[Frame]] \in Values
    BY <2>1, <1>4 DEF TypeOK, Frames
  <2>3. taken' \in [Frames -> Seq(Values)]
    <3>1. taken[Frame] \in Seq(Values)
      BY <1>2, <1>4 DEF TypeOK
    <3>2. Append(taken[Frame], value[child[Frame]]) \in Seq(Values)
      BY <2>2, <3>1
    <3> QED
      BY <1>4, <1>10, <3>2 DEF BodyTakes, TypeOK
  <2>4. child' \in [Frames -> Futures \cup {None}] /\ \A g \in Frames \ {Frame} : child'[g] = child[g]
    BY <1>4, <1>10 DEF BodyTakes, TypeOK
  <2> QED
    BY <1>1, <1>2, <1>3, <1>4, <1>10, <2>3, <2>4, StepKeepsInv
       DEF BodyTakes, SetState, arrays, clocks, TypeOK
<1>11. ASSUME BodyMutates PROVE Inv'
  <2> DEFINE r == Operation.array
             new == CASE Operation.do = "push"  -> Append(operations[r], Operation.future)
                      [] Operation.do = "set"   -> [operations[r] EXCEPT ![1] = Operation.future]
                      [] Operation.do = "clear" -> << >>
  <2>1. Operation \in Operations /\ Operation.do \in {"push", "set", "clear"} /\ r \in Futures
    BY <1>2, <1>5, <1>11 DEF BodyMutates
  <2>2. operations[r] \in Seq(Futures)
    BY <2>1, <1>4 DEF TypeOK
  <2>4. new \in Seq(Futures)
    <3>1. CASE Operation.do = "push"
      BY <3>1, <2>1, <2>2, <1>5
    <3>2. CASE Operation.do = "set"
      <4>1. operations[r] # << >> /\ Operation.future \in Futures
        BY <3>2, <2>1, <1>5, <1>11 DEF BodyMutates
      <4>2. 1 \in 1 .. Len(operations[r])
        BY ONLY <4>1, <2>2
      <4>3. [operations[r] EXCEPT ![1] = Operation.future] \in Seq(Futures)
        BY ONLY <4>1, <4>2, <2>2, ExceptSeq
      <4> QED
        BY <3>2, <4>3
    <3>3. CASE Operation.do = "clear"
      BY <3>3
    <3> QED
      BY <2>1, <3>1, <3>2, <3>3
  <2>5. operations' = [operations EXCEPT ![r] = new]
    BY <1>11 DEF BodyMutates
  <2> HIDE DEF new
  <2>6. operations' \in [Futures -> Seq(Futures)]
    BY <2>4, <2>5, <1>4 DEF TypeOK
  <2>7. version' \in [Futures -> Nat]
    BY <2>1, <1>4, <1>11 DEF BodyMutates, TypeOK
  <2>8. UNCHANGED <<child, taken>>
    BY <1>11 DEF BodyMutates
  <2> QED
    BY <1>1, <1>2, <1>3, <1>4, <1>11, <2>6, <2>7, <2>8, StepKeepsInv
       DEF BodyMutates, SetState, clocks, TypeOK
<1>12. ASSUME BodyCompletes PROVE Inv'
  <2> DEFINE v == IF taken[Frame] = << >> THEN Frame ELSE taken[Frame][Len(taken[Frame])]
  <2>1. v \in Values
    <3>1. taken[Frame] \in Seq(Values)
      BY <1>2, <1>4 DEF TypeOK
    <3>2. taken[Frame] # << >> => taken[Frame][Len(taken[Frame])] \in Values
      BY <3>1, Shorter
    <3> QED
      BY <1>2, <3>2 DEF Values, Frames
  <2>2. CompleteWith(v)
    BY <1>12 DEF BodyCompletes
  <2> HIDE DEF v
  <2> QED
    BY <1>1, <1>4, <1>12, <2>1, <2>2, CompletionKeepsInv DEF BodyCompletes, arrays, clocks, TypeOK
<1> QED
  BY <1>6, <1>7, <1>8, <1>9, <1>10, <1>11, <1>12 DEF Body

LEMMA LeafKeepsInv == ASSUME Inv, NextTick \/ Query PROVE Inv'
<1>1. stack # << >> /\ Kind(Frame) # "body"
  BY DEF NextTick, Query, Resuming
<1>2. Frame \in Frames /\ Frame \in Values /\ state[Frame] \in Nat
      /\ state = [state EXCEPT ![Frame] = state[Frame]]
  BY <1>1, Resumed DEF Values, Frames
<1>3. TypeOK
  BY DEF Inv
<1>4. ASSUME NextTick PROVE Inv'
  <2>1. CASE state[Frame] = 0
    BY <1>1, <1>2, <1>3, <1>4, <2>1, PendingKeepsInv DEF NextTick, SetState, clocks, TypeOK
  <2>2. CASE state[Frame] # 0
    BY <1>1, <1>2, <1>3, <1>4, <2>2, CompletionKeepsInv DEF NextTick, arrays, clocks, TypeOK
  <2> QED
    BY <2>1, <2>2
<1>5. ASSUME Query PROVE Inv'
  <2>1. CASE CompleteWith(Frame)
    BY <1>1, <1>2, <1>3, <1>5, <2>1, CompletionKeepsInv DEF Query, arrays, clocks, TypeOK
  <2>2. CASE Return("pending") /\ UNCHANGED <<state, value>>
    BY <1>1, <1>2, <1>3, <1>5, <2>2, PendingKeepsInv DEF Query, clocks, TypeOK
  <2> QED
    BY <1>5, <2>1, <2>2 DEF Query
<1> QED
  BY <1>4, <1>5

LEMMA RaceGoesOnKeepsInv == ASSUME Inv, RaceGoesOn PROVE Inv'
<1> DEFINE n == Len(stack)
           next == [Top EXCEPT !.index = @ + 1]
<1>1. /\ n \in Nat \ {0} /\ stack \in Seq(Activations) /\ Top = stack[n]
      /\ Callers \in Seq(Activations) /\ Len(Callers) = n - 1
      /\ \A i \in 1 .. n - 1 : Callers[i] = stack[i]
      /\ Top \in Activations
  BY TopType DEF RaceGoesOn, Resuming, Inv, TypeOK, Top
<1>2. next \in Activations /\ next.frame = Top.frame /\ next.polling = Top.polling
  <2>1. Top.index + 1 \in Nat
    BY <1>1 DEF Activations
  <2>2. next = [Top EXCEPT !.index = Top.index + 1]
    OBVIOUS
  <2> HIDE DEF next
  <2> QED
    BY ONLY <1>1, <2>1, <2>2 DEF Activations
<1>3. stack' = Append(Callers, next) /\ answer' = "none"
  BY DEF RaceGoesOn
<1> HIDE DEF n, next
<1>4. /\ stack' \in Seq(Activations) /\ Len(stack') = n
      /\ \A i \in 1 .. n - 1 : stack'[i] = stack[i]
      /\ stack'[n] = next
  <2>1. /\ stack' \in Seq(Activations) /\ Len(stack') = Len(Callers) + 1
        /\ \A i \in 1 .. Len(Callers) : stack'[i] = Callers[i]
        /\ stack'[Len(Callers) + 1] = next
    BY ONLY <1>1, <1>2, <1>3, Longer
  <2> QED
    BY ONLY <2>1, <1>1
<1>5. \A i \in 1 .. n : stack'[i].frame = stack[i].frame /\ stack'[i].polling = stack[i].polling
  <2>1. \A i \in 1 .. n : i \in 1 .. n - 1 \/ i = n
    BY ONLY <1>1
  <2> QED
    BY <1>1, <1>2, <1>4, <2>1
<1>6. MainAtBottom' /\ CalleesArePolled' /\ NoReentry' /\ CallsAreIncomplete'
  <2>1. MainAtBottom'
    <3>1. 1 \in 1 .. n /\ stack[1].frame = Main
      BY <1>1 DEF Inv, StackInv, MainAtBottom, RaceGoesOn, Resuming
    <3> QED
      BY <3>1, <1>5 DEF MainAtBottom
  <2>2. \A i \in 2 .. n : i \in 1 .. n /\ i - 1 \in 1 .. n
    BY ONLY <1>1
  <2>3. CalleesArePolled'
    BY <2>2, <1>4, <1>5 DEF Inv, StackInv, CalleesArePolled, RaceGoesOn, n
  <2> QED
    BY <2>1, <2>3, <1>4, <1>5 DEF Inv, StackInv, NoReentry, CallsAreIncomplete, RaceGoesOn, frames, n
<1>7. RanWasPolled' /\ TimeoutPollsOperation' /\ AnswerIsOfPolled'
  BY <1>3, <1>4, <1>5 DEF Inv, StackInv, RanWasPolled, TimeoutPollsOperation, AnswerIsOfPolled,
     RaceGoesOn, Kind, n
<1>8. BodyPollsChild'
  BY <1>3, <1>4, <1>5 DEF Inv, StackInv, BodyPollsChild, RaceGoesOn, Kind, frames, n
<1>9. BodyStateOK' /\ ProgramOK'
  BY DEF RaceGoesOn, Inv, BodyStateOK, ProgramOK, Kind, Script, frames
<1> QED
  BY <1>3, <1>4, <1>6, <1>7, <1>8, <1>9 DEF Inv, StackInv, RaceGoesOn, TypeOK, arrays, frames, clocks

LEMMA RaceKeepsInv == ASSUME Inv, Race PROVE Inv'
<1>1. stack # << >> /\ Kind(Frame) = "race"
  BY DEF Race, RacePending, RacePolls, RaceGoesOn, RaceTakes, Resuming
<1>2. /\ Frame \in Futures /\ state[Frame] \in Nat /\ Top \in Activations
      /\ state = [state EXCEPT ![Frame] = state[Frame]]
  BY <1>1, Resumed
<1>3. TypeOK
  BY DEF Inv
<1>4. \A i \in 0 .. Len(Array) - 1 : Array[i + 1] \in Futures
  BY <1>2, <1>3 DEF Array, TypeOK
<1>5. Top.index \in Nat /\ Len(Array) \in Nat
  BY <1>2, <1>3 DEF Activations, Array, TypeOK
<1>6. ASSUME RacePending PROVE Inv'
  BY <1>1, <1>2, <1>3, <1>6, PendingKeepsInv DEF RacePending, frames, clocks, TypeOK
<1>7. ASSUME RacePolls PROVE Inv'
  <2>1. CASE Top.index < Len(Array)
    <3>1. Array[Top.index + 1] \in Futures
      BY <2>1, <1>4, <1>5
    <3> QED
      BY <2>1, <3>1, <1>1, <1>7, PollKeepsInv DEF RacePolls, frames
  <2>2. CASE ~(Top.index < Len(Array))
    BY <2>2, <1>7, TrapKeepsInv DEF RacePolls
  <2> QED
    BY <2>1, <2>2
<1>8. ASSUME RaceTakes PROVE Inv'
  <2> DEFINE now == IF Top.index < Len(Array) THEN Array[Top.index + 1] ELSE None
  <2>1. PICK traps \in IF now = Top.polling THEN {FALSE} ELSE IF now = None THEN {TRUE} ELSE BOOLEAN :
          IF traps
            THEN trapped' = TRUE /\ stack' = << >> /\ UNCHANGED <<state, value, answer>>
            ELSE CompleteWith(value[now]) /\ UNCHANGED trapped
    BY <1>8 DEF RaceTakes
  <2>2. now # None => now \in Futures
    BY <1>4, <1>5
  <2>3. Top.polling \in Futures
    BY <1>1, <1>8 DEF RaceTakes, Inv, StackInv, AnswerIsOfPolled
  <2> HIDE DEF now
  <2>4. CASE traps = TRUE
    BY <2>1, <2>4, <1>8, TrapKeepsInv DEF RaceTakes, frames
  <2>5. CASE traps = FALSE
    <3>1. now \in Futures
      BY <2>1, <2>2, <2>3, <2>5, ConstantsAssumption DEF Frames
    <3>2. value[now] \in Values
      BY <3>1, <1>3 DEF TypeOK, Frames
    <3> QED
      BY <2>1, <2>5, <3>2, <1>1, <1>3, <1>8, CompletionKeepsInv
         DEF RaceTakes, arrays, clocks, TypeOK
  <2> QED
    BY <2>1, <2>4, <2>5
<1> QED
  BY <1>6, <1>7, <1>8, RaceGoesOnKeepsInv DEF Race

LEMMA TimeoutKeepsInv == ASSUME Inv, Timeout PROVE Inv'
<1>1. stack # << >> /\ Kind(Frame) = "timeout"
  BY DEF Timeout, TimeoutPolls, TimeoutTakes, TimeoutLooksAtClock, Resuming
<1>2. /\ Frame \in Futures /\ Frame \in Frames /\ state[Frame] \in Nat
      /\ state = [state EXCEPT ![Frame] = state[Frame]]
  BY <1>1, Resumed
<1>3. TypeOK
  BY DEF Inv
<1>4. program[Frame].operation \in Futures
  BY <1>1, <1>2, <1>3, DefinitionTypes
<1>5. ASSUME TimeoutPolls PROVE Inv'
  BY <1>1, <1>4, <1>5, PollKeepsInv DEF TimeoutPolls, frames
<1>6. ASSUME TimeoutTakes PROVE Inv'
  <2>1. value[program[Frame].operation] \in Values
    BY <1>4, <1>3 DEF TypeOK, Frames
  <2> QED
    BY <2>1, <1>1, <1>3, <1>6, CompletionKeepsInv DEF TimeoutTakes, arrays, clocks, TypeOK
<1>7. ASSUME TimeoutLooksAtClock PROVE Inv'
  <2>1. begun' \in [Futures -> BOOLEAN]
    BY <1>3, <1>7 DEF TimeoutLooksAtClock, TypeOK
  <2>2. CASE CompleteWith(TimedOut)
    BY <2>1, <2>2, <1>1, <1>3, <1>7, CompletionKeepsInv
       DEF TimeoutLooksAtClock, arrays, TypeOK, Values
  <2>3. CASE Return("pending") /\ UNCHANGED <<state, value>>
    BY <2>1, <2>3, <1>1, <1>2, <1>3, <1>7, PendingKeepsInv DEF TimeoutLooksAtClock, arrays, TypeOK
  <2> QED
    BY <2>2, <2>3, <1>7 DEF TimeoutLooksAtClock
<1> QED
  BY <1>5, <1>6, <1>7 DEF Timeout

LEMMA NextKeepsInv == ASSUME Inv, [Next]_vars PROVE Inv'
<1>1. CASE UNCHANGED vars
  BY <1>1 DEF vars, arrays, frames, clocks, Inv, TypeOK, ProgramOK, BodyStateOK, StackInv, MainAtBottom,
     CalleesArePolled, NoReentry, CallsAreIncomplete, RanWasPolled, TimeoutPollsOperation,
     AnswerIsOfPolled, BodyPollsChild, Top, Kind, Script
<1> QED
  BY <1>1, BeginUpdateKeepsInv, BodyKeepsInv, LeafKeepsInv, RaceKeepsInv, TimeoutKeepsInv DEF Next

LEMMA InvIsInvariant == Spec => []Inv
<1>1. Init => Inv
  BY InitInv
<1>2. Inv /\ [Next]_vars => Inv'
  BY NextKeepsInv
<1> QED
  BY <1>1, <1>2, PTL DEF Spec

-----------------------------------------------------------------------------
(* The theorems. *)

\* Every variable keeps its type, for any scripts: in particular an element
\* is read, and a poll made, only of a future there is.
THEOREM TypeCorrect == Spec => []TypeOK
<1>1. Inv => TypeOK
  BY DEF Inv
<1> QED
  BY <1>1, InvIsInvariant, PTL

\* No resume function is entered while it runs, though bodies and
\* combinators may wait for themselves or for one another.
THEOREM NoReentryOfResume == Spec => []NoReentry
<1>1. Inv => NoReentry
  BY DEF Inv, StackInv
<1> QED
  BY <1>1, InvIsInvariant, PTL

LEMMA OnlyPollsEnter ==
  ASSUME Inv, Next, stack # << >>, Len(stack') > Len(stack)
  PROVE  \E f \in Futures : Poll(f)
<1>1. /\ Len(stack) \in Nat \ {0} /\ Len(Callers) = Len(stack) - 1
      /\ Callers \in Seq(Activations) /\ Frame \in Frames
  BY TopType DEF Inv
<1>2. stack' # stack /\ stack' # Callers /\ stack' # << >>
  BY <1>1
<1>3. ~BeginUpdate
  BY DEF BeginUpdate
<1>4. ASSUME Body PROVE \E f \in Futures : Poll(f)
  <2>1. BodyPolls
    BY <1>2, <1>4 DEF Body, BodySuspends, BodyResumesNextTick, BodyWaits, BodyTakes,
       BodyMutates, BodyCompletes, CompleteWith, Return
  <2>2. Awaited \in Futures
    <3>1. Resuming("body") /\ InPoll /\ Operation.do = "await"
      BY <2>1 DEF BodyPolls, InPoll
    <3>2. Operation \in Operations /\ child[Frame] \in Futures \cup {None}
      BY <3>1, <1>1, BodyPosition DEF Inv, TypeOK
    <3>3. Operation.future \in Futures
      BY <3>1, <3>2 DEF Operations
    <3> QED
      BY <3>2, <3>3 DEF Awaited
  <2> QED
    BY <2>1, <2>2 DEF BodyPolls
<1>5. ASSUME NextTick \/ Query PROVE FALSE
  BY <1>2, <1>5 DEF NextTick, Query, CompleteWith, Return
<1>6. ASSUME Race PROVE \E f \in Futures : Poll(f)
  <2>1. ~RaceGoesOn
    <3>1. Len(Append(Callers, [Top EXCEPT !.index = @ + 1])) = Len(Callers) + 1
      BY <1>1
    <3> QED
      BY <1>1, <3>1 DEF RaceGoesOn
  <2>2. RacePolls
    BY <1>2, <1>6, <2>1 DEF Race, RacePending, RaceTakes, CompleteWith, Return
  <2>3. Frame \in Futures /\ Top.index \in Nat
    BY <2>2, Resumed DEF RacePolls, Resuming, Activations
  <2>4. operations[Frame] \in Seq(Futures)
    BY <2>3 DEF Inv, TypeOK
  <2>5. Top.index < Len(Array) /\ Poll(Array[Top.index + 1])
    BY <1>2, <2>2 DEF RacePolls
  <2>6. Array[Top.index + 1] \in Futures
    BY <2>3, <2>4, <2>5 DEF Array
  <2> QED
    BY <2>5, <2>6
<1>7. ASSUME Timeout PROVE \E f \in Futures : Poll(f)
  <2>1. TimeoutPolls
    BY <1>2, <1>7 DEF Timeout, TimeoutTakes, TimeoutLooksAtClock, CompleteWith, Return
  <2>2. program[Frame].operation \in Futures
    BY <2>1, <1>1, DefinitionTypes DEF TimeoutPolls, Resuming, Inv
  <2> QED
    BY <2>1, <2>2 DEF TimeoutPolls
<1> QED
  BY <1>3, <1>4, <1>5, <1>6, <1>7 DEF Next

\* However many wait for a future, its resume function is entered at most
\* once in an update.
THEOREM ResumedOnce == Spec => ResumedOncePerUpdate
<1>1. ASSUME Inv, [Next]_vars PROVE [Entered \cap ran = {}]_vars
  <2> SUFFICES ASSUME Next, Len(stack') > Len(stack), stack # << >>
               PROVE  stack'[Len(stack')].frame \notin ran
    BY <1>1 DEF Entered
  <2>1. PICK f \in Futures : Poll(f)
    BY <1>1, OnlyPollsEnter
  <2>2. Len(stack) \in Nat
    BY <1>1 DEF Inv, TypeOK
  <2>3. /\ Len(stack') = Len(stack) + 1 /\ stack'[Len(stack) + 1] = Activation(f) /\ f \notin polled
    <3>1. /\ Len(stack') \in {Len(stack), Len(stack) + 1}
          /\ Len(stack') = Len(stack) + 1 =>
               stack'[Len(stack) + 1] = Activation(f) /\ f \notin polled
      BY <1>1, <2>1, PollStack DEF Inv
    <3>2. Len(stack') = Len(stack) + 1
      BY <2>2, <3>1
    <3> QED
      BY <3>1, <3>2
  <2>4. Activation(f).frame = f
    BY <1>1, ActivationType DEF Inv
  <2> QED
    BY <1>1, <2>3, <2>4, ConstantsAssumption DEF Inv, StackInv, RanWasPolled, Frames
<1> QED
  BY <1>1, InvIsInvariant, PTL DEF Spec, ResumedOncePerUpdate

\* Only the frame being resumed completes.
LEMMA OnlyResumedCompletes ==
  ASSUME Inv, Next, NEW f \in Futures, Completed(f)
  PROVE  stack # << >> /\ f = Frame
<1>1. state' # state
  BY DEF Completed
<1>2. stack # << >> /\ \E v : state' = [state EXCEPT ![Frame] = v]
  <2>1. ~BeginUpdate
    BY <1>1 DEF BeginUpdate, frames
  <2>2. CASE Body
    BY <1>1, <2>2 DEF Body, BodySuspends, BodyResumesNextTick, BodyPolls, BodyWaits, BodyTakes,
       BodyMutates, BodyCompletes, InBlock, InPoll, Resuming, CompleteWith, SetState, frames
  <2>3. CASE NextTick \/ Query
    BY <1>1, <2>3 DEF NextTick, Query, Resuming, CompleteWith, SetState
  <2>4. CASE Race
    BY <1>1, <2>4 DEF Race, RacePending, RacePolls, RaceGoesOn, RaceTakes, Resuming,
       CompleteWith, frames
  <2>5. CASE Timeout
    BY <1>1, <2>5 DEF Timeout, TimeoutPolls, TimeoutTakes, TimeoutLooksAtClock, Resuming,
       CompleteWith, frames
  <2> QED
    BY <2>1, <2>2, <2>3, <2>4, <2>5 DEF Next
<1> QED
  BY <1>2 DEF Completed, Inv, TypeOK, Frames

\* A timeout whose operation is ready completes with its value, whichever
\* waiter made it ready; otherwise not before its deadline.
THEOREM ReadyWins == Spec => ReadyBeatsDeadline
<1>1. ASSUME Inv, [Next]_vars
      PROVE  [\A f \in Futures : Kind(f) = "timeout" /\ Completed(f) =>
                LET operation == program[f].operation IN
                IF state[operation] = Complete
                  THEN value'[f] = value[operation]
                  ELSE value'[f] = TimedOut /\ begun'[f] /\ age[f] >= program[f].duration]_vars
  <2> SUFFICES ASSUME Next, NEW f \in Futures, Kind(f) = "timeout", Completed(f)
               PROVE  IF state[program[f].operation] = Complete
                        THEN value'[f] = value[program[f].operation]
                        ELSE value'[f] = TimedOut /\ begun'[f] /\ age[f] >= program[f].duration
    BY <1>1
  <2>1. stack # << >> /\ f = Frame
    BY <1>1, OnlyResumedCompletes
  <2>2. state' # state
    BY DEF Completed
  <2>3. Kind(Frame) = "timeout"
    BY <2>1
  <2>4. TimeoutTakes \/ TimeoutLooksAtClock
    <3>1. ~Body /\ ~NextTick /\ ~Query /\ ~Race
      BY <2>3 DEF Body, BodySuspends, BodyResumesNextTick, BodyPolls, BodyWaits, BodyTakes,
         BodyMutates, BodyCompletes, InBlock, InPoll, NextTick, Query, Race, RacePending,
         RacePolls, RaceGoesOn, RaceTakes, Resuming
    <3>2. ~TimeoutPolls /\ ~BeginUpdate
      BY <2>2 DEF TimeoutPolls, BeginUpdate, frames
    <3> QED
      BY <3>1, <3>2 DEF Next, Timeout
  <2>5. Top.polling = program[f].operation /\ (answer = "ready" <=> state[program[f].operation] = Complete)
    <3>1. answer # "none"
      BY <2>4 DEF TimeoutTakes, TimeoutLooksAtClock
    <3>2. Top.polling \in Futures /\ (answer = "ready" <=> state[Top.polling] = Complete)
      BY <1>1, <2>1, <3>1 DEF Inv, StackInv, AnswerIsOfPolled
    <3>3. Len(stack) \in 1 .. Len(stack) /\ Top = stack[Len(stack)]
      BY <1>1, <2>1, TopType DEF Inv, Top
    <3>4. Top.polling \in {None, program[f].operation}
      BY <1>1, <2>1, <2>3, <3>3 DEF Inv, StackInv, TimeoutPollsOperation, Frame
    <3> QED
      BY <3>2, <3>4, ConstantsAssumption DEF Frames
  <2>6. CASE TimeoutTakes
    BY <1>1, <2>1, <2>5, <2>6 DEF TimeoutTakes, CompleteWith, Inv, TypeOK, Frames
  <2>7. CASE TimeoutLooksAtClock
    <3>1. state[program[f].operation] # Complete
      BY <2>5, <2>7 DEF TimeoutLooksAtClock
    <3>2. age[f] >= program[f].duration /\ CompleteWith(TimedOut) /\ begun' = [begun EXCEPT ![f] = TRUE]
      BY <2>1, <2>2, <2>7 DEF TimeoutLooksAtClock
    <3>3. value'[f] = TimedOut /\ begun'[f]
      BY <1>1, <2>1, <3>2 DEF CompleteWith, Inv, TypeOK, Frames
    <3> QED
      BY <3>1, <3>2, <3>3
  <2> QED
    BY <2>4, <2>6, <2>7
<1> QED
  BY <1>1, InvIsInvariant, PTL DEF Spec, ReadyBeatsDeadline
-----------------------------------------------------------------------------
(* Awaits get their own. *)

\* The operations a body has behind it.
Passed(f) == IF state[f] = Complete THEN Len(Script(f)) ELSE state[f] \div 2

\* A body has received one completion for each await it has passed, and keeps a child
\* only while it polls the operand of the one it is at.
AwaitsOK(f) ==
  /\ Len(taken[f]) = AwaitsAmong(f, Passed(f))
  /\ \A k \in 1 .. Len(taken[f]) : \E n \in 1 .. Len(Script(f)) : ReceivedAt(f, k, n)
  /\ child[f] # None =>
       /\ state[f] # Complete /\ state[f] % 2 = 1
       /\ Script(f)[state[f] \div 2 + 1].do = "await"
       /\ child[f] = Script(f)[state[f] \div 2 + 1].future

AwaitInv == \A f \in Frames : Kind(f) = "body" => AwaitsOK(f)

\* Lemma: counting awaits.
LEMMA AwaitsCount ==
  ASSUME NEW f, NEW n \in Nat
  PROVE  /\ AwaitsAmong(f, 0) = 0 /\ AwaitsAmong(f, n) \in Nat
         /\ AwaitsAmong(f, n + 1) = IF Script(f)[n + 1].do = "await" THEN AwaitsAmong(f, n) + 1
                                                                    ELSE AwaitsAmong(f, n)
<1> DEFINE A(j) == {m \in 1 .. j : Script(f)[m].do = "await"}
<1>1. IsFiniteSet(A(n)) /\ n + 1 \notin A(n)
  <2>1. IsFiniteSet(1 .. n)
    BY FS_Interval
  <2> QED  BY <2>1, FS_Subset
<1>2. A(0) = {}
  OBVIOUS
<1>3. A(n + 1) = IF Script(f)[n + 1].do = "await" THEN A(n) \cup {n + 1} ELSE A(n)
  OBVIOUS
<1>4. Cardinality(A(n)) \in Nat /\ Cardinality(A(n) \cup {n + 1}) = Cardinality(A(n)) + 1
  <2> HIDE DEF A
  <2> QED  BY <1>1, FS_CardinalityType, FS_AddElement
<1>5. Cardinality({}) = 0
  BY FS_EmptySet
<1>6. \A j : AwaitsAmong(f, j) = Cardinality(A(j))
  BY DEF AwaitsAmong
<1> HIDE DEF A
<1> QED  BY <1>2, <1>3, <1>4, <1>5, <1>6

\* Lemma: only the frame being resumed changes.
LEMMA OnlyFrameMoves ==
  ASSUME Inv, Next
  PROVE  /\ program' = program
         /\ \A g \in Frames : stack = << >> \/ g # Frame =>
              /\ state'[g] = state[g] /\ value'[g] = value[g]
              /\ child'[g] = child[g] /\ taken'[g] = taken[g]
<1>1. TypeOK
  BY DEF Inv
<1>2. CASE BeginUpdate
  BY <1>2 DEF BeginUpdate, frames
<1>3. CASE Body
  BY <1>1, <1>3 DEF TypeOK, Body, BodySuspends, BodyResumesNextTick, BodyPolls, BodyWaits, BodyTakes,
     BodyMutates, BodyCompletes, InBlock, InPoll, Resuming, CompleteWith, SetState, frames
<1>4. CASE NextTick \/ Query
  BY <1>1, <1>4 DEF TypeOK, NextTick, Query, Resuming, CompleteWith, SetState
<1>5. CASE Race
  BY <1>1, <1>5 DEF TypeOK, Race, RacePending, RacePolls, RaceGoesOn, RaceTakes, Resuming, CompleteWith, frames
<1>6. CASE Timeout
  BY <1>1, <1>6 DEF TypeOK, Timeout, TimeoutPolls, TimeoutTakes, TimeoutLooksAtClock, Resuming,
     CompleteWith, frames
<1> QED  BY <1>2, <1>3, <1>4, <1>5, <1>6 DEF Next

\* Lemma: completions are retained.
LEMMA Retained ==
  ASSUME Inv, Next, NEW h \in Frames, state[h] = Complete
  PROVE  state'[h] = Complete /\ value'[h] = value[h]
<1>1. stack # << >> => h # Frame
  BY Resumed DEF Complete
<1> QED  BY <1>1, OnlyFrameMoves

\* Lemma: what a body has received it keeps.
LEMMA ReceivedKept ==
  ASSUME Inv, Next, NEW f \in Frames, Kind(f) = "body", NEW k \in 1 .. Len(taken[f]),
         NEW n \in 1 .. Len(Script(f)), ReceivedAt(f, k, n), taken'[f][k] = taken[f][k]
  PROVE  ReceivedAt(f, k, n)'
<1>1. Script(f) \in Seq(Operations) /\ Script(f)' = Script(f)
  BY DefinitionTypes, OnlyFrameMoves DEF Inv, Script
<1>2. Script(f)[n] \in Operations
  BY <1>1
<1>3. Script(f)[n].future \in Frames
  BY <1>2 DEF ReceivedAt, Operations, Frames
<1>4. AwaitsAmong(f, n)' = AwaitsAmong(f, n)
  BY <1>1 DEF AwaitsAmong
<1> QED  BY <1>1, <1>3, <1>4, Retained DEF ReceivedAt

\* Lemma: a body that receives nothing, and passes no await.
LEMMA NothingReceived ==
  ASSUME Inv, Next, NEW f \in Frames, Kind(f) = "body", AwaitsOK(f),
         taken'[f] = taken[f], AwaitsAmong(f, Passed(f)') = AwaitsAmong(f, Passed(f)),
         child'[f] # None =>
           /\ state'[f] # Complete /\ state'[f] % 2 = 1
           /\ Script(f)[state'[f] \div 2 + 1].do = "await"
           /\ child'[f] = Script(f)[state'[f] \div 2 + 1].future
  PROVE  AwaitsOK(f)'
<1>1. Script(f)' = Script(f)
  BY OnlyFrameMoves DEF Script
<1>2. \A n : AwaitsAmong(f, n)' = AwaitsAmong(f, n)
  BY <1>1 DEF AwaitsAmong
<1>3. ASSUME NEW k \in 1 .. Len(taken'[f])
      PROVE  \E n \in 1 .. Len(Script(f)') : ReceivedAt(f, k, n)'
  <2>1. PICK n \in 1 .. Len(Script(f)) : ReceivedAt(f, k, n)
    BY <1>3 DEF AwaitsOK
  <2>2. ReceivedAt(f, k, n)'
    BY <1>3, <2>1, ReceivedKept
  <2> QED  BY <1>1, <2>2
<1>4. Len(taken'[f]) = AwaitsAmong(f, Passed(f))'
  <2> DEFINE m == Passed(f)'
  <2>1. AwaitsAmong(f, Passed(f))' = Cardinality({j \in 1 .. m : Script(f)[j].do = "await"})
    BY <1>1 DEF AwaitsAmong
  <2>2. AwaitsAmong(f, m) = Cardinality({j \in 1 .. m : Script(f)[j].do = "await"})
    BY DEF AwaitsAmong
  <2> HIDE DEF m
  <2>3. AwaitsAmong(f, m) = AwaitsAmong(f, Passed(f))
    BY DEF m
  <2> QED  BY <2>1, <2>2, <2>3 DEF AwaitsOK
<1> QED  BY <1>1, <1>3, <1>4 DEF AwaitsOK
\* Lemma: halves of a state.
LEMMA Halves ==
  ASSUME NEW s \in Nat
  PROVE  /\ s \div 2 \in Nat
         /\ s % 2 = 0 => (s + 1) \div 2 = s \div 2 /\ (s + 1) % 2 = 1
         /\ s % 2 = 0 => (s + 2) \div 2 = s \div 2 + 1 /\ (s + 2) % 2 = 0
         /\ s % 2 = 1 => (s + 1) \div 2 = s \div 2 + 1 /\ (s + 1) % 2 = 0
OBVIOUS

\* Lemma: a step of a body to a later state, past an operation that is no await or past none.
LEMMA BodyMovesOn ==
  ASSUME Inv, Next, stack # << >>, NEW f \in Frames, f = Frame, Kind(f) = "body", AwaitsOK(f),
         taken' = taken, NEW v \in Nat, state' = [state EXCEPT ![Frame] = v],
         \/ v \div 2 = state[f] \div 2
         \/ v \div 2 = state[f] \div 2 + 1 /\ Operation.do # "await",
         child'[f] = None
  PROVE  AwaitsOK(f)'
<1>1. state[f] \in Nat /\ state'[f] = v /\ taken'[f] = taken[f]
  BY Resumed DEF Inv, TypeOK
<1>2. Passed(f) = state[f] \div 2 /\ state[f] \div 2 \in Nat
  BY <1>1, Halves DEF Passed, Complete
<1>3. Passed(f)' = v \div 2
  BY <1>1 DEF Passed, Complete
<1>4. AwaitsAmong(f, v \div 2) = AwaitsAmong(f, state[f] \div 2)
  BY <1>2, AwaitsCount DEF Operation
<1> QED
  BY <1>1, <1>2, <1>3, <1>4, NothingReceived

\* Lemma: an answer to a body is about the operand of the await it is at.
LEMMA AnswerIsOfOperand ==
  ASSUME Inv, stack # << >>, NEW f \in Frames, f = Frame, Kind(f) = "body", AwaitsOK(f),
         answer = "ready"
  PROVE  child[f] = Operation.future /\ child[f] \in Futures /\ state[child[f]] = Complete
<1>1. Len(stack) \in 1 .. Len(stack) /\ Frame = stack[Len(stack)].frame
  BY TopType DEF Inv, Frame, Top
<1>2. child[f] = Top.polling
  BY <1>1 DEF Inv, StackInv, BodyPollsChild, Top
<1>3. Top.polling \in Futures /\ state[Top.polling] = Complete
  BY DEF Inv, StackInv, AnswerIsOfPolled
<1>4. child[f] # None
  BY <1>2, <1>3, ConstantsAssumption DEF Frames
<1> QED
  BY <1>2, <1>3, <1>4 DEF AwaitsOK, Operation

\* Lemma: an await that is answered.
LEMMA TakingKeepsAwaits ==
  ASSUME Inv, BodyTakes, NEW f \in Frames, f = Frame, Kind(f) = "body", AwaitsOK(f)
  PROVE  AwaitsOK(f)'
<1> DEFINE s == state[f]
           n == s \div 2 + 1
           l == Len(taken[f])
<1>1. Next /\ stack # << >> /\ InPoll /\ answer = "ready" /\ Operation.do = "await"
  BY DEF BodyTakes, InPoll, Resuming, Next, Body
<1>2. s \in Nat /\ n \in 1 .. Len(Script(f)) /\ s + 1 \in Nat /\ Script(f)[n] = Operation
  <2>1. s \in Nat /\ s <= 2 * Len(Script(f)) /\ Script(f) \in Seq(Operations)
    BY <1>1, Resumed, DefinitionTypes DEF Inv
  <2>2. s % 2 = 1
    BY <1>1 DEF InPoll
  <2> HIDE DEF s
  <2>3. Len(Script(f)) \in Nat
    BY <2>1
  <2>4. s \div 2 + 1 \in 1 .. Len(Script(f)) /\ s + 1 \in Nat
    BY ONLY <2>1, <2>2, <2>3
  <2> QED
    BY <2>1, <2>4 DEF Operation, s
<1>3. child[f] = Operation.future /\ child[f] \in Futures /\ state[child[f]] = Complete
  BY <1>1, AnswerIsOfOperand
<1>4. /\ state'[f] = s + 1 /\ child'[f] = None /\ program' = program
      /\ taken'[f] = Append(taken[f], value[child[f]])
  BY DEF BodyTakes, SetState, Inv, TypeOK
<1>5. taken[f] \in Seq(Values) /\ value[child[f]] \in Values
  BY <1>3 DEF Inv, TypeOK, Frames
<1>6. /\ l \in Nat /\ Len(taken'[f]) = l + 1 /\ taken'[f][l + 1] = value[child[f]]
      /\ \A k \in 1 .. l : taken'[f][k] = taken[f][k]
  BY <1>4, <1>5
<1>7. Passed(f) = s \div 2 /\ s \div 2 \in Nat /\ Passed(f)' = n
  <2>1. s \div 2 \in Nat /\ (s + 1) \div 2 = n
    BY <1>1, <1>2, Halves DEF InPoll
  <2> QED
    BY <1>2, <1>4, <2>1 DEF Passed, Complete
<1>8. AwaitsAmong(f, n) = l + 1
  <2>1. l = AwaitsAmong(f, s \div 2) /\ s \div 2 \in Nat
    BY <1>7 DEF AwaitsOK
  <2>2. Script(f)[n].do = "await"
    BY <1>1, <1>2
  <2> QED
    BY <2>1, <2>2, AwaitsCount
<1>9. Script(f)' = Script(f)
  BY <1>4 DEF Script
<1>10. \A m : AwaitsAmong(f, m)' = AwaitsAmong(f, m)
  BY <1>9 DEF AwaitsAmong
<1>11. Len(taken[f])' = AwaitsAmong(f, Passed(f))'
  <2>1. AwaitsAmong(f, Passed(f))' = Cardinality({m \in 1 .. n : Script(f)[m].do = "await"})
    BY <1>7, <1>9 DEF AwaitsAmong
  <2>2. AwaitsAmong(f, n) = Cardinality({m \in 1 .. n : Script(f)[m].do = "await"})
    BY DEF AwaitsAmong
  <2> QED
    BY <1>6, <1>8, <2>1, <2>2
<1>12. ASSUME NEW k \in 1 .. l + 1
       PROVE  \E m \in 1 .. Len(Script(f)) : ReceivedAt(f, k, m)'
  <2>1. CASE k = l + 1
    <3>1. child[f] \in Frames
      BY <1>3 DEF Frames
    <3>2. state'[child[f]] = Complete /\ value'[child[f]] = value[child[f]]
      BY <1>1, <1>3, <3>1, Retained
    <3>3. PICK m \in 1 .. Len(Script(f)) : m = n
      BY <1>2
    <3>4. Script(f)[m].do = "await" /\ AwaitsAmong(f, m) = k /\ Script(f)[m].future = child[f]
      BY <1>1, <1>2, <1>3, <1>8, <2>1, <3>3
    <3>5. Script(f)'[m].do = "await" /\ AwaitsAmong(f, m)' = k /\ Script(f)'[m].future = child[f]
      BY <1>9, <1>10, <3>4
    <3>6. taken'[f][k] = value'[child[f]]
      BY <1>6, <2>1, <3>2
    <3>7. ReceivedAt(f, k, m)'
      BY <3>2, <3>5, <3>6 DEF ReceivedAt
    <3> QED
      BY <3>7
  <2>2. CASE k # l + 1
    <3>1. k \in 1 .. l
      BY <1>6, <1>12, <2>2
    <3>2. PICK m \in 1 .. Len(Script(f)) : ReceivedAt(f, k, m)
      BY <3>1 DEF AwaitsOK
    <3> QED
      BY <1>1, <1>6, <3>1, <3>2, ReceivedKept
  <2> QED
    BY <2>1, <2>2
<1> QED
  BY <1>4, <1>6, <1>9, <1>11, <1>12 DEF AwaitsOK

\* Lemma: every step of a body.
LEMMA BodyKeepsAwaits ==
  ASSUME Inv, Body, NEW f \in Frames, f = Frame, AwaitsOK(f)
  PROVE  Kind(f) = "body" => AwaitsOK(f)'
<1> SUFFICES ASSUME Kind(f) = "body" PROVE AwaitsOK(f)'
  OBVIOUS
<1> DEFINE s == state[f]
<1>1. Next /\ stack # << >>
  BY DEF Next, Body, BodySuspends, BodyResumesNextTick, BodyPolls, BodyWaits, BodyTakes,
     BodyMutates, BodyCompletes, InBlock, InPoll, Resuming
<1>2. s \in Nat /\ s + 1 \in Nat /\ s + 2 \in Nat /\ TypeOK
  BY <1>1, Resumed DEF Inv
<1>3. InBlock => s % 2 = 0 /\ child[f] = None
  BY <1>2 DEF InBlock, AwaitsOK
<1>4. CASE BodySuspends
  <2>1. InBlock /\ taken' = taken /\ child' = child /\ state' = [state EXCEPT ![Frame] = s + 1]
    BY <1>4 DEF BodySuspends, SetState
  <2>2. (s + 1) \div 2 = s \div 2
    BY <1>2, <1>3, <2>1, Halves
  <2> QED
    BY <1>1, <1>2, <1>3, <2>1, <2>2, BodyMovesOn
<1>5. CASE BodyResumesNextTick
  <2>1. /\ InPoll /\ Operation.do = "nextTick" /\ taken' = taken /\ child' = child
        /\ state' = [state EXCEPT ![Frame] = s + 1]
    BY <1>5 DEF BodyResumesNextTick, SetState
  <2>2. (s + 1) \div 2 = s \div 2 + 1
    BY <1>2, <2>1, Halves DEF InPoll
  <2>3. child[f] = None
    BY <2>1 DEF AwaitsOK, Operation
  <2> QED
    BY <1>1, <1>2, <2>1, <2>2, <2>3, BodyMovesOn
<1>6. CASE BodyPolls
  <2>1. /\ InPoll /\ Operation.do = "await" /\ taken' = taken /\ state' = state
        /\ program' = program /\ child'[f] = Awaited
    BY <1>2, <1>6 DEF BodyPolls, TypeOK
  <2>2. Awaited = Operation.future
    BY <2>1 DEF Awaited, AwaitsOK, Operation
  <2>3. Passed(f)' = Passed(f)
    BY <2>1 DEF Passed, Script
  <2> QED
    BY <1>1, <1>2, <2>1, <2>2, <2>3, NothingReceived DEF InPoll, Operation, Complete
<1>7. CASE BodyWaits
  <2>1. taken' = taken /\ state' = state /\ child' = child /\ program' = program
    BY <1>7 DEF BodyWaits, frames
  <2>2. Passed(f)' = Passed(f)
    BY <2>1 DEF Passed, Script
  <2> QED
    BY <1>1, <2>1, <2>2, NothingReceived DEF AwaitsOK
<1>8. CASE BodyTakes
  BY <1>8, TakingKeepsAwaits
<1>9. CASE BodyMutates
  <2>1. /\ InBlock /\ Operation.do # "await" /\ taken' = taken /\ child' = child
        /\ state' = [state EXCEPT ![Frame] = s + 2]
    BY <1>9 DEF BodyMutates, SetState
  <2>2. (s + 2) \div 2 = s \div 2 + 1
    BY <1>2, <1>3, <2>1, Halves
  <2> QED
    BY <1>1, <1>2, <1>3, <2>1, <2>2, BodyMovesOn
<1>10. CASE BodyCompletes
  <2>1. /\ InBlock /\ AtEnd /\ taken' = taken /\ child' = child /\ program' = program
        /\ state'[f] = Complete
    BY <1>2, <1>10 DEF BodyCompletes, CompleteWith, TypeOK
  <2>2. Passed(f) = Len(Script(f)) /\ Passed(f)' = Len(Script(f))
    BY <1>2, <2>1 DEF Passed, Script, AtEnd, Complete
  <2> QED
    BY <1>1, <1>3, <2>1, <2>2, NothingReceived
<1> QED
  BY <1>4, <1>5, <1>6, <1>7, <1>8, <1>9, <1>10 DEF Body

\* Lemma: every step, of whatever frame.
LEMMA NextKeepsAwaits == ASSUME Inv, AwaitInv, [Next]_vars PROVE AwaitInv'
<1>1. CASE UNCHANGED vars
  <2>1. UNCHANGED <<program, state, child, value, taken>>
    BY <1>1 DEF vars, frames
  <2>2. \A f : Script(f)' = Script(f) /\ Kind(f)' = Kind(f) /\ Passed(f)' = Passed(f)
    BY <2>1 DEF Script, Kind, Passed
  <2>3. \A f, n : AwaitsAmong(f, n)' = AwaitsAmong(f, n)
    BY <2>2 DEF AwaitsAmong
  <2>4. \A f, k, n : ReceivedAt(f, k, n)' = ReceivedAt(f, k, n)
    BY <2>1, <2>2, <2>3 DEF ReceivedAt
  <2>5. \A f : AwaitsAmong(f, Passed(f))' = AwaitsAmong(f, Passed(f))
    BY <2>2 DEF AwaitsAmong
  <2>6. \A f : AwaitsOK(f)' = AwaitsOK(f)
    BY <2>1, <2>2, <2>4, <2>5 DEF AwaitsOK
  <2> QED
    BY <2>2, <2>6 DEF AwaitInv
<1>2. CASE Next
  <2> SUFFICES ASSUME NEW f \in Frames, Kind(f)' = "body" PROVE AwaitsOK(f)'
    BY DEF AwaitInv
  <2>1. program' = program
    BY <1>2, OnlyFrameMoves
  <2>2. Kind(f) = "body" /\ AwaitsOK(f)
    BY <2>1 DEF AwaitInv, Kind
  <2>3. CASE stack # << >> /\ f = Frame
    <3>1. Body
      BY <1>2, <2>2, <2>3 DEF Next, BeginUpdate, NextTick, Query, Race, RacePending, RacePolls,
         RaceGoesOn, RaceTakes, Timeout, TimeoutPolls, TimeoutTakes, TimeoutLooksAtClock, Resuming
    <3> QED
      BY <2>2, <2>3, <3>1, BodyKeepsAwaits
  <2>4. CASE stack = << >> \/ f # Frame
    <3>1. state'[f] = state[f] /\ child'[f] = child[f] /\ taken'[f] = taken[f]
      BY <1>2, <2>4, OnlyFrameMoves
    <3>2. Passed(f)' = Passed(f)
      BY <2>1, <3>1 DEF Passed, Script
    <3> QED
      BY <1>2, <2>2, <3>1, <3>2, NothingReceived DEF AwaitsOK
  <2> QED
    BY <2>3, <2>4
<1> QED
  BY <1>1, <1>2

\* Whatever the scripts, the arrays and the waiters that share its operand, every await of a body
\* has received the completion of its own operand, which that operand still retains.
THEOREM AwaitsReceiveTheirOwn == Spec => []AwaitsGetTheirOwn
<1>1. Init => AwaitInv
  <2> SUFFICES ASSUME Init, NEW f \in Frames, Kind(f) = "body" PROVE AwaitsOK(f)
    BY DEF AwaitInv
  <2>1. taken[f] = << >> /\ child[f] = None /\ state[f] = 0
    BY DEF Init
  <2>2. Passed(f) = 0
    BY <2>1 DEF Passed, Complete
  <2>3. AwaitsAmong(f, 0) = 0
    BY AwaitsCount
  <2> QED
    BY <2>1, <2>2, <2>3 DEF AwaitsOK
<1>2. Inv /\ AwaitInv /\ [Next]_vars => AwaitInv'
  BY NextKeepsAwaits
<1>3. AwaitInv => AwaitsGetTheirOwn
  BY DEF AwaitInv, AwaitsOK, AwaitsGetTheirOwn
<1> QED
  BY <1>1, <1>2, <1>3, InvIsInvariant, PTL DEF Spec

-----------------------------------------------------------------------------
(* Races.  While the array of a race has kept its version, or arrays only    *)
(* grow, what the pass has left behind is pending and stays so: it was       *)
(* polled in this update and is not being resumed by anything the race       *)
(* called.                                                                   *)

\* What scripts may do to the arrays of races.
NoElementIsSet ==
  \A p \in Programs : \A f \in Frames : p[f].kind = "body" =>
    \A m \in 1 .. Len(p[f].script) : p[f].script[m].do # "set"

ArraysOnlyGrow ==
  \A p \in Programs : \A f \in Frames : p[f].kind = "body" =>
    \A m \in 1 .. Len(p[f].script) : p[f].script[m].do \notin {"set", "clear"}

\* Pending, and nothing beyond the k-th call resumes it.
PassedOver(e, k) ==
  /\ e \in polled /\ state[e] # Complete
  /\ \A j \in k + 1 .. Len(stack) : stack[j].frame # e

\* The array of the k-th call is the one its pass began with, or longer.
Kept(k) == version[stack[k].frame] = stack[k].version \/ ArraysOnlyGrow

PassOK(k) ==
  LET a == stack[k] IN
  /\ a.version <= version[a.frame] /\ a.index <= a.length
  /\ k < Len(stack) \/ answer # "none" => a.index < a.length
  /\ Kept(k) => a.length <= Len(operations[a.frame])
  /\ Kept(k) /\ NoElementIsSet =>
       /\ k < Len(stack) \/ answer # "none" => operations[a.frame][a.index + 1] = a.polling
       /\ \A i \in 1 .. a.index : PassedOver(operations[a.frame][i], k)

RaceInv ==
  /\ program \in Programs
  /\ trapped => stack = << >>
  /\ stack # << >> /\ answer # "none" => Top.polling \in polled
  /\ \A k \in 1 .. Len(stack) : Kind(stack[k].frame) = "race" => PassOK(k)

\* What a body awaits and a race polls are futures.
LEMMA AwaitedIsFuture ==
  ASSUME Inv, BodyPolls
  PROVE  Awaited \in Futures
<1>1. Resuming("body") /\ InPoll /\ Operation.do = "await" /\ stack # << >>
  BY DEF BodyPolls, InPoll, Resuming
<1>2. Operation \in Operations /\ child[Frame] \in Futures \cup {None}
  BY <1>1, TopType, BodyPosition DEF Inv, TypeOK
<1>3. Operation.future \in Futures
  BY <1>1, <1>2 DEF Operations
<1> QED
  BY <1>2, <1>3 DEF Awaited

LEMMA ElementIsFuture ==
  ASSUME Inv, Resuming("race"), Top.index < Len(Array)
  PROVE  Array[Top.index + 1] \in Futures
<1>1. Frame \in Futures /\ Top.index \in Nat
  BY Resumed DEF Resuming, Activations
<1>2. operations[Frame] \in Seq(Futures)
  BY <1>1 DEF Inv, TypeOK
<1> QED
  BY <1>1, <1>2 DEF Array

\* The calls after a step.
LEMMA StackMoves ==
  ASSUME Inv, Next, stack # << >>
  PROVE  \/ \E f \in Futures : Poll(f) /\ UNCHANGED state
         \/ /\ polled' = polled
            /\ \/ stack' = stack /\ answer' \in {answer, "none"}
               \/ stack' \in {Callers, << >>}
               \/ stack' = Append(Callers, [Top EXCEPT !.index = @ + 1]) /\ answer' = "none"
<1>1. ~BeginUpdate
  BY DEF BeginUpdate
<1>2. CASE Body
  <2>1. CASE BodyPolls
    <3>1. Awaited \in Futures
      BY <2>1, AwaitedIsFuture
    <3> QED
      BY <2>1, <3>1 DEF BodyPolls
  <2>2. CASE ~BodyPolls
    BY <1>2, <2>2 DEF Body, BodySuspends, BodyResumesNextTick, BodyWaits, BodyTakes,
       BodyMutates, BodyCompletes, CompleteWith, Return
  <2> QED
    BY <2>1, <2>2
<1>3. CASE NextTick \/ Query
  BY <1>3 DEF NextTick, Query, CompleteWith, Return
<1>4. CASE Race
  <2>1. CASE RacePolls
    <3>1. CASE Top.index < Len(Array)
      BY <2>1, <3>1, ElementIsFuture DEF RacePolls, frames
    <3>2. CASE ~(Top.index < Len(Array))
      BY <2>1, <3>2 DEF RacePolls
    <3> QED
      BY <3>1, <3>2
  <2>2. CASE ~RacePolls
    BY <1>4, <2>2 DEF Race, RacePending, RaceGoesOn, RaceTakes, CompleteWith, Return
  <2> QED
    BY <2>1, <2>2
<1>5. CASE Timeout
  <2>1. CASE TimeoutPolls
    <3>1. program[Frame].operation \in Futures
      BY <2>1, TopType, DefinitionTypes DEF TimeoutPolls, Resuming, Inv
    <3> QED
      BY <2>1, <3>1 DEF TimeoutPolls, frames
  <2>2. CASE ~TimeoutPolls
    BY <1>5, <2>2 DEF Timeout, TimeoutTakes, TimeoutLooksAtClock, CompleteWith, Return
  <2> QED
    BY <2>1, <2>2
<1> QED
  BY <1>1, <1>2, <1>3, <1>4, <1>5 DEF Next

\* What a step does to the calls below the innermost, and to what they know.
LEMMA CallersKept ==
  ASSUME Inv, Next, stack # << >>, NEW k \in 1 .. Len(stack) - 1, k <= Len(stack')
  PROVE  /\ stack'[k] = stack[k] /\ polled \subseteq polled'
         /\ \A g \in Frames \ {Frame} : state'[g] = state[g]
         /\ \A j \in k + 1 .. Len(stack') :
              stack'[j].frame \notin polled \/ (j <= Len(stack) /\ stack'[j].frame = stack[j].frame)

<1> DEFINE n == Len(stack)
<1>1. /\ n \in Nat \ {0} /\ Top = stack[n] /\ Frame = stack[n].frame
      /\ Callers \in Seq(Activations) /\ Len(Callers) = n - 1
      /\ \A i \in 1 .. n - 1 : Callers[i] = stack[i]
  BY TopType DEF Inv, Top, Frame
<1>2. \/ \E f \in Futures : Poll(f) /\ UNCHANGED state
      \/ stack' \in {stack, Callers, << >>, Append(Callers, [Top EXCEPT !.index = @ + 1])} /\ polled' = polled
  BY StackMoves
<1>3. \A g \in Frames \ {Frame} : state'[g] = state[g]
  BY OnlyFrameMoves
<1>4. k \in Nat /\ 1 <= k /\ k <= n - 1
  BY <1>1
<1>5. CASE \E f \in Futures : Poll(f) /\ UNCHANGED state
  <2> PICK f \in Futures : Poll(f) /\ UNCHANGED state
    BY <1>5
  <2>1. /\ Len(stack') \in {n, n + 1}
        /\ \A i \in 1 .. n - 1 : stack'[i] = stack[i]
        /\ stack'[n] = [Top EXCEPT !.polling = f]
        /\ Len(stack') = n + 1 => stack'[n + 1] = Activation(f) /\ f \notin polled
    BY PollStack DEF Inv
  <2>2. polled \subseteq polled'
    BY DEF Poll
  <2>3. Activation(f).frame = f
    BY ActivationType DEF Inv
  <2>4. stack'[n].frame = stack[n].frame
    <3>1. Top \in Activations
      BY TopType DEF Inv
    <3> QED
      BY <2>1, <3>1, <1>1 DEF Activations
  <2> HIDE DEF n
  <2>5. ASSUME NEW j \in k + 1 .. Len(stack')
        PROVE  stack'[j].frame \notin polled \/ (j <= n /\ stack'[j].frame = stack[j].frame)
    <3> DEFINE m == Len(stack')
    <3>1. m \in {n, n + 1} /\ j \in k + 1 .. m
      BY <2>1
    <3> HIDE DEF m
    <3>2. j \in 1 .. n - 1 \/ j = n \/ (j = n + 1 /\ m = n + 1)
      BY ONLY <3>1, <1>1, <1>4
    <3>3. CASE j \in 1 .. n - 1
      <4>1. j <= n
        BY ONLY <3>3, <1>1
      <4>2. stack'[j] = stack[j]
        BY <3>3, <2>1
      <4> QED
        BY <4>1, <4>2
    <3>4. CASE j = n
      BY <3>4, <2>4, <1>1
    <3>5. CASE j = n + 1 /\ m = n + 1
      BY <3>5, <2>1, <2>3 DEF m
    <3> QED
      BY <3>2, <3>3, <3>4, <3>5
  <2> QED
    BY <1>3, <1>4, <2>1, <2>2, <2>5 DEF n
<1>6. CASE stack' \in {stack, Callers, << >>, Append(Callers, [Top EXCEPT !.index = @ + 1])} /\ polled' = polled
  <2>1. CASE stack' = stack
    BY <1>3, <1>6, <2>1
  <2>2. CASE stack' = Callers
    BY <1>1, <1>3, <1>4, <1>6, <2>2
  <2>3. CASE stack' = << >>
    BY <1>4, <2>3
  <2>4. CASE stack' = Append(Callers, [Top EXCEPT !.index = @ + 1])
    <3> DEFINE next == [Top EXCEPT !.index = @ + 1]
    <3>1. next.frame = Top.frame /\ next \in Activations
      <4>1. Top \in Activations
        BY TopType DEF Inv
      <4>2. Top.index + 1 \in Nat
        BY <4>1 DEF Activations
      <4>3. next = [Top EXCEPT !.index = Top.index + 1]
        OBVIOUS
      <4> HIDE DEF next
      <4> QED
        BY ONLY <4>1, <4>2, <4>3 DEF Activations
    <3> HIDE DEF next
    <3>2. /\ Len(stack') = Len(Callers) + 1
          /\ \A i \in 1 .. Len(Callers) : stack'[i] = Callers[i]
          /\ stack'[Len(Callers) + 1] = next
      BY <1>1, <2>4, <3>1, Longer DEF next
    <3> HIDE DEF n
    <3>3. Len(stack') = n /\ stack'[n] = next /\ \A i \in 1 .. n - 1 : stack'[i] = stack[i]
      BY <3>2, <1>1
    <3>4. ASSUME NEW j \in k + 1 .. Len(stack') PROVE j <= n /\ stack'[j].frame = stack[j].frame
      <4>1. j \in 1 .. n - 1 \/ j = n
        BY <1>1, <1>4, <3>3
      <4> QED
        BY <4>1, <3>1, <3>3, <1>1
    <3> QED
      BY <1>3, <1>4, <1>6, <3>3, <3>4 DEF n
  <2> QED
    BY <1>6, <2>1, <2>2, <2>3, <2>4
<1> QED
  BY <1>2, <1>5, <1>6

\* Only scripts change arrays.
LEMMA ArraysChange == ASSUME Next PROVE BodyMutates \/ UNCHANGED arrays
BY DEF Next, BeginUpdate, Body, BodySuspends, BodyResumesNextTick, BodyPolls, BodyWaits, BodyTakes,
   BodyCompletes, NextTick, Query, Race, RacePending, RacePolls, RaceGoesOn, RaceTakes, Timeout,
   TimeoutPolls, TimeoutTakes, TimeoutLooksAtClock, arrays

\* A script does to arrays what its program says.
LEMMA MutationsAllowed ==
  ASSUME TypeOK, BodyStateOK, StackInv, program \in Programs, Resuming("body"), InBlock, ~AtEnd
  PROVE  /\ NoElementIsSet => Operation.do # "set"
         /\ ArraysOnlyGrow => Operation.do \notin {"set", "clear"}
<1> DEFINE s == state[Frame]
           l == Len(Script(Frame))
<1>1. Frame \in Frames /\ s \in Nat /\ l \in Nat /\ s % 2 = 0 /\ s + 2 <= 2 * l
  <2>1. Frame \in Frames /\ state[Frame] \in Nat /\ Script(Frame) \in Seq(Operations)
        /\ state[Frame] + 2 <= 2 * Len(Script(Frame))
    BY BodyPosition
  <2> QED
    BY <2>1 DEF InBlock
<1>2. s \div 2 + 1 \in 1 .. l
  <2> HIDE DEF s, l
  <2> QED
    BY ONLY <1>1
<1>3. program[Frame].kind = "body" /\ Operation = program[Frame].script[s \div 2 + 1]
  BY DEF Resuming, Kind, Operation, Script
<1>4. l = Len(program[Frame].script)
  BY DEF Script
<1> HIDE DEF s, l
<1> QED
  BY <1>1, <1>2, <1>3, <1>4 DEF NoElementIsSet, ArraysOnlyGrow

\* A poll and a pass leave the innermost call where it is.
LEMMA LowerPassKept ==
  ASSUME Inv, RaceInv, Next, stack # << >>, NEW k \in 1 .. Len(stack) - 1, k <= Len(stack'),
         Kind(stack[k].frame) = "race"
  PROVE  PassOK(k)' /\ stack'[k].frame = stack[k].frame
<1> DEFINE n == Len(stack)
           a == stack[k]
           r == a.frame
<1>1. /\ n \in Nat \ {0} /\ Frame = stack[n].frame /\ n \in k + 1 .. n /\ k \in 1 .. n /\ k < n
  BY TopType DEF Inv, Top, Frame
<1>2. /\ stack'[k] = a /\ polled \subseteq polled'
      /\ \A g \in Frames \ {Frame} : state'[g] = state[g]
      /\ \A j \in k + 1 .. Len(stack') :
           stack'[j].frame \notin polled \/ (j <= n /\ stack'[j].frame = stack[j].frame)
  BY CallersKept
<1>3. PassOK(k)
  BY <1>1 DEF RaceInv
<1>4. a \in Activations /\ r \in Futures
  <2>1. a \in Activations
    BY <1>1 DEF Inv, TypeOK
  <2>2. r # Main
    BY DEF Inv, ProgramOK, Kind
  <2> QED
    BY <2>1, <2>2 DEF Activations, Frames
<1> DEFINE Stays(e) == /\ e \in polled' /\ state'[e] # Complete
                       /\ \A j \in k + 1 .. Len(stack') : stack'[j].frame # e
<1>5. ASSUME NEW e \in Futures, PassedOver(e, k) PROVE Stays(e)
  <2>1. e # Frame
    BY <1>1, <1>5 DEF PassedOver
  <2>2. e \in polled' /\ state'[e] # Complete
    BY <2>1, <1>2, <1>5 DEF PassedOver, Frames
  <2>3. ASSUME NEW j \in k + 1 .. Len(stack') PROVE stack'[j].frame # e
    <3>1. j <= n => j \in k + 1 .. n
      BY ONLY <1>1, j \in k + 1 .. Len(stack')
    <3> QED
      BY <3>1, <1>2, <1>5 DEF PassedOver
  <2> QED
    BY <2>2, <2>3
<1>6. operations[r] \in Seq(Futures) /\ version[r] \in Nat /\ a.index \in Nat /\ a.length \in Nat /\ a.version \in Nat
  BY <1>4 DEF Inv, TypeOK, Activations
<1>7. ASSUME version[r] <= version'[r],
             version'[r] = a.version \/ ArraysOnlyGrow =>
               /\ version[r] = a.version \/ ArraysOnlyGrow
               /\ Len(operations[r]) <= Len(operations'[r])
               /\ NoElementIsSet => \A i \in 1 .. Len(operations[r]) : operations'[r][i] = operations[r][i],
             version'[r] \in Nat, Len(operations'[r]) \in Nat
      PROVE  PassOK(k)'
  <2>1. a.version <= version'[r]
    <3>1. a.version <= version[r]
      BY <1>3 DEF PassOK
    <3> QED
      BY ONLY <3>1, <1>6, <1>7
  <2>2. a.index <= a.length /\ a.index < a.length
    BY <1>1, <1>3 DEF PassOK
  <2>3. ASSUME version'[r] = a.version \/ ArraysOnlyGrow
        PROVE  a.length <= Len(operations[r]) /\ a.length <= Len(operations'[r])
    <3> DEFINE l == Len(operations[r])
               m == Len(operations'[r])
    <3>1. a.length <= l /\ l <= m /\ l \in Nat /\ m \in Nat
      BY <1>3, <1>6, <1>7, <2>3 DEF PassOK, Kept
    <3> HIDE DEF l, m
    <3>2. a.length <= m
      BY ONLY <3>1, <1>6
    <3> QED
      BY <3>1, <3>2 DEF l, m
  <2>4. ASSUME version'[r] = a.version \/ ArraysOnlyGrow, NoElementIsSet
        PROVE  /\ operations'[r][a.index + 1] = a.polling
               /\ \A i \in 1 .. a.index : Stays(operations'[r][i])
    <3> DEFINE l == Len(operations[r])
    <3>1. /\ operations[r][a.index + 1] = a.polling
          /\ \A i \in 1 .. a.index : PassedOver(operations[r][i], k)
      BY <1>1, <1>3, <1>7, <2>4 DEF PassOK, Kept
    <3>2. l \in Nat /\ a.length <= l
      BY <1>6, <2>3, <2>4
    <3>3. \A i \in 1 .. l : operations'[r][i] = operations[r][i] /\ operations[r][i] \in Futures
      BY <1>6, <1>7, <2>4
    <3> HIDE DEF l
    <3>4. a.index + 1 \in 1 .. l /\ \A i \in 1 .. a.index : i \in 1 .. l
      BY ONLY <3>2, <2>2, <1>6
    <3> HIDE DEF a, r, Stays
    <3> QED
      BY <1>5, <3>1, <3>3, <3>4
  <2> QED
    BY <1>1, <1>2, <2>1, <2>2, <2>3, <2>4 DEF PassOK, Kept, PassedOver
<1>8. CASE UNCHANGED arrays
  <2>1. version' = version /\ operations' = operations
    BY <1>8 DEF arrays
  <2>2. Len(operations[r]) \in Nat /\ version[r] <= version[r]
    BY <1>6
  <2> QED
    BY <1>2, <1>6, <1>7, <2>1, <2>2
<1>9. CASE BodyMutates
  <2> DEFINE o == Operation
  <2>1. /\ Resuming("body") /\ InBlock /\ ~AtEnd /\ o.do \in {"push", "set", "clear"}
        /\ operations' = [operations EXCEPT ![o.array] =
             CASE o.do = "push"  -> Append(@, o.future)
               [] o.do = "set"   -> [@ EXCEPT ![1] = o.future]
               [] o.do = "clear" -> << >>]
        /\ version' = IF o.do = "set" THEN version ELSE [version EXCEPT ![o.array] = @ + 1]
    BY <1>9 DEF BodyMutates, InBlock
  <2>2. o \in Operations
    BY <2>1, BodyPosition DEF Inv
  <2>3. (NoElementIsSet => o.do # "set") /\ (ArraysOnlyGrow => o.do = "push")
    BY <2>1, MutationsAllowed DEF Inv, RaceInv
  <2>4. o.array \in Futures /\ (o.do = "push" => o.future \in Futures)
    BY <2>1, <2>2 DEF Operations
  <2> HIDE DEF o
  <2>5. CASE o.array # r
    <3>1. operations'[r] = operations[r] /\ version'[r] = version[r]
      BY <1>4, <2>1, <2>3, <2>4, <2>5 DEF Inv, TypeOK
    <3>2. Len(operations[r]) \in Nat /\ version[r] <= version[r]
      BY <1>6
    <3> QED
      BY <1>2, <1>6, <1>7, <3>1, <3>2
  <2>6. CASE o.array = r /\ o.do = "set"
    <3>1. version'[r] = version[r] /\ operations'[r] = [operations[r] EXCEPT ![1] = o.future]
      BY <1>4, <2>1, <2>6 DEF Inv, TypeOK
    <3>2. Len([operations[r] EXCEPT ![1] = o.future]) = Len(operations[r])
      BY <1>6
    <3>3. Len(operations[r]) \in Nat /\ version[r] <= version[r]
      BY <1>6
    <3> QED
      BY <1>2, <1>6, <1>7, <2>3, <2>6, <3>1, <3>2, <3>3
  <2>7. CASE o.array = r /\ o.do # "set"
    <3>1. version'[r] = version[r] + 1
      BY <1>4, <2>1, <2>4, <2>7 DEF Inv, TypeOK
    <3>2. a.version <= version[r]
      BY <1>3 DEF PassOK
    <3>3. version[r] <= version'[r] /\ version'[r] # a.version /\ version'[r] \in Nat
      BY ONLY <3>1, <3>2, <1>6
    <3>4. o.do = "push" => operations'[r] = Append(operations[r], o.future)
      BY <1>4, <2>1, <2>7 DEF Inv, TypeOK
    <3>5. ASSUME o.do = "push"
          PROVE  /\ Len(operations'[r]) = Len(operations[r]) + 1
                 /\ \A i \in 1 .. Len(operations[r]) : operations'[r][i] = operations[r][i]
      <4> DEFINE now == operations[r]
      <4>1. now \in Seq(Futures) /\ o.future \in Futures /\ operations'[r] = Append(now, o.future)
        BY <1>6, <2>4, <3>4, <3>5
      <4> HIDE DEF now
      <4>2. Len(Append(now, o.future)) = Len(now) + 1 /\ \A i \in 1 .. Len(now) : Append(now, o.future)[i] = now[i]
        BY ONLY <4>1, Longer
      <4> QED
        BY <4>1, <4>2 DEF now
    <3>6. Len(operations[r]) \in Nat /\ (o.do = "push" => Len(operations[r]) <= Len(operations'[r]))
      BY <1>6, <3>5
    <3>7. o.do # "push" => operations'[r] = << >>
      BY <1>4, <2>1, <2>7 DEF Inv, TypeOK
    <3>8. Len(operations'[r]) \in Nat
      BY <3>5, <3>6, <3>7
    <3> QED
      BY <1>2, <1>7, <2>3, <3>3, <3>5, <3>6, <3>8
  <2> QED
    BY <2>5, <2>6, <2>7, <1>2
<1>10. BodyMutates \/ UNCHANGED arrays
  BY ArraysChange
<1> QED
  BY <1>2, <1>8, <1>9, <1>10

\* The innermost call of a race: what it has passed is the elements below its
\* index, and the next is the one it polls.
LEMMA PassPolls ==
  ASSUME Inv, RaceInv, RacePolls, NEW n, n = Len(stack)
  PROVE  /\ Top.index < Len(Array) /\ UNCHANGED trapped
         /\ PassOK(n)' /\ stack'[n].frame = Frame
<1> DEFINE a == Top
           f == Array[a.index + 1]
<1>1. /\ n \in Nat \ {0} /\ Top = stack[n] /\ Frame = a.frame /\ a \in Activations
      /\ Kind(Frame) = "race" /\ answer = "none" /\ ~PassIsOver /\ Frame \in Futures
  BY TopType, Resumed DEF RacePolls, Resuming, Inv, Top, Frame
<1>2. PassOK(n)
  BY <1>1 DEF RaceInv
<1>3. a.index \in Nat /\ a.length \in Nat /\ version[Frame] \in Nat /\ operations[Frame] \in Seq(Futures)
  BY <1>1 DEF Activations, Inv, TypeOK
<1>4. a.index < a.length /\ version[Frame] = a.version
  BY <1>1, <1>3 DEF PassIsOver
<1>5. a.length <= Len(Array) /\ (NoElementIsSet => \A i \in 1 .. a.index : PassedOver(Array[i], n))
  BY <1>1, <1>2, <1>4 DEF PassOK, Kept, Array
<1>6. a.index < Len(Array) /\ f \in Futures
  BY <1>3, <1>4, <1>5 DEF Array
<1>7. Poll(f) /\ UNCHANGED <<trapped, arrays, state>>
  BY <1>6 DEF RacePolls, frames
<1>8. /\ Len(stack') \in {n, n + 1} /\ stack'[n] = [a EXCEPT !.polling = f]
      /\ Len(stack') = n + 1 => stack'[n + 1] = Activation(f) /\ f \notin polled
      /\ polled' = polled \cup {f}
  <2>1. polled' = polled \cup {f}
    BY <1>7 DEF Poll
  <2> QED
    BY <1>1, <1>6, <1>7, <2>1, PollStack DEF Inv
<1>9. /\ stack'[n].frame = Frame /\ stack'[n].index = a.index /\ stack'[n].length = a.length
      /\ stack'[n].version = a.version /\ stack'[n].polling = f
  BY <1>1, <1>6, <1>8 DEF Activations
<1>10. Activation(f).frame = f
  BY <1>6, ActivationType DEF Inv
<1>11. ASSUME NEW i \in 1 .. a.index, NoElementIsSet
       PROVE  /\ Array[i] \in polled' /\ state[Array[i]] # Complete
              /\ \A j \in n + 1 .. Len(stack') : stack'[j].frame # Array[i]
  <2>1. Array[i] \in polled /\ state[Array[i]] # Complete
    BY <1>5, <1>11 DEF PassedOver
  <2>2. \A j \in n + 1 .. Len(stack') : j = n + 1 /\ Len(stack') = n + 1
    BY <1>1, <1>8
  <2> QED
    BY <1>8, <1>10, <2>1, <2>2
<1>12. version' = version /\ operations' = operations /\ state' = state /\ trapped' = trapped
  BY <1>7 DEF arrays
<1> HIDE DEF a, f
<1>13. PassOK(n)'
  <2>1. a.version <= version[Frame]
    BY <1>3, <1>4 
  <2> QED
    BY <1>3, <1>4, <1>5, <1>9, <1>11, <1>12, <2>1 DEF PassOK, PassedOver, Array, f
<1> QED
  BY <1>6, <1>9, <1>12, <1>13 DEF a

LEMMA PassGoesOn ==
  ASSUME Inv, RaceInv, RaceGoesOn, NEW n, n = Len(stack)
  PROVE  PassOK(n)' /\ stack'[n].frame = Frame /\ Len(stack') = n
<1> DEFINE a == Top
           next == [a EXCEPT !.index = @ + 1]
<1>1. /\ n \in Nat \ {0} /\ Top = stack[n] /\ Frame = a.frame /\ a \in Activations
      /\ Kind(Frame) = "race" /\ answer = "pending" /\ Frame \in Futures
      /\ Callers \in Seq(Activations) /\ Len(Callers) = n - 1
  BY TopType, Resumed DEF RaceGoesOn, Resuming, Inv, Top, Frame
<1>2. PassOK(n)
  BY <1>1 DEF RaceInv
<1>3. a.index \in Nat /\ a.length \in Nat /\ version[Frame] \in Nat /\ operations[Frame] \in Seq(Futures)
  BY <1>1 DEF Activations, Inv, TypeOK
<1>4. /\ next \in Activations /\ next.frame = Frame /\ next.index = a.index + 1
      /\ next.length = a.length /\ next.version = a.version /\ next.polling = a.polling
  <2>1. a.index + 1 \in Nat /\ next = [a EXCEPT !.index = a.index + 1]
    BY <1>3
  <2> HIDE DEF next, a
  <2> QED
    BY ONLY <2>1, <1>1 DEF Activations
<1>5. stack' = Append(Callers, next) /\ answer' = "none" /\ UNCHANGED <<arrays, state, polled>>
  BY DEF RaceGoesOn, frames
<1>6. Len(stack') = n /\ stack'[n] = next
  <2>1. Len(stack') = Len(Callers) + 1 /\ stack'[Len(Callers) + 1] = next
    BY <1>1, <1>4, <1>5, Longer
  <2> QED
    BY <1>1, <2>1
<1>7. Top.polling \in polled /\ state[Top.polling] # Complete
  BY <1>1 DEF RaceInv, Inv, StackInv, AnswerIsOfPolled, RaceGoesOn, Resuming
<1>8. version' = version /\ operations' = operations /\ state' = state /\ polled' = polled
  BY <1>5 DEF arrays
<1> HIDE DEF next
<1>9. PassOK(n)'
  <2>1. a.version <= version[Frame]
    BY <1>1, <1>2 DEF PassOK
  <2>2. /\ a.index + 1 <= a.length
        /\ version[Frame] = a.version \/ ArraysOnlyGrow => a.length <= Len(Array)
    <3>1. /\ a.index < a.length
          /\ version[Frame] = a.version \/ ArraysOnlyGrow => a.length <= Len(Array)
      BY <1>1, <1>2 DEF PassOK, Kept, Array
    <3> QED
      BY <1>3, <3>1
  <2>3. ASSUME version[Frame] = a.version \/ ArraysOnlyGrow, NoElementIsSet
        PROVE  \A i \in 1 .. a.index + 1 : Array[i] \in polled /\ state[Array[i]] # Complete
    <3>1. Array[a.index + 1] = a.polling /\ \A i \in 1 .. a.index : PassedOver(Array[i], n)
      BY <1>1, <1>2, <2>3 DEF PassOK, Kept, Array
    <3>2. \A i \in 1 .. a.index + 1 : i \in 1 .. a.index \/ i = a.index + 1
      BY <1>3
    <3> QED
      BY <1>7, <3>1, <3>2 DEF PassedOver
  <2>4. \A j \in n + 1 .. Len(stack') : FALSE
    BY <1>1, <1>6
  <2>5. ~(n < Len(stack'))
    BY <1>1, <1>6
  <2> HIDE DEF a
  <2> QED
    BY <1>4, <1>5, <1>6, <1>8, <2>1, <2>2, <2>3, <2>4, <2>5 DEF PassOK, Kept, PassedOver, Array
<1> QED
  BY <1>4, <1>6, <1>9

\* Whatever answered was polled in this update.
LEMMA AnsweredPolled ==
  ASSUME Inv, RaceInv, Next, stack # << >>, stack' # << >>, answer' # "none"
  PROVE  Top'.polling \in polled'
<1> PICK n : n = Len(stack)
  OBVIOUS
<1>1. /\ n \in Nat \ {0} /\ Top = stack[n] /\ Frame = stack[n].frame /\ stack \in Seq(Activations)
      /\ Callers \in Seq(Activations) /\ Len(Callers) = n - 1
      /\ \A i \in 1 .. n - 1 : Callers[i] = stack[i]
  BY TopType DEF Inv, Top, Frame, TypeOK
<1>2. CASE \E f \in Futures : Poll(f) /\ UNCHANGED state
  <2> PICK f \in Futures : Poll(f) /\ UNCHANGED state
    BY <1>2
  <2>1. /\ Len(stack') \in {n, n + 1} /\ stack'[n] = [Top EXCEPT !.polling = f]
        /\ Len(stack') = n + 1 => answer' = "none"
        /\ f \in polled'
    <3>1. f \in polled'
      BY DEF Poll
    <3> QED
      BY <3>1, PollStack DEF Inv
  <2>2. Top \in Activations
    BY <1>1, TopType DEF Inv
  <2> QED
    BY <1>1, <2>1, <2>2 DEF Top, Activations
<1>3. CASE stack' = stack /\ answer' \in {answer, "none"} /\ polled' = polled
  BY <1>3 DEF RaceInv, Top
<1>4. CASE stack' = Callers /\ polled' = polled
  <2>1. n - 1 \in 1 .. n - 1 /\ n \in 2 .. n
    BY <1>1, <1>4
  <2>2. stack[n - 1].polling = stack[n].frame /\ stack[n].frame \in polled
    BY <2>1 DEF Inv, StackInv, CalleesArePolled
  <2>3. Top' = stack[n - 1]
    BY <1>1, <1>4, <2>1 DEF Top
  <2> QED
    BY <1>4, <2>2, <2>3
<1> QED
  BY <1>2, <1>3, <1>4, StackMoves

\* The innermost call stays the call of its frame, unless it returns.
LEMMA InnermostStays ==
  ASSUME Inv, Next, stack # << >>, NEW n, n = Len(stack), n <= Len(stack')
  PROVE  stack'[n].frame = Frame /\ Len(stack') \in {n, n + 1}
<1>1. /\ n \in Nat \ {0} /\ Top = stack[n] /\ Frame = Top.frame /\ Top \in Activations
      /\ Callers \in Seq(Activations) /\ Len(Callers) = n - 1 /\ stack \in Seq(Activations)
  BY TopType DEF Inv, Top, Frame, TypeOK
<1>2. CASE \E f \in Futures : Poll(f) /\ UNCHANGED state
  <2> PICK f \in Futures : Poll(f) /\ UNCHANGED state
    BY <1>2
  <2>1. Len(stack') \in {n, n + 1} /\ stack'[n] = [Top EXCEPT !.polling = f]
    BY PollStack DEF Inv
  <2> QED
    BY <1>1, <2>1 DEF Activations
<1>3. CASE stack' = stack
  BY <1>1, <1>3
<1>4. CASE stack' = Callers \/ stack' = << >>
  BY <1>1, <1>4
<1>5. CASE stack' = Append(Callers, [Top EXCEPT !.index = @ + 1])
  <2> DEFINE next == [Top EXCEPT !.index = @ + 1]
  <2>1. next \in Activations /\ next.frame = Frame
    <3>1. Top.index + 1 \in Nat /\ next = [Top EXCEPT !.index = Top.index + 1]
      BY <1>1 DEF Activations
    <3> HIDE DEF next
    <3> QED
      BY ONLY <3>1, <1>1 DEF Activations
  <2>2. stack' = Append(Callers, next)
    BY <1>5
  <2> HIDE DEF next
  <2>3. Len(stack') = Len(Callers) + 1 /\ stack'[Len(Callers) + 1] = next
    BY <1>1, <2>1, <2>2, Longer
  <2> QED
    BY <1>1, <2>1, <2>3
<1> QED
  BY <1>2, <1>3, <1>4, <1>5, StackMoves

\* A race that is innermost before and after a step.
LEMMA InnermostPassKept ==
  ASSUME Inv, RaceInv, Next, stack # << >>, Kind(Frame) = "race",
         NEW n, n = Len(stack), n <= Len(stack')
  PROVE  PassOK(n)'
<1>1. n \in Nat \ {0} /\ Len(Callers) = n - 1
  BY TopType DEF Inv
<1>2. Race
  BY DEF Next, BeginUpdate, Body, BodySuspends, BodyResumesNextTick, BodyPolls, BodyWaits, BodyTakes,
     BodyMutates, BodyCompletes, InBlock, InPoll, NextTick, Query, Timeout, TimeoutPolls, TimeoutTakes,
     TimeoutLooksAtClock, Resuming
<1>3. stack' # Callers /\ stack' # << >>
  BY <1>1
<1>4. ~RacePending /\ ~RaceTakes
  BY <1>3 DEF RacePending, RaceTakes, CompleteWith, Return
<1> QED
  BY <1>2, <1>4, PassPolls, PassGoesOn DEF Race

\* A pass begins with no element passed.
LEMMA PassBegins ==
  ASSUME Inv, Next, stack # << >>, NEW n, n = Len(stack) + 1, n = Len(stack')
  PROVE  PassOK(n)' \/ Kind(stack'[n].frame) # "race"
<1>1. Len(stack) \in Nat /\ Len(stack') > Len(stack)
  BY TopType DEF Inv
<1>2. PICK f \in Futures : Poll(f)
  BY <1>1, OnlyPollsEnter
<1>3. stack'[n] = Activation(f) /\ answer' = "none"
  BY <1>1, <1>2, PollStack DEF Inv
<1>4. UNCHANGED arrays
  <2>1. ~BodyMutates
    BY <1>1 DEF BodyMutates
  <2> QED
    BY <2>1, ArraysChange
<1>5. /\ Activation(f).frame = f /\ Activation(f).index = 0
      /\ Kind(f) = "race" =>
           Activation(f).length = Len(operations[f]) /\ Activation(f).version = version[f]
  BY DEF Activation
<1>6. version[f] \in Nat /\ Len(operations[f]) \in Nat
  BY DEF Inv, TypeOK
<1>7. version' = version /\ operations' = operations
  BY <1>4 DEF arrays
<1>8. ~(n < Len(stack')) /\ \A i \in 1 .. 0 : FALSE
  BY <1>1
<1> QED
  BY <1>3, <1>5, <1>6, <1>7, <1>8 DEF PassOK

LEMMA InitRace == ASSUME Init PROVE RaceInv
BY DEF Init, RaceInv

\* A step is made where nothing has trapped.
LEMMA NotTrapped == ASSUME RaceInv, Next PROVE ~trapped
BY DEF RaceInv, Next, BeginUpdate, Body, BodySuspends, BodyResumesNextTick, BodyPolls, BodyWaits, BodyTakes,
   BodyMutates, BodyCompletes, InBlock, InPoll, NextTick, Query, Race, RacePending, RacePolls,
   RaceGoesOn, RaceTakes, Timeout, TimeoutPolls, TimeoutTakes, TimeoutLooksAtClock, Resuming

LEMMA NextKeepsRace == ASSUME Inv, RaceInv, [Next]_vars PROVE RaceInv'
<1>1. CASE UNCHANGED vars
  BY <1>1 DEF vars, arrays, frames, RaceInv, PassOK, Kept, PassedOver, Kind, Top
<1>2. CASE BeginUpdate
  <2>1. stack' = <<Activation(Main)>> /\ Activation(Main).frame = Main /\ program' = program /\ trapped' = trapped
        /\ answer' = "none" /\ ~trapped
    BY <1>2 DEF BeginUpdate, Activation
  <2>2. Kind(Main) # "race"
    BY DEF Inv, ProgramOK, Kind
  <2>3. \A k \in 1 .. Len(stack') : stack'[k].frame = Main
    BY <2>1
  <2> QED
    BY <2>1, <2>2, <2>3 DEF RaceInv, Kind
<1>3. CASE Next /\ ~BeginUpdate
  <2>1. stack # << >> /\ ~trapped
    <3>1. stack # << >>
      BY <1>3 DEF Next, Body, BodySuspends, BodyResumesNextTick, BodyPolls, BodyWaits, BodyTakes,
         BodyMutates, BodyCompletes, InBlock, InPoll, NextTick, Query, Race, RacePending, RacePolls,
         RaceGoesOn, RaceTakes, Timeout, TimeoutPolls, TimeoutTakes, TimeoutLooksAtClock, Resuming
    <3> QED
      BY <1>3, <3>1, NotTrapped
  <2>2. program' = program
    BY <1>3, OnlyFrameMoves
  <2>3. trapped' => stack' = << >>
    BY <1>3, <2>1 DEF Next, Body, BodySuspends, BodyResumesNextTick, BodyPolls, BodyWaits, BodyTakes,
       BodyMutates, BodyCompletes, NextTick, Query, Race, RacePending, RacePolls,
       RaceGoesOn, RaceTakes, Timeout, TimeoutPolls, TimeoutTakes, TimeoutLooksAtClock
  <2>4. ASSUME stack' # << >>, answer' # "none" PROVE Top'.polling \in polled'
    BY <1>3, <2>1, <2>4, AnsweredPolled
  <2>5. ASSUME NEW k \in 1 .. Len(stack'), Kind(stack'[k].frame) = "race"
        PROVE  PassOK(k)'
    <3>1. Len(stack) \in Nat \ {0} /\ Len(stack') \in Nat
      BY <2>1, TopType, <1>3, NextKeepsInv DEF Inv, TypeOK
    <3>2. CASE k \in 1 .. Len(stack) - 1
      <4>1. stack'[k] = stack[k]
        BY <1>3, <2>1, <3>1, <3>2, CallersKept
      <4> QED
        BY <1>3, <2>1, <2>5, <3>1, <3>2, <4>1, LowerPassKept
    <3>3. CASE k = Len(stack)
      <4>1. stack'[k].frame = Frame
        BY <1>3, <2>1, <3>3, InnermostStays
      <4> QED
        BY <1>3, <2>1, <2>5, <3>3, <4>1, InnermostPassKept
    <3>4. CASE k > Len(stack)
      <4>1. Len(stack) <= Len(stack')
        BY <3>1, <3>4
      <4>2. Len(stack') \in {Len(stack), Len(stack) + 1}
        BY <1>3, <2>1, <4>1, InnermostStays
      <4>3. k = Len(stack) + 1 /\ k = Len(stack')
        BY <3>1, <3>4, <4>2
      <4> QED
        BY <1>3, <2>1, <2>5, <4>3, PassBegins
    <3> QED
      BY <3>1, <3>2, <3>3, <3>4
  <2> QED
    BY <2>2, <2>3, <2>4, <2>5 DEF RaceInv, Kind
<1> QED
  BY <1>1, <1>2, <1>3

LEMMA RaceInvariant == Spec => [](Inv /\ RaceInv)
<1>1. Init => Inv /\ RaceInv
  BY InitInv, InitRace
<1>2. Inv /\ RaceInv /\ [Next]_vars => (Inv /\ RaceInv)'
  BY NextKeepsInv, NextKeepsRace
<1> QED
  BY <1>1, <1>2, PTL DEF Spec

\* Whatever scripts do to its array, a race polls only what is in it: a pass
\* that finds the array's version ends before it reads beyond the array.
THEOREM PassesEndInTheArray == Spec => [][RacePolls => Top.index < Len(Array) /\ UNCHANGED trapped]_vars
<1>1. ASSUME Inv, RaceInv
      PROVE  [RacePolls => Top.index < Len(Array) /\ UNCHANGED trapped]_vars
  <2>1. ASSUME RacePolls PROVE Top.index < Len(Array) /\ UNCHANGED trapped
    <3> PICK n : n = Len(stack)
      OBVIOUS
    <3> QED
      BY <1>1, <2>1, PassPolls
  <2> QED
    BY <2>1
<1> QED
  BY <1>1, RaceInvariant, PTL

\* What a race that is ready takes.
LEMMA TakenIsPolled ==
  ASSUME Inv, RaceInv, RaceTakes
  PROVE  /\ Top.polling \in Futures /\ state[Top.polling] = Complete
         /\ Kept(Len(stack)) /\ NoElementIsSet =>
              /\ Top.index < Len(Array) /\ Array[Top.index + 1] = Top.polling
              /\ \A i \in 1 .. Top.index : state[Array[i]] # Complete
<1>1. stack # << >> /\ answer = "ready" /\ Kind(Frame) = "race"
  BY DEF RaceTakes, Resuming
<1>2. Top.polling \in Futures /\ state[Top.polling] = Complete
  BY <1>1 DEF Inv, StackInv, AnswerIsOfPolled
<1>3. Top.index \in Nat /\ Top.length \in Nat /\ Len(Array) \in Nat
  <2>1. Top \in Activations /\ Frame \in Futures
    BY <1>1, Resumed
  <2>2. Array \in Seq(Futures)
    BY <2>1 DEF Inv, TypeOK, Array
  <2> QED
    BY <2>1, <2>2 DEF Activations
<1>4. Len(stack) \in 1 .. Len(stack) /\ Top = stack[Len(stack)] /\ Frame = Top.frame
  BY <1>1, TopType DEF Inv, Top, Frame
<1>5. PassOK(Len(stack))
  BY <1>1, <1>4 DEF RaceInv
<1>6. Kept(Len(stack)) => Top.index < Top.length /\ Top.length <= Len(Array)
  BY <1>1, <1>4, <1>5 DEF PassOK, Array
<1>7. Kept(Len(stack)) /\ NoElementIsSet =>
        /\ Array[Top.index + 1] = Top.polling
        /\ \A i \in 1 .. Top.index : state[Array[i]] # Complete
  BY <1>1, <1>4, <1>5 DEF PassOK, Array, PassedOver
<1> QED
  BY <1>2, <1>3, <1>6, <1>7

\* A race completes when it takes.
LEMMA RaceCompletes ==
  ASSUME Inv, Next, NEW f \in Futures, Kind(f) = "race", Completed(f)
  PROVE  f = Frame /\ stack # << >> /\ RaceTakes
<1>1. stack # << >> /\ f = Frame
  BY OnlyResumedCompletes
<1>2. Race
  BY <1>1 DEF Next, BeginUpdate, Body, BodySuspends, BodyResumesNextTick, BodyPolls, BodyWaits, BodyTakes,
     BodyMutates, BodyCompletes, InBlock, InPoll, NextTick, Query, Timeout, TimeoutPolls, TimeoutTakes,
     TimeoutLooksAtClock, Resuming
<1>3. state' # state
  BY DEF Completed
<1> QED
  BY <1>1, <1>2, <1>3 DEF Race, RacePending, RacePolls, RaceGoesOn, frames

\* If scripts set no element, a race whose array still has the version of its
\* pass completes with the completion of the element it polled, and those
\* before it are pending.
FairPass(f) ==
  /\ Top.index < Len(operations[f]) /\ operations[f][Top.index + 1] = Top.polling
  /\ state[Top.polling] = Complete /\ value'[f] = value[Top.polling]
  /\ \A i \in 1 .. Top.index : state[operations[f][i]] # Complete

LEMMA KeptRaceIsFair ==
  ASSUME Inv, RaceInv, Next, NoElementIsSet, NEW f \in Futures, Kind(f) = "race", Completed(f),
         Kept(Len(stack))
  PROVE  FairPass(f)
<1>1. /\ f = Frame /\ RaceTakes /\ state[Top.polling] = Complete
      /\ Top.index < Len(Array) /\ Array[Top.index + 1] = Top.polling
      /\ \A i \in 1 .. Top.index : state[Array[i]] # Complete
  BY RaceCompletes, TakenIsPolled
<1>2. CompleteWith(value[Top.polling])
  BY <1>1 DEF RaceTakes
<1>3. value'[f] = value[Top.polling]
  BY <1>1, <1>2 DEF CompleteWith, Inv, TypeOK, Frames
<1> QED
  BY <1>1, <1>3 DEF FairPass, Array

THEOREM UnchangedRaceIsFair ==
  ASSUME NoElementIsSet
  PROVE  Spec => [][\A f \in Futures :
                      Kind(f) = "race" /\ Completed(f) /\ version[f] = Top.version => FairPass(f)]_vars
<1>1. ASSUME Inv, RaceInv, [Next]_vars
      PROVE  [\A f \in Futures :
                Kind(f) = "race" /\ Completed(f) /\ version[f] = Top.version => FairPass(f)]_vars
  <2> SUFFICES ASSUME Next, NEW f \in Futures, Kind(f) = "race", Completed(f), version[f] = Top.version
               PROVE  FairPass(f)
    BY <1>1
  <2>1. Kept(Len(stack))
    BY <1>1, OnlyResumedCompletes DEF Kept, Frame, Top
  <2> QED
    BY <1>1, <2>1, KeptRaceIsFair
<1> QED
  BY <1>1, RaceInvariant, PTL DEF Spec

\* If scripts only push to the arrays of races, a race is won by the first
\* element that is ready, with what it completed with, and nothing traps.
THEOREM LeftBias ==
  ASSUME ArraysOnlyGrow
  PROVE  Spec => RaceIsLeftBiased /\ FirstReadyWins
<1>1. NoElementIsSet
  BY DEF ArraysOnlyGrow, NoElementIsSet
<1>2. ASSUME Inv, RaceInv, Next, NEW f \in Futures, Kind(f) = "race", Completed(f)
      PROVE  /\ FairPass(f)
             /\ \A i \in 1 .. Top.index : state[operations[f][i]] # Complete
  <2>1. Kept(Len(stack))
    BY DEF Kept
  <2> QED
    BY <1>1, <1>2, <2>1, KeptRaceIsFair DEF FairPass
<1>3. ASSUME Inv, RaceInv, Next PROVE ~trapped'
  <2>1. CASE RaceTakes
    <3> PICK traps \in IF (IF Top.index < Len(Array) THEN Array[Top.index + 1] ELSE None) = Top.polling
                         THEN {FALSE}
                       ELSE IF (IF Top.index < Len(Array) THEN Array[Top.index + 1] ELSE None) = None
                         THEN {TRUE} ELSE BOOLEAN :
           IF traps THEN trapped' = TRUE ELSE UNCHANGED trapped
      BY <2>1 DEF RaceTakes
    <3>1. Top.index < Len(Array) /\ Array[Top.index + 1] = Top.polling
      BY <1>1, <1>3, <2>1, TakenIsPolled DEF Kept
    <3>2. traps = FALSE
      BY <3>1
    <3> QED
      BY <1>3, <2>1, <3>2, NotTrapped DEF Next
  <2>2. CASE ~RaceTakes
    <3>1. RacePolls => trapped' = trapped
      <4> PICK n : n = Len(stack)
        OBVIOUS
      <4> QED
        BY <1>3, PassPolls
    <3>2. trapped' = trapped
      BY <1>3, <2>2, <3>1 DEF Next, BeginUpdate, Body, BodySuspends, BodyResumesNextTick, BodyPolls, BodyWaits,
         BodyTakes, BodyMutates, BodyCompletes, NextTick, Query, Race, RacePending, RaceGoesOn,
         Timeout, TimeoutPolls, TimeoutTakes, TimeoutLooksAtClock
    <3> QED
      BY <1>3, <3>2, NotTrapped
  <2> QED
    BY <2>1, <2>2
<1>4. Inv /\ RaceInv /\ [Next]_vars =>
        [~trapped' /\ \A f \in Futures : Kind(f) = "race" /\ Completed(f) =>
           \A i \in 1 .. Top.index :
             i <= Len(operations[f]) => state[operations[f][i]] # Complete]_vars
  BY <1>2, <1>3
<1>5. Inv /\ RaceInv /\ [Next]_vars =>
        [\A f \in Futures : Kind(f) = "race" /\ Completed(f) =>
           state[Top.polling] = Complete /\ value'[f] = value[Top.polling]]_vars
  BY <1>2 DEF FairPass
<1> QED
  BY <1>4, <1>5, RaceInvariant, PTL DEF Spec, RaceIsLeftBiased, FirstReadyWins

-----------------------------------------------------------------------------
(* Memory scans. *)

Places == [range : Nat, offset : Nat, index : Nat \ {0}]

\* Every signature and every range that a poll looks at is one there is.
ScanTypeOK ==
  /\ kind \in Kinds /\ lengths \in Lengths
  /\ place \in Places /\ place.index <= Len(lengths)
  /\ found \in Matches \cup {NoMatch}
  /\ exhausted \in BOOLEAN
  /\ result \in Matches \cup {NoMatch, Absent}
  /\ map \in Seq(Ranges) /\ present \subseteq Candidates
  /\ kind \in OneRange => Len(map) = 1

\* While it is suspended, scanOnce has passed nothing that has been there throughout.
PassIsComplete ==
  kind = "scanOnce" /\ result = NoMatch =>
    /\ Len(lengths) = 1 /\ place.index = 1
    /\ exhausted /\ found = NoMatch => steady = {}
    /\ ~exhausted => found = NoMatch /\ \A c \in steady : place.offset <= c[2]

ScanInv ==
  /\ ScanTypeOK
  /\ result = NoMatch => steady \subseteq Visible
  /\ PassIsComplete
  /\ AbsenceIsEvidence
  /\ result = NoMatch /\ kind # "scanOnce" => ~exhausted

-----------------------------------------------------------------------------
(* Windows. *)

\* Lemma: a nonempty set of offsets has a least one.
LEMMA LeastOffset ==
  ASSUME NEW S, S \subseteq Nat, S # {}
  PROVE  Min(S) \in S /\ \A c \in S : Min(S) <= c
<1>1. PICK m \in S : \A c \in S : ~ (<<c, m>> \in OpToRel(<, Nat))
  BY NatLessThanWellFounded, WFMin
<1>2. \A c \in S : m <= c
  <2> SUFFICES ASSUME NEW c \in S, ~(m <= c) PROVE FALSE
    OBVIOUS
  <2>1. c \in Nat /\ m \in Nat /\ c < m
    OBVIOUS
  <2>2. <<c, m>> \in OpToRel(<, Nat)
    BY <2>1 DEF OpToRel
  <2> QED
    BY <1>1, <2>2
<1> QED
  BY <1>2 DEF Min

\* Lemma: every signature of the request is a page long or shorter.
LEMMA LengthTypes ==
  ASSUME ScanTypeOK
  PROVE  /\ Len(lengths) \in Nat \ {0}
         /\ \A i \in 1 .. Len(lengths) : lengths[i] \in 1 .. Page /\ Limit(i) \in Nat
                                        /\ Limit(i) = lengths[i] + Window - 1
<1> DEFINE S == 1 .. Page
<1>1. lengths \in Seq(S) /\ lengths # << >>
  BY ScanAssumption DEF ScanTypeOK
<1>2. \A i \in 1 .. Len(lengths) : lengths[i] \in S
  <2> HIDE DEF S
  <2> QED
    BY <1>1
<1>3. Len(lengths) \in Nat \ {0}
  BY <1>1
<1> QED
  BY <1>2, <1>3, ScanAssumption DEF Limit

\* Lemma: whoever looks for a match in a window finds the one of least offset, or none at all.
LEMMA MatchInWindow ==
  ASSUME NEW r, NEW from \in Nat, NEW limit \in Nat, NEW i, lengths[i] \in Nat
  PROVE  LET match == FirstMatch(r, from, limit, i) IN
         \/ /\ match = NoMatch
            /\ \A c \in Inspected(r, from, limit, i) : <<r, c, i>> \notin present
         \/ \E c \in Inspected(r, from, limit, i) : match = <<r, c, i>> /\ match \in present
<1> DEFINE matches == {c \in Inspected(r, from, limit, i) : <<r, c, i>> \in present}
<1>1. Inspected(r, from, limit, i) \subseteq Nat
  <2>1. from .. from + limit - lengths[i] \subseteq Nat
    OBVIOUS
  <2> QED
    BY <2>1 DEF Inspected
<1> DEFINE sought == {c \in from .. from + limit - lengths[i] :
                        <<r, c, i>> \in present /\ c \in Inspected(r, from, limit, i)}
<1>2. sought = matches
  BY DEF Inspected
<1>3. FirstMatch(r, from, limit, i) = IF matches = {} THEN NoMatch ELSE <<r, Min(matches), i>>
  BY <1>2 DEF FirstMatch
<1>4. CASE matches = {}
  BY <1>4, <1>3
<1>5. CASE matches # {}
  <2>1. Min(matches) \in matches
    <3>1. matches \subseteq Nat
      BY <1>1
    <3> HIDE DEF matches
    <3> QED
      BY <1>5, <3>1, LeastOffset
  <2>2. FirstMatch(r, from, limit, i) = <<r, Min(matches), i>>
    BY <1>5, <1>3
  <2> QED
    BY <2>1, <2>2
<1> QED
  BY <1>4, <1>5

\* Lemma: of a readable range every candidate of the window is inspected.
LEMMA ReadableIsInspected ==
  ASSUME NEW r, Readable(r), Size[r] \in Nat, NEW from \in Nat, NEW limit \in Nat,
         from + limit <= Size[r], NEW i, lengths[i] \in Nat,
         NEW c \in from .. from + limit - lengths[i]
  PROVE  c \in Inspected(r, from, limit, i)
<1> DEFINE read == from + ((c - from) \div Page) * Page
           to   == Smaller(read + Page + lengths[i] - 1, from + limit)
<1>1. read \in Nat
  <2>1. c - from \in Nat /\ Page \in Nat \ {0}
    BY ScanAssumption
  <2> DEFINE q == (c - from) \div Page
  <2>2. q \in Nat
    BY ONLY <2>1
  <2> HIDE DEF q
  <2>3. from + q * Page \in Nat
    BY ONLY <2>1, <2>2, from \in Nat
  <2> QED
    BY <2>3 DEF q
<1> HIDE DEF read
<1>2. to \in Int /\ to <= Size[r]
  BY <1>1, ScanAssumption DEF Smaller
<1>3. \A b \in read .. to - 1 : b \in 0 .. Size[r] - 1
  BY <1>1, <1>2
<1>4. \A b \in read .. to - 1 : <<r, b>> \notin protected
  BY <1>3 DEF Readable
<1> QED
  BY <1>4 DEF Inspected, read
\* Lemma: what a poll of one window shows: what it finds is a match of the range, and if it finds
\* none, what matches in a readable range lies before the window or beyond its last candidate.
LEMMA WindowIsSearched ==
  ASSUME ScanTypeOK, NEW r \in Ranges, NEW from \in Nat, NEW i \in 1 .. Len(lengths),
         lengths[i] <= Size[r] - from
  PROVE  LET match == FirstMatch(r, from, Smaller(Size[r] - from, Limit(i)), i) IN
         /\ match \in Matches \cup {NoMatch}
         /\ match = NoMatch => \A c \in Nat :
              <<r, c, i>> \in present /\ Readable(r) /\ from <= c /\ c + lengths[i] <= Size[r]
                => Limit(i) < Size[r] - from /\ from + Window <= c
<1> DEFINE limit == Smaller(Size[r] - from, Limit(i))
           match == FirstMatch(r, from, limit, i)
<1>1. /\ Size[r] \in Nat /\ lengths[i] \in Nat \ {0} /\ Window \in Nat \ {0}
      /\ Limit(i) \in Nat /\ Limit(i) = lengths[i] + Window - 1
  BY LengthTypes, ScanAssumption
<1>2. /\ limit \in Nat /\ from + limit <= Size[r]
      /\ limit = Size[r] - from \/ (limit = Limit(i) /\ Limit(i) < Size[r] - from)
  BY <1>1 DEF Smaller
<1> HIDE DEF limit
<1>3. \/ /\ match = NoMatch
         /\ \A c \in Inspected(r, from, limit, i) : <<r, c, i>> \notin present
      \/ \E c \in Inspected(r, from, limit, i) : match = <<r, c, i>>
  <2>1. lengths[i] \in Nat /\ limit \in Nat
    BY <1>1, <1>2
  <2> QED
    BY <2>1, MatchInWindow
<1>4. match \in Matches \cup {NoMatch}
  <2>1. Inspected(r, from, limit, i) \subseteq Nat
    <3>1. from .. from + limit - lengths[i] \subseteq Nat
      OBVIOUS
    <3> QED
      BY <3>1 DEF Inspected
  <2>2. i \in Nat \ {0}
    OBVIOUS
  <2> QED
    BY <1>3, <2>1, <2>2 DEF Matches
<1>5. ASSUME match = NoMatch, NEW c \in Nat, <<r, c, i>> \in present, Readable(r), from <= c,
             c + lengths[i] <= Size[r]
      PROVE  Limit(i) < Size[r] - from /\ from + Window <= c
  <2>1. c \notin Inspected(r, from, limit, i)
    <3>1. ASSUME NEW d \in Inspected(r, from, limit, i) PROVE match # <<r, d, i>>
      <4>1. <<r, d, i>> \in Matches
        <5>1. d \in from .. from + limit - lengths[i]
          BY <3>1 DEF Inspected
        <5>2. d \in Nat
          BY <5>1
        <5> QED
          BY <5>2 DEF Matches
      <4> QED
        BY <4>1, <1>5, ScanAssumption
    <3> QED
      BY <1>3, <1>5, <3>1
  <2>2. ~(c \in from .. from + limit - lengths[i])
    <3>1. Size[r] \in Nat /\ lengths[i] \in Nat
      BY <1>1
    <3>2. c \in from .. from + limit - lengths[i] => c \in Inspected(r, from, limit, i)
      BY <1>2, <1>5, <3>1, ReadableIsInspected
    <3> QED
      BY <2>1, <3>2
  <2>3. c + lengths[i] > from + limit
    <3>1. from \in Nat /\ limit \in Nat /\ lengths[i] \in Nat /\ c \in Nat /\ from <= c
      BY <1>1, <1>2, <1>5
    <3> QED
      BY ONLY <2>2, <3>1
  <2> QED
    BY <1>1, <1>2, <1>5, <2>3
<1> HIDE DEF match
<1>6. match = NoMatch => \A c \in Nat :
        <<r, c, i>> \in present /\ Readable(r) /\ from <= c /\ c + lengths[i] <= Size[r]
          => Limit(i) < Size[r] - from /\ from + Window <= c
  BY <1>5
<1> QED
  BY <1>4, <1>6 DEF match, limit

\* Lemma: what it takes.
LEMMA WholeMatch ==
  ASSUME NEW m, m \in present, Contains(map, m[1]), m[2] + lengths[m[3]] <= Size[m[1]],
         \A b \in m[2] .. m[2] + lengths[m[3]] - 1 : <<m[1], b>> \notin protected
  PROVE  MatchIsWhole(m)
BY DEF MatchIsWhole

\* Lemma: a match that a poll of one window finds is read to its last byte.
LEMMA MatchIsRead ==
  ASSUME ScanTypeOK, NEW r \in Ranges, NEW from \in Nat, NEW i \in 1 .. Len(lengths),
         lengths[i] <= Size[r] - from, Contains(map, r),
         FirstMatch(r, from, Smaller(Size[r] - from, Limit(i)), i) # NoMatch
  PROVE  MatchIsWhole(FirstMatch(r, from, Smaller(Size[r] - from, Limit(i)), i))
<1> DEFINE limit == Smaller(Size[r] - from, Limit(i))
           match == FirstMatch(r, from, limit, i)
<1>1. /\ Size[r] \in Nat /\ lengths[i] \in Nat \ {0} /\ Limit(i) \in Nat /\ Page \in Nat \ {0}
  BY LengthTypes, ScanAssumption
<1>2. limit \in Nat /\ from + limit <= Size[r]
  BY <1>1 DEF Smaller
<1> HIDE DEF limit
<1>3. PICK c \in Inspected(r, from, limit, i) : match = <<r, c, i>> /\ match \in present
  <2>1. lengths[i] \in Nat /\ match # NoMatch
    BY <1>1 DEF limit
  <2> QED
    BY <1>2, <2>1, MatchInWindow
<1> DEFINE l    == lengths[i]
           q    == (c - from) \div Page
           read == from + q * Page
           end   == Smaller(read + Page + l - 1, from + limit)
<1>4. /\ c \in from .. from + limit - l
      /\ \A b \in read .. end - 1 : <<r, b>> \notin protected
  BY <1>3 DEF Inspected
<1>5. q \in Nat /\ q * Page <= c - from /\ c - from < q * Page + Page
  <2> DEFINE d == c - from
  <2>1. d \in Nat /\ Page \in Nat \ {0}
    BY <1>1, <1>2, <1>4
  <2> HIDE DEF d
  <2>2. d \div Page \in Nat /\ Page * (d \div Page) <= d /\ d < Page * (d \div Page) + Page
    BY ONLY <2>1
  <2> DEFINE e == d \div Page
  <2>3. e \in Nat /\ Page * e <= d /\ d < Page * e + Page
    BY <2>2
  <2> HIDE DEF e
  <2>4. Page * e = e * Page
    BY ONLY <2>1, <2>3
  <2> QED
    BY <2>3, <2>4 DEF e, d
<1> HIDE DEF q, l
<1>6. q * Page \in Nat /\ l \in Nat \ {0}
  BY <1>1, <1>5 DEF l
<1> DEFINE k == q * Page
<1>7. k \in Nat /\ k <= c - from /\ c - from < k + Page /\ read = from + k
  BY <1>5, <1>6
<1> HIDE DEF k, read, end
<1>8. \A b \in c .. c + l - 1 : b \in read .. end - 1
  <2>1. end = IF read + Page + l - 1 <= from + limit THEN read + Page + l - 1 ELSE from + limit
    BY DEF end, Smaller
  <2> QED
    BY ONLY <1>1, <1>2, <1>4, <1>6, <1>7, <2>1, from \in Nat
<1>9. c \in Int /\ c + l <= Size[r]
  BY <1>1, <1>2, <1>4, <1>6
<1>10. match[1] = r /\ match[2] = c /\ match[3] = i
  BY <1>3
<1>11. MatchIsWhole(match)
  <2>1. \A b \in c .. c + l - 1 : <<r, b>> \notin protected
    BY <1>4, <1>8
  <2>2. lengths[match[3]] = l
    BY <1>10 DEF l
  <2> HIDE DEF match
  <2>3. match \in present /\ Contains(map, match[1])
    BY <1>3, <1>10
  <2>4. match[2] + lengths[match[3]] <= Size[match[1]]
    BY <1>9, <1>10, <2>2
  <2>5. \A b \in match[2] .. match[2] + lengths[match[3]] - 1 : <<match[1], b>> \notin protected
    BY <1>10, <2>1, <2>2
  <2> QED
    BY <2>3, <2>4, <2>5, WholeMatch
<1> QED
  BY <1>11 DEF limit

-----------------------------------------------------------------------------
(* The steps. *)

\* Lemma: a place of another window, or of another signature.
LEMMA OtherPlaces ==
  ASSUME NEW p \in Places, NEW w \in Nat
  PROVE  /\ [p EXCEPT !.offset = @ + w] \in Places
         /\ [p EXCEPT !.offset = @ + w].index = p.index
         /\ [p EXCEPT !.offset = @ + w].offset = p.offset + w
         /\ [p EXCEPT !.index = p.index + 1] \in Places
         /\ [p EXCEPT !.index = p.index + 1].index = p.index + 1
         /\ [p EXCEPT !.offset = @ + w, !.index = 1] \in Places
         /\ [p EXCEPT !.offset = @ + w, !.index = 1].index = 1
<1>1. /\ p.range \in Nat /\ p.offset + w \in Nat /\ p.index \in Nat \ {0} /\ p.offset \in Nat
      /\ p.index + 1 \in Nat \ {0}
  BY DEF Places
<1>2. /\ [p EXCEPT !.offset = @ + w] \in Places
      /\ [p EXCEPT !.offset = @ + w].index = p.index
      /\ [p EXCEPT !.offset = @ + w].offset = p.offset + w
  BY <1>1 DEF Places
<1>3. /\ [p EXCEPT !.index = p.index + 1] \in Places
      /\ [p EXCEPT !.index = p.index + 1].index = p.index + 1
  BY <1>1 DEF Places
<1>4. /\ [p EXCEPT !.offset = @ + w, !.index = 1] \in Places
      /\ [p EXCEPT !.offset = @ + w, !.index = 1].index = 1
  <2> DEFINE q == [p EXCEPT !.offset = @ + w]
  <2>1. [p EXCEPT !.offset = @ + w, !.index = 1] = [q EXCEPT !.index = 1] /\ q \in Places
    BY <1>2
  <2> HIDE DEF q
  <2>2. [q EXCEPT !.index = 1] \in Places /\ [q EXCEPT !.index = 1].index = 1
    BY <2>1 DEF Places
  <2> QED
    BY <2>1, <2>2
<1> QED
  BY <1>2, <1>3, <1>4

\* Lemma: what scanOnce must not miss lies wholly in its range.
LEMMA SteadyInRegion ==
  ASSUME ScanInv, kind = "scanOnce", result = NoMatch, NEW c \in steady
  PROVE  /\ c[2] \in Nat /\ c = <<Region, c[2], 1>> /\ c \in present
         /\ Readable(Region) /\ c[2] + lengths[1] <= Size[Region]
<1>1. c \in present /\ Sought(c) /\ Contains(map, c[1]) /\ Readable(c[1])
  BY DEF ScanInv, Visible
<1>2. c \in Matches
  BY <1>1, ScanAssumption DEF ScanInv, ScanTypeOK
<1>3. Len(lengths) = 1 /\ Len(map) = 1
  BY DEF ScanInv, ScanTypeOK, PassIsComplete, OneRange
<1>4. c[3] = 1
  BY <1>1, <1>2, <1>3 DEF Sought, Matches
<1>5. c[1] = Region
  <2>1. PICK j \in 1 .. Len(map) : map[j] = c[1]
    BY <1>1 DEF Contains
  <2>2. j = 1
    BY <1>3, <2>1
  <2> QED
    BY <2>1, <2>2 DEF Region
<1> QED
  BY <1>1, <1>2, <1>4, <1>5 DEF Sought, Matches

\* Lemma: an operation over one range has that range.
LEMMA RegionType ==
  ASSUME ScanTypeOK, kind \in OneRange
  PROVE  Region \in Ranges /\ Size[Region] \in Nat
<1>1. map \in Seq(Ranges) /\ Len(map) = 1
  BY DEF ScanTypeOK
<1>2. map[1] \in Ranges
  BY <1>1
<1> QED
  BY <1>2, ScanAssumption DEF Region

\* Lemma: a poll leaves the request, the memory and the ghost alone, and clears or keeps its place.
LEMMA YieldTypes ==
  ASSUME ScanTypeOK, result = NoMatch, NEW p \in Places, p.index <= Len(lengths),
         NEW f \in Matches \cup {NoMatch}, Yield(p, f), exhausted' \in BOOLEAN,
         UNCHANGED <<request, memory, steady>>
  PROVE  ScanTypeOK' /\ result' = result
BY DEF ScanTypeOK, Yield, request, memory

\* Lemma: the place of a new pass.
LEMMA FreshType ==
  ASSUME ScanTypeOK PROVE Fresh \in Places /\ Fresh.index = 1 /\ 1 <= Len(lengths) /\ Fresh.offset = 0
BY LengthTypes DEF Fresh, Places

LEMMA InitScan == ASSUME ScanInit PROVE ScanInv
<1>1. ScanTypeOK
  <2>1. lengths \in Lengths /\ lengths # << >> /\ lengths \in Seq(1 .. Page)
    BY ScanAssumption DEF ScanInit
  <2>2. map \in Seq(Ranges) /\ (kind \in OneRange => Len(map) = 1)
    <3>1. \A r \in Ranges : <<r>> \in Seq(Ranges) /\ Len(<<r>>) = 1
      OBVIOUS
    <3>2. Maps \subseteq Seq(Ranges)
      <4>1. Whole \subseteq Ranges
        BY DEF Whole
      <4>2. Seq(Whole) \subseteq Seq(Ranges)
        BY <4>1
      <4> QED
        BY <4>2, ScanAssumption
    <3>3. kind \in OneRange => kind \notin Processes
      BY DEF OneRange, Processes
    <3> QED
      BY <3>1, <3>2, <3>3 DEF ScanInit, Whole
  <2>3. 1 <= Len(lengths) /\ Fresh \in Places /\ Fresh.index = 1
    BY <2>1 DEF Fresh, Places
  <2> QED
    BY <2>1, <2>2, <2>3 DEF ScanInit, ScanTypeOK
<1>2. kind = "scanOnce" => Len(lengths) = 1
  BY DEF ScanInit
<1>3. \A c \in steady : 0 <= c[2]
  <2>1. steady \subseteq Matches
    BY <1>1, ScanAssumption DEF ScanInit, Visible, ScanTypeOK
  <2> QED
    BY <2>1 DEF Matches
<1> QED
  BY <1>1, <1>2, <1>3, ScanAssumption DEF ScanInit, ScanInv, PassIsComplete, AbsenceIsEvidence, Fresh
\* Lemma: a poll that delivers nothing keeps the rest, if scanOnce keeps its promise.
LEMMA PollKeepsScan ==
  ASSUME ScanInv, result = NoMatch, ScanTypeOK', result' = result,
         UNCHANGED <<request, memory, steady>>,
         kind = "scanOnce" => PassIsComplete', kind # "scanOnce" => ~exhausted'
  PROVE  ScanInv'
<1>1. UNCHANGED <<kind, lengths, map, present, protected, steady>>
  BY DEF request, memory
<1>2. Visible' = Visible
  BY <1>1 DEF Visible, Sought, Readable
<1>3. PassIsComplete'
  BY <1>1 DEF PassIsComplete
<1> QED
  BY <1>1, <1>2, <1>3, ScanAssumption DEF ScanInv, AbsenceIsEvidence

LEMMA ScanRangeKeepsInv == ASSUME ScanInv, ScanRange PROVE ScanInv'
<1> DEFINE match == FirstMatch(Region, place.offset, Smaller(Remaining, Limit(1)), 1)
           over  == Remaining < lengths[1] \/ place.offset >= Size[Region]
           on    == [place EXCEPT !.offset = @ + Window]
<1>1. /\ ScanTypeOK /\ result = NoMatch /\ ~exhausted /\ found = NoMatch /\ kind \in {"scan", "scanOnce"}
      /\ UNCHANGED <<request, memory, steady>>
  BY DEF ScanRange, Suspended, ScanInv
<1>2. /\ Region \in Ranges /\ Size[Region] \in Nat /\ place \in Places /\ place.offset \in Nat
      /\ place.index <= Len(lengths) /\ 1 \in 1 .. Len(lengths) /\ lengths[1] \in Nat \ {0}
      /\ Remaining = Size[Region] - place.offset
  BY <1>1, RegionType, LengthTypes DEF OneRange, ScanTypeOK, Places, Remaining
<1>3. Fresh \in Places /\ Fresh.index = 1 /\ Fresh.offset = 0
  BY <1>1, FreshType
<1>4. /\ on \in Places /\ on.index = place.index /\ on.offset = place.offset + Window
  <2>1. Window \in Nat /\ 1 \in Nat \ {0}
    BY ScanAssumption
  <2> QED
    BY <1>2, <2>1, OtherPlaces
<1>5. ~over => /\ match \in Matches \cup {NoMatch}
               /\ match = NoMatch => \A c \in Nat :
                    <<Region, c, 1>> \in present /\ Readable(Region) /\ place.offset <= c
                      /\ c + lengths[1] <= Size[Region]
                      => Limit(1) < Remaining /\ place.offset + Window <= c
  <2> SUFFICES ASSUME ~over
               PROVE  /\ match \in Matches \cup {NoMatch}
                      /\ match = NoMatch => \A c \in Nat :
                           <<Region, c, 1>> \in present /\ Readable(Region) /\ place.offset <= c
                             /\ c + lengths[1] <= Size[Region]
                             => Limit(1) < Remaining /\ place.offset + Window <= c
    OBVIOUS
  <2>1. lengths[1] <= Size[Region] - place.offset
    BY <1>2
  <2> QED
    BY <1>1, <1>2, <2>1, WindowIsSearched
<1>6. \/ over /\ Exhausted
      \/ ~over /\ match # NoMatch /\ Yield(place, match) /\ exhausted' = (kind = "scanOnce")
      \/ ~over /\ match = NoMatch /\ Remaining <= Limit(1) /\ Exhausted
      \/ ~over /\ match = NoMatch /\ ~(Remaining <= Limit(1)) /\ Yield(on, NoMatch) /\ UNCHANGED exhausted
  BY DEF ScanRange
<1>7. ASSUME kind = "scanOnce", NEW c \in steady
      PROVE  /\ c[2] \in Nat /\ <<Region, c[2], 1>> \in present /\ Readable(Region)
             /\ c[2] + lengths[1] <= Size[Region] /\ place.offset <= c[2]
  <2>1. c[2] \in Nat /\ c = <<Region, c[2], 1>> /\ c \in present /\ Readable(Region)
        /\ c[2] + lengths[1] <= Size[Region]
    BY <1>1, <1>7, SteadyInRegion
  <2>2. place.offset <= c[2]
    BY <1>1, <1>7 DEF ScanInv, PassIsComplete
  <2> QED
    BY <2>1, <2>2
<1>8. kind = "scanOnce" => Len(lengths) = 1 /\ place.index = 1
  BY <1>1 DEF ScanInv, PassIsComplete
<1>9. kind' = kind /\ lengths' = lengths /\ steady' = steady
  BY <1>1 DEF request
<1>10. Limit(1) \in Nat
  BY <1>1, <1>2, LengthTypes
<1> HIDE DEF match, on
<1>11. CASE over
  <2>1. kind = "scanOnce" => steady = {}
    <3> SUFFICES ASSUME kind = "scanOnce", NEW c \in steady PROVE FALSE
      OBVIOUS
    <3>1. c[2] \in Nat /\ c[2] + lengths[1] <= Size[Region] /\ place.offset <= c[2]
      BY <1>7
    <3> DEFINE at == c[2]
               l  == lengths[1]
               z  == Size[Region]
               o  == place.offset
               m  == Remaining
    <3>2. /\ at \in Nat /\ at + l <= z /\ o <= at /\ l \in Nat \ {0} /\ z \in Nat /\ o \in Nat
          /\ m = z - o /\ (m < l \/ o >= z)
      BY <1>2, <1>11, <3>1
    <3> HIDE DEF at, l, z, o, m
    <3> QED
      BY ONLY <3>2
  <2>2. Yield(Fresh, NoMatch) /\ exhausted' = (kind = "scanOnce")
    BY <1>6, <1>11 DEF Exhausted
  <2>3. ScanTypeOK' /\ result' = result
    BY <1>1, <1>2, <1>3, <2>2, YieldTypes
  <2>4. kind = "scanOnce" => PassIsComplete'
    BY <1>1, <1>3, <1>8, <1>9, <2>1, <2>2 DEF PassIsComplete, Yield
  <2> QED
    BY <1>1, <2>2, <2>3, <2>4, PollKeepsScan
<1>12. CASE ~over /\ match # NoMatch
  <2>1. Yield(place, match) /\ exhausted' = (kind = "scanOnce")
    BY <1>6, <1>12
  <2>2. ScanTypeOK' /\ result' = result
    BY <1>1, <1>2, <1>5, <1>12, <2>1, YieldTypes
  <2>3. kind = "scanOnce" => PassIsComplete'
    BY <1>8, <1>9, <1>12, <2>1 DEF PassIsComplete, Yield
  <2> QED
    BY <1>1, <2>1, <2>2, <2>3, PollKeepsScan
<1>13. CASE ~over /\ match = NoMatch /\ Remaining <= Limit(1)
  <2>1. kind = "scanOnce" => steady = {}
    <3> SUFFICES ASSUME kind = "scanOnce", NEW c \in steady PROVE FALSE
      OBVIOUS
    <3>1. Limit(1) < Remaining
      BY <1>5, <1>7, <1>13
    <3> QED
      BY <1>2, <1>10, <1>13, <3>1
  <2>2. Yield(Fresh, NoMatch) /\ exhausted' = (kind = "scanOnce")
    BY <1>6, <1>13 DEF Exhausted
  <2>3. ScanTypeOK' /\ result' = result
    BY <1>1, <1>2, <1>3, <2>2, YieldTypes
  <2>4. kind = "scanOnce" => PassIsComplete'
    BY <1>1, <1>3, <1>8, <1>9, <2>1, <2>2 DEF PassIsComplete, Yield
  <2> QED
    BY <1>1, <2>2, <2>3, <2>4, PollKeepsScan
<1>14. CASE ~over /\ match = NoMatch /\ ~(Remaining <= Limit(1))
  <2>1. Yield(on, NoMatch) /\ exhausted' = exhausted
    BY <1>6, <1>14
  <2>2. ScanTypeOK' /\ result' = result
    BY <1>1, <1>2, <1>4, <2>1, YieldTypes DEF ScanTypeOK
  <2>3. kind = "scanOnce" => \A c \in steady : on.offset <= c[2]
    BY <1>4, <1>5, <1>7, <1>14
  <2>4. kind = "scanOnce" => PassIsComplete'
    BY <1>1, <1>4, <1>8, <1>9, <2>1, <2>3 DEF PassIsComplete, Yield
  <2> QED
    BY <1>1, <2>1, <2>2, <2>4, PollKeepsScan
<1> QED
  BY <1>11, <1>12, <1>13, <1>14

LEMMA ScanModuleKeepsInv == ASSUME ScanInv, ScanModule PROVE ScanInv'
<1> DEFINE i     == place.index
           match == FirstMatch(Region, place.offset, Smaller(Remaining, Limit(i)), i)
           next  == IF match # NoMatch THEN place
                    ELSE IF i < Len(lengths) THEN [place EXCEPT !.index = i + 1]
                    ELSE [place EXCEPT !.offset = @ + Window, !.index = 1]
<1>1. /\ ScanTypeOK /\ result = NoMatch /\ ~exhausted /\ kind = "scanAny"
      /\ UNCHANGED <<request, exhausted, memory, steady>>
  BY DEF ScanModule, Suspended, ScanInv
<1>2. /\ Region \in Ranges /\ Size[Region] \in Nat /\ place \in Places /\ place.offset \in Nat
      /\ i \in 1 .. Len(lengths) /\ Len(lengths) \in Nat /\ Remaining = Size[Region] - place.offset
      /\ lengths[i] \in Nat
  BY <1>1, RegionType, LengthTypes DEF OneRange, ScanTypeOK, Places, Remaining
<1>3. CASE Remaining <= 0 \/ Remaining < lengths[i]
  <2>1. Yield(Fresh, NoMatch)
    BY <1>3 DEF ScanModule
  <2>2. Fresh \in Places /\ Fresh.index <= Len(lengths)
    BY <1>1, FreshType
  <2>3. ScanTypeOK' /\ result' = result
    BY <1>1, <2>1, <2>2, YieldTypes DEF ScanTypeOK
  <2> QED
    BY <1>1, <2>3, PollKeepsScan
<1>4. CASE ~(Remaining <= 0 \/ Remaining < lengths[i])
  <2>1. Yield(next, match)
    BY <1>4 DEF ScanModule
  <2>2. next \in Places /\ next.index <= Len(lengths)
    <3>1. Window \in Nat /\ i + 1 \in Nat \ {0} /\ 1 <= Len(lengths) /\ i <= Len(lengths)
      BY <1>2, ScanAssumption
    <3>2. i < Len(lengths) => i + 1 <= Len(lengths)
      BY <1>2
    <3>3. /\ [place EXCEPT !.index = i + 1] \in Places /\ [place EXCEPT !.index = i + 1].index = i + 1
          /\ [place EXCEPT !.offset = @ + Window, !.index = 1] \in Places
          /\ [place EXCEPT !.offset = @ + Window, !.index = 1].index = 1
      BY <1>2, <3>1, OtherPlaces
    <3> QED
      BY <1>2, <3>1, <3>2, <3>3
  <2>3. match \in Matches \cup {NoMatch}
    <3>1. lengths[i] <= Size[Region] - place.offset
      BY <1>2, <1>4
    <3> QED
      BY <1>1, <1>2, <3>1, WindowIsSearched
  <2> HIDE DEF next, match
  <2>4. ScanTypeOK' /\ result' = result
    BY <1>1, <2>1, <2>2, <2>3, YieldTypes DEF ScanTypeOK
  <2> QED
    BY <1>1, <2>4, PollKeepsScan
<1> QED
  BY <1>3, <1>4

LEMMA ScanProcessKeepsInv == ASSUME ScanInv, ScanProcess PROVE ScanInv'
<1> DEFINE p         == Current
           i         == p.index
           r         == map[p.range]
           remaining == Size[r] - p.offset
           match     == FirstMatch(r, p.offset, Smaller(remaining, Limit(i)), i)
           over      == p.offset >= Size[r] \/ remaining < lengths[i]
           next      == IF match # NoMatch THEN place
                        ELSE IF i < Len(lengths) THEN [p EXCEPT !.index = i + 1]
                        ELSE IF remaining <= Limit(i) THEN NextRange(p)
                        ELSE [p EXCEPT !.offset = @ + Window, !.index = 1]
<1>1. /\ ScanTypeOK /\ result = NoMatch /\ ~exhausted /\ kind \in Processes
      /\ UNCHANGED <<request, exhausted, memory, steady>>
  BY DEF ScanProcess, Suspended, ScanInv, ScanTypeOK, Processes
<1>2. kind # "scanOnce"
  BY <1>1 DEF Processes
<1>3. Fresh \in Places /\ Fresh.index = 1 /\ 1 <= Len(lengths) /\ Len(map) \in Nat /\ Len(lengths) \in Nat
  BY <1>1, FreshType, LengthTypes DEF ScanTypeOK
<1>4. p \in Places /\ i \in 1 .. Len(lengths) /\ p.range \in 0 .. Len(map) /\ p.offset \in Nat
  BY <1>1, <1>3 DEF Current, ScanTypeOK, Places
<1>5. p.range # 0 => NextRange(p) \in Places /\ NextRange(p).index = 1
  BY <1>3, <1>4 DEF NextRange, Places
<1>6. p.range # 0 => r \in Ranges /\ Size[r] \in Nat /\ lengths[i] \in Nat
  <2>1. p.range # 0 => p.range \in 1 .. Len(map)
    BY <1>4
  <2>2. p.range # 0 => r \in Ranges
    BY <1>1, <2>1 DEF ScanTypeOK
  <2> QED
    BY <1>1, <1>4, <2>2, LengthTypes, ScanAssumption
<1> HIDE DEF p
<1>7. \/ p.range = 0 /\ Yield(Fresh, NoMatch)
      \/ p.range # 0 /\ over /\ Yield(NextRange(p), NoMatch)
      \/ p.range # 0 /\ ~over /\ Yield(next, match)
  BY DEF ScanProcess, p
<1>8. CASE p.range = 0 /\ Yield(Fresh, NoMatch)
  <2>1. ScanTypeOK' /\ result' = result
    BY <1>1, <1>3, <1>8, YieldTypes DEF ScanTypeOK
  <2> QED
    BY <1>1, <1>2, <2>1, PollKeepsScan
<1>9. CASE p.range # 0 /\ over /\ Yield(NextRange(p), NoMatch)
  <2>1. ScanTypeOK' /\ result' = result
    BY <1>1, <1>3, <1>5, <1>9, YieldTypes DEF ScanTypeOK
  <2> QED
    BY <1>1, <1>2, <2>1, PollKeepsScan
<1>10. CASE p.range # 0 /\ ~over /\ Yield(next, match)
  <2>1. match \in Matches \cup {NoMatch}
    <3>1. lengths[i] <= Size[r] - p.offset
      BY <1>4, <1>6, <1>10
    <3> QED
      BY <1>1, <1>4, <1>6, <1>10, <3>1, WindowIsSearched
  <2>2. next \in Places /\ next.index <= Len(lengths)
    <3>1. place \in Places /\ place.index <= Len(lengths)
      BY <1>1 DEF ScanTypeOK
    <3>0. Window \in Nat /\ i + 1 \in Nat \ {0}
      BY <1>4, ScanAssumption
    <3>2. i < Len(lengths) =>
            [p EXCEPT !.index = i + 1] \in Places /\ [p EXCEPT !.index = i + 1].index <= Len(lengths)
      <4>1. [p EXCEPT !.index = i + 1] \in Places /\ [p EXCEPT !.index = i + 1].index = i + 1
        BY <1>4, <3>0, OtherPlaces
      <4> QED
        BY <1>3, <1>4, <4>1
    <3>3. /\ [p EXCEPT !.offset = @ + Window, !.index = 1] \in Places
          /\ [p EXCEPT !.offset = @ + Window, !.index = 1].index = 1
      BY <1>4, <3>0, OtherPlaces
    <3> HIDE DEF match, i
    <3> QED
      BY <1>3, <1>5, <1>10, <3>1, <3>2, <3>3
  <2> HIDE DEF next, match
  <2>3. ScanTypeOK' /\ result' = result
    BY <1>1, <1>10, <2>1, <2>2, YieldTypes DEF ScanTypeOK
  <2> QED
    BY <1>1, <1>2, <2>3, PollKeepsScan
<1> QED
  BY <1>7, <1>8, <1>9, <1>10
LEMMA DeliverKeepsInv == ASSUME ScanInv, Deliver PROVE ScanInv'
<1>1. /\ ScanTypeOK /\ UNCHANGED <<kind, lengths, map, present, protected, steady>>
      /\ place' = Fresh /\ found' = NoMatch /\ exhausted' = FALSE /\ result = NoMatch
      /\ result' = IF found = NoMatch THEN Absent ELSE found
      /\ IF kind = "scanOnce" THEN exhausted ELSE found # NoMatch
  BY DEF Deliver, ScanInv, request, memory
<1>2. found \in Matches \cup {NoMatch}
  BY <1>1 DEF ScanTypeOK
<1>3. result' # NoMatch /\ result' \in Matches \cup {NoMatch, Absent}
  BY <1>1, <1>2, ScanAssumption
<1>4. ScanTypeOK'
  BY <1>1, <1>3, FreshType DEF ScanTypeOK
<1>5. AbsenceIsEvidence'
  <2>1. result' = Absent => found = NoMatch
    BY <1>1, <1>2, ScanAssumption
  <2>2. found = NoMatch => kind = "scanOnce" /\ exhausted
    BY <1>1
  <2> QED
    BY <1>1, <2>1, <2>2 DEF AbsenceIsEvidence, ScanInv, PassIsComplete
<1> QED
  BY <1>1, <1>3, <1>4, <1>5 DEF ScanInv, PassIsComplete

LEMMA GameKeepsInv == ASSUME ScanInv, Game PROVE ScanInv'
<1>1. /\ ScanTypeOK /\ UNCHANGED <<kind, lengths, place, found, exhausted, result>>
      /\ steady' = IF result = NoMatch THEN steady \cap Visible' ELSE steady
  BY DEF Game, ScanInv, request
<1>2. ScanTypeOK'
  <2>1. present' \subseteq Candidates
    BY <1>1 DEF Game, ScanTypeOK
  <2>2. map' \in Seq(Ranges) /\ (kind \in OneRange => Len(map') = 1)
    <3>1. map' = map \/ (kind \in Processes /\ map' \in Maps)
      BY DEF Game
    <3>2. Maps \subseteq Seq(Ranges)
      <4>1. Seq(Whole) \subseteq Seq(Ranges)
        BY DEF Whole
      <4> QED
        BY <4>1, ScanAssumption
    <3> QED
      BY <1>1, <3>1, <3>2 DEF ScanTypeOK, OneRange, Processes
  <2> QED
    BY <1>1, <2>1, <2>2 DEF ScanTypeOK
<1>3. steady' \subseteq steady /\ (result = NoMatch => steady' \subseteq Visible')
  BY <1>1
<1> HIDE DEF Visible
<1>4. PassIsComplete' /\ AbsenceIsEvidence'
  BY <1>1, <1>3 DEF ScanInv, PassIsComplete, AbsenceIsEvidence
<1> QED
  BY <1>1, <1>2, <1>3, <1>4 DEF ScanInv

LEMMA ScanKeepsInv == ASSUME ScanInv, [ScanNext]_scanVars PROVE ScanInv'
<1>1. CASE UNCHANGED scanVars
  BY <1>1 DEF scanVars, request, memory, ScanInv, ScanTypeOK, Visible, Sought, Readable,
     PassIsComplete, AbsenceIsEvidence
<1> QED
  BY <1>1, ScanRangeKeepsInv, ScanModuleKeepsInv, ScanProcessKeepsInv, DeliverKeepsInv, GameKeepsInv
     DEF ScanNext, PollScan

LEMMA ScanInvariant == ScanSpec => []ScanInv
<1>1. ScanInit => ScanInv
  BY InitScan
<1>2. ScanInv /\ [ScanNext]_scanVars => ScanInv'
  BY ScanKeepsInv
<1> QED
  BY <1>1, <1>2, PTL DEF ScanSpec

-----------------------------------------------------------------------------
(* The theorems. *)

\* Whatever the game maps and unmaps between the polls, no poll looks at a range
\* that is not mapped any more or at a signature that was not asked for.
THEOREM ScanTypeCorrect == ScanSpec => []ScanTypeOK
<1>1. ScanInv => ScanTypeOK
  BY DEF ScanInv
<1> QED
  BY <1>1, ScanInvariant, PTL

\* When scanOnce reports absence, nothing has matched and been readable
\* throughout: not at the border of two windows or of two pages, and not in the
\* tail of the range, whatever the sizes of the three and of the signature.
THEOREM AbsenceIsTrue == ScanSpec => []AbsenceIsEvidence
<1>1. ScanInv => AbsenceIsEvidence
  BY DEF ScanInv
<1> QED
  BY <1>1, ScanInvariant, PTL

\* Whatever is found is wholly there, in a range that is mapped, at the poll that
\* finds it: the overlap of two reads and that of two windows are long enough.
THEOREM FoundIsTrue == ScanSpec => FoundIsWhole
<1>1. ASSUME ScanInv, [ScanNext]_scanVars, found' # NoMatch, found' # found
      PROVE  MatchIsWhole(found')
  <2>1. ScanTypeOK /\ (result = NoMatch /\ kind # "scanOnce" => ~exhausted)
    BY <1>1 DEF ScanInv
  <2>2. ScanRange \/ ScanModule \/ ScanProcess
    BY <1>1 DEF ScanNext, PollScan, Deliver, Game, scanVars
  <2>3. Len(lengths) \in Nat \ {0} /\ \A i \in 1 .. Len(lengths) : lengths[i] \in Nat
    BY <2>1, LengthTypes
  <2>4. kind \in OneRange =>
          Region \in Ranges /\ Size[Region] \in Nat /\ Contains(map, Region) /\ place.offset \in Nat
    <3> SUFFICES ASSUME kind \in OneRange
                 PROVE  /\ Region \in Ranges /\ Size[Region] \in Nat
                        /\ Contains(map, Region) /\ place.offset \in Nat
      OBVIOUS
    <3>1. Len(map) = 1 /\ 1 \in 1 .. 1
      BY <2>1 DEF ScanTypeOK
    <3>2. Contains(map, Region)
      BY <3>1 DEF Contains, Region
    <3> QED
      BY <2>1, <3>2, RegionType DEF ScanTypeOK, Places
  <2>5. CASE ScanRange
    <3>1. /\ lengths[1] <= Size[Region] - place.offset
          /\ found' = FirstMatch(Region, place.offset, Smaller(Remaining, Limit(1)), 1)
      BY <1>1, <2>3, <2>4, <2>5 DEF ScanRange, Exhausted, Yield, Remaining, OneRange
    <3>2. 1 \in 1 .. Len(lengths) /\ kind \in OneRange
      BY <2>3, <2>5 DEF ScanRange, OneRange
    <3> QED
      BY <1>1, <2>1, <2>4, <3>1, <3>2, MatchIsRead DEF Remaining
  <2>6. CASE ScanModule
    <3> DEFINE i == place.index
    <3>1. i \in 1 .. Len(lengths) /\ kind \in OneRange
      BY <2>1, <2>3, <2>6 DEF ScanModule, OneRange, ScanTypeOK, Places
    <3>2. /\ lengths[i] <= Size[Region] - place.offset
          /\ found' = FirstMatch(Region, place.offset, Smaller(Remaining, Limit(i)), i)
      BY <1>1, <2>3, <2>4, <2>6, <3>1 DEF ScanModule, Yield, Remaining
    <3> QED
      BY <1>1, <2>1, <2>4, <3>1, <3>2, MatchIsRead DEF Remaining
  <2>7. CASE ScanProcess
    <3> DEFINE p == Current
               i == p.index
               r == map[p.range]
    <3>1. /\ p.range \in 0 .. Len(map) /\ p.offset \in Nat /\ i \in 1 .. Len(lengths)
      BY <2>1, <2>3 DEF Current, ScanTypeOK, Places, Fresh
    <3>2. /\ p.range # 0 /\ ~(p.offset >= Size[r]) /\ ~(Size[r] - p.offset < lengths[i])
          /\ found' = FirstMatch(r, p.offset, Smaller(Size[r] - p.offset, Limit(i)), i)
      BY <1>1, <2>7 DEF ScanProcess, Yield
    <3> HIDE DEF p
    <3>3. r \in Ranges /\ Contains(map, r)
      <4>1. p.range \in 1 .. Len(map)
        BY <2>1, <3>1, <3>2
      <4> QED
        BY <2>1, <4>1 DEF ScanTypeOK, Contains
    <3>4. lengths[i] <= Size[r] - p.offset
      BY <2>3, <3>1, <3>2, <3>3, ScanAssumption
    <3> QED
      BY <1>1, <2>1, <3>1, <3>2, <3>3, <3>4, MatchIsRead
  <2> QED
    BY <2>2, <2>5, <2>6, <2>7
<1>2. ScanInv /\ [ScanNext]_scanVars => [found' \notin {found, NoMatch} => MatchIsWhole(found')]_scanVars
  BY <1>1
<1> QED
  BY <1>2, ScanInvariant, PTL DEF ScanSpec, FoundIsWhole
=============================================================================
