---------------------------- MODULE TimerMonitor ----------------------------
(***************************************************************************)
(* The timer half of the generated `update`: sampling the timer for        *)
(* `onStart` and `onReset` before anything else, and the decision actions  *)
(* `start`, `isLoading`, `gameTime`, `reset` and `split` at its end.       *)
(*                                                                         *)
(* The user operates the timer between any two steps, so the state sampled *)
(* at the head of an update may be stale when its decisions are taken.     *)
(* Everything between the two (attachment, state, whileAttached) is seen   *)
(* here only as letting the update go on or returning early (Attachment).  *)
(***************************************************************************)
EXTENDS Integers

CONSTANTS
  Actions,             \* the timer actions the script declares
  HasAttemptGlobals,   \* some global is assigned by onStart
  RequiresAttempt,     \* the actions that reach an attempt-scoped global
  Segments             \* splits of the user's run

Decisions == {"start", "isLoading", "gameTime", "reset", "split"}

\* Attempt-scoped globals are those onStart assigns; `start` is outside an
\* attempt (action_has_attempt_scope).  A script with neither onStart nor
\* onReset observes nothing: it samples the timer for its decisions alone.
ASSUME ConstantsAssumption ==
  /\ Actions \subseteq Decisions \cup {"onStart", "onReset"}
  /\ Actions \cap {"onStart", "onReset"} # {}
  /\ HasAttemptGlobals \in BOOLEAN
  /\ HasAttemptGlobals => "onStart" \in Actions
  /\ RequiresAttempt \subseteq Actions \ {"onStart", "start"}
  /\ RequiresAttempt # {} => HasAttemptGlobals
  /\ Segments \in Nat \ {0}

NotRunning == 0
Running    == 1
Paused     == 2
Ended      == 3
Unobserved == -1

VARIABLES
  \* the host's timer
  timer, split_index,
  game_time,            \* "notInitialized", "running" or "paused"
  \* the module
  observed_timer_state,
  attempt_ready,
  attempt_globals,      \* "assigned", or "default" after initialisation and reset
  timer_state,          \* the sample the present update works with
  pc,
  balance               \* ghost: onStart runs less onReset runs, when both are declared

host   == <<timer, split_index, game_time>>
module == <<observed_timer_state, attempt_ready, attempt_globals, balance>>
vars   == <<host, module, timer_state, pc>>

Init ==
  /\ timer \in NotRunning .. Ended /\ split_index = 0 /\ game_time = "notInitialized"
  /\ observed_timer_state = Unobserved
  /\ attempt_ready = FALSE /\ attempt_globals = "default"
  /\ timer_state = NotRunning
  /\ pc = "host" /\ balance = 0

-----------------------------------------------------------------------------
(* The timer: what the host does when it is called, by the user, by the      *)
(* module's decisions, or by the script itself.                              *)

TimerStart ==
  /\ timer' = IF timer = NotRunning THEN Running ELSE timer
  /\ UNCHANGED <<split_index, game_time>>

TimerSplit ==
  /\ IF timer = Running
       THEN /\ split_index' = split_index + 1
            /\ timer' = IF split_index' = Segments THEN Ended ELSE Running
       ELSE UNCHANGED <<timer, split_index>>
  /\ UNCHANGED game_time

TimerReset ==
  /\ timer' = NotRunning /\ split_index' = 0 /\ game_time' = "notInitialized"

TimerPause ==
  /\ timer \in {Running, Paused}
  /\ timer' = Running + Paused - timer
  /\ UNCHANGED <<split_index, game_time>>

User ==
  /\ TimerStart \/ TimerSplit \/ TimerReset \/ TimerPause
  /\ UNCHANGED <<module, timer_state, pc>>

-----------------------------------------------------------------------------
(* emit_timer_lifecycle_events: the first thing an update does. *)

\* The first sample is a baseline, whatever it is.
Starts == observed_timer_state = NotRunning /\ timer # NotRunning
Resets == observed_timer_state \notin {NotRunning, Unobserved} /\ timer = NotRunning

Both == {"onStart", "onReset"} \subseteq Actions

OnStart ==
  /\ balance' = IF Both THEN balance + 1 ELSE balance
  /\ attempt_globals' = IF HasAttemptGlobals THEN "assigned" ELSE attempt_globals
  /\ attempt_ready' = HasAttemptGlobals

\* onReset is skipped for want of an attempt, the release is not.
OnReset ==
  /\ balance' = IF Both /\ ("onReset" \in RequiresAttempt => attempt_ready)
                  THEN balance - 1 ELSE balance
  /\ attempt_globals' = "default"
  /\ attempt_ready' = FALSE

Events ==
  IF Starts /\ "onStart" \in Actions THEN OnStart
  ELSE IF Resets THEN OnReset
  ELSE UNCHANGED <<balance, attempt_globals, attempt_ready>>

\* Fault: the observation is updated only by the baseline.
SampleOnce ==
  /\ pc = "host"
  /\ timer_state' = timer
  /\ observed_timer_state' =
       IF observed_timer_state = Unobserved THEN timer ELSE observed_timer_state
  /\ Events
  /\ pc' = "attached?"
  /\ UNCHANGED host

\* Fault: an update that attaches to nothing observes nothing.
SampleAttached ==
  /\ pc = "host"
  /\ timer_state' = timer
  /\ \/ observed_timer_state' = timer /\ Events
     \/ UNCHANGED <<observed_timer_state, balance, attempt_globals, attempt_ready>>
  /\ pc' = "attached?"
  /\ UNCHANGED host

Sample ==
  /\ pc = "host"
  /\ timer_state' = timer
  /\ observed_timer_state' = timer
  /\ Events
  /\ pc' = "attached?"
  /\ UNCHANGED host

\* Nothing attached, an abandoned snapshot, or whileAttached returned false.
ReturnEarly ==
  /\ pc = "attached?"
  /\ pc' = "host"
  /\ UNCHANGED <<host, module, timer_state>>

-----------------------------------------------------------------------------
(* The decisions at the end of an update. *)

BeginDecisions ==
  /\ pc = "attached?" /\ Actions \cap Decisions # {}
  /\ pc' = "start"
  /\ UNCHANGED <<host, module, timer_state>>

\* An attempt-dependent action is replaced by its default without an attempt.
Available(action) ==
  action \in Actions /\ (action \in RequiresAttempt => attempt_ready)

DecideStart ==
  /\ pc = "start"
  /\ \/ Available("start") /\ timer_state = NotRunning /\ TimerStart
     \/ UNCHANGED host
  /\ pc' = IF timer_state \in {Running, Paused} THEN "isLoading" ELSE "host"
  /\ UNCHANGED <<module, timer_state>>

DecideIsLoading ==
  /\ pc = "isLoading"
  /\ \/ /\ Available("isLoading")
        /\ game_time' \in {"paused", "running"} /\ UNCHANGED <<timer, split_index>>
     \/ UNCHANGED host
  /\ pc' = "gameTime"
  /\ UNCHANGED <<module, timer_state>>

DecideGameTime ==
  /\ pc = "gameTime"
  /\ \/ /\ Available("gameTime")
        /\ game_time' = IF game_time = "notInitialized" THEN "running" ELSE game_time
        /\ UNCHANGED <<timer, split_index>>
     \/ UNCHANGED host
  /\ pc' = "reset"
  /\ UNCHANGED <<module, timer_state>>

\* A reset precludes the split of the same update.
DecideReset ==
  /\ pc = "reset"
  /\ \/ Available("reset") /\ TimerReset /\ pc' = "host"
     \/ pc' = "split" /\ UNCHANGED host
  /\ UNCHANGED <<module, timer_state>>

DecideSplit ==
  /\ pc = "split"
  /\ \/ Available("split") /\ TimerSplit
     \/ UNCHANGED host
  /\ pc' = "host"
  /\ UNCHANGED <<module, timer_state>>

Update ==
  \/ Sample \/ ReturnEarly \/ BeginDecisions
  \/ DecideStart \/ DecideIsLoading \/ DecideGameTime \/ DecideReset \/ DecideSplit

Next == User \/ Update

\* update is called again and again, and always returns.
Spec == Init /\ [][Next]_vars /\ WF_vars(Update)

-----------------------------------------------------------------------------
(* Properties. *)

TypeOK ==
  /\ timer \in NotRunning .. Ended /\ split_index \in 0 .. Segments
  /\ game_time \in {"notInitialized", "running", "paused"}
  /\ observed_timer_state \in Unobserved .. Ended
  /\ attempt_ready \in BOOLEAN /\ attempt_globals \in {"default", "assigned"}
  /\ timer_state \in NotRunning .. Ended
  /\ pc \in {"host", "attached?", "start", "isLoading", "gameTime", "reset", "split"}
  /\ balance \in -1 .. 1

\* An attempt-dependent action can run only while onStart's values are there,
\* and they are there only during the attempt whose start was observed.
AttemptScope ==
  /\ attempt_ready = (attempt_globals = "assigned")
  /\ attempt_ready => HasAttemptGlobals /\ observed_timer_state \in Running .. Ended

\* onStart and onReset alternate with the observed transitions: no transition
\* is delivered twice, and neither block runs again before the other did.
EventsAlternate ==
  Both =>
    /\ observed_timer_state = Unobserved => balance = 0
    /\ observed_timer_state = NotRunning => balance \in {-1, 0}
    /\ observed_timer_state \in Running .. Ended => balance \in {0, 1}
    /\ "onReset" \in RequiresAttempt => balance = IF attempt_ready THEN 1 ELSE 0

\* An observed timer that is started or reset for good is reported so: the
\* observation does not depend on anything being attached.
TransitionDelivered ==
  /\ (observed_timer_state = NotRunning /\ timer # NotRunning)
       ~> (timer = NotRunning \/ observed_timer_state # NotRunning)
  /\ (observed_timer_state # NotRunning /\ timer = NotRunning)
       ~> (timer # NotRunning \/ observed_timer_state = NotRunning)

\* Without a ready attempt, a module whose decisions all depend on one does
\* not touch the game time or the splits, and does no more than start the timer.
UnreadyModuleIsInert ==
  [][ /\ pc' # pc /\ ~attempt_ready
      /\ (Actions \cap Decisions) \ {"start"} \subseteq RequiresAttempt
      => /\ UNCHANGED <<split_index, game_time>>
         /\ timer' \in {timer, Running} ]_vars
=============================================================================
