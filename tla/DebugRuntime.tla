----------------------------- MODULE DebugRuntime -----------------------------
(***************************************************************************)
(* One session of the Auto Splitter Debugger: DebugRuntimeSession, which   *)
(* builds and rebuilds the program, RuntimeClient, which owns the worker   *)
(* thread that runs it, and that thread (runtimeWorker.ts).                *)
(*                                                                         *)
(* The extension runs on one thread and every runtime on one of its own;   *)
(* an action is what a thread does between two awaits.  Messages between   *)
(* them keep their order.  A module may hang, trap or take its thread      *)
(* down.  The runtimes of a session are numbered in order of creation.     *)
(***************************************************************************)
EXTENDS Integers, Sequences

CONSTANTS
  MaxReloads,   \* bound on requests to reload
  MaxRevision,  \* bound on versions of the program
  MaxRequests,  \* bound on memory requests
  MaxSettings,  \* bound on changes of the settings map
  MaxMessages,  \* bound on both together
  MaxFailures   \* bound on modules that fail or hang

ASSUME DebugAssumption ==
  /\ {MaxReloads, MaxRequests, MaxSettings, MaxMessages, MaxFailures} \subseteq Nat
  /\ MaxRevision \in Nat \ {0}

Runtimes  == 1 .. MaxReloads + 1
None      == 0                    \* `undefined` where the code keeps a worker
Revisions == 1 .. MaxRevision
Requests  == 1 .. MaxRequests
Settings  == 0 .. MaxSettings     \* contents of the settings map; 0 is what the module declares

VARIABLES
  source,       \* the program is a .split file, else a .wasm file
  revision,     \* the content of the program in the editor
  saved,        \* and on disk
  session,      \* the fields of DebugRuntimeSession
  launch, reload,   \* what each of the two operations awaits
  queued,       \* reloads that wait in reloadChain
  stop,         \* what stop() awaits
  client,       \* the fields of RuntimeClient
  runtime,      \* the threads, and the messages to and from them
  requested,    \* reloads requested so far (bound)
  attempted, missed,    \* ghosts: the revision the last build tried; a change nobody was told of
  alarmed,              \* ghost: the user was told that the runtime failed
  lastSetting, lost,    \* ghosts: the last change posted to a runtime; one that may be lost
  quiet,                \* ghost: stop() was called with no operation under way
  failures              \* ghost: runtimes that failed or hung by themselves (bound)

program == <<source, revision, saved>>
ghosts  == <<attempted, missed, alarmed, lastSetting, lost, quiet, failures>>
operations == <<launch, reload, queued>>
vars == <<program, session, operations, stop, client, runtime, requested, ghosts>>

Idle == [at |-> "idle", runtime |-> None]
NoRuntime == [state |-> "none", settings |-> 0, inbox |-> <<>>, outbox |-> <<>>,
              exited |-> FALSE, ending |-> "no"]

Init ==
  /\ source \in BOOLEAN
  /\ revision = 1 /\ saved = 1
  /\ session = [program |-> FALSE, compiler |-> "none", watching |-> FALSE,
                timer |-> FALSE, suppress |-> FALSE, stopped |-> FALSE]
  /\ launch = Idle /\ reload = Idle /\ queued = 0
  /\ stop = Idle
  /\ client = [worker |-> None, created |-> 0, intentional |-> FALSE,
               settings |-> 0, pending |-> {}, nextRequestId |-> 1]
  /\ runtime = [w \in Runtimes |-> NoRuntime]
  /\ requested = 0
  /\ attempted = 0 /\ missed = FALSE
  /\ alarmed = FALSE
  /\ lastSetting = 0 /\ lost = FALSE
  /\ quiet = FALSE /\ failures = 0

Live(w) == runtime[w].state \in {"loading", "running", "ended", "hung"}
Message(k, v) == [kind |-> k, value |-> v]
Send(t, w, m) == [t EXCEPT ![w].outbox = Append(@, m)]

\* postMessage; a thread that is gone takes no messages.
Post(t, w, m) ==
  IF t[w].state = "dead" THEN t ELSE [t EXCEPT ![w].inbox = Append(@, m)]

-----------------------------------------------------------------------------
(* Pieces of the handlers. *)

Building == [at |-> IF source THEN "opening" ELSE "reading", runtime |-> None]

\* Without a compiler a build of a source throws before it awaits anything.
CanBuild(s) == source => s.compiler # "none"

\* reloadChain: the operations that remain follow, whether this one failed or not.
ReloadEnds(s) ==
  IF queued > 0 /\ CanBuild(s)
  THEN reload' = Building /\ queued' = queued - 1
  ELSE reload' = Idle /\ queued' = 0

Ends(o, s) ==
  IF o = "launch"
  THEN launch' = [Idle EXCEPT !.at = "done"] /\ UNCHANGED <<reload, queued>>
  ELSE ReloadEnds(s) /\ UNCHANGED launch

\* Fault: a request is dropped while a reload is under way.
QueueReloadUnlessBusy(s) ==
  /\ requested' = requested + 1
  /\ reload' = IF s.program /\ ~s.stopped /\ reload.at = "idle" /\ CanBuild(s)
               THEN Building ELSE reload
  /\ UNCHANGED queued

\* `reload`: it waits for its turn.
QueueReload(s) ==
  /\ requested' = requested + 1
  /\ IF ~s.program \/ s.stopped
     THEN UNCHANGED <<reload, queued>>
     ELSE IF reload.at # "idle"
     THEN queued' = queued + 1 /\ UNCHANGED reload
     ELSE /\ reload' = IF CanBuild(s) THEN Building ELSE Idle
          /\ UNCHANGED queued

Moves(o, x) ==
  IF o = "launch" THEN launch' = x /\ UNCHANGED <<reload, queued>>
                  ELSE reload' = x /\ UNCHANGED <<launch, queued>>

\* The rest of RuntimeClient.launch once the old runtime is gone.
Create(o, c, t) ==
  LET w == c.created + 1
  IN /\ client' = [c EXCEPT !.worker = w, !.created = w, !.intentional = FALSE]
     /\ runtime' = [t EXCEPT ![w].state = "loading", ![w].settings = c.settings]
     /\ Moves(o, [at |-> "starting", runtime |-> w])

\* Fault: the requests of the old runtime are left to their answers.
TerminateKeeping(c) == [c EXCEPT !.intentional = TRUE, !.worker = None]

\* RuntimeClient.terminate up to its first await.
Terminate(c) == [c EXCEPT !.intentional = TRUE, !.worker = None, !.pending = {}]

Shutdown(t, w) == [Post(t, w, Message("shutdown", 0)) EXCEPT ![w].ending = "waiting"]

RuntimeLaunch(o) ==
  IF client.worker = None
  THEN Create(o, client, runtime)
  ELSE /\ client' = Terminate(client)
       /\ runtime' = Shutdown(runtime, client.worker)
       /\ Moves(o, [at |-> "terminating", runtime |-> client.worker])

Operation(o) == IF o = "launch" THEN launch ELSE reload
Operations == {"launch", "reload"}
Awaiting(w, at) == {o \in Operations : Operation(o) = [at |-> at, runtime |-> w]}

\* terminate() of runtime w returns to whoever called it.
Returns(w, c, t) ==
  IF Awaiting(w, "terminating") # {}
  THEN /\ \E o \in Awaiting(w, "terminating") : Create(o, c, t)
       /\ UNCHANGED stop
  ELSE /\ stop' = [Idle EXCEPT !.at = "returned"]
       /\ client' = c /\ runtime' = t
       /\ UNCHANGED operations

-----------------------------------------------------------------------------
(* The user, the editor and the file system.  After a stop nothing listens to   *)
(* them, and what they do is left out.                                          *)

\* Bound: a reload can still be requested, one that the timer will request aside.
Room == requested + (IF session.timer THEN 1 ELSE 0) < MaxReloads

Edit ==
  /\ ~session.stopped /\ source
  /\ revision < MaxRevision
  /\ revision' = revision + 1
  /\ UNCHANGED <<source, saved, session, operations, stop, client, runtime, requested, ghosts>>

Heard == session.program /\ ~session.suppress

\* A save of the source reloads at once.
Save ==
  /\ ~session.stopped /\ source
  /\ saved # revision /\ Room
  /\ saved' = revision
  /\ missed' = ~Heard
  /\ IF Heard THEN QueueReload(session) ELSE UNCHANGED <<reload, queued, requested>>
  /\ UNCHANGED <<source, revision, session, launch, stop, client, runtime,
                 attempted, alarmed, lastSetting, lost, quiet, failures>>

\* A compiler replaces the module; the watcher arms the timer.
Write ==
  /\ ~session.stopped /\ ~source
  /\ revision < MaxRevision
  /\ session.timer \/ Room
  /\ revision' = revision + 1 /\ saved' = revision'
  /\ missed' = ~session.watching
  /\ session' = [session EXCEPT !.timer = @ \/ session.watching]
  /\ UNCHANGED <<source, operations, stop, client, runtime, requested,
                 attempted, alarmed, lastSetting, lost, quiet, failures>>

FileReload ==
  /\ session.timer
  /\ session' = [session EXCEPT !.timer = FALSE]
  /\ QueueReload(session)
  /\ UNCHANGED <<program, launch, stop, client, runtime, ghosts>>

Restart ==
  /\ ~session.stopped /\ Room
  /\ QueueReload(session)
  /\ UNCHANGED <<program, session, launch, stop, client, runtime, ghosts>>

CanPost == lastSetting + client.nextRequestId - 1 < MaxMessages      \* bound

ChangeSetting ==
  /\ ~session.stopped
  /\ client.worker # None
  /\ lastSetting < MaxSettings /\ CanPost
  /\ lastSetting' = lastSetting + 1
  /\ lost' = (lost \/ ~Live(client.worker))
  /\ runtime' = Post(runtime, client.worker, Message("setSetting", lastSetting'))
  /\ UNCHANGED <<program, session, operations, stop, client, requested,
                 attempted, missed, alarmed, quiet, failures>>

\* readMemory and listProcessMemoryRanges.
RequestMemory ==
  /\ ~session.stopped
  /\ client.worker # None
  /\ client.nextRequestId \in Requests /\ CanPost
  /\ LET request == [id |-> client.nextRequestId, of |-> client.worker]
     IN /\ client' = [client EXCEPT !.nextRequestId = @ + 1, !.pending = @ \cup {request}]
        /\ runtime' = Post(runtime, client.worker, Message("readMemory", request.id))
  /\ UNCHANGED <<program, session, operations, stop, requested, ghosts>>

-----------------------------------------------------------------------------
(* Launching, rebuilding and stopping. *)

\* The editor asks once, and not of a session it has ended.
Launch ==
  /\ launch.at = "idle" /\ ~session.stopped
  /\ launch' = IF source THEN [Idle EXCEPT !.at = "creating"] ELSE Building
  /\ UNCHANGED <<program, session, reload, queued, stop, client, runtime, requested, ghosts>>

CompilerCreated ==
  /\ launch.at = "creating"
  /\ \/ session' = [session EXCEPT !.compiler = "up"] /\ launch' = Building
     \/ launch' = [Idle EXCEPT !.at = "done"] /\ UNCHANGED session
  /\ UNCHANGED <<program, reload, queued, stop, client, runtime, requested, ghosts>>

Reads == attempted' = revision /\ missed' = FALSE

\* The text is read and posted; a connection that has stopped never answers.
Compiles(o, s) ==
  /\ Moves(o, [Idle EXCEPT !.at = IF s.compiler = "up" THEN "compiling" ELSE "stuck"])
  /\ Reads

Opened(o) ==
  /\ Operation(o).at = "opening"
  /\ IF saved # revision
     THEN /\ Moves(o, [Idle EXCEPT !.at = "saving"])
          /\ session' = [session EXCEPT !.suppress = TRUE]
          /\ UNCHANGED <<attempted, missed>>
     ELSE Compiles(o, session) /\ UNCHANGED session
  /\ UNCHANGED <<program, stop, client, runtime, requested, alarmed, lastSetting, lost, quiet, failures>>

\* A build that cannot save what it reads says so, and has tried what is on disk.
Saved(o) ==
  /\ Operation(o).at = "saving"
  /\ session' = [session EXCEPT !.suppress = FALSE]
  /\ \/ saved' = revision /\ Compiles(o, session)
     \/ Ends(o, session) /\ attempted' = saved /\ UNCHANGED <<saved, missed>>
  /\ UNCHANGED <<source, revision, stop, client, runtime, requested,
                 alarmed, lastSetting, lost, quiet, failures>>

\* An artifact: launch learns its program only now.
Built(o) ==
  /\ Operation(o).at \in {"compiling", "reading"}
  /\ session' = [session EXCEPT !.program = TRUE]
  /\ RuntimeLaunch(o)
  /\ IF source THEN UNCHANGED <<attempted, missed>>
               ELSE Reads
  /\ UNCHANGED <<program, stop, requested, alarmed, lastSetting, lost, quiet, failures>>

BuildFails(o) ==
  /\ Operation(o).at \in {"compiling", "reading"}
  /\ Ends(o, session)
  /\ IF source THEN UNCHANGED <<attempted, missed>>
               ELSE Reads
  /\ UNCHANGED <<program, session, stop, client, runtime, requested,
                 alarmed, lastSetting, lost, quiet, failures>>

\* Fault: the compiler is not disposed.
RejectsNothing(s) == UNCHANGED operations

\* The compiler's connection stops; a compile that is under way is rejected.
Rejects(s) ==
  \/ \E o \in Operations : Operation(o).at = "compiling" /\ Ends(o, s)
  \/ \A o \in Operations : Operation(o).at # "compiling" /\ UNCHANGED operations

CompilerFails ==
  /\ session.compiler = "up"
  /\ session' = [session EXCEPT !.compiler = "failed"]
  /\ Rejects(session')
  /\ UNCHANGED <<program, stop, client, runtime, requested, ghosts>>

UnderWay(x) == x.at \notin {"idle", "done"}

\* Operations that go on to create a runtime, with a compiler or without.
MayCreate ==
  \/ queued > 0
  \/ \E o \in Operations : Operation(o).at \in {"creating", "reading", "terminating"}

Stop ==
  /\ ~session.stopped
  /\ session' = [session EXCEPT !.stopped = TRUE, !.timer = FALSE, !.watching = FALSE,
                                !.compiler = "none"]
  /\ Rejects(session')
  /\ IF client.worker = None
     THEN stop' = [Idle EXCEPT !.at = "returned"] /\ UNCHANGED <<client, runtime>>
     ELSE /\ stop' = [at |-> "terminating", runtime |-> client.worker]
          /\ client' = Terminate(client)
          /\ runtime' = Shutdown(runtime, client.worker)
  /\ quiet' = ~MayCreate
  /\ UNCHANGED <<program, requested, attempted, missed, alarmed, lastSetting, lost, failures>>

-----------------------------------------------------------------------------
(* The runtime threads. *)

Thread(t) ==
  /\ runtime' = t
  /\ UNCHANGED <<program, session, operations, stop, client, requested,
                 attempted, missed, alarmed, lastSetting, lost, quiet>>

\* RuntimeHost.launch resumes, also after a shutdown.  Snapshots that change nothing
\* of the settings map are left out, here and in every tick.
Load(w) ==
  /\ runtime[w].state = "loading"
  /\ Thread([Send(runtime, w, Message("ready", 0)) EXCEPT ![w].state = "running"])
  /\ UNCHANGED failures

Misfortune == failures < MaxFailures /\ failures' = failures + 1

\* The module does not load, or a tick traps: the host stays and answers.
LoadFailsOrTraps(w) ==
  /\ runtime[w].state \in {"loading", "running"}
  /\ Misfortune
  /\ Thread([Send(runtime, w, Message("failure", 0)) EXCEPT ![w].state = "ended"])

Hang(w) ==
  /\ runtime[w].state \in {"loading", "running"}
  /\ Misfortune
  /\ Thread([runtime EXCEPT ![w].state = "hung"])

Dies(t, w) == [Send(t, w, Message("exit", 0)) EXCEPT ![w].state = "dead", ![w].inbox = <<>>]

Crash(w) ==
  /\ Live(w)
  /\ Misfortune
  /\ runtime' = Dies(Send(runtime, w, Message("error", 0)), w)
  /\ lost' = (lost \/ client.settings # lastSetting)
  /\ UNCHANGED <<program, session, operations, stop, client, requested,
                 attempted, missed, alarmed, lastSetting, quiet>>

\* A message of the extension; a hung thread takes none.  Shutdown stops the ticks.
Receive(w) ==
  /\ Live(w) /\ runtime[w].state # "hung"
  /\ runtime[w].inbox # <<>>
  /\ LET message == Head(runtime[w].inbox)
         t == [runtime EXCEPT ![w].inbox = Tail(@)]
     IN Thread(
          CASE message.kind = "setSetting" ->
                 Send([t EXCEPT ![w].settings = message.value], w, Message("snapshot", message.value))
            [] message.kind = "readMemory" -> Send(t, w, Message("answer", message.value))
            [] message.kind = "shutdown" ->
                 [Send(t, w, Message("stopped", 0)) EXCEPT
                    ![w].state = IF @ = "running" THEN "ended" ELSE @])
  /\ UNCHANGED failures

\* worker.terminate(), whatever the thread does.
Kill(w) ==
  /\ Live(w) /\ runtime[w].ending = "killing"
  /\ Thread(Dies(runtime, w))
  /\ UNCHANGED failures

-----------------------------------------------------------------------------
(* What the extension hears of them. *)

Hears(w, kinds) == runtime[w].outbox # <<>> /\ Head(runtime[w].outbox).kind \in kinds
Taken(w) == [runtime EXCEPT ![w].outbox = Tail(@)]

\* The operation that waits for w to be ready ends, if there is one.
Settles(w) ==
  IF Awaiting(w, "starting") = {}
  THEN UNCHANGED operations
  ELSE \E o \in Awaiting(w, "starting") : Ends(o, session)

\* The file of a module is watched once its launch is complete.
Ready(w) ==
  /\ Hears(w, {"ready"})
  /\ Settles(w)
  /\ session' = [session EXCEPT !.watching = @ \/ (~source /\ launch' # launch)]
  /\ runtime' = Taken(w)
  /\ UNCHANGED <<program, stop, client, requested, ghosts>>

\* handleFailure: the debug session is over for its user, unless the runtime was
\* being terminated.
Fails(w, c) ==
  /\ client' = [c EXCEPT !.pending = {}]
  /\ alarmed' = (alarmed \/ ~c.intentional)

\* Fault: nobody waits for a failure before the runtime is ready.
RuntimeFailsUnheard(w) ==
  /\ Hears(w, {"failure", "error"})
  /\ Fails(w, client)
  /\ runtime' = Taken(w)
  /\ UNCHANGED <<program, session, operations, stop, requested, attempted, missed, lastSetting,
                 lost, quiet, failures>>

\* A `failure` message or an `error` event.
RuntimeFails(w) ==
  /\ Hears(w, {"failure", "error"})
  /\ Settles(w)
  /\ Fails(w, client)
  /\ runtime' = Taken(w)
  /\ UNCHANGED <<program, session, stop, requested, attempted, missed, lastSetting,
                 lost, quiet, failures>>

\* Fault: only the current runtime is listened to.
SnapshotOfCurrent(w) ==
  /\ Hears(w, {"snapshot"})
  /\ client' = [client EXCEPT !.settings =
                  IF client.worker = w THEN Head(runtime[w].outbox).value ELSE @]
  /\ runtime' = Taken(w)
  /\ UNCHANGED <<program, session, operations, stop, requested, ghosts>>

SnapshotArrives(w) ==
  /\ Hears(w, {"snapshot"})
  /\ client' = [client EXCEPT !.settings = Head(runtime[w].outbox).value]
  /\ runtime' = Taken(w)
  /\ UNCHANGED <<program, session, operations, stop, requested, ghosts>>

\* memoryRead, processMemoryRanges and requestFailure.
Answered(w) ==
  /\ Hears(w, {"answer"})
  /\ client' = [client EXCEPT !.pending =
                  {r \in @ : r.id # Head(runtime[w].outbox).value}]
  /\ runtime' = Taken(w)
  /\ UNCHANGED <<program, session, operations, stop, requested, ghosts>>

\* Fault: the exit of the thread is not awaited.
StoppedGoesOn(w) ==
  /\ Hears(w, {"stopped"})
  /\ IF runtime[w].ending = "waiting"
     THEN Returns(w, client, [Taken(w) EXCEPT ![w].ending = "killing"])
     ELSE runtime' = Taken(w) /\ UNCHANGED <<operations, stop, client>>
  /\ UNCHANGED <<program, session, requested, ghosts>>

\* terminate() goes on with worker.terminate() once it hears `stopped`...
Stopped(w) ==
  /\ Hears(w, {"stopped"})
  /\ runtime' = [Taken(w) EXCEPT ![w].ending = IF @ = "waiting" THEN "killing" ELSE @]
  /\ UNCHANGED <<program, session, operations, stop, client, requested, ghosts>>

\* Fault: the thread is not terminated after the time limit, or there is none.
TimerReturns(w) ==
  /\ runtime[w].ending = "waiting"
  /\ Returns(w, client, [runtime EXCEPT ![w].ending = "over"])
  /\ UNCHANGED <<program, session, requested, ghosts>>

TimerExpiresOnExit(w) ==
  /\ runtime[w].ending = "waiting" /\ runtime[w].exited
  /\ Returns(w, client, [runtime EXCEPT ![w].ending = "over"])
  /\ UNCHANGED <<program, session, requested, ghosts>>

\* ...or after 250 milliseconds.
TimerExpires(w) ==
  /\ runtime[w].ending = "waiting"
  /\ IF runtime[w].exited
     THEN Returns(w, client, [runtime EXCEPT ![w].ending = "over"])
     ELSE /\ runtime' = [runtime EXCEPT ![w].ending = "killing"]
          /\ UNCHANGED <<operations, stop, client>>
  /\ lost' = (lost \/ client.settings # lastSetting)
  /\ UNCHANGED <<program, session, requested, attempted, missed, lastSetting, alarmed,
                 quiet, failures>>

Exited(w) ==
  /\ Hears(w, {"exit"})
  /\ LET c == [client EXCEPT !.worker = IF @ = w THEN None ELSE @,
                             !.pending = IF client.intentional THEN @ ELSE {}]
         t == [Taken(w) EXCEPT ![w].exited = TRUE, ![w].settings = 0]
     IN IF runtime[w].ending = "killing"
        THEN Returns(w, c, [t EXCEPT ![w].ending = "over"])
        ELSE client' = c /\ runtime' = t /\ UNCHANGED <<operations, stop>>
  /\ alarmed' = (alarmed \/ ~client.intentional)
  /\ UNCHANGED <<program, session, requested, attempted, missed, lastSetting,
                 lost, quiet, failures>>

-----------------------------------------------------------------------------
\* The event loops and timers of the extension, the compiler, the file system, and
\* the threads as long as they do not hang.
Work ==
  \/ FileReload \/ CompilerCreated
  \/ \E o \in Operations : Opened(o) \/ Saved(o) \/ Built(o) \/ BuildFails(o)
  \/ \E w \in Runtimes :
       \/ Load(w) \/ Receive(w) \/ Kill(w)
       \/ Ready(w) \/ RuntimeFails(w) \/ SnapshotArrives(w) \/ Answered(w)
       \/ Stopped(w) \/ TimerExpires(w) \/ Exited(w)

Fault ==
  \/ CompilerFails
  \/ \E w \in Runtimes : LoadFailsOrTraps(w) \/ Hang(w) \/ Crash(w)

User ==
  Edit \/ Save \/ Write \/ Restart \/ ChangeSetting \/ RequestMemory \/ Launch \/ Stop

Next == Work \/ Fault \/ User

Spec == Init /\ [][Next]_vars /\ WF_vars(Work)

-----------------------------------------------------------------------------
(* Properties. *)

TypeOK ==
  /\ source \in BOOLEAN
  /\ revision \in Revisions /\ saved \in Revisions
  /\ session \in [program : BOOLEAN, compiler : {"none", "up", "failed"}, watching : BOOLEAN,
                  timer : BOOLEAN, suppress : BOOLEAN, stopped : BOOLEAN]
  /\ {launch, reload, stop} \subseteq
       [at : {"idle", "creating", "opening", "saving", "reading", "compiling", "stuck",
              "terminating", "starting", "done", "returned"},
        runtime : Runtimes \cup {None}]
  /\ queued \in 0 .. MaxReloads /\ requested \in 0 .. MaxReloads
  /\ client \in [worker : Runtimes \cup {None}, created : 0 .. MaxReloads + 1,
                 intentional : BOOLEAN, settings : Settings,
                 pending : SUBSET [id : Requests, of : Runtimes],
                 nextRequestId : 1 .. MaxRequests + 1]
  /\ \A w \in Runtimes :
       /\ runtime[w].state \in {"none", "loading", "running", "ended", "hung", "dead"}
       /\ runtime[w].settings \in Settings
       /\ runtime[w].ending \in {"no", "waiting", "killing", "over"}

\* No thread is forgotten: one that lives is the client's, or somebody is
\* terminating it.  While the session lasts there is only one: a module is created
\* after the thread of the one before has exited, so that two of them never hold
\* the game's process or drive the timer together.
NoRuntimeIsForgotten ==
  /\ \A w \in Runtimes : Live(w) => client.worker = w \/ runtime[w].ending \in {"waiting", "killing"}
  /\ ~session.stopped => \A v, w \in Runtimes : Live(v) /\ Live(w) => v = w

\* The user's last change of the settings map reaches every later runtime, unless
\* the runtime that was told of it did not stop by itself.
EffectiveSettings(w) ==
  LET changes == {n \in 1 .. Len(runtime[w].inbox) : runtime[w].inbox[n].kind = "setSetting"}
  IN IF changes = {} THEN runtime[w].settings
     ELSE runtime[w].inbox[CHOOSE n \in changes : \A m \in changes : m <= n].value

SettingsSurvive ==
  client.worker # None /\ ~session.stopped /\ ~lost =>
    EffectiveSettings(client.worker) = lastSetting

\* The user is told of a failure only if a runtime failed by itself: replacing one
\* is not taken for a crash.
NoFalseAlarm == alarmed => failures > 0 \/ session.stopped

AtRest ==
  /\ session.program /\ ~session.stopped /\ ~session.timer
  /\ ~UnderWay(launch) /\ reload.at = "idle"

\* When nothing is under way the last build read what is on disk, or reported that
\* it could not save it, except for a change before the session listened.
RestingRuntimeIsCurrent == AtRest /\ ~missed => attempted = saved

\* A session that is stopped with nothing about to create a runtime leaves none.
StopEndsRuntime ==
  stop.at = "returned" /\ quiet => \A w \in Runtimes : ~Live(w)

Hanging == \E w \in Runtimes : runtime[w].state = "hung"
Impaired == session.stopped \/ session.compiler = "failed" \/ Hanging

\* Stop comes to an end, whatever the module does.  So does a launch or a reload,
\* unless the session is stopped, the compiler failed, the module hangs, or (a
\* launch) its runtime is replaced before it is ready.
OperationsEnd ==
  /\ stop.at = "terminating" ~> stop.at = "returned"
  /\ UnderWay(reload) ~> reload.at = "idle" \/ Impaired
  /\ UnderWay(launch) ~>
       launch.at = "done" \/ Impaired \/ (launch.runtime # None /\ launch.runtime # client.worker)

\* Every memory request is settled, unless a module hangs.
RequestsSettle ==
  \A i \in Requests : (\E r \in client.pending : r.id = i) ~>
                        Hanging \/ ~\E r \in client.pending : r.id = i

\* What the debugger's plan promises ("supports restart, termination", "Stop always
\* returns control") and the code does not keep: once stop() has returned, no module
\* runs.
StopReturnsControl ==
  stop.at = "returned" => \A w \in Runtimes : ~Live(w)
=============================================================================
