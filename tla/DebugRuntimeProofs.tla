-------------------------- MODULE DebugRuntimeProofs --------------------------
(***************************************************************************)
(* Proofs about DebugRuntime, for every number of reloads, revisions,      *)
(* requests, changes of settings and failures.                             *)
(*                                                                         *)
(* None of the properties is inductive.  DebugInv adds, part by part, what *)
(* each operation may rely on when it resumes: where each of the two can   *)
(* be (Phases), who is ending which thread (Threads), and where a change   *)
(* of the settings map is on its way through the thread (Carried).         *)
(***************************************************************************)
EXTENDS DebugRuntime, SequenceTheorems, WellFoundedInduction, TLAPS

Orders == [kind : {"setSetting"}, value : Settings] \cup [kind : {"readMemory"}, value : Requests]
            \cup [kind : {"shutdown"}, value : {0}]

Reports == [kind : {"ready", "failure", "error", "exit", "stopped"}, value : {0}]
             \cup [kind : {"snapshot"}, value : Settings] \cup [kind : {"answer"}, value : Requests]

RuntimeRecords ==
  [state : {"none", "loading", "running", "ended", "hung", "dead"}, settings : Settings,
   inbox : Seq(Orders), outbox : Seq(Reports), exited : BOOLEAN,
   ending : {"no", "waiting", "killing", "over"}]

Clients ==
  [worker : Runtimes \cup {None}, created : Nat, intentional : BOOLEAN, settings : Settings,
   pending : SUBSET [id : Requests, of : Runtimes], nextRequestId : 1 .. MaxRequests + 1]

Building1 == {"opening", "saving", "reading", "compiling", "stuck"}

Builders == [at : {"idle", "creating", "starting", "done"} \cup Building1, runtime : Runtimes \cup {None}]
Reloads == [at : {"idle", "terminating", "starting"} \cup Building1, runtime : Runtimes \cup {None}]

OperationTypes == launch \in Builders /\ reload \in Reloads /\ queued \in Nat

ScalarTypes ==
  /\ source \in BOOLEAN
  /\ revision \in Revisions /\ saved \in Revisions /\ attempted \in Revisions \cup {0}
  /\ session \in [program : BOOLEAN, compiler : {"none", "up", "failed"}, watching : BOOLEAN,
                  timer : BOOLEAN, suppress : BOOLEAN, stopped : BOOLEAN]
  /\ stop \in [at : {"idle", "terminating", "returned"}, runtime : Runtimes \cup {None}]
  /\ requested \in Nat
  /\ lastSetting \in Settings /\ failures \in Nat
  /\ missed \in BOOLEAN /\ alarmed \in BOOLEAN /\ lost \in BOOLEAN /\ quiet \in BOOLEAN

Types ==
  OperationTypes /\ ScalarTypes /\ client \in Clients /\ runtime \in [Runtimes -> RuntimeRecords]

\* Every runtime there is or will be was asked for.
WillCreate == IF reload.at \in {"idle", "starting"} THEN 0 ELSE 1

Counted ==
  /\ client.created + WillCreate + queued <= requested + 1
  /\ requested + (IF session.timer THEN 1 ELSE 0) <= MaxReloads

\* What the two operations and stop() can be doing.
Phases ==
  /\ ~session.program =>
       reload.at = "idle" /\ queued = 0 /\ client.created = 0 /\ launch.at # "starting"
  /\ session.program => launch.at \in {"starting", "done"} /\ client.created > 0
  /\ reload.at = "idle" => queued = 0
  /\ ~session.stopped => stop.at = "idle"
  /\ \A at \in {launch.at, reload.at} :
       (at \in {"opening", "saving", "compiling", "stuck"} => source) /\ (at = "reading" => ~source)
  /\ ~source => revision = saved
  /\ source /\ ~session.stopped /\ launch.at \notin {"idle", "creating"} /\ session.compiler = "none"
       => launch.at = "done" /\ ~session.program
  /\ session.timer => session.watching
  /\ session.watching => session.program /\ ~source

\* Who is ending which thread.
Ending(w) == runtime[w].ending \in {"waiting", "killing"}

Endings ==
  /\ client.worker # None => client.worker = client.created /\ runtime[client.worker].ending = "no"
  /\ reload.at = "terminating" =>
       client.worker = None /\ reload.runtime # None /\ Ending(reload.runtime)
  /\ stop.at = "terminating" => stop.runtime # None /\ Ending(stop.runtime)
  /\ reload.at = "terminating" /\ stop.at = "terminating" => reload.runtime # stop.runtime
  /\ \A w \in Runtimes : Ending(w) => \/ reload.at = "terminating" /\ reload.runtime = w
                                      \/ stop.at = "terminating" /\ stop.runtime = w

\* An exit is the last that is heard of a thread, and nothing is taken by one that is gone.
Sound(r) ==
  /\ r.exited => r.state = "dead" /\ r.outbox = <<>>
  /\ r.state = "dead" => r.inbox = <<>>
  /\ \A n \in 1 .. Len(r.outbox) : r.outbox[n].kind = "exit" => n = Len(r.outbox) /\ r.state = "dead"

Threads ==
  /\ Endings
  /\ \A w \in Runtimes :
       /\ w > client.created => runtime[w] = NoRuntime
       /\ w <= client.created => runtime[w].state # "none" /\ Sound(runtime[w])
       /\ w <= client.created /\ ~Ending(w) /\ client.worker # w => runtime[w].exited
       /\ runtime[w].exited => client.worker # w

\* While the session lasts, one thread at a time.
OneAtATime ==
  ~session.stopped =>
    /\ \A w \in Runtimes : w < client.created => runtime[w].exited
    /\ reload.at = "terminating" => client.intentional /\ reload.runtime = client.created

\* No thread that did not fail has ended but one that was killed.
Harmless(r) ==
  /\ r.state = "dead" => r.ending \in {"killing", "over"}
  /\ \A n \in 1 .. Len(r.outbox) : r.outbox[n].kind \notin {"failure", "error"}

Unalarmed ==
  failures = 0 /\ ~session.stopped => ~alarmed /\ \A w \in Runtimes : Harmless(runtime[w])

\* After a stop with nothing under way nothing creates a runtime.
Quiet ==
  quiet =>
    /\ session.stopped /\ session.compiler = "none" /\ client.worker = None /\ queued = 0
    /\ launch.at \in {"idle", "opening", "saving", "stuck", "starting", "done"}
    /\ reload.at \in {"idle", "opening", "saving", "stuck", "starting"}

\* A change that no build has read has a build ahead of it.
Current ==
  /\ session.program /\ ~session.stopped /\ ~missed /\ attempted # saved =>
       session.timer \/ queued > 0 \/ reload.at \in {"opening", "saving", "reading", "stuck"}
  /\ ~session.program /\ source /\ launch.at = "compiling" /\ ~missed => attempted = saved

\* The changes of the settings map on their way into and out of a thread, in order.
Rising(s, k, low, high) ==
  /\ low <= high
  /\ \A n \in 1 .. Len(s) : s[n].kind = k => low <= s[n].value /\ s[n].value <= high
  /\ \A m, n \in 1 .. Len(s) : m < n /\ s[m].kind = k /\ s[n].kind = k => s[m].value <= s[n].value

Brings(s, k, v, before) ==
  before = v \/ \E n \in 1 .. Len(s) : s[n].kind = k /\ s[n].value = v

Lacks(s, k) == \A n \in 1 .. Len(s) : s[n].kind # k

ShutdownIsLast(s) ==
  \A m, n \in 1 .. Len(s) : m < n /\ s[m].kind = "shutdown" => s[n].kind # "setSetting"

Carries(r, c, last) ==
  /\ Rising(r.inbox, "setSetting", r.settings, last)
  /\ Brings(r.inbox, "setSetting", last, r.settings)
  /\ Rising(r.outbox, "snapshot", c, r.settings)
  /\ Brings(r.outbox, "snapshot", r.settings, c)
  /\ r.state = "dead" \/ r.ending = "killing" => r.settings = last
  /\ ShutdownIsLast(r.inbox)
  /\ ~Lacks(r.outbox, "stopped") => Lacks(r.inbox, "setSetting")
  /\ r.ending = "no" => Lacks(r.inbox, "shutdown") /\ Lacks(r.outbox, "stopped")

OnTheirWay(r, c, last) == IF r.exited THEN c = last ELSE Carries(r, c, last)

Carried ==
  /\ client.created = 0 => lastSetting = 0 /\ client.settings = 0
  /\ ~session.stopped /\ ~lost => \A w \in Runtimes : w = client.created =>
       OnTheirWay(runtime[w], client.settings, lastSetting)

DebugInv ==
  Types /\ Counted /\ Phases /\ Threads /\ OneAtATime /\ Unalarmed /\ Quiet /\ Current /\ Carried

USE DebugAssumption DEF Clients, OperationTypes, ScalarTypes, Builders, Reloads, Endings

-----------------------------------------------------------------------------
(* The pieces of the handlers. *)

\* Lemma: what an operation awaits is one of two variables.
LEMMA TwoOperations ==
  /\ Operation("launch") = launch /\ Operation("reload") = reload
  /\ \A o \in Operations : o = "launch" \/ o = "reload"
  /\ {"launch", "reload"} \subseteq Operations
BY DEF Operation, Operations

\* Lemma: only a reload, or else stop(), ends a thread.
LEMMA ReturnsWhere ==
  ASSUME Types, NEW w \in Runtimes, NEW c, NEW t, Returns(w, c, t)
  PROVE  \/ reload = [at |-> "terminating", runtime |-> w] /\ Create("reload", c, t) /\ UNCHANGED stop
         \/ /\ reload # [at |-> "terminating", runtime |-> w]
            /\ stop' = [Idle EXCEPT !.at = "returned"]
            /\ client' = c /\ runtime' = t /\ UNCHANGED operations
<1>1. launch # [at |-> "terminating", runtime |-> w]  BY DEF Types, Building1
<1>2. Awaiting(w, "terminating") =
        IF reload = [at |-> "terminating", runtime |-> w] THEN {"reload"} ELSE {}
  BY <1>1, TwoOperations DEF Awaiting
<1> QED  BY <1>2 DEF Returns

\* Lemma: the operation that waits for a runtime to be ready, if there is one, ends.
LEMMA SettlesWhere ==
  ASSUME NEW w \in Runtimes, Settles(w)
  PROVE  \/ UNCHANGED operations
         \/ launch.at = "starting" /\ Ends("launch", session)
         \/ reload.at = "starting" /\ Ends("reload", session)
BY TwoOperations DEF Settles, Awaiting

\* Lemma: at most one compile is rejected, of an operation that compiles.
LEMMA RejectsWhere ==
  ASSUME NEW s, Rejects(s)
  PROVE  \/ launch.at = "compiling" /\ Ends("launch", s)
         \/ reload.at = "compiling" /\ Ends("reload", s)
         \/ launch.at # "compiling" /\ reload.at # "compiling" /\ UNCHANGED operations
BY TwoOperations DEF Rejects

\* Lemma: an operation ends, and the next reload takes its turn.
LEMMA EndsWhere ==
  ASSUME NEW o \in Operations, NEW s, Ends(o, s)
  PROVE  \/ o = "launch" /\ launch'.at = "done" /\ UNCHANGED <<reload, queued>>
         \/ /\ o = "reload" /\ UNCHANGED launch
            /\ \/ /\ queued > 0 /\ CanBuild(s) /\ queued' = queued - 1
                  /\ reload'.at = IF source THEN "opening" ELSE "reading"
               \/ ~(queued > 0 /\ CanBuild(s)) /\ queued' = 0 /\ reload'.at = "idle"
<1>1. CASE o = "launch"  BY <1>1 DEF Ends, Idle
<1>2. CASE o = "reload"  BY <1>2 DEF Ends, ReloadEnds, Idle, Building
<1> QED  BY <1>1, <1>2, TwoOperations

\* Lemma: an operation moves on.
LEMMA MovesWhere ==
  ASSUME NEW o \in Operations, NEW x, Moves(o, x)
  PROVE  /\ UNCHANGED queued
         /\ \/ o = "launch" /\ launch' = x /\ UNCHANGED reload
            \/ o = "reload" /\ reload' = x /\ UNCHANGED launch
BY TwoOperations DEF Moves

\* Lemma: a build is followed by a new runtime, or by the end of the old one.
LEMMA BuiltWhere ==
  ASSUME Types, Phases, Threads, NEW o \in Operations, Built(o)
  PROVE  /\ session' = [session EXCEPT !.program = TRUE]
         /\ Operation(o).at \in {"compiling", "reading"}
         /\ UNCHANGED <<program, stop, requested, queued, alarmed, lastSetting, lost, quiet, failures>>
         /\ IF source THEN UNCHANGED <<attempted, missed>> ELSE Reads
         /\ o = "launch" => client.worker = None /\ client.created = 0 /\ ~session.program
         /\ o = "reload" => session.program
         /\ \/ client.worker = None /\ Create(o, client, runtime)
            \/ /\ client.worker # None /\ o = "reload"
               /\ client' = Terminate(client) /\ runtime' = Shutdown(runtime, client.worker)
               /\ reload' = [at |-> "terminating", runtime |-> client.worker] /\ UNCHANGED launch
<1>1. o = "launch" => launch.at \in {"compiling", "reading"}
  BY TwoOperations DEF Built
<1>2. o = "launch" => client.worker = None /\ client.created = 0 /\ ~session.program
  BY <1>1, TwoOperations DEF Types, Phases, Threads, None, Runtimes
<1>3. o = "reload" => session.program
  BY TwoOperations DEF Built, Phases
<1>4. CASE client.worker = None
  BY <1>1, <1>2, <1>3, <1>4, MovesWhere DEF Built, RuntimeLaunch, Create, program
<1>5. CASE client.worker # None
  BY <1>1, <1>2, <1>3, <1>5, TwoOperations DEF Built, RuntimeLaunch, Moves, program
<1> QED  BY <1>4, <1>5

\* Lemma: the fields that a new runtime sets.
LEMMA CreateWhere ==
  ASSUME NEW o \in Operations, NEW c, c \in Clients,
         NEW t, Create(o, c, t)
  PROVE  /\ client'.created = c.created + 1 /\ client'.worker = c.created + 1
         /\ ~client'.intentional /\ client'.settings = c.settings
         /\ client'.pending = c.pending /\ client'.nextRequestId = c.nextRequestId
         /\ UNCHANGED queued
         /\ \/ o = "launch" /\ launch' = [at |-> "starting", runtime |-> c.created + 1] /\ UNCHANGED reload
            \/ o = "reload" /\ reload' = [at |-> "starting", runtime |-> c.created + 1] /\ UNCHANGED launch
<1>1. client' = [c EXCEPT !.worker = c.created + 1, !.created = c.created + 1, !.intentional = FALSE]
  BY DEF Create
<1>2. Moves(o, [at |-> "starting", runtime |-> c.created + 1])
  BY DEF Create
<1> QED  BY <1>1, <1>2, MovesWhere

HeardExit(w) == [client EXCEPT !.worker = IF @ = w THEN None ELSE @,
                               !.pending = IF client.intentional THEN @ ELSE {}]
Gone(w) == [Taken(w) EXCEPT ![w].exited = TRUE, ![w].settings = 0]
Over(t, w) == [t EXCEPT ![w].ending = "over"]

\* Lemma: the cases of the end of a thread.
LEMMA ExitedWhere ==
  ASSUME Types, NEW w \in Runtimes, Exited(w)
  PROVE  \/ /\ runtime[w].ending = "killing" /\ reload = [at |-> "terminating", runtime |-> w]
            /\ Create("reload", HeardExit(w), Over(Gone(w), w)) /\ UNCHANGED stop
         \/ /\ runtime[w].ending = "killing" /\ reload # [at |-> "terminating", runtime |-> w]
            /\ stop' = [Idle EXCEPT !.at = "returned"] /\ UNCHANGED operations
            /\ client' = HeardExit(w) /\ runtime' = Over(Gone(w), w)
         \/ /\ runtime[w].ending # "killing" /\ UNCHANGED <<operations, stop>>
            /\ client' = HeardExit(w) /\ runtime' = Gone(w)
<1>1. runtime[w].ending = "killing" => Returns(w, HeardExit(w), Over(Gone(w), w))
  BY DEF Exited, HeardExit, Gone, Over
<1>2. runtime[w].ending # "killing" => UNCHANGED <<operations, stop>> /\ client' = HeardExit(w) /\ runtime' = Gone(w)
  BY DEF Exited, HeardExit, Gone, Over
<1> QED  BY <1>1, <1>2, ReturnsWhere

\* Lemma: the cases of a timer that fires for a thread.
LEMMA TimerExpiresWhere ==
  ASSUME Types, NEW w \in Runtimes, TimerExpires(w)
  PROVE  \/ /\ runtime[w].exited /\ reload = [at |-> "terminating", runtime |-> w]
            /\ Create("reload", client, Over(runtime, w)) /\ UNCHANGED stop
         \/ /\ runtime[w].exited /\ reload # [at |-> "terminating", runtime |-> w]
            /\ stop' = [Idle EXCEPT !.at = "returned"] /\ UNCHANGED operations
            /\ client' = client /\ runtime' = Over(runtime, w)
         \/ /\ ~runtime[w].exited /\ UNCHANGED <<client, operations, stop>>
            /\ runtime' = [runtime EXCEPT ![w].ending = "killing"]
<1>1. runtime[w].exited => Returns(w, client, Over(runtime, w))
  BY DEF TimerExpires, Over
<1>2. ~runtime[w].exited => /\ UNCHANGED <<client, operations, stop>>
                            /\ runtime' = [runtime EXCEPT ![w].ending = "killing"]
  BY DEF TimerExpires
<1> QED  BY <1>1, <1>2, ReturnsWhere

\* What the end of thread w changes besides threads.
ThreadEndsTo(w) ==
  /\ UNCHANGED <<program, session, requested, launch, queued, attempted, missed, quiet,
                 lastSetting, failures>>
  /\ client'.settings = client.settings
  /\ \/ /\ reload = [at |-> "terminating", runtime |-> w] /\ UNCHANGED stop
        /\ reload' = [at |-> "starting", runtime |-> client.created + 1]
        /\ client'.created = client.created + 1 /\ client'.worker = client.created + 1
     \/ /\ UNCHANGED reload
        /\ client'.created = client.created /\ client'.worker \in {client.worker, None}
        /\ \/ UNCHANGED stop
           \/ /\ stop' = [at |-> "returned", runtime |-> None]
              /\ stop.at = "terminating" /\ stop.runtime = w
              /\ reload # [at |-> "terminating", runtime |-> w]

\* Lemma: a thread that ends, or whose timer fires, is seen as ThreadEndsTo says.
LEMMA ThreadEnds ==
  ASSUME Types, Threads, NEW w \in Runtimes, TimerExpires(w) \/ Exited(w)
  PROVE  ThreadEndsTo(w)
<1> USE DEF ThreadEndsTo
<1> USE DEF program, operations, Types
<1>0. Ending(w) /\ reload # [at |-> "terminating", runtime |-> w] => stop.at = "terminating" /\ stop.runtime = w
  BY DEF Threads
<1>1. CASE Exited(w)
  <2>1. UNCHANGED <<program, session, requested, attempted, missed, quiet, lastSetting, failures>>
    BY <1>1 DEF Exited
  <2>2. /\ HeardExit(w).created = client.created /\ HeardExit(w).settings = client.settings
        /\ HeardExit(w).worker \in {client.worker, None}
        /\ HeardExit(w) \in Clients
    BY DEF HeardExit
  <2>3. CASE Create("reload", HeardExit(w), Over(Gone(w), w)) /\ UNCHANGED stop
              /\ reload = [at |-> "terminating", runtime |-> w]
    BY <2>1, <2>2, <2>3, CreateWhere, TwoOperations
  <2>4. CASE client' = HeardExit(w) /\ UNCHANGED operations
               /\ \/ UNCHANGED stop
                  \/ /\ stop' = [Idle EXCEPT !.at = "returned"] /\ Ending(w)
                     /\ reload # [at |-> "terminating", runtime |-> w]
    BY <1>0, <2>1, <2>2, <2>4 DEF Idle
  <2> QED  BY <1>1, <2>3, <2>4, ExitedWhere DEF Ending
<1>2. CASE TimerExpires(w)
  <2>1. UNCHANGED <<program, session, requested, attempted, missed, quiet, lastSetting, failures>>
    BY <1>2 DEF TimerExpires
  <2>3. CASE Create("reload", client, Over(runtime, w)) /\ UNCHANGED stop
              /\ reload = [at |-> "terminating", runtime |-> w]
    BY <2>1, <2>3, CreateWhere, TwoOperations
  <2>4. CASE client' = client /\ UNCHANGED operations
               /\ \/ UNCHANGED stop
                  \/ /\ stop' = [Idle EXCEPT !.at = "returned"] /\ Ending(w)
                     /\ reload # [at |-> "terminating", runtime |-> w]
    BY <1>0, <2>1, <2>4 DEF Idle
  <2>5. Ending(w)  BY <1>2 DEF TimerExpires, Ending
  <2> QED  BY <1>2, <2>3, <2>4, <2>5, TimerExpiresWhere
<1> QED  BY <1>1, <1>2

\* What a finished build changes besides threads.
BuildEndsTo(o) ==
  /\ session' = [session EXCEPT !.program = TRUE]
  /\ UNCHANGED <<program, stop, requested, queued, alarmed, lastSetting, lost, quiet, failures>>
  /\ client'.settings = client.settings
  /\ IF source THEN UNCHANGED <<attempted, missed>> ELSE Reads
  /\ \/ /\ o = "launch" /\ ~session.program /\ launch.at \in {"compiling", "reading"}
        /\ launch' = [at |-> "starting", runtime |-> 1] /\ UNCHANGED reload
        /\ client.worker = None /\ client.created = 0
        /\ client'.worker = 1 /\ client'.created = 1
     \/ /\ o = "reload" /\ session.program /\ reload.at \in {"compiling", "reading"}
        /\ UNCHANGED launch
        /\ reload' = [at |-> "starting", runtime |-> client.created + 1]
        /\ client.worker = None
        /\ client'.worker = client.created + 1 /\ client'.created = client.created + 1
     \/ /\ o = "reload" /\ session.program /\ reload.at \in {"compiling", "reading"}
        /\ UNCHANGED launch
        /\ client.worker # None
        /\ reload' = [at |-> "terminating", runtime |-> client.worker]
        /\ client'.worker = None /\ client'.created = client.created /\ client'.intentional

\* Lemma: a build ends as BuildEndsTo says.
LEMMA BuildEnds ==
  ASSUME Types, Phases, Threads, NEW o \in Operations, Built(o)
  PROVE  BuildEndsTo(o)
<1> USE DEF BuildEndsTo
<1> USE DEF Types
<1>1. CASE client.worker = None /\ Create(o, client, runtime)
  BY <1>1, BuiltWhere, CreateWhere, TwoOperations
<1>2. CASE client.worker # None /\ o = "reload" /\ client' = Terminate(client) /\ UNCHANGED launch
            /\ reload' = [at |-> "terminating", runtime |-> client.worker]
  BY <1>2, BuiltWhere, TwoOperations DEF Terminate
<1> QED  BY <1>1, <1>2, BuiltWhere

\* Lemma: no more runtimes are created than were asked for.
LEMMA CountedKept ==
  ASSUME Types, Counted, Phases, Threads, [Next]_vars
  PROVE  Counted'
<1> USE DEF Counted, Phases, WillCreate
<1>1. CASE Edit
  BY <1>1 DEF Edit, program, ghosts, operations, Types
<1>2. CASE Save
  BY <1>2 DEF Save, program, ghosts, operations, Heard, QueueReload, Building, CanBuild, Idle, Room, Types
<1>3. CASE Write
  BY <1>3 DEF Write, program, ghosts, operations, Room, Types
<1>4. CASE FileReload
  BY <1>4 DEF FileReload, program, ghosts, operations, QueueReload, Building, CanBuild, Idle, Types
<1>5. CASE Restart
  BY <1>5 DEF Restart, program, ghosts, operations, QueueReload, Building, CanBuild, Idle, Room, Types
<1>6. CASE ChangeSetting
  BY <1>6 DEF ChangeSetting, program, ghosts, operations, Types
<1>7. CASE RequestMemory
  BY <1>7 DEF RequestMemory, program, ghosts, operations, Types
<1>8. CASE Launch
  BY <1>8 DEF Launch, program, ghosts, operations, Building, Idle, Types
<1>9. CASE CompilerCreated
  BY <1>9 DEF CompilerCreated, program, ghosts, operations, Building, Idle, Types
<1>10. CASE Stop
  <2>1. Rejects(session') /\ session'.compiler = "none" /\ session'.stopped /\ ~session'.timer
    BY <1>10 DEF Stop, Types
  <2>2. client'.created = client.created /\ client'.worker = None /\ UNCHANGED <<requested, program>>
    BY <1>10 DEF Stop, Terminate, Types
  <2>3. quiet' => /\ queued = 0 /\ launch.at \notin {"creating", "reading"}
                  /\ reload.at \notin {"reading", "terminating"}
    BY <1>10, TwoOperations DEF Stop, MayCreate, Types
  <2>4. CASE launch.at = "compiling" /\ Ends("launch", session')
    BY <2>1, <2>2, <2>3, <2>4, EndsWhere, TwoOperations DEF program, Types
  <2>5. CASE reload.at = "compiling" /\ Ends("reload", session')
    BY <2>1, <2>2, <2>3, <2>5, EndsWhere, TwoOperations DEF program, CanBuild, Types
  <2>6. CASE launch.at # "compiling" /\ reload.at # "compiling" /\ UNCHANGED operations
    BY <2>1, <2>2, <2>3, <2>6 DEF program, operations, Types
  <2> QED  BY <2>1, <2>4, <2>5, <2>6, RejectsWhere
<1>11. CASE CompilerFails
  BY <1>11, RejectsWhere, EndsWhere, TwoOperations DEF CompilerFails, program, ghosts, operations, CanBuild, Types
<1>12. ASSUME NEW o \in Operations, Opened(o)  PROVE Counted'
  <2>1. CASE o = "launch"
    BY <2>1, <1>12, TwoOperations, MovesWhere DEF Opened, program, ghosts, operations, Compiles, Reads, Idle, Types
  <2>2. CASE o = "reload"
    BY <2>2, <1>12, TwoOperations, MovesWhere DEF Opened, program, ghosts, operations, Compiles, Reads, Idle, Types
  <2> QED  BY <2>1, <2>2, TwoOperations
<1>13. ASSUME NEW o \in Operations, Saved(o)  PROVE Counted'
  <2>1. CASE o = "launch"
    BY <2>1, <1>13, TwoOperations, MovesWhere, EndsWhere DEF Saved, program, ghosts, operations, Compiles, Reads, Idle, CanBuild, Types
  <2>2. CASE o = "reload"
    BY <2>2, <1>13, TwoOperations, MovesWhere, EndsWhere DEF Saved, program, ghosts, operations, Compiles, Reads, Idle, CanBuild, Types
  <2> QED  BY <2>1, <2>2, TwoOperations
<1>14. ASSUME NEW o \in Operations, Built(o)  PROVE Counted'
  <2>1. BuildEndsTo(o)  BY <1>14, BuildEnds
  <2> QED  BY <2>1, TwoOperations DEF BuildEndsTo, program, ghosts, operations, Reads, Types
<1>15. ASSUME NEW o \in Operations, BuildFails(o)  PROVE Counted'
  <2>1. CASE o = "launch"
    BY <2>1, <1>15, TwoOperations, EndsWhere DEF BuildFails, program, ghosts, operations, CanBuild, Reads, Types
  <2>2. CASE o = "reload"
    BY <2>2, <1>15, TwoOperations, EndsWhere DEF BuildFails, program, ghosts, operations, CanBuild, Reads, Types
  <2> QED  BY <2>1, <2>2, TwoOperations
<1>16. ASSUME NEW w \in Runtimes, Load(w)  PROVE Counted'
  BY <1>16 DEF Load, program, ghosts, operations, Thread, Types
<1>17. ASSUME NEW w \in Runtimes, LoadFailsOrTraps(w)  PROVE Counted'
  BY <1>17 DEF LoadFailsOrTraps, program, ghosts, operations, Thread, Misfortune, Types
<1>18. ASSUME NEW w \in Runtimes, Hang(w)  PROVE Counted'
  BY <1>18 DEF Hang, program, ghosts, operations, Thread, Misfortune, Types
<1>19. ASSUME NEW w \in Runtimes, Crash(w)  PROVE Counted'
  BY <1>19 DEF Crash, program, ghosts, operations, Misfortune, Types
<1>20. ASSUME NEW w \in Runtimes, Receive(w)  PROVE Counted'
  BY <1>20 DEF Receive, program, ghosts, operations, Thread, Types
<1>21. ASSUME NEW w \in Runtimes, Kill(w)  PROVE Counted'
  BY <1>21 DEF Kill, program, ghosts, operations, Thread, Types
<1>22. ASSUME NEW w \in Runtimes, Ready(w)  PROVE Counted'
  BY <1>22, SettlesWhere, EndsWhere, TwoOperations DEF Ready, program, ghosts, operations, CanBuild, Types
<1>23. ASSUME NEW w \in Runtimes, RuntimeFails(w)  PROVE Counted'
  BY <1>23, SettlesWhere, EndsWhere, TwoOperations DEF RuntimeFails, program, ghosts, operations, CanBuild, Fails, Types
<1>24. ASSUME NEW w \in Runtimes, SnapshotArrives(w)  PROVE Counted'
  BY <1>24 DEF SnapshotArrives, program, ghosts, operations, Types
<1>25. ASSUME NEW w \in Runtimes, Answered(w)  PROVE Counted'
  BY <1>25 DEF Answered, program, ghosts, operations, Types
<1>26. ASSUME NEW w \in Runtimes, Stopped(w)  PROVE Counted'
  BY <1>26 DEF Stopped, program, ghosts, operations, Types
<1>27. ASSUME NEW w \in Runtimes, TimerExpires(w)  PROVE Counted'
  <2>1. ThreadEndsTo(w)  BY <1>27, ThreadEnds
  <2> QED  BY <2>1 DEF ThreadEndsTo, program, ghosts, operations, Types
<1>28. ASSUME NEW w \in Runtimes, Exited(w)  PROVE Counted'
  <2>1. ThreadEndsTo(w)  BY <1>28, ThreadEnds
  <2> QED  BY <2>1 DEF ThreadEndsTo, program, ghosts, operations, Types
<1>29. CASE UNCHANGED vars  BY <1>29 DEF program, ghosts, operations, vars
<1> QED
  BY <1>1, <1>2, <1>3, <1>4, <1>5, <1>6, <1>7, <1>8, <1>9, <1>10, <1>11, <1>12, <1>13, <1>14, <1>15, <1>16, <1>17, <1>18, <1>19, <1>20, <1>21, <1>22, <1>23, <1>24, <1>25, <1>26, <1>27, <1>28, <1>29 DEF Next, Work, Fault, User

\* Lemma: what the operations can be doing.
LEMMA PhasesKept ==
  ASSUME Types, Phases, Threads, [Next]_vars
  PROVE  Phases'
<1> USE DEF Phases
<1>1. CASE Edit
  BY <1>1 DEF Edit, program, ghosts, operations, Types
<1>2. CASE Save
  BY <1>2 DEF Save, program, ghosts, operations, Heard, QueueReload, Building, CanBuild, Idle, Room, Types
<1>3. CASE Write
  BY <1>3 DEF Write, program, ghosts, operations, Room, Types
<1>4. CASE FileReload
  BY <1>4 DEF FileReload, program, ghosts, operations, QueueReload, Building, CanBuild, Idle, Building1, Types
<1>5. CASE Restart
  BY <1>5 DEF Restart, program, ghosts, operations, QueueReload, Building, CanBuild, Idle, Room, Types
<1>6. CASE ChangeSetting
  BY <1>6 DEF ChangeSetting, program, ghosts, operations, Types
<1>7. CASE RequestMemory
  BY <1>7 DEF RequestMemory, program, ghosts, operations, Types
<1>8. CASE Launch
  BY <1>8 DEF Launch, program, ghosts, operations, Building, Idle, Types
<1>9. CASE CompilerCreated
  BY <1>9 DEF CompilerCreated, program, ghosts, operations, Building, Idle, Types
<1>10. CASE Stop
  <2>1. Rejects(session') /\ session'.compiler = "none" /\ session'.stopped /\ ~session'.timer
        /\ ~session'.watching /\ session'.program = session.program
    BY <1>10 DEF Stop, Types
  <2>2. client'.created = client.created /\ client'.worker = None /\ UNCHANGED <<requested, program>>
    BY <1>10 DEF Stop, Terminate, Types
  <2>3. quiet' => /\ queued = 0 /\ launch.at \notin {"creating", "reading"}
                  /\ reload.at \notin {"reading", "terminating"}
    BY <1>10, TwoOperations DEF Stop, MayCreate, Types
  <2>4. CASE launch.at = "compiling" /\ Ends("launch", session')
    BY <2>1, <2>2, <2>3, <2>4, EndsWhere, TwoOperations DEF program, Types
  <2>5. CASE reload.at = "compiling" /\ Ends("reload", session')
    BY <2>1, <2>2, <2>3, <2>5, EndsWhere, TwoOperations DEF program, CanBuild, Types
  <2>6. CASE launch.at # "compiling" /\ reload.at # "compiling" /\ UNCHANGED operations
    BY <2>1, <2>2, <2>3, <2>6 DEF program, operations, Types
  <2> QED  BY <2>1, <2>4, <2>5, <2>6, RejectsWhere
<1>11. CASE CompilerFails
  BY <1>11, RejectsWhere, EndsWhere, TwoOperations DEF CompilerFails, program, ghosts, operations, CanBuild, Types
<1>12. ASSUME NEW o \in Operations, Opened(o)  PROVE Phases'
  <2>1. CASE o = "launch"
    BY <2>1, <1>12, TwoOperations, MovesWhere DEF Opened, program, ghosts, operations, Compiles, Reads, Idle, Types
  <2>2. CASE o = "reload"
    BY <2>2, <1>12, TwoOperations, MovesWhere DEF Opened, program, ghosts, operations, Compiles, Reads, Idle, Types
  <2> QED  BY <2>1, <2>2, TwoOperations
<1>13. ASSUME NEW o \in Operations, Saved(o)  PROVE Phases'
  <2>1. CASE o = "launch"
    BY <2>1, <1>13, TwoOperations, MovesWhere, EndsWhere DEF Saved, program, ghosts, operations, Compiles, Reads, Idle, CanBuild, Types
  <2>2. CASE o = "reload"
    BY <2>2, <1>13, TwoOperations, MovesWhere, EndsWhere DEF Saved, program, ghosts, operations, Compiles, Reads, Idle, CanBuild, Types
  <2> QED  BY <2>1, <2>2, TwoOperations
<1>14. ASSUME NEW o \in Operations, Built(o)  PROVE Phases'
  <2>1. BuildEndsTo(o)  BY <1>14, BuildEnds
  <2> QED  BY <2>1, TwoOperations DEF BuildEndsTo, program, ghosts, operations, Reads, Types
<1>15. ASSUME NEW o \in Operations, BuildFails(o)  PROVE Phases'
  <2>1. CASE o = "launch"
    BY <2>1, <1>15, TwoOperations, EndsWhere DEF BuildFails, program, ghosts, operations, CanBuild, Reads, Types
  <2>2. CASE o = "reload"
    BY <2>2, <1>15, TwoOperations, EndsWhere DEF BuildFails, program, ghosts, operations, CanBuild, Reads, Types
  <2> QED  BY <2>1, <2>2, TwoOperations
<1>16. ASSUME NEW w \in Runtimes, Load(w)  PROVE Phases'
  BY <1>16 DEF Load, program, ghosts, operations, Thread, Types
<1>17. ASSUME NEW w \in Runtimes, LoadFailsOrTraps(w)  PROVE Phases'
  BY <1>17 DEF LoadFailsOrTraps, program, ghosts, operations, Thread, Misfortune, Types
<1>18. ASSUME NEW w \in Runtimes, Hang(w)  PROVE Phases'
  BY <1>18 DEF Hang, program, ghosts, operations, Thread, Misfortune, Types
<1>19. ASSUME NEW w \in Runtimes, Crash(w)  PROVE Phases'
  BY <1>19 DEF Crash, program, ghosts, operations, Misfortune, Types
<1>20. ASSUME NEW w \in Runtimes, Receive(w)  PROVE Phases'
  BY <1>20 DEF Receive, program, ghosts, operations, Thread, Types
<1>21. ASSUME NEW w \in Runtimes, Kill(w)  PROVE Phases'
  BY <1>21 DEF Kill, program, ghosts, operations, Thread, Types
<1>22. ASSUME NEW w \in Runtimes, Ready(w)  PROVE Phases'
  BY <1>22, SettlesWhere, EndsWhere, TwoOperations DEF Ready, program, ghosts, operations, CanBuild, Types
<1>23. ASSUME NEW w \in Runtimes, RuntimeFails(w)  PROVE Phases'
  BY <1>23, SettlesWhere, EndsWhere, TwoOperations DEF RuntimeFails, program, ghosts, operations, CanBuild, Fails, Types
<1>24. ASSUME NEW w \in Runtimes, SnapshotArrives(w)  PROVE Phases'
  BY <1>24 DEF SnapshotArrives, program, ghosts, operations, Types
<1>25. ASSUME NEW w \in Runtimes, Answered(w)  PROVE Phases'
  BY <1>25 DEF Answered, program, ghosts, operations, Types
<1>26. ASSUME NEW w \in Runtimes, Stopped(w)  PROVE Phases'
  BY <1>26 DEF Stopped, program, ghosts, operations, Types
<1>27. ASSUME NEW w \in Runtimes, TimerExpires(w)  PROVE Phases'
  <2>1. ThreadEndsTo(w)  BY <1>27, ThreadEnds
  <2> QED  BY <2>1 DEF ThreadEndsTo, program, ghosts, operations, Types
<1>28. ASSUME NEW w \in Runtimes, Exited(w)  PROVE Phases'
  <2>1. ThreadEndsTo(w)  BY <1>28, ThreadEnds
  <2> QED  BY <2>1 DEF ThreadEndsTo, program, ghosts, operations, Types
<1>29. CASE UNCHANGED vars  BY <1>29 DEF program, ghosts, operations, vars
<1> QED
  BY <1>1, <1>2, <1>3, <1>4, <1>5, <1>6, <1>7, <1>8, <1>9, <1>10, <1>11, <1>12, <1>13, <1>14, <1>15, <1>16, <1>17, <1>18, <1>19, <1>20, <1>21, <1>22, <1>23, <1>24, <1>25, <1>26, <1>27, <1>28, <1>29 DEF Next, Work, Fault, User

\* Lemma: after a quiet stop nothing creates a runtime.
LEMMA QuietKept ==
  ASSUME Types, Quiet, Phases, Threads, [Next]_vars
  PROVE  Quiet'
<1> USE DEF Quiet, Phases
<1>1. CASE Edit
  BY <1>1 DEF Edit, program, ghosts, operations, Types
<1>2. CASE Save
  BY <1>2 DEF Save, program, ghosts, operations, Heard, QueueReload, Building, CanBuild, Idle, Room, Types
<1>3. CASE Write
  BY <1>3 DEF Write, program, ghosts, operations, Room, Types
<1>4. CASE FileReload
  BY <1>4 DEF FileReload, program, ghosts, operations, QueueReload, Building, CanBuild, Idle, Types
<1>5. CASE Restart
  BY <1>5 DEF Restart, program, ghosts, operations, QueueReload, Building, CanBuild, Idle, Room, Types
<1>6. CASE ChangeSetting
  BY <1>6 DEF ChangeSetting, program, ghosts, operations, Types
<1>7. CASE RequestMemory
  BY <1>7 DEF RequestMemory, program, ghosts, operations, Types
<1>8. CASE Launch
  BY <1>8 DEF Launch, program, ghosts, operations, Building, Idle, Types
<1>9. CASE CompilerCreated
  BY <1>9 DEF CompilerCreated, program, ghosts, operations, Building, Idle, Types
<1>10. CASE Stop
  <2>1. Rejects(session') /\ session'.compiler = "none" /\ session'.stopped /\ ~session'.timer
    BY <1>10 DEF Stop, Types
  <2>2. client'.created = client.created /\ client'.worker = None /\ UNCHANGED <<requested, program>>
    BY <1>10 DEF Stop, Terminate, Types
  <2>3. quiet' => /\ queued = 0 /\ launch.at \notin {"creating", "reading"}
                  /\ reload.at \notin {"reading", "terminating"}
    BY <1>10, TwoOperations DEF Stop, MayCreate, Types
  <2>4. CASE launch.at = "compiling" /\ Ends("launch", session')
    BY <2>1, <2>2, <2>3, <2>4, EndsWhere, TwoOperations DEF program, Types, Building1
  <2>5. CASE reload.at = "compiling" /\ Ends("reload", session')
    BY <2>1, <2>2, <2>3, <2>5, EndsWhere, TwoOperations DEF program, CanBuild, Types, Building1
  <2>6. CASE launch.at # "compiling" /\ reload.at # "compiling" /\ UNCHANGED operations
    BY <2>1, <2>2, <2>3, <2>6 DEF program, operations, Types, Building1
  <2> QED  BY <2>1, <2>4, <2>5, <2>6, RejectsWhere
<1>11. CASE CompilerFails
  BY <1>11, RejectsWhere, EndsWhere, TwoOperations DEF CompilerFails, program, ghosts, operations, CanBuild, Types
<1>12. ASSUME NEW o \in Operations, Opened(o)  PROVE Quiet'
  <2>1. CASE o = "launch"
    BY <2>1, <1>12, TwoOperations, MovesWhere DEF Opened, program, ghosts, operations, Compiles, Reads, Idle, Types
  <2>2. CASE o = "reload"
    BY <2>2, <1>12, TwoOperations, MovesWhere DEF Opened, program, ghosts, operations, Compiles, Reads, Idle, Types
  <2> QED  BY <2>1, <2>2, TwoOperations
<1>13. ASSUME NEW o \in Operations, Saved(o)  PROVE Quiet'
  <2>1. CASE o = "launch"
    BY <2>1, <1>13, TwoOperations, MovesWhere, EndsWhere DEF Saved, program, ghosts, operations, Compiles, Reads, Idle, CanBuild, Types
  <2>2. CASE o = "reload"
    BY <2>2, <1>13, TwoOperations, MovesWhere, EndsWhere DEF Saved, program, ghosts, operations, Compiles, Reads, Idle, CanBuild, Types
  <2> QED  BY <2>1, <2>2, TwoOperations
<1>14. ASSUME NEW o \in Operations, Built(o)  PROVE Quiet'
  <2>1. BuildEndsTo(o)  BY <1>14, BuildEnds
  <2> QED  BY <2>1, TwoOperations DEF BuildEndsTo, program, ghosts, operations, Reads, Types
<1>15. ASSUME NEW o \in Operations, BuildFails(o)  PROVE Quiet'
  <2>1. CASE o = "launch"
    BY <2>1, <1>15, TwoOperations, EndsWhere DEF BuildFails, program, ghosts, operations, CanBuild, Reads, Types
  <2>2. CASE o = "reload"
    BY <2>2, <1>15, TwoOperations, EndsWhere DEF BuildFails, program, ghosts, operations, CanBuild, Reads, Types
  <2> QED  BY <2>1, <2>2, TwoOperations
<1>16. ASSUME NEW w \in Runtimes, Load(w)  PROVE Quiet'
  BY <1>16 DEF Load, program, ghosts, operations, Thread, Types
<1>17. ASSUME NEW w \in Runtimes, LoadFailsOrTraps(w)  PROVE Quiet'
  BY <1>17 DEF LoadFailsOrTraps, program, ghosts, operations, Thread, Misfortune, Types
<1>18. ASSUME NEW w \in Runtimes, Hang(w)  PROVE Quiet'
  BY <1>18 DEF Hang, program, ghosts, operations, Thread, Misfortune, Types
<1>19. ASSUME NEW w \in Runtimes, Crash(w)  PROVE Quiet'
  BY <1>19 DEF Crash, program, ghosts, operations, Misfortune, Types
<1>20. ASSUME NEW w \in Runtimes, Receive(w)  PROVE Quiet'
  BY <1>20 DEF Receive, program, ghosts, operations, Thread, Types
<1>21. ASSUME NEW w \in Runtimes, Kill(w)  PROVE Quiet'
  BY <1>21 DEF Kill, program, ghosts, operations, Thread, Types
<1>22. ASSUME NEW w \in Runtimes, Ready(w)  PROVE Quiet'
  BY <1>22, SettlesWhere, EndsWhere, TwoOperations DEF Ready, program, ghosts, operations, CanBuild, Types
<1>23. ASSUME NEW w \in Runtimes, RuntimeFails(w)  PROVE Quiet'
  BY <1>23, SettlesWhere, EndsWhere, TwoOperations DEF RuntimeFails, program, ghosts, operations, CanBuild, Fails, Types
<1>24. ASSUME NEW w \in Runtimes, SnapshotArrives(w)  PROVE Quiet'
  BY <1>24 DEF SnapshotArrives, program, ghosts, operations, Types
<1>25. ASSUME NEW w \in Runtimes, Answered(w)  PROVE Quiet'
  BY <1>25 DEF Answered, program, ghosts, operations, Types
<1>26. ASSUME NEW w \in Runtimes, Stopped(w)  PROVE Quiet'
  BY <1>26 DEF Stopped, program, ghosts, operations, Types
<1>27. ASSUME NEW w \in Runtimes, TimerExpires(w)  PROVE Quiet'
  <2>1. ThreadEndsTo(w)  BY <1>27, ThreadEnds
  <2> QED  BY <2>1 DEF ThreadEndsTo, program, ghosts, operations, Types
<1>28. ASSUME NEW w \in Runtimes, Exited(w)  PROVE Quiet'
  <2>1. ThreadEndsTo(w)  BY <1>28, ThreadEnds
  <2> QED  BY <2>1 DEF ThreadEndsTo, program, ghosts, operations, Types
<1>29. CASE UNCHANGED vars  BY <1>29 DEF program, ghosts, operations, vars
<1> QED
  BY <1>1, <1>2, <1>3, <1>4, <1>5, <1>6, <1>7, <1>8, <1>9, <1>10, <1>11, <1>12, <1>13, <1>14, <1>15, <1>16, <1>17, <1>18, <1>19, <1>20, <1>21, <1>22, <1>23, <1>24, <1>25, <1>26, <1>27, <1>28, <1>29 DEF Next, Work, Fault, User

\* Lemma: a change that no build has read has one ahead of it.
LEMMA CurrentKept ==
  ASSUME Types, Current, Phases, Threads, [Next]_vars
  PROVE  Current'
<1> USE DEF Current, Phases, Building1
<1>1. CASE Edit
  BY <1>1 DEF Edit, program, ghosts, operations, Types
<1>2. CASE Save
  <2>1. CASE Heard
    <3>1. CanBuild(session) /\ source /\ session.program /\ ~session.stopped
      BY <1>2, <2>1 DEF Save, Heard, CanBuild, Types
    <3>2. queued' > 0 \/ reload'.at = "opening"
      BY <1>2, <2>1, <3>1 DEF Save, QueueReload, Building, Types
    <3> QED  BY <1>2, <3>1, <3>2 DEF Save
  <2>2. CASE ~Heard
    BY <1>2, <2>2 DEF Save, Types
  <2> QED  BY <2>1, <2>2
<1>3. CASE Write
  BY <1>3 DEF Write, program, ghosts, operations, Room, Types
<1>4. CASE FileReload
  BY <1>4 DEF FileReload, program, ghosts, operations, QueueReload, Building, CanBuild, Idle, Types
<1>5. CASE Restart
  BY <1>5 DEF Restart, program, ghosts, operations, QueueReload, Building, CanBuild, Idle, Room, Types
<1>6. CASE ChangeSetting
  BY <1>6 DEF ChangeSetting, program, ghosts, operations, Types
<1>7. CASE RequestMemory
  BY <1>7 DEF RequestMemory, program, ghosts, operations, Types
<1>8. CASE Launch
  BY <1>8 DEF Launch, program, ghosts, operations, Building, Idle, Types
<1>9. CASE CompilerCreated
  BY <1>9 DEF CompilerCreated, program, ghosts, operations, Building, Idle, Types
<1>10. CASE Stop
  BY <1>10, RejectsWhere, EndsWhere, TwoOperations DEF Stop, program, ghosts, operations, MayCreate, Terminate, CanBuild, Idle, Types
<1>11. CASE CompilerFails
  BY <1>11, RejectsWhere, EndsWhere, TwoOperations DEF CompilerFails, program, ghosts, operations, CanBuild, Types
<1>12. ASSUME NEW o \in Operations, Opened(o)  PROVE Current'
  <2>1. CASE o = "launch"
    BY <2>1, <1>12, TwoOperations, MovesWhere DEF Opened, program, ghosts, operations, Compiles, Reads, Idle, Types
  <2>2. CASE o = "reload"
    BY <2>2, <1>12, TwoOperations, MovesWhere DEF Opened, program, ghosts, operations, Compiles, Reads, Idle, Types
  <2> QED  BY <2>1, <2>2, TwoOperations
<1>13. ASSUME NEW o \in Operations, Saved(o)  PROVE Current'
  <2>1. CASE o = "launch"
    BY <2>1, <1>13, TwoOperations, MovesWhere, EndsWhere DEF Saved, program, ghosts, operations, Compiles, Reads, Idle, CanBuild, Types
  <2>2. CASE o = "reload"
    BY <2>2, <1>13, TwoOperations, MovesWhere, EndsWhere DEF Saved, program, ghosts, operations, Compiles, Reads, Idle, CanBuild, Types
  <2> QED  BY <2>1, <2>2, TwoOperations
<1>14. ASSUME NEW o \in Operations, Built(o)  PROVE Current'
  <2>1. BuildEndsTo(o)  BY <1>14, BuildEnds
  <2> QED  BY <2>1, TwoOperations DEF BuildEndsTo, program, ghosts, operations, Reads, Types
<1>15. ASSUME NEW o \in Operations, BuildFails(o)  PROVE Current'
  <2>1. CASE o = "launch"
    BY <2>1, <1>15, TwoOperations, EndsWhere DEF BuildFails, program, ghosts, operations, CanBuild, Reads, Types
  <2>2. CASE o = "reload"
    BY <2>2, <1>15, TwoOperations, EndsWhere DEF BuildFails, program, ghosts, operations, CanBuild, Reads, Types
  <2> QED  BY <2>1, <2>2, TwoOperations
<1>16. ASSUME NEW w \in Runtimes, Load(w)  PROVE Current'
  BY <1>16 DEF Load, program, ghosts, operations, Thread, Types
<1>17. ASSUME NEW w \in Runtimes, LoadFailsOrTraps(w)  PROVE Current'
  BY <1>17 DEF LoadFailsOrTraps, program, ghosts, operations, Thread, Misfortune, Types
<1>18. ASSUME NEW w \in Runtimes, Hang(w)  PROVE Current'
  BY <1>18 DEF Hang, program, ghosts, operations, Thread, Misfortune, Types
<1>19. ASSUME NEW w \in Runtimes, Crash(w)  PROVE Current'
  BY <1>19 DEF Crash, program, ghosts, operations, Misfortune, Types
<1>20. ASSUME NEW w \in Runtimes, Receive(w)  PROVE Current'
  BY <1>20 DEF Receive, program, ghosts, operations, Thread, Types
<1>21. ASSUME NEW w \in Runtimes, Kill(w)  PROVE Current'
  BY <1>21 DEF Kill, program, ghosts, operations, Thread, Types
<1>22. ASSUME NEW w \in Runtimes, Ready(w)  PROVE Current'
  BY <1>22, SettlesWhere, EndsWhere, TwoOperations DEF Ready, program, ghosts, operations, CanBuild, Types
<1>23. ASSUME NEW w \in Runtimes, RuntimeFails(w)  PROVE Current'
  BY <1>23, SettlesWhere, EndsWhere, TwoOperations DEF RuntimeFails, program, ghosts, operations, CanBuild, Fails, Types
<1>24. ASSUME NEW w \in Runtimes, SnapshotArrives(w)  PROVE Current'
  BY <1>24 DEF SnapshotArrives, program, ghosts, operations, Types
<1>25. ASSUME NEW w \in Runtimes, Answered(w)  PROVE Current'
  BY <1>25 DEF Answered, program, ghosts, operations, Types
<1>26. ASSUME NEW w \in Runtimes, Stopped(w)  PROVE Current'
  BY <1>26 DEF Stopped, program, ghosts, operations, Types
<1>27. ASSUME NEW w \in Runtimes, TimerExpires(w)  PROVE Current'
  <2>1. ThreadEndsTo(w)  BY <1>27, ThreadEnds
  <2> QED  BY <2>1 DEF ThreadEndsTo, program, ghosts, operations, Types
<1>28. ASSUME NEW w \in Runtimes, Exited(w)  PROVE Current'
  <2>1. ThreadEndsTo(w)  BY <1>28, ThreadEnds
  <2> QED  BY <2>1 DEF ThreadEndsTo, program, ghosts, operations, Types
<1>29. CASE UNCHANGED vars  BY <1>29 DEF program, ghosts, operations, vars
<1> QED
  BY <1>1, <1>2, <1>3, <1>4, <1>5, <1>6, <1>7, <1>8, <1>9, <1>10, <1>11, <1>12, <1>13, <1>14, <1>15, <1>16, <1>17, <1>18, <1>19, <1>20, <1>21, <1>22, <1>23, <1>24, <1>25, <1>26, <1>27, <1>28, <1>29 DEF Next, Work, Fault, User

-----------------------------------------------------------------------------
(* Threads. *)

\* Lemma: the end and the beginning of a queue of messages.
LEMMA Queues ==
  ASSUME NEW S, NEW s \in Seq(S)
  PROVE  /\ Len(s) \in Nat /\ \A n \in 1 .. Len(s) : s[n] \in S
         /\ \A m \in S : /\ Append(s, m) \in Seq(S) /\ Len(Append(s, m)) = Len(s) + 1
                         /\ \A n \in 1 .. Len(s) : Append(s, m)[n] = s[n]
                         /\ Append(s, m)[Len(s) + 1] = m
         /\ s # <<>> => /\ Len(s) > 0 /\ Head(s) = s[1] /\ Head(s) \in S
                        /\ Tail(s) \in Seq(S) /\ Len(Tail(s)) = Len(s) - 1
                        /\ \A n \in 1 .. Len(s) - 1 : Tail(s)[n] = s[n + 1]
         /\ <<>> \in Seq(S) /\ Len(<<>>) = 0
BY ONLY s \in Seq(S)

\* A thread takes a message, sends one, is gone; the extension takes one of its.
Posted(r, m) == IF r.state = "dead" THEN r ELSE [r EXCEPT !.inbox = Append(@, m)]
Reported(r, m) == [r EXCEPT !.outbox = Append(@, m)]
Died(r) == [Reported(r, Message("exit", 0)) EXCEPT !.state = "dead", !.inbox = <<>>]
Read(r) == [r EXCEPT !.inbox = Tail(@)]
Listened(r) == [r EXCEPT !.outbox = Tail(@)]

\* Only thread w changes, to r.
Changed(w, r) == runtime' = [v \in Runtimes |-> IF v = w THEN r ELSE runtime[v]]

\* Lemma: what thread w does by itself, and is sent.
LEMMA ThreadSteps ==
  ASSUME runtime \in [Runtimes -> RuntimeRecords], NEW w \in Runtimes
  PROVE  /\ Load(w) => Changed(w, [Reported(runtime[w], Message("ready", 0)) EXCEPT !.state = "running"])
         /\ LoadFailsOrTraps(w) =>
              Changed(w, [Reported(runtime[w], Message("failure", 0)) EXCEPT !.state = "ended"])
         /\ Hang(w) => Changed(w, [runtime[w] EXCEPT !.state = "hung"])
         /\ Crash(w) => Changed(w, Died(Reported(runtime[w], Message("error", 0))))
         /\ Kill(w) => Changed(w, Died(runtime[w]))
<1> USE DEF RuntimeRecords, Changed, Reported, Died, Send, Dies, Thread
<1>1. Load(w) => Changed(w, [Reported(runtime[w], Message("ready", 0)) EXCEPT !.state = "running"])
  BY DEF Load
<1>2. LoadFailsOrTraps(w) =>
        Changed(w, [Reported(runtime[w], Message("failure", 0)) EXCEPT !.state = "ended"])
  BY DEF LoadFailsOrTraps
<1>3. Hang(w) => Changed(w, [runtime[w] EXCEPT !.state = "hung"])
  BY DEF Hang
<1>4. Crash(w) => Changed(w, Died(Reported(runtime[w], Message("error", 0))))
  BY DEF Crash
<1>5. Kill(w) => Changed(w, Died(runtime[w]))
  BY DEF Kill
<1> QED  BY <1>1, <1>2, <1>3, <1>4, <1>5

\* Lemma: the messages a thread may take.
LEMMA ReceiveSteps ==
  ASSUME runtime \in [Runtimes -> RuntimeRecords], NEW w \in Runtimes, Receive(w)
  PROVE  /\ runtime[w].inbox # <<>> /\ runtime[w].state \notin {"none", "dead", "hung"}
         /\ LET m == Head(runtime[w].inbox)
            IN \/ /\ m.kind = "setSetting"
                  /\ Changed(w, [Reported(Read(runtime[w]), Message("snapshot", m.value))
                                   EXCEPT !.settings = m.value])
               \/ /\ m.kind = "readMemory"
                  /\ Changed(w, Reported(Read(runtime[w]), Message("answer", m.value)))
               \/ /\ m.kind = "shutdown"
                  /\ Changed(w, [Reported(Read(runtime[w]), Message("stopped", 0))
                                   EXCEPT !.state = IF @ = "running" THEN "ended" ELSE @])
<1> USE DEF RuntimeRecords
<1> DEFINE m == Head(runtime[w].inbox)
<1>1. runtime[w].inbox # <<>> /\ runtime[w].state \notin {"none", "dead", "hung"}
  BY DEF Receive, Live
<1>2. m \in Orders
  BY <1>1, Queues
<1>3. m.kind \in {"setSetting", "readMemory", "shutdown"}
  BY <1>2 DEF Orders
<1> USE DEF Changed, Reported, Read, Send, Thread, Receive
<1>4. CASE m.kind = "setSetting"  BY <1>1, <1>4
<1>5. CASE m.kind = "readMemory"  BY <1>1, <1>5
<1>6. CASE m.kind = "shutdown"  BY <1>1, <1>6
<1> QED  BY <1>3, <1>4, <1>5, <1>6

\* Lemma: what the extension hears of thread w, sends it and does to it.
LEMMA ExtensionSteps ==
  ASSUME runtime \in [Runtimes -> RuntimeRecords], NEW w \in Runtimes
  PROVE  /\ Ready(w) \/ RuntimeFails(w) \/ SnapshotArrives(w) \/ Answered(w) =>
              Changed(w, Listened(runtime[w]))
         /\ Stopped(w) =>
              Changed(w, [Listened(runtime[w]) EXCEPT !.ending = IF @ = "waiting" THEN "killing" ELSE @])
         /\ ChangeSetting /\ client.worker = w =>
              Changed(w, Posted(runtime[w], Message("setSetting", lastSetting')))
         /\ RequestMemory /\ client.worker = w =>
              Changed(w, Posted(runtime[w], Message("readMemory", client.nextRequestId)))
         /\ runtime' = Shutdown(runtime, w) =>
              Changed(w, [Posted(runtime[w], Message("shutdown", 0)) EXCEPT !.ending = "waiting"])
<1> USE DEF RuntimeRecords, Changed, Listened, Posted, Taken, Post
<1>1. Ready(w) \/ RuntimeFails(w) \/ SnapshotArrives(w) \/ Answered(w) => Changed(w, Listened(runtime[w]))
  BY DEF Ready, RuntimeFails, SnapshotArrives, Answered
<1>2. Stopped(w) =>
        Changed(w, [Listened(runtime[w]) EXCEPT !.ending = IF @ = "waiting" THEN "killing" ELSE @])
  BY DEF Stopped
<1>3. ChangeSetting /\ client.worker = w =>
        Changed(w, Posted(runtime[w], Message("setSetting", lastSetting')))
  <2>1. \A m : runtime' = Post(runtime, w, m) => Changed(w, Posted(runtime[w], m))
    OBVIOUS
  <2>2. ChangeSetting /\ client.worker = w => runtime' = Post(runtime, w, Message("setSetting", lastSetting'))
    BY DEF ChangeSetting
  <2> QED  BY <2>1, <2>2
<1>4. RequestMemory /\ client.worker = w =>
        Changed(w, Posted(runtime[w], Message("readMemory", client.nextRequestId)))
  BY DEF RequestMemory
<1>5. runtime' = Shutdown(runtime, w) =>
        Changed(w, [Posted(runtime[w], Message("shutdown", 0)) EXCEPT !.ending = "waiting"])
  BY DEF Shutdown
<1> QED  BY <1>1, <1>2, <1>3, <1>4, <1>5

\* A new thread, and one whose end has been heard or seen to.
NewThread(c) == [NoRuntime EXCEPT !.state = "loading", !.settings = c.settings]
Left(r) == [Listened(r) EXCEPT !.exited = TRUE, !.settings = 0]
SeenTo(r) == [r EXCEPT !.ending = "over"]

\* The next thread is created among threads t.
Created(c, t) == runtime' = [v \in Runtimes |-> IF v = c.created + 1 THEN NewThread(c) ELSE t[v]]

\* Lemma: threads that end and are created.
LEMMA EndSteps ==
  ASSUME runtime \in [Runtimes -> RuntimeRecords], NEW w \in Runtimes
  PROVE  /\ Over(runtime, w) = [v \in Runtimes |-> IF v = w THEN SeenTo(runtime[w]) ELSE runtime[v]]
         /\ Gone(w) = [v \in Runtimes |-> IF v = w THEN Left(runtime[w]) ELSE runtime[v]]
         /\ Over(Gone(w), w) = [v \in Runtimes |-> IF v = w THEN SeenTo(Left(runtime[w])) ELSE runtime[v]]
         /\ runtime' = [runtime EXCEPT ![w].ending = "killing"] =>
              Changed(w, [runtime[w] EXCEPT !.ending = "killing"])
<1> USE DEF RuntimeRecords, Over, Gone, SeenTo, Left, Listened, Taken, Changed
<1>1. Over(runtime, w) = [v \in Runtimes |-> IF v = w THEN SeenTo(runtime[w]) ELSE runtime[v]]
  OBVIOUS
<1>2. Gone(w) = [v \in Runtimes |-> IF v = w THEN Left(runtime[w]) ELSE runtime[v]]
  OBVIOUS
<1>3. Over(Gone(w), w) = [v \in Runtimes |-> IF v = w THEN SeenTo(Left(runtime[w])) ELSE runtime[v]]
  OBVIOUS
<1>4. runtime' = [runtime EXCEPT ![w].ending = "killing"] =>
        Changed(w, [runtime[w] EXCEPT !.ending = "killing"])
  OBVIOUS
<1> QED  BY <1>1, <1>2, <1>3, <1>4

\* Lemma: to create is to put a new thread in the next place.
LEMMA CreateSteps ==
  ASSUME NEW t \in [Runtimes -> RuntimeRecords], NEW c, NEW o, c.created + 1 \in Runtimes,
         t[c.created + 1] = NoRuntime, Create(o, c, t)
  PROVE  Created(c, t)
BY DEF Create, Created, NewThread, NoRuntime

\* Lemma: what is done to a thread keeps its type.
LEMMA RecordTypes ==
  ASSUME NEW r \in RuntimeRecords
  PROVE  /\ \A m \in Orders : Posted(r, m) \in RuntimeRecords
         /\ \A m \in Reports : Reported(r, m) \in RuntimeRecords
         /\ Died(r) \in RuntimeRecords
         /\ r.inbox # <<>> => Read(r) \in RuntimeRecords /\ Head(r.inbox) \in Orders
         /\ r.outbox # <<>> => Listened(r) \in RuntimeRecords /\ Left(r) \in RuntimeRecords
                               /\ Head(r.outbox) \in Reports
         /\ SeenTo(r) \in RuntimeRecords
<1> USE DEF RuntimeRecords
<1>1. r.inbox \in Seq(Orders) /\ r.outbox \in Seq(Reports)
  OBVIOUS
<1>2. Message("exit", 0) \in Reports
  BY DEF Message, Reports
<1>3. \A m \in Orders : Posted(r, m) \in RuntimeRecords
  BY <1>1, Queues DEF Posted
<1>4. \A m \in Reports : Reported(r, m) \in RuntimeRecords
  BY <1>1, Queues DEF Reported
<1>5. Died(r) \in RuntimeRecords
  <2>1. Reported(r, Message("exit", 0)) \in RuntimeRecords /\ <<>> \in Seq(Orders)
    BY <1>2, <1>4
  <2> QED  BY <2>1 DEF Died
<1>6. r.inbox # <<>> => Read(r) \in RuntimeRecords /\ Head(r.inbox) \in Orders
  BY <1>1, Queues DEF Read
<1>7. r.outbox # <<>> => Listened(r) \in RuntimeRecords /\ Head(r.outbox) \in Reports
  BY <1>1, Queues DEF Listened
<1>8. 0 \in Settings
  BY DEF Settings
<1>9. r.outbox # <<>> => Left(r) \in RuntimeRecords
  BY <1>7, <1>8 DEF Left
<1>10. SeenTo(r) \in RuntimeRecords
  BY DEF SeenTo
<1> QED  BY <1>3, <1>4, <1>5, <1>6, <1>7, <1>9, <1>10

\* Lemma: the messages there are.
LEMMA MessageTypes ==
  /\ \A k \in {"ready", "failure", "error", "exit", "stopped"} : Message(k, 0) \in Reports
  /\ \A v \in Settings : Message("snapshot", v) \in Reports /\ Message("setSetting", v) \in Orders
  /\ \A v \in Requests : Message("answer", v) \in Reports /\ Message("readMemory", v) \in Orders
  /\ Message("shutdown", 0) \in Orders
  /\ \A m \in Orders : m.kind = "setSetting" => m.value \in Settings
  /\ \A m \in Orders : m.kind = "readMemory" => m.value \in Requests
  /\ \A m \in Reports : m.kind = "snapshot" => m.value \in Settings
BY DEF Message, Orders, Reports

\* Lemma: a runtime that is created is one of the session's.
LEMMA RoomToCreate ==
  ASSUME Types, Counted, Phases, Threads
  PROVE  /\ reload.at \notin {"idle", "starting"} => client.created + 1 \in Runtimes
         /\ 1 \in Runtimes
         /\ \A w \in Runtimes : reload.at = "terminating" /\ reload.runtime = w => w # client.created + 1
         /\ client.created + 1 \in Runtimes => runtime[client.created + 1] = NoRuntime
<1>1. reload.at \notin {"idle", "starting"} => client.created + 1 \in Runtimes
  BY DEF Counted, WillCreate, Runtimes, Types
<1>2. 1 \in Runtimes
  BY DEF Runtimes
<1>3. client.created + 1 \in Runtimes => runtime[client.created + 1] = NoRuntime
  BY DEF Threads, Types
<1>4. \A w \in Runtimes : reload.at = "terminating" /\ reload.runtime = w => w # client.created + 1
  BY DEF Threads, Types, Ending, NoRuntime
<1> QED  BY <1>1, <1>2, <1>3, <1>4

\* What happens to threads and the client when one has ended.
ThreadGoes(w) ==
  \/ /\ reload = [at |-> "terminating", runtime |-> w] /\ UNCHANGED stop
     /\ client.created + 1 \in Runtimes \ {w} /\ runtime[client.created + 1] = NoRuntime
     /\ \/ /\ runtime[w].exited /\ TimerExpires(w)
           /\ Created(client, Over(runtime, w)) /\ Create("reload", client, Over(runtime, w))
        \/ /\ runtime[w].ending = "killing" /\ Exited(w)
           /\ Created(HeardExit(w), Over(Gone(w), w)) /\ Create("reload", HeardExit(w), Over(Gone(w), w))
  \/ /\ reload # [at |-> "terminating", runtime |-> w] /\ UNCHANGED operations
     /\ stop' = [at |-> "returned", runtime |-> None]
     /\ \/ runtime[w].exited /\ TimerExpires(w) /\ client' = client /\ Changed(w, SeenTo(runtime[w]))
        \/ /\ runtime[w].ending = "killing" /\ Exited(w)
           /\ client' = HeardExit(w) /\ Changed(w, SeenTo(Left(runtime[w])))
  \/ /\ UNCHANGED <<operations, stop>>
     /\ \/ /\ ~runtime[w].exited /\ TimerExpires(w) /\ client' = client
           /\ Changed(w, [runtime[w] EXCEPT !.ending = "killing"])
        \/ /\ runtime[w].ending # "killing" /\ Exited(w)
           /\ client' = HeardExit(w) /\ Changed(w, Left(runtime[w]))

\* Lemma: a thread that ends, or whose timer fires, changes the threads as ThreadGoes says.
LEMMA ThreadGoesWhere ==
  ASSUME Types, Counted, Phases, Threads, NEW w \in Runtimes, TimerExpires(w) \/ Exited(w)
  PROVE  ThreadGoes(w)
<1>1. runtime \in [Runtimes -> RuntimeRecords]
  BY DEF Types
<1>2. HeardExit(w).created = client.created
  BY DEF HeardExit, Types
<1>3. reload = [at |-> "terminating", runtime |-> w] =>
        client.created + 1 \in Runtimes \ {w} /\ runtime[client.created + 1] = NoRuntime
  BY RoomToCreate
<1>4. CASE TimerExpires(w)
  <2>1. CASE Create("reload", client, Over(runtime, w)) /\ reload = [at |-> "terminating", runtime |-> w]
             /\ UNCHANGED stop /\ runtime[w].exited
    <3>1. /\ Over(runtime, w) \in [Runtimes -> RuntimeRecords]
          /\ Over(runtime, w)[client.created + 1] = NoRuntime
      <4>1. SeenTo(runtime[w]) \in RuntimeRecords
        BY <1>1, RecordTypes
      <4>2. Over(runtime, w) = [v \in Runtimes |-> IF v = w THEN SeenTo(runtime[w]) ELSE runtime[v]]
        BY <1>1, EndSteps
      <4>3. client.created + 1 \in Runtimes \ {w} /\ runtime[client.created + 1] = NoRuntime
        BY <1>3, <2>1
      <4> QED  BY ONLY <1>1, <4>1, <4>2, <4>3
    <3>2. Created(client, Over(runtime, w))
      BY <1>3, <2>1, <3>1, CreateSteps
    <3> QED  BY <1>3, <1>4, <2>1, <3>2 DEF ThreadGoes
  <2>2. CASE runtime' = Over(runtime, w) /\ client' = client /\ UNCHANGED operations
             /\ runtime[w].exited /\ stop' = [Idle EXCEPT !.at = "returned"]
             /\ reload # [at |-> "terminating", runtime |-> w]
    <3>1. Changed(w, SeenTo(runtime[w]))
      BY <1>1, <2>2, EndSteps DEF Changed
    <3> QED  BY <1>4, <2>2, <3>1 DEF ThreadGoes, Idle
  <2>3. CASE runtime' = [runtime EXCEPT ![w].ending = "killing"] /\ ~runtime[w].exited
             /\ UNCHANGED <<client, operations, stop>>
    <3>1. Changed(w, [runtime[w] EXCEPT !.ending = "killing"])
      BY <1>1, <2>3, EndSteps
    <3> QED  BY <1>4, <2>3, <3>1 DEF ThreadGoes
  <2> QED  BY <1>4, <2>1, <2>2, <2>3, TimerExpiresWhere
<1>5. CASE Exited(w)
  <2>1. CASE Create("reload", HeardExit(w), Over(Gone(w), w)) /\ reload = [at |-> "terminating", runtime |-> w]
             /\ UNCHANGED stop /\ runtime[w].ending = "killing"
    <3>1. /\ Over(Gone(w), w) \in [Runtimes -> RuntimeRecords]
          /\ Over(Gone(w), w)[client.created + 1] = NoRuntime
      <4>1. Left(runtime[w]) \in RuntimeRecords
        BY <1>1, <1>5, RecordTypes DEF Exited, Hears
      <4>2. SeenTo(Left(runtime[w])) \in RuntimeRecords
        BY <4>1, RecordTypes
      <4>3. Over(Gone(w), w) = [v \in Runtimes |-> IF v = w THEN SeenTo(Left(runtime[w])) ELSE runtime[v]]
        BY <1>1, EndSteps
      <4>4. client.created + 1 \in Runtimes \ {w} /\ runtime[client.created + 1] = NoRuntime
        BY <1>3, <2>1
      <4> QED  BY ONLY <1>1, <4>2, <4>3, <4>4
    <3>2. Created(HeardExit(w), Over(Gone(w), w))
      BY <1>2, <1>3, <2>1, <3>1, CreateSteps
    <3> QED  BY <1>3, <1>5, <2>1, <3>2 DEF ThreadGoes
  <2>2. CASE runtime' = Over(Gone(w), w) /\ client' = HeardExit(w) /\ UNCHANGED operations
             /\ runtime[w].ending = "killing" /\ stop' = [Idle EXCEPT !.at = "returned"]
             /\ reload # [at |-> "terminating", runtime |-> w]
    <3>1. Changed(w, SeenTo(Left(runtime[w])))
      BY <1>1, <2>2, EndSteps DEF Changed
    <3> QED  BY <1>5, <2>2, <3>1 DEF ThreadGoes, Idle
  <2>3. CASE runtime' = Gone(w) /\ client' = HeardExit(w) /\ UNCHANGED <<operations, stop>>
             /\ runtime[w].ending # "killing"
    <3>1. Changed(w, Left(runtime[w]))
      BY <1>1, <2>3, EndSteps DEF Changed
    <3> QED  BY <1>5, <2>3, <3>1 DEF ThreadGoes
  <2> QED  BY <1>5, <2>1, <2>2, <2>3, ExitedWhere
<1> QED  BY <1>4, <1>5

\* What happens to threads and the client when a build has finished.
BuildGoes(o) ==
  \/ /\ client.worker = None /\ Create(o, client, runtime) /\ Created(client, runtime)
     /\ client.created + 1 \in Runtimes /\ runtime[client.created + 1] = NoRuntime
     /\ reload.at # "terminating"
  \/ /\ client.worker # None /\ o = "reload" /\ client' = Terminate(client) /\ UNCHANGED launch
     /\ reload.at # "terminating" /\ reload' = [at |-> "terminating", runtime |-> client.worker]
     /\ Changed(client.worker,
                [Posted(runtime[client.worker], Message("shutdown", 0)) EXCEPT !.ending = "waiting"])

\* Lemma: a build that ends changes the threads as BuildGoes says.
LEMMA BuildGoesWhere ==
  ASSUME Types, Counted, Phases, Threads, NEW o \in Operations, Built(o)
  PROVE  BuildGoes(o)
<1>1. runtime \in [Runtimes -> RuntimeRecords] /\ client.worker \in Runtimes \cup {None}
  BY DEF Types
<1>2. reload.at # "terminating"
  BY BuiltWhere, TwoOperations DEF Phases
<1>3. CASE client.worker = None /\ Create(o, client, runtime)
  <2>1. client.created + 1 \in Runtimes
    <3>1. CASE o = "launch"  BY <3>1, BuiltWhere, RoomToCreate
    <3>2. CASE o = "reload"  BY <3>2, BuiltWhere, RoomToCreate, TwoOperations
    <3> QED  BY <3>1, <3>2, TwoOperations
  <2>2. runtime[client.created + 1] = NoRuntime
    BY <2>1, RoomToCreate
  <2>3. Created(client, runtime)
    BY <1>1, <1>3, <2>1, <2>2, CreateSteps
  <2> QED  BY <1>2, <1>3, <2>1, <2>2, <2>3 DEF BuildGoes
<1>4. CASE /\ client.worker # None /\ o = "reload" /\ client' = Terminate(client) /\ UNCHANGED launch
           /\ runtime' = Shutdown(runtime, client.worker)
           /\ reload' = [at |-> "terminating", runtime |-> client.worker]
  <2>1. Changed(client.worker,
                [Posted(runtime[client.worker], Message("shutdown", 0)) EXCEPT !.ending = "waiting"])
    BY <1>1, <1>4, ExtensionSteps
  <2> QED  BY <1>2, <1>4, <2>1 DEF BuildGoes
<1> QED  BY <1>3, <1>4, BuiltWhere

\* Lemma: a change of one thread keeps the type of the threads.
LEMMA ChangedType ==
  ASSUME runtime \in [Runtimes -> RuntimeRecords], NEW w \in Runtimes, NEW r \in RuntimeRecords, Changed(w, r)
  PROVE  runtime' \in [Runtimes -> RuntimeRecords]
BY DEF Changed

\* Lemma: what Created makes are threads.
LEMMA CreatedType ==
  ASSUME NEW c, c.settings \in Settings, NEW t \in [Runtimes -> RuntimeRecords], Created(c, t)
  PROVE  runtime' \in [Runtimes -> RuntimeRecords]
<1>1. <<>> \in Seq(Orders) /\ <<>> \in Seq(Reports)
  OBVIOUS
<1>2. NewThread(c) \in RuntimeRecords
  BY <1>1 DEF NewThread, NoRuntime, RuntimeRecords
<1> QED  BY <1>2 DEF Created

\* Lemma: the threads keep their type, in each kind of step.
LEMMA ThreadTypesKept ==
  ASSUME Types, Counted, Phases, Threads, [Next]_vars
  PROVE  runtime' \in [Runtimes -> RuntimeRecords]
<1>0. /\ runtime \in [Runtimes -> RuntimeRecords] /\ client.worker \in Runtimes \cup {None}
      /\ client.settings \in Settings
  BY DEF Types
<1>1. CASE UNCHANGED runtime  BY <1>0, <1>1
<1>2. ASSUME NEW w \in Runtimes, Load(w) \/ LoadFailsOrTraps(w) \/ Hang(w) \/ Crash(w) \/ Kill(w)
      PROVE  runtime' \in [Runtimes -> RuntimeRecords]
  <2>1. runtime[w] \in RuntimeRecords  BY <1>0
  <2>2. \A k \in {"ready", "failure", "error"} : Reported(runtime[w], Message(k, 0)) \in RuntimeRecords
    BY <2>1, RecordTypes, MessageTypes
  <2>3. /\ [Reported(runtime[w], Message("ready", 0)) EXCEPT !.state = "running"] \in RuntimeRecords
        /\ [Reported(runtime[w], Message("failure", 0)) EXCEPT !.state = "ended"] \in RuntimeRecords
        /\ [runtime[w] EXCEPT !.state = "hung"] \in RuntimeRecords
    BY <2>1, <2>2 DEF RuntimeRecords
  <2>4. /\ Died(Reported(runtime[w], Message("error", 0))) \in RuntimeRecords
        /\ Died(runtime[w]) \in RuntimeRecords
    BY <2>1, <2>2, RecordTypes
  <2> QED  BY <1>0, <1>2, <2>3, <2>4, ThreadSteps, ChangedType
<1>3. ASSUME NEW w \in Runtimes, Receive(w)
      PROVE  runtime' \in [Runtimes -> RuntimeRecords]
  <2> DEFINE m == Head(runtime[w].inbox)
  <2>1. runtime[w] \in RuntimeRecords /\ runtime[w].inbox # <<>>  BY <1>0, <1>3, ReceiveSteps
  <2>2. Read(runtime[w]) \in RuntimeRecords /\ m \in Orders  BY <2>1, RecordTypes
  <2>3. CASE m.kind = "setSetting" /\ Changed(w, [Reported(Read(runtime[w]), Message("snapshot", m.value))
                                   EXCEPT !.settings = m.value])
    <3>1. m.value \in Settings /\ Reported(Read(runtime[w]), Message("snapshot", m.value)) \in RuntimeRecords
      BY <2>2, <2>3, RecordTypes, MessageTypes
    <3>2. [Reported(Read(runtime[w]), Message("snapshot", m.value)) EXCEPT !.settings = m.value] \in RuntimeRecords
      BY <3>1 DEF RuntimeRecords
    <3> QED  BY <1>0, <2>3, <3>2, ChangedType
  <2>4. CASE m.kind = "readMemory" /\ Changed(w, Reported(Read(runtime[w]), Message("answer", m.value)))
    BY <1>0, <2>2, <2>4, RecordTypes, MessageTypes, ChangedType
  <2>5. CASE m.kind = "shutdown" /\ Changed(w, [Reported(Read(runtime[w]), Message("stopped", 0))
                                   EXCEPT !.state = IF @ = "running" THEN "ended" ELSE @])
    <3>1. Reported(Read(runtime[w]), Message("stopped", 0)) \in RuntimeRecords
      BY <2>2, RecordTypes, MessageTypes
    <3>2. [Reported(Read(runtime[w]), Message("stopped", 0)) EXCEPT !.state = IF @ = "running" THEN "ended" ELSE @]
             \in RuntimeRecords
      BY <3>1 DEF RuntimeRecords
    <3> QED  BY <1>0, <2>5, <3>2, ChangedType
  <2> QED  BY <1>0, <1>3, <2>3, <2>4, <2>5, ReceiveSteps
<1>4. ASSUME NEW w \in Runtimes, Ready(w) \/ RuntimeFails(w) \/ SnapshotArrives(w) \/ Answered(w) \/ Stopped(w)
      PROVE  runtime' \in [Runtimes -> RuntimeRecords]
  <2>1. runtime[w] \in RuntimeRecords /\ runtime[w].outbox # <<>>
    BY <1>0, <1>4 DEF Ready, RuntimeFails, SnapshotArrives, Answered, Stopped, Hears
  <2>2. Listened(runtime[w]) \in RuntimeRecords  BY <2>1, RecordTypes
  <2>3. [Listened(runtime[w]) EXCEPT !.ending = IF @ = "waiting" THEN "killing" ELSE @] \in RuntimeRecords
    BY <2>2 DEF RuntimeRecords
  <2> QED  BY <1>0, <1>4, <2>2, <2>3, ExtensionSteps, ChangedType
<1>5. ASSUME NEW w \in Runtimes, client.worker = w, ChangeSetting \/ RequestMemory \/ runtime' = Shutdown(runtime, w)
      PROVE  runtime' \in [Runtimes -> RuntimeRecords]
  <2>1. runtime[w] \in RuntimeRecords  BY <1>0
  <2>2. CASE ChangeSetting
    <3>1. Message("setSetting", lastSetting') \in Orders
      BY <2>2, MessageTypes DEF ChangeSetting, Types, Settings
    <3> QED  BY <1>0, <1>5, <2>1, <2>2, <3>1, ExtensionSteps, RecordTypes, ChangedType
  <2>3. CASE RequestMemory
    <3>1. Message("readMemory", client.nextRequestId) \in Orders
      BY <2>3, MessageTypes DEF RequestMemory
    <3> QED  BY <1>0, <1>5, <2>1, <2>3, <3>1, ExtensionSteps, RecordTypes, ChangedType
  <2>4. CASE runtime' = Shutdown(runtime, w)
    <3>1. Posted(runtime[w], Message("shutdown", 0)) \in RuntimeRecords
      BY <2>1, RecordTypes, MessageTypes
    <3>2. [Posted(runtime[w], Message("shutdown", 0)) EXCEPT !.ending = "waiting"] \in RuntimeRecords
      BY <3>1 DEF RuntimeRecords
    <3> QED  BY <1>0, <2>4, <3>2, ExtensionSteps, ChangedType
  <2> QED  BY <1>5, <2>2, <2>3, <2>4
<1>6. ASSUME NEW w \in Runtimes, TimerExpires(w) \/ Exited(w)
      PROVE  runtime' \in [Runtimes -> RuntimeRecords]
  <2>1. runtime[w] \in RuntimeRecords /\ SeenTo(runtime[w]) \in RuntimeRecords  BY <1>0, RecordTypes
  <2>2. Exited(w) => Left(runtime[w]) \in RuntimeRecords /\ SeenTo(Left(runtime[w])) \in RuntimeRecords
    BY <2>1, RecordTypes DEF Exited, Hears
  <2>3. /\ Over(runtime, w) \in [Runtimes -> RuntimeRecords]
        /\ Exited(w) => Over(Gone(w), w) \in [Runtimes -> RuntimeRecords]
    <3>1. /\ Over(runtime, w) = [v \in Runtimes |-> IF v = w THEN SeenTo(runtime[w]) ELSE runtime[v]]
          /\ Over(Gone(w), w) = [v \in Runtimes |-> IF v = w THEN SeenTo(Left(runtime[w])) ELSE runtime[v]]
      BY <1>0, EndSteps
    <3> QED  BY <1>0, <2>1, <2>2, <3>1
  <2>4. [runtime[w] EXCEPT !.ending = "killing"] \in RuntimeRecords  BY <2>1 DEF RuntimeRecords
  <2>5. HeardExit(w).settings = client.settings  BY DEF HeardExit, Types
  <2>6. ThreadGoes(w)  BY <1>6, ThreadGoesWhere
  <2> QED  BY <1>0, <2>1, <2>2, <2>3, <2>4, <2>5, <2>6, CreatedType, ChangedType DEF ThreadGoes
<1>7. ASSUME NEW o \in Operations, Built(o)
      PROVE  runtime' \in [Runtimes -> RuntimeRecords]
  <2>1. BuildGoes(o)  BY <1>7, BuildGoesWhere
  <2>2. CASE client.worker = None  BY <1>0, <2>1, <2>2, CreatedType DEF BuildGoes
  <2>3. CASE client.worker # None
    BY <1>0, <1>5, <1>7, <2>3, BuiltWhere DEF BuildGoes
  <2> QED  BY <2>2, <2>3
<1>8. CASE Stop
  BY <1>0, <1>1, <1>5, <1>8 DEF Stop
<1>9. CASE ChangeSetting \/ RequestMemory
  BY <1>0, <1>5, <1>9 DEF ChangeSetting, RequestMemory
<1>10. ASSUME NEW o \in Operations, Opened(o) \/ Saved(o) \/ BuildFails(o)
       PROVE  UNCHANGED runtime
  BY <1>10 DEF Opened, Saved, BuildFails
<1>11. CASE Edit \/ Save \/ Write \/ FileReload \/ Restart \/ Launch \/ CompilerCreated \/ CompilerFails \/ UNCHANGED vars
  BY <1>1, <1>11 DEF Edit, Save, Write, FileReload, Restart, Launch, CompilerCreated, CompilerFails, vars
<1> QED
  BY <1>1, <1>2, <1>3, <1>4, <1>6, <1>7, <1>8, <1>9, <1>10, <1>11 DEF Next, Work, Fault, User

\* Lemma: the client keeps its type.
LEMMA ClientTypesKept ==
  ASSUME Types, Counted, Phases, Threads, [Next]_vars
  PROVE  client' \in Clients
<1> USE DEF Types
<1>1. CASE UNCHANGED client  BY <1>1
<1>2. ASSUME NEW o \in Operations, NEW c \in Clients, NEW t, c.created + 1 \in Runtimes, Create(o, c, t)
      PROVE  client' \in Clients
  <2>1. client' = [c EXCEPT !.worker = c.created + 1, !.created = c.created + 1, !.intentional = FALSE]
    BY <1>2 DEF Create
  <2>2. c.created + 1 \in Nat
    OBVIOUS
  <2> QED  BY ONLY <2>1, <2>2, <1>2, c \in Clients DEF Clients
<1>3. ASSUME NEW o \in Operations, Built(o)
      PROVE  client' \in Clients
  <2>1. BuildGoes(o)  BY <1>3, BuildGoesWhere
  <2>2. CASE client.worker = None  BY <1>2, <2>1, <2>2 DEF BuildGoes
  <2>3. CASE client.worker # None  BY <2>1, <2>3 DEF BuildGoes, Terminate
  <2> QED  BY <2>2, <2>3
<1>4. ASSUME NEW w \in Runtimes, TimerExpires(w) \/ Exited(w)
      PROVE  client' \in Clients
  <2>1. ThreadGoes(w)  BY <1>4, ThreadGoesWhere
  <2>2. HeardExit(w) \in Clients /\ HeardExit(w).created = client.created  BY DEF HeardExit
  <2> QED  BY <1>2, <2>1, <2>2, TwoOperations DEF ThreadGoes
<1>5. ASSUME NEW w \in Runtimes, RuntimeFails(w) \/ SnapshotArrives(w) \/ Answered(w)
      PROVE  client' \in Clients
  <2>1. CASE SnapshotArrives(w)
    <3>1. Head(runtime[w].outbox) \in Reports
      BY <2>1, RecordTypes DEF SnapshotArrives, Hears
    <3> QED  BY <2>1, <3>1, MessageTypes DEF SnapshotArrives, Hears
  <2>2. CASE RuntimeFails(w)  BY <2>2 DEF RuntimeFails, Fails
  <2>3. CASE Answered(w)  BY <2>3 DEF Answered
  <2> QED  BY <1>5, <2>1, <2>2, <2>3
<1>6. CASE RequestMemory
  <2> DEFINE request == [id |-> client.nextRequestId, of |-> client.worker]
  <2>1. client' = [client EXCEPT !.nextRequestId = @ + 1, !.pending = @ \cup {request}]
    BY <1>6 DEF RequestMemory
  <2>2. request \in [id : Requests, of : Runtimes] /\ client.nextRequestId + 1 \in 1 .. MaxRequests + 1
    BY <1>6 DEF RequestMemory, Requests
  <2>3. client \in Clients
    OBVIOUS
  <2> QED  BY ONLY <2>1, <2>2, <2>3 DEF Clients
<1>7. CASE Stop
  BY <1>7 DEF Stop, Terminate
<1>8. CASE Edit \/ Save \/ Write \/ FileReload \/ Restart \/ Launch \/ CompilerCreated \/ CompilerFails
             \/ ChangeSetting \/ UNCHANGED vars
  BY <1>8 DEF Edit, Save, Write, FileReload, Restart, Launch, CompilerCreated, CompilerFails, ChangeSetting, vars
<1>9. ASSUME NEW o \in Operations, Opened(o) \/ Saved(o) \/ BuildFails(o)
      PROVE  UNCHANGED client
  BY <1>9 DEF Opened, Saved, BuildFails
<1>10. ASSUME NEW w \in Runtimes, \/ Load(w) \/ LoadFailsOrTraps(w) \/ Hang(w) \/ Crash(w) \/ Kill(w)
                                  \/ Receive(w) \/ Ready(w) \/ Stopped(w)
       PROVE  UNCHANGED client
  BY <1>10 DEF Load, LoadFailsOrTraps, Hang, Crash, Kill, Receive, Ready, Stopped, Thread
<1> QED
  BY <1>1, <1>3, <1>4, <1>5, <1>6, <1>7, <1>8, <1>9, <1>10 DEF Next, Work, Fault, User

\* Lemma: the fields of the session, and what is counted and remembered, keep their types.
LEMMA ScalarTypesKept ==
  ASSUME Types, Counted, Phases, Threads, [Next]_vars
  PROVE  ScalarTypes'
<1> USE DEF Types
<1>1. CASE Edit
  BY <1>1 DEF Edit, program, ghosts, operations, Revisions
<1>2. CASE Save
  BY <1>2 DEF Save, program, ghosts, operations, QueueReload
<1>3. CASE Write
  BY <1>3 DEF Write, program, ghosts, operations, Revisions
<1>4. CASE FileReload
  <2>1. requested' = requested + 1 /\ session' = [session EXCEPT !.timer = FALSE]
        /\ UNCHANGED <<source, revision, saved, stop, attempted, missed, alarmed, lastSetting, lost, quiet, failures>>
    BY <1>4 DEF FileReload, QueueReload, program, ghosts
  <2>2. requested + 1 \in Nat
    OBVIOUS
  <2> QED  BY ONLY <2>1, <2>2, ScalarTypes DEF ScalarTypes
<1>5. CASE Restart
  BY <1>5 DEF Restart, program, ghosts, operations, QueueReload
<1>6. CASE ChangeSetting
  BY <1>6 DEF ChangeSetting, program, ghosts, operations, Settings
<1>7. CASE RequestMemory
  BY <1>7 DEF RequestMemory, program, ghosts, operations
<1>8. CASE Launch
  BY <1>8 DEF Launch, program, ghosts, operations
<1>9. CASE CompilerCreated
  BY <1>9 DEF CompilerCreated, program, ghosts, operations
<1>10. CASE Stop
  <2>1. /\ session' = [session EXCEPT !.stopped = TRUE, !.timer = FALSE, !.watching = FALSE, !.compiler = "none"]
        /\ UNCHANGED <<program, requested, attempted, missed, alarmed, lastSetting, lost, failures>>
        /\ quiet' \in BOOLEAN
    BY <1>10 DEF Stop
  <2>2. stop' \in [at : {"idle", "terminating", "returned"}, runtime : Runtimes \cup {None}]
    BY <1>10 DEF Stop, Idle
  <2> QED  BY ONLY <2>1, <2>2, ScalarTypes DEF program, ScalarTypes
<1>11. CASE CompilerFails
  BY <1>11 DEF CompilerFails, program, ghosts, operations
<1>12. ASSUME NEW o \in Operations, Opened(o)  PROVE ScalarTypes'
  <2>1. /\ session' \in {session, [session EXCEPT !.suppress = TRUE]}
        /\ attempted' \in {attempted, revision} /\ missed' \in {missed, FALSE}
        /\ UNCHANGED <<program, stop, requested, alarmed, lastSetting, lost, quiet, failures>>
    BY <1>12 DEF Opened, Compiles, Reads
  <2>2. session' \in [program : BOOLEAN, compiler : {"none", "up", "failed"}, watching : BOOLEAN,
                       timer : BOOLEAN, suppress : BOOLEAN, stopped : BOOLEAN]
    BY <2>1
  <2> QED  BY ONLY <2>1, <2>2, ScalarTypes DEF program, ScalarTypes
<1>13. ASSUME NEW o \in Operations, Saved(o)  PROVE ScalarTypes'
  <2>1. CASE o = "launch"
    BY <2>1, <1>13 DEF Saved, program, ghosts, operations, Compiles, Reads
  <2>2. CASE o = "reload"
    BY <2>2, <1>13 DEF Saved, program, ghosts, operations, Compiles, Reads
  <2> QED  BY <2>1, <2>2, TwoOperations
<1>14. ASSUME NEW o \in Operations, Built(o)  PROVE ScalarTypes'
  <2>1. BuildEndsTo(o)  BY <1>14, BuildEnds
  <2>2. CASE source  BY <2>1, <2>2 DEF BuildEndsTo, program
  <2>3. CASE ~source  BY <2>1, <2>3 DEF BuildEndsTo, program, Reads
  <2> QED  BY <2>2, <2>3
<1>15. ASSUME NEW o \in Operations, BuildFails(o)  PROVE ScalarTypes'
  <2>1. /\ UNCHANGED <<source, revision, saved, session, stop, requested, alarmed, lastSetting, lost, quiet, failures>>
        /\ attempted' \in {attempted, revision} /\ missed' \in BOOLEAN
    BY <1>15 DEF BuildFails, Reads, program
  <2> QED  BY ONLY <2>1, ScalarTypes DEF ScalarTypes
<1>16. ASSUME NEW w \in Runtimes, Load(w)  PROVE ScalarTypes'
  BY <1>16 DEF Load, program, ghosts, operations, Thread
<1>17. ASSUME NEW w \in Runtimes, LoadFailsOrTraps(w)  PROVE ScalarTypes'
  BY <1>17 DEF LoadFailsOrTraps, program, ghosts, operations, Thread, Misfortune
<1>18. ASSUME NEW w \in Runtimes, Hang(w)  PROVE ScalarTypes'
  BY <1>18 DEF Hang, program, ghosts, operations, Thread, Misfortune
<1>19. ASSUME NEW w \in Runtimes, Crash(w)  PROVE ScalarTypes'
  BY <1>19 DEF Crash, program, ghosts, operations, Misfortune
<1>20. ASSUME NEW w \in Runtimes, Receive(w)  PROVE ScalarTypes'
  BY <1>20 DEF Receive, program, ghosts, operations, Thread
<1>21. ASSUME NEW w \in Runtimes, Kill(w)  PROVE ScalarTypes'
  BY <1>21 DEF Kill, program, ghosts, operations, Thread
<1>22. ASSUME NEW w \in Runtimes, Ready(w)  PROVE ScalarTypes'
  BY <1>22 DEF Ready, program, ghosts, operations
<1>23. ASSUME NEW w \in Runtimes, RuntimeFails(w)  PROVE ScalarTypes'
  BY <1>23 DEF RuntimeFails, program, ghosts, operations, Fails
<1>24. ASSUME NEW w \in Runtimes, SnapshotArrives(w)  PROVE ScalarTypes'
  BY <1>24 DEF SnapshotArrives, program, ghosts, operations
<1>25. ASSUME NEW w \in Runtimes, Answered(w)  PROVE ScalarTypes'
  BY <1>25 DEF Answered, program, ghosts, operations
<1>26. ASSUME NEW w \in Runtimes, Stopped(w)  PROVE ScalarTypes'
  BY <1>26 DEF Stopped, program, ghosts, operations
<1>27. ASSUME NEW w \in Runtimes, TimerExpires(w)  PROVE ScalarTypes'
  <2>1. ThreadEndsTo(w)  BY <1>27, ThreadEnds
  <2>2. lost' \in BOOLEAN /\ UNCHANGED alarmed
    BY <1>27 DEF TimerExpires
  <2> QED  BY <2>1, <2>2 DEF ThreadEndsTo, program
<1>28. ASSUME NEW w \in Runtimes, Exited(w)  PROVE ScalarTypes'
  <2>1. ThreadEndsTo(w)  BY <1>28, ThreadEnds
  <2>2. alarmed' \in BOOLEAN /\ UNCHANGED lost
    BY <1>28 DEF Exited
  <2> QED  BY <2>1, <2>2 DEF ThreadEndsTo, program
<1>29. CASE UNCHANGED vars  BY <1>29 DEF program, ghosts, operations, vars
<1> QED
  BY <1>1, <1>2, <1>3, <1>4, <1>5, <1>6, <1>7, <1>8, <1>9, <1>10, <1>11, <1>12, <1>13, <1>14, <1>15, <1>16, <1>17, <1>18, <1>19, <1>20, <1>21, <1>22, <1>23, <1>24, <1>25, <1>26, <1>27, <1>28, <1>29 DEF Next, Work, Fault, User

\* Lemma: what the operations await keeps its type.
LEMMA OperationTypesKept ==
  ASSUME Types, Counted, Phases, Threads, [Next]_vars
  PROVE  OperationTypes'
<1> USE DEF Types
<1>1. CASE UNCHANGED operations  BY <1>1 DEF operations
<1>2. ASSUME NEW o \in Operations, NEW s, Ends(o, s)
      PROVE  OperationTypes'
  <2>1. CASE o = "launch"  BY <1>2, <2>1 DEF Ends, Idle
  <2>2. CASE o = "reload"  BY <1>2, <2>2 DEF Ends, ReloadEnds, Building, Building1, Idle
  <2> QED  BY <2>1, <2>2, TwoOperations
<1>3. ASSUME NEW o \in Operations, NEW at \in Building1, Moves(o, [Idle EXCEPT !.at = at])
      PROVE  OperationTypes'
  BY <1>3, TwoOperations DEF Moves, Idle
<1>4. ASSUME NEW s, QueueReload(s), UNCHANGED launch
      PROVE  OperationTypes'
  BY <1>4 DEF QueueReload, Building, Building1, Idle
<1>5. CASE Save \/ FileReload \/ Restart
  BY <1>1, <1>4, <1>5 DEF Save, FileReload, Restart, operations
<1>6. CASE Launch \/ CompilerCreated
  BY <1>6 DEF Launch, CompilerCreated, Building, Building1, Idle
<1>7. CASE CompilerFails \/ Stop
  BY <1>1, <1>2, <1>7, RejectsWhere, TwoOperations DEF CompilerFails, Stop
<1>8. ASSUME NEW o \in Operations, Opened(o) \/ Saved(o) \/ BuildFails(o)
      PROVE  OperationTypes'
  BY <1>2, <1>3, <1>8 DEF Opened, Saved, BuildFails, Compiles, Building1
<1>9. ASSUME NEW o \in Operations, Built(o)
      PROVE  OperationTypes'
  <2>1. BuildEndsTo(o) /\ BuildGoes(o)  BY <1>9, BuildEnds, BuildGoesWhere
  <2>2. 1 \in Runtimes  BY RoomToCreate
  <2> QED  BY <2>1, <2>2 DEF BuildEndsTo, BuildGoes
<1>10. ASSUME NEW w \in Runtimes, Ready(w) \/ RuntimeFails(w)
       PROVE  OperationTypes'
  BY <1>1, <1>2, <1>10, SettlesWhere, TwoOperations DEF Ready, RuntimeFails
<1>11. ASSUME NEW w \in Runtimes, TimerExpires(w) \/ Exited(w)
       PROVE  OperationTypes'
  <2>1. ThreadEndsTo(w)  BY <1>11, ThreadEnds
  <2>2. reload.at = "terminating" => client.created + 1 \in Runtimes  BY RoomToCreate
  <2> QED  BY <2>1, <2>2 DEF ThreadEndsTo
<1>12. CASE Edit \/ Write \/ ChangeSetting \/ RequestMemory \/ UNCHANGED vars
  BY <1>1, <1>12 DEF Edit, Write, ChangeSetting, RequestMemory, vars
<1>13. ASSUME NEW w \in Runtimes, \/ Load(w) \/ LoadFailsOrTraps(w) \/ Hang(w) \/ Crash(w) \/ Kill(w) \/ Receive(w)
                                  \/ SnapshotArrives(w) \/ Answered(w) \/ Stopped(w)
       PROVE  UNCHANGED operations
  BY <1>13 DEF Load, LoadFailsOrTraps, Hang, Crash, Kill, Receive, SnapshotArrives, Answered, Stopped, Thread
<1> QED
  BY <1>1, <1>5, <1>6, <1>7, <1>8, <1>9, <1>10, <1>11, <1>12, <1>13 DEF Next, Work, Fault, User

-----------------------------------------------------------------------------
(* Who ends a thread, and what is heard of it. *)

\* Lemma: a thread stays sound, whatever it or the extension does.
LEMMA SoundRecords ==
  ASSUME NEW r \in RuntimeRecords, Sound(r)
  PROVE  /\ \A m \in Orders : Sound(Posted(r, m))
         /\ r.state # "dead" => \A m \in Reports : m.kind # "exit" => Sound(Reported(r, m))
         /\ r.state # "dead" => Sound(Died(r))
         /\ r.inbox # <<>> => Sound(Read(r))
         /\ r.outbox # <<>> => Sound(Listened(r))
         /\ r.outbox # <<>> /\ Head(r.outbox).kind = "exit" => Sound(Left(r))
         /\ Sound(SeenTo(r))
<1> USE DEF Sound, RuntimeRecords
<1>1. r.inbox \in Seq(Orders) /\ r.outbox \in Seq(Reports)
  OBVIOUS
<1>2. \A m \in Orders : Sound(Posted(r, m))
  BY DEF Posted
<1>3. ASSUME r.state # "dead", NEW m \in Reports, m.kind # "exit"
      PROVE  Sound(Reported(r, m))
  <2> DEFINE q == Append(r.outbox, m)
  <2>1. Len(q) = Len(r.outbox) + 1 /\ q[Len(r.outbox) + 1] = m /\ \A n \in 1 .. Len(r.outbox) : q[n] = r.outbox[n]
    BY <1>1, Queues
  <2>2. \A n \in 1 .. Len(q) : q[n].kind # "exit"
    BY <1>1, <1>3, <2>1, Queues
  <2> HIDE DEF q
  <2>3. Reported(r, m) = [r EXCEPT !.outbox = q]
    BY DEF Reported, q
  <2> QED  BY <1>3, <2>2, <2>3
<1>4. ASSUME r.state # "dead"
      PROVE  Sound(Died(r))
  <2> DEFINE q == Append(r.outbox, Message("exit", 0))
  <2>1. Message("exit", 0) \in Reports
    BY MessageTypes
  <2>2. Len(q) = Len(r.outbox) + 1 /\ \A n \in 1 .. Len(r.outbox) : q[n] = r.outbox[n]
    BY <1>1, <2>1, Queues
  <2>3. \A n \in 1 .. Len(q) : q[n].kind = "exit" => n = Len(q)
    BY <1>1, <1>4, <2>2, Queues
  <2> HIDE DEF q
  <2>4. Died(r) = [r EXCEPT !.outbox = q, !.state = "dead", !.inbox = <<>>]
    BY DEF Died, Reported, q
  <2> QED  BY <1>4, <2>3, <2>4
<1>5. ASSUME r.inbox # <<>>
      PROVE  Sound(Read(r))
  BY <1>5 DEF Read
<1>6. ASSUME r.outbox # <<>>
      PROVE  Sound(Listened(r)) /\ (Head(r.outbox).kind = "exit" => Sound(Left(r)))
  <2> DEFINE q == Tail(r.outbox)
  <2>1. /\ Len(r.outbox) \in Nat \ {0} /\ Len(q) = Len(r.outbox) - 1 /\ Head(r.outbox) = r.outbox[1]
        /\ \A n \in 1 .. Len(q) : q[n] = r.outbox[n + 1]
        /\ q \in Seq(Reports)
    BY <1>1, <1>6, Queues
  <2>2. Head(r.outbox).kind = "exit" => q = <<>>
    <3>0. \A n \in 1 .. Len(r.outbox) : r.outbox[n].kind = "exit" => n = Len(r.outbox)
      OBVIOUS
    <3>1. r.outbox[1].kind = "exit" => 1 = Len(r.outbox)
      <4>1. 1 \in 1 .. Len(r.outbox)
        BY <2>1
      <4> QED  BY ONLY <3>0, <4>1
    <3>2. Head(r.outbox).kind = "exit" => Len(q) = 0
      BY <2>1, <3>1
    <3> QED  BY <2>1, <3>2, EmptySeq
  <2>3. \A n \in 1 .. Len(q) : q[n].kind = "exit" => n = Len(q) /\ r.state = "dead"
    BY <2>1
  <2> HIDE DEF q
  <2>4. Listened(r) = [r EXCEPT !.outbox = q] /\ Left(r) = [r EXCEPT !.outbox = q, !.exited = TRUE, !.settings = 0]
    BY DEF Listened, Left, q
  <2>5. Sound(Listened(r))
    BY <1>6, <2>3, <2>4
  <2>6. Head(r.outbox).kind = "exit" => r.state = "dead"
    BY <2>1
  <2>7. Head(r.outbox).kind = "exit" => Sound(Left(r))
    BY <2>2, <2>3, <2>4, <2>6
  <2> QED  BY <2>5, <2>7
<1>7. Sound(SeenTo(r))
  BY DEF SeenTo
<1> QED  BY <1>2, <1>3, <1>4, <1>5, <1>6, <1>7

\* No reload begins or stops waiting for a thread to end.
NoneEnded ==
  \/ UNCHANGED reload
  \/ reload.at # "terminating" /\ reload'.at # "terminating"

\* Lemma: a thread that is not ended, nor heard to be gone, is still whose it was.
LEMMA SameOwner ==
  ASSUME Types, Threads, NEW w \in Runtimes, NEW r \in RuntimeRecords, Changed(w, r),
         w <= client.created, Sound(r), r.state # "none",
         r.ending = runtime[w].ending \/ (Ending(w) /\ r.ending = "killing"),
         r.exited = runtime[w].exited, client'.worker = client.worker, client'.created = client.created,
         UNCHANGED stop, NoneEnded
  PROVE  Threads'
<1>1. runtime'[w] = r /\ \A v \in Runtimes \ {w} : runtime'[v] = runtime[v]
  BY DEF Changed
<1>2. \A v \in Runtimes : /\ Ending(v)' <=> Ending(v)
                          /\ runtime'[v].exited = runtime[v].exited
                          /\ runtime[v].ending = "no" => runtime'[v].ending = "no"
  BY <1>1 DEF Ending
<1>3. client.worker \in Runtimes \cup {None} /\ reload.runtime \in Runtimes \cup {None}
      /\ stop.runtime \in Runtimes \cup {None}
  BY DEF Types
<1>4. Endings'
  BY <1>2, <1>3 DEF Threads, NoneEnded
<1>5. \A v \in Runtimes : /\ v > client.created => runtime'[v] = NoRuntime
                          /\ v <= client.created => runtime'[v].state # "none" /\ Sound(runtime'[v])
  <2>1. client.created \in Nat /\ Runtimes \subseteq Nat
    BY DEF Types, Runtimes
  <2> QED  BY <1>1, <2>1 DEF Threads
<1>6. \A v \in Runtimes : /\ v <= client.created /\ ~Ending(v) /\ client.worker # v => runtime'[v].exited
                          /\ runtime'[v].exited => client.worker # v
  BY <1>2 DEF Threads
<1> HIDE DEF Endings
<1> QED  BY <1>2, <1>4, <1>5, <1>6 DEF Threads, Sound

\* Lemma: the threads and who ends them are left alone.
LEMMA SameThreads ==
  ASSUME Threads, UNCHANGED runtime, client'.worker = client.worker, client'.created = client.created,
         UNCHANGED stop, NoneEnded
  PROVE  Threads'
BY DEF Threads, Ending, NoneEnded

\* Lemma: the end of another operation is such a step.
LEMMA EndsNone ==
  ASSUME NEW o \in Operations, NEW s, Operation(o).at # "terminating", Ends(o, s)
  PROVE  NoneEnded
BY EndsWhere, TwoOperations DEF NoneEnded

\* Lemma: such are the steps that leave the threads alone.
LEMMA ElsewhereNoneEnded ==
  ASSUME Types,
         \/ Edit \/ Save \/ Write \/ FileReload \/ Restart \/ Launch \/ CompilerCreated \/ CompilerFails
         \/ \E o \in Operations : Opened(o) \/ Saved(o) \/ BuildFails(o)
         \/ UNCHANGED vars
  PROVE  NoneEnded /\ UNCHANGED <<runtime, client, stop>>
<1>1. ASSUME NEW s, QueueReload(s)
      PROVE  NoneEnded
  BY <1>1 DEF QueueReload, NoneEnded, Building, Idle
<1>2. CASE Save \/ FileReload \/ Restart
  BY <1>1, <1>2 DEF Save, FileReload, Restart, NoneEnded
<1>3. CASE Edit \/ Write \/ Launch \/ CompilerCreated \/ UNCHANGED vars
  BY <1>3 DEF Edit, Write, Launch, CompilerCreated, vars, operations, NoneEnded
<1>4. CASE CompilerFails
  <2>1. Rejects(session') /\ UNCHANGED <<runtime, client, stop>>
    BY <1>4 DEF CompilerFails
  <2> QED  BY <2>1, RejectsWhere, EndsNone, TwoOperations DEF NoneEnded, operations
<1>5. ASSUME NEW o \in Operations, Opened(o) \/ Saved(o) \/ BuildFails(o)
      PROVE  NoneEnded /\ UNCHANGED <<runtime, client, stop>>
  <2>1. UNCHANGED <<runtime, client, stop>> /\ Operation(o).at # "terminating"
    BY <1>5 DEF Opened, Saved, BuildFails
  <2>2. \/ \E at \in {"saving", "compiling", "stuck"} : Moves(o, [Idle EXCEPT !.at = at])
        \/ \E s : Ends(o, s)
    BY <1>5 DEF Opened, Saved, BuildFails, Compiles
  <2>3. ASSUME NEW at \in {"saving", "compiling", "stuck"}, Moves(o, [Idle EXCEPT !.at = at])
        PROVE  NoneEnded
    BY <2>1, <2>3, MovesWhere, TwoOperations DEF NoneEnded, Idle
  <2> QED  BY <2>1, <2>2, <2>3, EndsNone
<1> QED  BY <1>2, <1>3, <1>4, <1>5

\* Lemma: so does what a thread does, and what is heard of it until its end.
LEMMA ThreadsNoneEnded ==
  ASSUME Types, NEW w \in Runtimes,
         \/ Load(w) \/ LoadFailsOrTraps(w) \/ Hang(w) \/ Crash(w) \/ Kill(w) \/ Receive(w)
         \/ Ready(w) \/ RuntimeFails(w) \/ SnapshotArrives(w) \/ Answered(w) \/ Stopped(w)
  PROVE  NoneEnded /\ UNCHANGED stop /\ client'.worker = client.worker /\ client'.created = client.created
<1>1. CASE Load(w) \/ LoadFailsOrTraps(w) \/ Hang(w) \/ Crash(w) \/ Kill(w) \/ Receive(w)
  BY <1>1 DEF Load, LoadFailsOrTraps, Hang, Crash, Kill, Receive, Thread, operations, NoneEnded
<1>2. CASE SnapshotArrives(w) \/ Answered(w) \/ Stopped(w)
  BY <1>2 DEF SnapshotArrives, Answered, Stopped, operations, NoneEnded, Types
<1>3. CASE Ready(w) \/ RuntimeFails(w)
  <2>1. Settles(w) /\ UNCHANGED stop /\ client'.worker = client.worker /\ client'.created = client.created
    BY <1>3 DEF Ready, RuntimeFails, Fails, Types
  <2> QED  BY <2>1, SettlesWhere, EndsNone, TwoOperations DEF NoneEnded, operations
<1> QED  BY <1>1, <1>2, <1>3

\* Lemma: a step of one thread between its creation and its end.
LEMMA ThreadKept ==
  ASSUME Types, Threads, NEW w \in Runtimes,
         \/ Load(w) \/ LoadFailsOrTraps(w) \/ Hang(w) \/ Crash(w) \/ Kill(w) \/ Receive(w)
         \/ Ready(w) \/ RuntimeFails(w) \/ SnapshotArrives(w) \/ Answered(w)
  PROVE  Threads'
<1> DEFINE r == runtime[w]
<1>1. r \in RuntimeRecords  BY DEF Types
<1>2. w <= client.created
  <2>1. r # NoRuntime
    BY DEF NoRuntime, Load, LoadFailsOrTraps, Hang, Crash, Kill, Receive, Ready, RuntimeFails,
           SnapshotArrives, Answered, Live, Hears
  <2> QED  BY <2>1 DEF Threads, Types, Runtimes
<1>3. Sound(r) /\ r.state # "none"  BY <1>2 DEF Threads
<1>4. NoneEnded /\ UNCHANGED stop /\ client'.worker = client.worker /\ client'.created = client.created
  BY ThreadsNoneEnded
<1>5. ASSUME NEW q \in RuntimeRecords, Changed(w, q), Sound(q), q.state # "none",
             q.ending = r.ending, q.exited = r.exited
      PROVE  Threads'
  BY <1>2, <1>4, <1>5, SameOwner
<1> HIDE DEF r
<1>6. ASSUME NEW m \in Reports, m.kind # "exit", r.state # "dead",
             NEW s \in {"loading", "running", "ended", "hung"}
      PROVE  LET q == [Reported(r, m) EXCEPT !.state = s]
             IN /\ q \in RuntimeRecords /\ Sound(q) /\ q.state # "none"
                /\ q.ending = r.ending /\ q.exited = r.exited
  <2>1. Reported(r, m) \in RuntimeRecords /\ Sound(Reported(r, m))
    BY <1>1, <1>3, <1>6, RecordTypes, SoundRecords
  <2>2. Reported(r, m).ending = r.ending /\ Reported(r, m).exited = r.exited /\ Reported(r, m).state = r.state
    BY <1>1 DEF Reported, RuntimeRecords
  <2> QED  BY <1>6, <2>1, <2>2 DEF Sound, RuntimeRecords
<1>7. ASSUME NEW q \in RuntimeRecords, Sound(q), q.state # "dead"
      PROVE  /\ Died(q) \in RuntimeRecords /\ Sound(Died(q)) /\ Died(q).state = "dead"
             /\ Died(q).ending = q.ending /\ Died(q).exited = q.exited
  <2>1. Died(q) \in RuntimeRecords /\ Sound(Died(q))
    BY <1>7, RecordTypes, SoundRecords
  <2> QED  BY <1>7, <2>1 DEF Died, Reported, RuntimeRecords
<1>8. \A k \in {"ready", "failure", "error"} : Message(k, 0) \in Reports /\ Message(k, 0).kind = k
  BY MessageTypes DEF Message
<1>9. CASE Load(w)
  <2>1. r.state = "loading"  BY <1>9 DEF Load, r
  <2> QED  BY <1>1, <1>5, <1>6, <1>8, <1>9, <2>1, ThreadSteps DEF Types, r
<1>10. CASE LoadFailsOrTraps(w)
  <2>1. r.state # "dead"  BY <1>10 DEF LoadFailsOrTraps, r
  <2> QED  BY <1>1, <1>5, <1>6, <1>8, <1>10, <2>1, ThreadSteps DEF Types, r
<1>11. CASE Hang(w)
  <2>1. r.state # "dead"  BY <1>11 DEF Hang, r
  <2>2. [r EXCEPT !.state = "hung"] \in RuntimeRecords /\ Sound([r EXCEPT !.state = "hung"])
    BY <1>1, <1>3, <2>1 DEF Sound, RuntimeRecords
  <2>3. /\ [r EXCEPT !.state = "hung"].state # "none" /\ [r EXCEPT !.state = "hung"].ending = r.ending
        /\ [r EXCEPT !.state = "hung"].exited = r.exited
    BY <1>1 DEF RuntimeRecords
  <2> QED  BY <1>5, <1>11, <2>2, <2>3, ThreadSteps DEF Types, r
<1>12. CASE Crash(w)
  <2>1. r.state # "dead"  BY <1>12 DEF Crash, Live, r
  <2>2. /\ Reported(r, Message("error", 0)) \in RuntimeRecords /\ Sound(Reported(r, Message("error", 0)))
        /\ Reported(r, Message("error", 0)).state = r.state
        /\ Reported(r, Message("error", 0)).ending = r.ending
        /\ Reported(r, Message("error", 0)).exited = r.exited
    <3>1. Reported(r, Message("error", 0)) \in RuntimeRecords /\ Sound(Reported(r, Message("error", 0)))
      BY <1>1, <1>3, <1>8, <2>1, RecordTypes, SoundRecords
    <3> QED  BY <1>1, <3>1 DEF Reported, RuntimeRecords
  <2>3. Changed(w, Died(Reported(r, Message("error", 0))))  BY <1>12, ThreadSteps DEF Types, r
  <2> QED  BY <1>5, <1>7, <2>1, <2>2, <2>3
<1>13. CASE Kill(w)
  <2>1. r.state # "dead"  BY <1>13 DEF Kill, Live, r
  <2>2. Changed(w, Died(r))  BY <1>13, ThreadSteps DEF Types, r
  <2>3. Died(r).state # "none"  BY <1>1, <1>3, <1>7, <2>1
  <2> QED  BY <1>1, <1>3, <1>5, <1>7, <2>1, <2>2, <2>3
<1>14. CASE Receive(w)
  <2> DEFINE m == Head(r.inbox)
  <2>1. r.inbox # <<>> /\ r.state \notin {"none", "dead", "hung"}
    BY <1>14, ReceiveSteps DEF Types, r
  <2>2. Read(r) \in RuntimeRecords /\ m \in Orders /\ Sound(Read(r))
    BY <1>1, <1>3, <2>1, RecordTypes, SoundRecords
  <2>3. Read(r).state = r.state /\ Read(r).ending = r.ending /\ Read(r).exited = r.exited
    BY <1>1 DEF Read, RuntimeRecords
  <2> HIDE DEF m
  <2>4. ASSUME NEW a \in Reports, a.kind # "exit"
        PROVE  /\ Reported(Read(r), a) \in RuntimeRecords /\ Sound(Reported(Read(r), a))
               /\ Reported(Read(r), a).state = r.state /\ Reported(Read(r), a).ending = r.ending
               /\ Reported(Read(r), a).exited = r.exited
    <3>1. Reported(Read(r), a) \in RuntimeRecords /\ Sound(Reported(Read(r), a))
      BY <2>1, <2>2, <2>3, <2>4, RecordTypes, SoundRecords
    <3> QED  BY <2>2, <2>3, <3>1 DEF Reported, RuntimeRecords
  <2>5. CASE m.kind = "setSetting"
             /\ Changed(w, [Reported(Read(r), Message("snapshot", m.value)) EXCEPT !.settings = m.value])
    <3>1. m.value \in Settings /\ Message("snapshot", m.value) \in Reports
          /\ Message("snapshot", m.value).kind # "exit"
      BY <2>2, <2>5, MessageTypes DEF Message
    <3> DEFINE q == Reported(Read(r), Message("snapshot", m.value))
    <3>2. /\ q \in RuntimeRecords /\ Sound(q) /\ q.state = r.state /\ q.ending = r.ending
          /\ q.exited = r.exited
      BY <2>4, <3>1
    <3> HIDE DEF q
    <3>3. /\ [q EXCEPT !.settings = m.value] \in RuntimeRecords /\ Sound([q EXCEPT !.settings = m.value])
          /\ [q EXCEPT !.settings = m.value].state = r.state /\ [q EXCEPT !.settings = m.value].ending = r.ending
          /\ [q EXCEPT !.settings = m.value].exited = r.exited
      BY <3>1, <3>2 DEF Sound, RuntimeRecords
    <3> QED  BY <1>5, <2>1, <2>5, <3>3 DEF q
  <2>6. CASE m.kind = "readMemory" /\ Changed(w, Reported(Read(r), Message("answer", m.value)))
    <3>1. Message("answer", m.value) \in Reports /\ Message("answer", m.value).kind # "exit"
      BY <2>2, <2>6, MessageTypes DEF Message
    <3> QED  BY <1>5, <2>1, <2>4, <2>6, <3>1
  <2>7. CASE m.kind = "shutdown"
             /\ Changed(w, [Reported(Read(r), Message("stopped", 0))
                              EXCEPT !.state = IF @ = "running" THEN "ended" ELSE @])
    <3>1. Message("stopped", 0) \in Reports /\ Message("stopped", 0).kind # "exit"
      BY MessageTypes DEF Message
    <3> DEFINE q == Reported(Read(r), Message("stopped", 0))
               p == [q EXCEPT !.state = IF @ = "running" THEN "ended" ELSE @]
    <3>2. /\ q \in RuntimeRecords /\ Sound(q) /\ q.state = r.state /\ q.ending = r.ending
          /\ q.exited = r.exited
      BY <2>4, <3>1
    <3> HIDE DEF q
    <3>3. p \in RuntimeRecords /\ Sound(p) /\ p.state # "none" /\ p.ending = r.ending /\ p.exited = r.exited
      BY <2>1, <3>1, <3>2 DEF Sound, RuntimeRecords
    <3> QED  BY <1>5, <2>7, <3>3 DEF q
  <2> QED  BY <1>14, <2>5, <2>6, <2>7, ReceiveSteps DEF Types, m, r
<1>15. CASE Ready(w) \/ RuntimeFails(w) \/ SnapshotArrives(w) \/ Answered(w)
  <2>1. r.outbox # <<>>
    BY <1>15 DEF Ready, RuntimeFails, SnapshotArrives, Answered, Hears, r
  <2>2. Listened(r) \in RuntimeRecords /\ Sound(Listened(r))
    BY <1>1, <1>3, <2>1, RecordTypes, SoundRecords
  <2>3. /\ Listened(r).state = r.state /\ Listened(r).ending = r.ending /\ Listened(r).exited = r.exited
    BY <1>1 DEF Listened, RuntimeRecords
  <2>4. Changed(w, Listened(r))  BY <1>15, ExtensionSteps DEF Types, r
  <2> QED  BY <1>3, <1>5, <2>2, <2>3, <2>4
<1> QED  BY <1>9, <1>10, <1>11, <1>12, <1>13, <1>14, <1>15

\* Lemma: the client's thread is asked to stop, by a reload or by stop().
LEMMA OwnerEnds ==
  ASSUME Types, Threads, NEW w \in Runtimes, client.worker = w,
         Changed(w, [Posted(runtime[w], Message("shutdown", 0)) EXCEPT !.ending = "waiting"]),
         client'.worker = None, client'.created = client.created,
         \/ /\ reload.at # "terminating" /\ UNCHANGED stop
            /\ reload' = [at |-> "terminating", runtime |-> w]
         \/ /\ stop.at # "terminating" /\ NoneEnded
            /\ stop' = [at |-> "terminating", runtime |-> w]
  PROVE  Threads'
<1> DEFINE p == Posted(runtime[w], Message("shutdown", 0))
           q == [p EXCEPT !.ending = "waiting"]
<1>1. client.created \in Nat /\ Runtimes \subseteq Nat /\ w = client.created /\ None \notin Runtimes
      /\ runtime[w].ending = "no"
  <2>1. Runtimes \subseteq Nat /\ None \notin Runtimes
    BY DEF Runtimes, None
  <2>2. client.created \in Nat
    BY DEF Types
  <2> QED  BY <2>1, <2>2 DEF Threads
<1>2. runtime[w] \in RuntimeRecords /\ Sound(runtime[w]) /\ runtime[w].state # "none"
  BY <1>1 DEF Types, Threads
<1>3. /\ p \in RuntimeRecords /\ Sound(p)
      /\ p.exited = runtime[w].exited /\ p.state = runtime[w].state
  <2>1. p \in RuntimeRecords /\ Sound(p)
    BY <1>2, RecordTypes, SoundRecords, MessageTypes
  <2> QED  BY <1>2, <2>1 DEF Posted, RuntimeRecords
<1> HIDE DEF p
<1>4. q.ending = "waiting" /\ Sound(q) /\ q.exited = runtime[w].exited /\ q.state # "none"
  BY <1>2, <1>3 DEF RuntimeRecords, Sound
<1>5. runtime'[w] = q /\ \A v \in Runtimes \ {w} : runtime'[v] = runtime[v]
  BY DEF Changed, p
<1> HIDE DEF q
<1>6. Ending(w)' /\ ~Ending(w) /\ \A v \in Runtimes \ {w} : Ending(v)' <=> Ending(v)
  BY <1>1, <1>4, <1>5 DEF Ending
<1>7. /\ reload.at = "terminating" => reload.runtime \in Runtimes \ {w}
      /\ stop.at = "terminating" => stop.runtime \in Runtimes \ {w}
  BY <1>6 DEF Types, Threads
<1>8. Endings'
  BY <1>1, <1>6, <1>7 DEF Threads, NoneEnded
<1>9. \A v \in Runtimes : /\ v > client.created => runtime'[v] = NoRuntime
                          /\ v <= client.created => runtime'[v].state # "none" /\ Sound(runtime'[v])
  BY <1>1, <1>4, <1>5 DEF Threads
<1>10. \A v \in Runtimes : v <= client.created /\ ~Ending(v)' => runtime'[v].exited
  BY <1>1, <1>5, <1>6 DEF Threads
<1> HIDE DEF Endings
<1> QED  BY <1>1, <1>8, <1>9, <1>10 DEF Threads, Sound

\* Lemma: stop() hears that its thread is gone.
LEMMA StopReturned ==
  ASSUME Types, Threads, NEW w \in Runtimes, Ending(w), NEW r \in RuntimeRecords, Changed(w, r),
         Sound(r), r.exited, r.ending = "over",
         client'.created = client.created, client'.worker = client.worker,
         UNCHANGED reload, reload # [at |-> "terminating", runtime |-> w],
         stop' = [at |-> "returned", runtime |-> None]
  PROVE  Threads'
<1>1. client.created \in Nat /\ Runtimes \subseteq Nat /\ client.worker \in Runtimes \cup {None}
  BY DEF Types, Runtimes
<1>2. runtime'[w] = r /\ \A v \in Runtimes \ {w} : runtime'[v] = runtime[v]
  BY DEF Changed
<1>3. ~Ending(w)' /\ \A v \in Runtimes \ {w} : Ending(v)' <=> Ending(v)
  BY <1>2 DEF Ending
<1>4. client.worker # w /\ w <= client.created
  BY <1>1 DEF Threads, Ending, NoRuntime
<1>5. reload.at = "terminating" => reload.runtime \in Runtimes \ {w}
  BY DEF Types, Threads
<1>6. Endings'
  <2>0. stop.runtime = w
    <3>1. reload.at = "terminating" => reload = [at |-> "terminating", runtime |-> reload.runtime]
      BY DEF Types
    <3> QED  BY <3>1 DEF Threads
  <2>1. \A v \in Runtimes : Ending(v)' => reload.at = "terminating" /\ reload.runtime = v
    BY <1>3, <2>0 DEF Threads
  <2>2. client.worker # None => client.worker = client.created /\ runtime'[client.worker].ending = "no"
    BY <1>1, <1>2, <1>4 DEF Threads
  <2>3. reload.at = "terminating" =>
          client.worker = None /\ reload.runtime # None /\ Ending(reload.runtime)'
    BY <1>3, <1>5 DEF Threads
  <2> QED  BY <2>1, <2>2, <2>3
<1>7. \A v \in Runtimes : /\ v > client.created => runtime'[v] = NoRuntime
                          /\ v <= client.created => runtime'[v].state # "none" /\ Sound(runtime'[v])
  <2>1. r.state # "none"  BY DEF Sound
  <2> QED  BY <1>1, <1>2, <1>4, <2>1 DEF Threads
<1>8. \A v \in Runtimes : /\ v <= client.created /\ ~Ending(v)' /\ client.worker # v => runtime'[v].exited
                          /\ runtime'[v].exited => client.worker # v
  BY <1>2, <1>3, <1>4 DEF Threads
<1> HIDE DEF Endings
<1> QED  BY <1>6, <1>7, <1>8 DEF Threads, Sound

\* Lemma: a thread that nobody was ending is gone.
LEMMA ThreadLeft ==
  ASSUME Types, Threads, NEW w \in Runtimes, NEW r \in RuntimeRecords, Changed(w, r), Sound(r),
         w <= client.created, r.exited, r.ending = runtime[w].ending, client'.created = client.created,
         client'.worker = IF client.worker = w THEN None ELSE client.worker,
         UNCHANGED <<reload, stop>>
  PROVE  Threads'
<1>1. client.created \in Nat /\ Runtimes \subseteq Nat /\ client.worker \in Runtimes \cup {None}
      /\ None \notin Runtimes
  BY DEF Types, Runtimes, None
<1>2. runtime'[w] = r /\ \A v \in Runtimes \ {w} : runtime'[v] = runtime[v]
  BY DEF Changed
<1>3. \A v \in Runtimes : (Ending(v)' <=> Ending(v)) /\ runtime'[v].ending = runtime[v].ending
  BY <1>2 DEF Ending
<1>4. reload.runtime \in Runtimes \cup {None} /\ stop.runtime \in Runtimes \cup {None}
  BY DEF Types
<1>5. Endings'
  BY <1>1, <1>3, <1>4 DEF Threads
<1>6. \A v \in Runtimes : /\ v > client.created => runtime'[v] = NoRuntime
                          /\ v <= client.created => runtime'[v].state # "none" /\ Sound(runtime'[v])
  <2>1. r.state # "none"  BY DEF Sound
  <2> QED  BY <1>1, <1>2, <2>1 DEF Threads
<1>7. \A v \in Runtimes : /\ v <= client.created /\ ~Ending(v)' /\ client'.worker # v => runtime'[v].exited
                          /\ runtime'[v].exited => client'.worker # v
  <2>0. \A v \in Runtimes : /\ v <= client.created /\ ~Ending(v) /\ client.worker # v => runtime[v].exited
                            /\ runtime[v].exited => client.worker # v
    BY DEF Threads
  <2>1. ASSUME NEW v \in Runtimes, v # w
        PROVE  /\ v <= client.created /\ ~Ending(v)' /\ client'.worker # v => runtime'[v].exited
               /\ runtime'[v].exited => client'.worker # v
    <3>1. runtime'[v] = runtime[v] /\ (Ending(v)' <=> Ending(v))
      BY <1>2, <1>3, <2>1
    <3>2. client.worker # v => client'.worker # v
      BY <1>1, <2>1
    <3>3. client'.worker # v => client.worker # v
      BY <2>1
    <3> QED  BY <2>0, <3>1, <3>2, <3>3
  <2>2. runtime'[w].exited /\ client'.worker # w
    BY <1>1, <1>2
  <2> QED  BY <2>1, <2>2
<1> HIDE DEF Endings
<1> QED  BY <1>5, <1>6, <1>7 DEF Threads, Sound

\* Lemma: a thread is created, after the one that a reload waited for, if any.
LEMMA ThreadCreated ==
  ASSUME Types, Threads, NEW t, NEW c, Created(c, t), c.created = client.created,
         client.created + 1 \in Runtimes, client.worker = None,
         client'.worker = client.created + 1, client'.created = client.created + 1,
         UNCHANGED stop, reload'.at # "terminating",
         \A v \in Runtimes : \/ t[v] = runtime[v] /\ ~(reload.at = "terminating" /\ reload.runtime = v)
                             \/ /\ reload = [at |-> "terminating", runtime |-> v]
                                /\ t[v].exited /\ t[v].ending = "over" /\ Sound(t[v])
  PROVE  Threads'
<1>0. PICK n \in Runtimes : n = client.created + 1
  OBVIOUS
<1>1. client.created \in Nat /\ Runtimes \subseteq Nat /\ None \notin Runtimes
  BY DEF Types, Runtimes, None
<1>2. runtime'[n] = NewThread(c) /\ \A v \in Runtimes \ {n} : runtime'[v] = t[v]
  BY <1>0 DEF Created
<1>3. NewThread(c).ending = "no" /\ ~NewThread(c).exited /\ NewThread(c).state # "none" /\ Sound(NewThread(c))
  <2>1. NewThread(c).ending = "no" /\ ~NewThread(c).exited /\ NewThread(c).state = "loading"
        /\ NewThread(c).outbox = <<>>
    BY DEF NewThread, NoRuntime
  <2>2. Len(<<>>) = 0
    OBVIOUS
  <2> QED  BY <2>1, <2>2 DEF Sound
<1>4. runtime[n] = NoRuntime /\ ~Ending(n)
  BY <1>0, <1>1 DEF Threads, Ending, NoRuntime
<1>5. \A v \in Runtimes \ {n} : Ending(v)' <=> stop.at = "terminating" /\ stop.runtime = v
  BY <1>2, <1>4 DEF Ending, Threads
<1>6. stop.at = "terminating" => stop.runtime \in Runtimes \ {n}
  BY <1>4 DEF Types, Threads
<1>7. ~Ending(n)'  BY <1>2, <1>3 DEF Ending
<1>8. Endings'
  BY <1>0, <1>1, <1>2, <1>3, <1>5, <1>6, <1>7
<1>9. \A v \in Runtimes : v > n => runtime'[v] = NoRuntime
  <2>1. ASSUME NEW v \in Runtimes, v > n  PROVE runtime'[v] = NoRuntime
    <3>1. v > client.created /\ v # n  BY <1>0, <1>1, <2>1
    <3>2. runtime[v] = NoRuntime  BY <3>1 DEF Threads
    <3>3. ~Ending(v)  BY <3>2 DEF Ending, NoRuntime
    <3>4. reload # [at |-> "terminating", runtime |-> v]  BY <3>3 DEF Threads
    <3> QED  BY <1>2, <3>1, <3>2, <3>4
  <2> QED  BY <2>1
<1>10. \A v \in Runtimes : v <= n => runtime'[v].state # "none" /\ Sound(runtime'[v])
  <2>1. ASSUME NEW v \in Runtimes \ {n}, v <= n  PROVE runtime'[v].state # "none" /\ Sound(runtime'[v])
    <3>1. v <= client.created  BY <1>0, <1>1, <2>1
    <3>2. runtime[v].state # "none" /\ Sound(runtime[v])  BY <3>1 DEF Threads
    <3>3. t[v].exited /\ Sound(t[v]) => t[v].state # "none"  BY DEF Sound
    <3> QED  BY <1>2, <3>2, <3>3
  <2> QED  BY <1>2, <1>3, <2>1
<1>11. \A v \in Runtimes : /\ v <= n /\ ~Ending(v)' /\ v # n => runtime'[v].exited
                           /\ runtime'[v].exited => v # n
  <2>1. ASSUME NEW v \in Runtimes \ {n}, v <= n, ~Ending(v)'  PROVE runtime'[v].exited
    <3>1. v <= client.created /\ v # None  BY <1>0, <1>1, <2>1
    <3>2. CASE reload = [at |-> "terminating", runtime |-> v]
      BY <1>2, <3>2
    <3>3. CASE t[v] = runtime[v] /\ ~(reload.at = "terminating" /\ reload.runtime = v)
      BY <1>2, <2>1, <3>1, <3>3 DEF Threads, Ending
    <3> QED  BY <3>2, <3>3
  <2> QED  BY <1>2, <1>3, <2>1
<1> HIDE DEF Endings
<1> QED  BY <1>0, <1>8, <1>9, <1>10, <1>11 DEF Threads, Sound

\* Lemma: every step keeps who ends which thread.
LEMMA ThreadsKept ==
  ASSUME Types, Counted, Phases, Threads, [Next]_vars
  PROVE  Threads'
<1>0. /\ runtime \in [Runtimes -> RuntimeRecords] /\ client.worker \in Runtimes \cup {None}
      /\ client.created \in Nat /\ Runtimes \subseteq Nat /\ None \notin Runtimes
  BY DEF Types, Runtimes, None
<1>1. CASE \/ Edit \/ Save \/ Write \/ FileReload \/ Restart \/ Launch \/ CompilerCreated \/ CompilerFails
           \/ \E o \in Operations : Opened(o) \/ Saved(o) \/ BuildFails(o)
           \/ UNCHANGED vars
  <2>1. NoneEnded /\ UNCHANGED <<runtime, client, stop>>
    BY <1>1, ElsewhereNoneEnded
  <2> QED  BY <2>1, SameThreads
<1>2. ASSUME NEW w \in Runtimes,
             \/ Load(w) \/ LoadFailsOrTraps(w) \/ Hang(w) \/ Crash(w) \/ Kill(w) \/ Receive(w)
             \/ Ready(w) \/ RuntimeFails(w) \/ SnapshotArrives(w) \/ Answered(w)
      PROVE  Threads'
  BY <1>2, ThreadKept
<1>3. CASE ChangeSetting \/ RequestMemory
  <2>1. PICK w \in Runtimes : client.worker = w
    BY <1>0, <1>3 DEF ChangeSetting, RequestMemory
  <2>2. PICK m \in Orders : Changed(w, Posted(runtime[w], m))
    <3>1. CASE ChangeSetting
      <4>1. lastSetting' \in Settings
        BY <3>1 DEF ChangeSetting, Types, Settings
      <4> QED  BY <1>0, <2>1, <3>1, <4>1, ExtensionSteps, MessageTypes
    <3>2. CASE RequestMemory
      <4>1. client.nextRequestId \in Requests
        BY <3>2 DEF RequestMemory
      <4> QED  BY <1>0, <2>1, <3>2, <4>1, ExtensionSteps, MessageTypes
    <3> QED  BY <1>3, <3>1, <3>2
  <2>3. client'.worker = client.worker /\ client'.created = client.created /\ NoneEnded /\ UNCHANGED stop
    BY <1>3 DEF ChangeSetting, RequestMemory, operations, NoneEnded, Types
  <2>4. w <= client.created /\ runtime[w] \in RuntimeRecords /\ Sound(runtime[w]) /\ runtime[w].state # "none"
    BY <1>0, <2>1 DEF Threads
  <2> DEFINE q == Posted(runtime[w], m)
  <2>5. q \in RuntimeRecords /\ Sound(q)
    BY <2>4, RecordTypes, SoundRecords
  <2>6. q.state = runtime[w].state /\ q.ending = runtime[w].ending /\ q.exited = runtime[w].exited
    BY <2>4 DEF Posted, RuntimeRecords
  <2> HIDE DEF q
  <2>7. Changed(w, q)
    BY <2>2 DEF q
  <2> QED  BY <2>3, <2>4, <2>5, <2>6, <2>7, SameOwner
<1>4. ASSUME NEW w \in Runtimes, Stopped(w)
      PROVE  Threads'
  <2> DEFINE r == runtime[w]
             q == [Listened(r) EXCEPT !.ending = IF @ = "waiting" THEN "killing" ELSE @]
  <2>1. NoneEnded /\ UNCHANGED stop /\ client'.worker = client.worker /\ client'.created = client.created
    BY <1>4, ThreadsNoneEnded
  <2>2. r \in RuntimeRecords /\ r.outbox # <<>>
    BY <1>0, <1>4 DEF Stopped, Hears
  <2>3. w <= client.created /\ Sound(r) /\ r.state # "none"
    BY <1>0, <2>2 DEF Threads, NoRuntime
  <2>4. Listened(r) \in RuntimeRecords /\ Sound(Listened(r))
    BY <2>2, <2>3, RecordTypes, SoundRecords
  <2>5. Listened(r).state = r.state /\ Listened(r).ending = r.ending /\ Listened(r).exited = r.exited
    BY <2>2 DEF Listened, RuntimeRecords
  <2>6. q \in RuntimeRecords /\ Sound(q) /\ q.state # "none" /\ q.exited = r.exited
        /\ (q.ending = r.ending \/ (Ending(w) /\ q.ending = "killing"))
    BY <2>3, <2>4, <2>5 DEF Sound, RuntimeRecords, Ending
  <2>7. Changed(w, q)
    BY <1>0, <1>4, ExtensionSteps
  <2> HIDE DEF q
  <2> QED  BY <2>1, <2>3, <2>6, <2>7, SameOwner
<1>5. CASE Stop
  <2>1. Rejects(session')  BY <1>5 DEF Stop
  <2>2. NoneEnded
    BY <2>1, RejectsWhere, EndsNone, TwoOperations DEF NoneEnded, operations
  <2>3. CASE client.worker = None
    <3>1. UNCHANGED <<client, runtime>> /\ stop' = [Idle EXCEPT !.at = "returned"] /\ stop.at = "idle"
      BY <1>5, <2>3 DEF Stop, Phases
    <3>2. UNCHANGED runtime /\ UNCHANGED client /\ stop'.at # "terminating"
      BY <3>1 DEF Idle
    <3> QED  BY <2>2, <2>3, <3>1, <3>2 DEF Threads, Ending, NoneEnded
  <2>4. CASE client.worker # None
    <3>1. PICK w \in Runtimes : client.worker = w
      BY <1>0, <2>4
    <3>2. /\ stop' = [at |-> "terminating", runtime |-> w] /\ stop.at = "idle"
          /\ client' = Terminate(client) /\ runtime' = Shutdown(runtime, w)
      BY <1>5, <2>4, <3>1 DEF Stop, Phases
    <3>3. client'.worker = None /\ client'.created = client.created
      BY <3>2 DEF Terminate, Types
    <3>4. Changed(w, [Posted(runtime[w], Message("shutdown", 0)) EXCEPT !.ending = "waiting"])
      BY <1>0, <3>2, ExtensionSteps
    <3> QED  BY <2>2, <3>1, <3>2, <3>3, <3>4, OwnerEnds
  <2> QED  BY <2>3, <2>4
<1>6. ASSUME NEW o \in Operations, Built(o)
      PROVE  Threads'
  <2>1. BuildGoes(o) /\ UNCHANGED stop
    BY <1>6, BuildGoesWhere, BuiltWhere
  <2>2. CASE /\ client.worker = None /\ Create(o, client, runtime) /\ Created(client, runtime)
             /\ client.created + 1 \in Runtimes /\ runtime[client.created + 1] = NoRuntime
             /\ reload.at # "terminating"
    <3>1. client'.worker = client.created + 1 /\ client'.created = client.created + 1
          /\ reload'.at # "terminating"
      BY <2>2, CreateWhere DEF Types
    <3> QED  BY <2>1, <2>2, <3>1, ThreadCreated
  <2>3. CASE /\ client.worker # None /\ client' = Terminate(client)
             /\ reload.at # "terminating" /\ reload' = [at |-> "terminating", runtime |-> client.worker]
             /\ Changed(client.worker,
                        [Posted(runtime[client.worker], Message("shutdown", 0)) EXCEPT !.ending = "waiting"])
    <3>1. client'.worker = None /\ client'.created = client.created
      BY <2>3 DEF Terminate, Types
    <3>2. client.worker \in Runtimes
      BY <1>0, <2>3
    <3> QED  BY <2>1, <2>3, <3>1, <3>2, OwnerEnds
  <2> QED  BY <2>1, <2>2, <2>3 DEF BuildGoes
<1>7. ASSUME NEW w \in Runtimes, TimerExpires(w) \/ Exited(w)
      PROVE  Threads'
  <2> DEFINE r == runtime[w]
  <2>1. ThreadGoes(w)
    BY <1>7, ThreadGoesWhere
  <2>2. r \in RuntimeRecords /\ w <= client.created /\ Sound(r) /\ r.state # "none"
    <3>1. r # NoRuntime
      BY <1>7 DEF TimerExpires, Exited, Hears, NoRuntime
    <3> QED  BY <1>0, <3>1 DEF Threads
  <2>3. TimerExpires(w) => Ending(w)
    BY DEF TimerExpires, Ending
  <2>4. Exited(w) => /\ Left(r) \in RuntimeRecords /\ Sound(Left(r)) /\ Left(r).exited
                     /\ Left(r).ending = r.ending
    <3>1. Exited(w) => r.outbox # <<>> /\ Head(r.outbox).kind = "exit"
      BY DEF Exited, Hears
    <3>2. Exited(w) => Left(r) \in RuntimeRecords /\ Sound(Left(r))
      BY <2>2, <3>1, RecordTypes, SoundRecords
    <3>3. Left(r).exited /\ Left(r).ending = r.ending
      BY <2>2 DEF Left, Listened, RuntimeRecords
    <3> QED  BY <3>2, <3>3
  <2>5. \A q \in RuntimeRecords : Sound(q) /\ q.exited =>
          SeenTo(q) \in RuntimeRecords /\ Sound(SeenTo(q)) /\ SeenTo(q).exited /\ SeenTo(q).ending = "over"
    <3>1. \A q \in RuntimeRecords : SeenTo(q).exited = q.exited /\ SeenTo(q).ending = "over"
      BY DEF SeenTo, RuntimeRecords
    <3> QED  BY <3>1, RecordTypes, SoundRecords
  <2>6. /\ HeardExit(w).created = client.created
        /\ HeardExit(w).worker = IF client.worker = w THEN None ELSE client.worker
        /\ HeardExit(w) \in Clients
    BY DEF HeardExit, Types
  <2>7. CASE /\ reload = [at |-> "terminating", runtime |-> w] /\ UNCHANGED stop
             /\ client.created + 1 \in Runtimes \ {w} /\ runtime[client.created + 1] = NoRuntime
             /\ \/ /\ r.exited /\ TimerExpires(w)
                   /\ Created(client, Over(runtime, w)) /\ Create("reload", client, Over(runtime, w))
                \/ /\ r.ending = "killing" /\ Exited(w)
                   /\ Created(HeardExit(w), Over(Gone(w), w))
                   /\ Create("reload", HeardExit(w), Over(Gone(w), w))
    <3>1. client.worker = None
      BY <2>7 DEF Threads
    <3> DEFINE With(q) == [v \in Runtimes |-> IF v = w THEN q ELSE runtime[v]]
    <3> HIDE DEF With
    <3>2. PICK c \in Clients, q \in RuntimeRecords :
            /\ c.created = client.created
            /\ Created(c, With(q)) /\ Create("reload", c, With(q))
            /\ Sound(q) /\ q.exited /\ q.ending = "over"
      <4>1. CASE r.exited /\ Created(client, Over(runtime, w)) /\ Create("reload", client, Over(runtime, w))
        <5>1. Over(runtime, w) = With(SeenTo(r))
          BY <1>0, EndSteps DEF With
        <5>2. client \in Clients
          BY DEF Types
        <5> QED  BY <2>2, <2>5, <4>1, <5>1, <5>2
      <4>2. CASE Exited(w) /\ Created(HeardExit(w), Over(Gone(w), w))
                 /\ Create("reload", HeardExit(w), Over(Gone(w), w))
        <5>1. Over(Gone(w), w) = With(SeenTo(Left(r)))
          BY <1>0, EndSteps DEF With
        <5> QED  BY <2>4, <2>5, <2>6, <4>2, <5>1
      <4> QED  BY <2>7, <4>1, <4>2
    <3>3. client'.worker = client.created + 1 /\ client'.created = client.created + 1
          /\ reload'.at # "terminating"
      BY <3>2, CreateWhere, TwoOperations
    <3>4. \A v \in Runtimes :
            \/ With(q)[v] = runtime[v] /\ ~(reload.at = "terminating" /\ reload.runtime = v)
            \/ /\ reload = [at |-> "terminating", runtime |-> v]
               /\ With(q)[v].exited /\ With(q)[v].ending = "over" /\ Sound(With(q)[v])
      BY <2>7, <3>2 DEF With
    <3> QED  BY <2>7, <3>1, <3>2, <3>3, <3>4, ThreadCreated
  <2>8. CASE /\ reload # [at |-> "terminating", runtime |-> w] /\ UNCHANGED operations
             /\ stop' = [at |-> "returned", runtime |-> None]
             /\ \/ r.exited /\ TimerExpires(w) /\ client' = client /\ Changed(w, SeenTo(r))
                \/ /\ r.ending = "killing" /\ Exited(w)
                   /\ client' = HeardExit(w) /\ Changed(w, SeenTo(Left(r)))
    <3>1. Ending(w) /\ client.worker # w
      BY <2>3, <2>8 DEF Ending, Threads
    <3>2. client'.worker = client.worker /\ client'.created = client.created /\ UNCHANGED reload
      BY <2>6, <2>8, <3>1 DEF operations
    <3>3. PICK q \in RuntimeRecords : Changed(w, q) /\ Sound(q) /\ q.exited /\ q.ending = "over"
      BY <2>2, <2>4, <2>5, <2>8
    <3> QED  BY <2>8, <3>1, <3>2, <3>3, StopReturned
  <2>9. CASE UNCHANGED <<operations, stop>> /\ TimerExpires(w) /\ client' = client
             /\ Changed(w, [r EXCEPT !.ending = "killing"])
    <3> DEFINE q == [r EXCEPT !.ending = "killing"]
    <3>1. q \in RuntimeRecords /\ Sound(q) /\ q.state # "none" /\ q.exited = r.exited /\ q.ending = "killing"
      BY <2>2 DEF Sound, RuntimeRecords
    <3>2. NoneEnded  BY <2>9 DEF NoneEnded, operations
    <3> HIDE DEF q
    <3>3. Changed(w, q)  BY <2>9 DEF q
    <3> QED  BY <2>2, <2>3, <2>9, <3>1, <3>2, <3>3, SameOwner
  <2>10. CASE UNCHANGED <<operations, stop>> /\ Exited(w) /\ client' = HeardExit(w) /\ Changed(w, Left(r))
    BY <2>2, <2>4, <2>6, <2>10, ThreadLeft DEF operations
  <2> QED  BY <2>1, <2>7, <2>8, <2>9, <2>10 DEF ThreadGoes
<1> QED
  BY <1>1, <1>2, <1>3, <1>4, <1>5, <1>6, <1>7 DEF Next, Work, Fault, User

-----------------------------------------------------------------------------
(* One thread at a time, and false alarms. *)

\* A thread whose exit was heard stays so.
Lasting == \A v \in Runtimes : v <= client.created /\ runtime[v].exited => runtime'[v].exited

\* Lemma: an exit that was heard stays heard.
LEMMA ExitedKept ==
  ASSUME Types, Counted, Phases, Threads, [Next]_vars
  PROVE  Lasting
<1>0. /\ runtime \in [Runtimes -> RuntimeRecords] /\ client.worker \in Runtimes \cup {None}
      /\ client.created \in Nat /\ Runtimes \subseteq Nat
  BY DEF Types, Runtimes
<1> USE DEF Lasting
<1>1. CASE UNCHANGED runtime  BY <1>1
<1>c. ASSUME NEW w \in Runtimes, NEW q, Changed(w, q), runtime[w].exited => q.exited
      PROVE  Lasting
  BY <1>0, <1>c DEF Changed
<1> USE DEF RuntimeRecords
<1>2. ASSUME NEW w \in Runtimes, Load(w) \/ LoadFailsOrTraps(w) \/ Hang(w) \/ Crash(w) \/ Kill(w)
      PROVE  Lasting
  <2> DEFINE r == runtime[w]
  <2>1. r \in RuntimeRecords  BY <1>0
  <2> HIDE DEF r
  <2>2. /\ [Reported(r, Message("ready", 0)) EXCEPT !.state = "running"].exited = r.exited
        /\ [Reported(r, Message("failure", 0)) EXCEPT !.state = "ended"].exited = r.exited
        /\ [r EXCEPT !.state = "hung"].exited = r.exited
    BY <2>1 DEF Reported
  <2>3. Died(Reported(r, Message("error", 0))).exited = r.exited /\ Died(r).exited = r.exited
    BY <2>1 DEF Reported, Died
  <2> QED  BY <1>0, <1>2, <1>c, <2>2, <2>3, ThreadSteps DEF r
<1>4. ASSUME NEW w \in Runtimes, Receive(w)
      PROVE  Lasting
  <2> DEFINE r == runtime[w]
             m == Head(r.inbox)
  <2>1. r \in RuntimeRecords  BY <1>0
  <2> HIDE DEF r, m
  <2>2. /\ [Reported(Read(r), Message("snapshot", m.value)) EXCEPT !.settings = m.value].exited = r.exited
        /\ Reported(Read(r), Message("answer", m.value)).exited = r.exited
        /\ [Reported(Read(r), Message("stopped", 0))
              EXCEPT !.state = IF @ = "running" THEN "ended" ELSE @].exited = r.exited
    BY <2>1 DEF Reported, Read
  <2> QED  BY <1>0, <1>4, <1>c, <2>2, ReceiveSteps DEF r, m
<1>5. ASSUME NEW w \in Runtimes, Ready(w) \/ RuntimeFails(w) \/ SnapshotArrives(w) \/ Answered(w) \/ Stopped(w)
      PROVE  Lasting
  <2> DEFINE r == runtime[w]
  <2>1. r \in RuntimeRecords  BY <1>0
  <2> HIDE DEF r
  <2>2. /\ Listened(r).exited = r.exited
        /\ [Listened(r) EXCEPT !.ending = IF @ = "waiting" THEN "killing" ELSE @].exited = r.exited
    BY <2>1 DEF Listened
  <2> QED  BY <1>0, <1>5, <1>c, <2>2, ExtensionSteps DEF r
<1>6. CASE ChangeSetting \/ RequestMemory
  <2>1. PICK w \in Runtimes : client.worker = w
    BY <1>0, <1>6 DEF ChangeSetting, RequestMemory
  <2>2. runtime[w] \in RuntimeRecords  BY <1>0
  <2>3. \A m : Posted(runtime[w], m).exited = runtime[w].exited
    BY <2>2 DEF Posted
  <2> QED  BY <1>0, <1>6, <1>c, <2>1, <2>3, ExtensionSteps
<1>a. ASSUME NEW w \in Runtimes,
             Changed(w, [Posted(runtime[w], Message("shutdown", 0)) EXCEPT !.ending = "waiting"])
      PROVE  Lasting
  <2>1. runtime[w] \in RuntimeRecords  BY <1>0
  <2>2. [Posted(runtime[w], Message("shutdown", 0)) EXCEPT !.ending = "waiting"].exited = runtime[w].exited
    BY <2>1 DEF Posted
  <2> QED  BY <1>a, <1>c, <2>2
<1>7. CASE Stop
  <2>1. CASE client.worker = None
    BY <1>1, <1>7, <2>1 DEF Stop
  <2>2. CASE client.worker # None
    <3>1. client.worker \in Runtimes  BY <1>0, <2>2
    <3>2. runtime' = Shutdown(runtime, client.worker)  BY <1>7, <2>2 DEF Stop
    <3> QED  BY <1>0, <1>a, <3>1, <3>2, ExtensionSteps
  <2> QED  BY <2>1, <2>2
<1>8. ASSUME NEW o \in Operations, Built(o)
      PROVE  Lasting
  <2>1. BuildGoes(o)  BY <1>8, BuildGoesWhere
  <2>2. CASE Created(client, runtime)
    BY <1>0, <2>2 DEF Created
  <2>3. CASE client.worker # None
             /\ Changed(client.worker,
                        [Posted(runtime[client.worker], Message("shutdown", 0)) EXCEPT !.ending = "waiting"])
    <3>1. PICK w \in Runtimes : w = client.worker  BY <1>0, <2>3
    <3> QED  BY <1>a, <2>3, <3>1
  <2> QED  BY <2>1, <2>2, <2>3 DEF BuildGoes
<1>9. ASSUME NEW w \in Runtimes, TimerExpires(w) \/ Exited(w)
      PROVE  Lasting
  <2> DEFINE r == runtime[w]
             With(q) == [v \in Runtimes |-> IF v = w THEN q ELSE runtime[v]]
  <2>1. ThreadGoes(w)  BY <1>9, ThreadGoesWhere
  <2>2. r \in RuntimeRecords  BY <1>0
  <2>3. HeardExit(w).created = client.created
    BY DEF HeardExit, Types
  <2>4. Over(runtime, w) = With(SeenTo(r)) /\ Over(Gone(w), w) = With(SeenTo(Left(r)))
    BY <1>0, EndSteps
  <2>5. ASSUME NEW c, NEW q, c.created = client.created, r.exited => q.exited, Created(c, With(q))
        PROVE  Lasting
    BY <1>0, <2>5 DEF Created
  <2> HIDE DEF r, With
  <2>6. /\ SeenTo(r).exited = r.exited /\ SeenTo(Left(r)).exited /\ Left(r).exited
        /\ [r EXCEPT !.ending = "killing"].exited = r.exited
    BY <2>2 DEF SeenTo, Left, Listened
  <2>7. CASE \/ Changed(w, SeenTo(r)) \/ Changed(w, SeenTo(Left(r)))
             \/ Changed(w, Left(r)) \/ Changed(w, [r EXCEPT !.ending = "killing"])
    BY <1>c, <2>6, <2>7 DEF r
  <2>8. CASE Created(client, Over(runtime, w)) \/ Created(HeardExit(w), Over(Gone(w), w))
    BY <2>3, <2>4, <2>5, <2>6, <2>8
  <2> QED  BY <2>1, <2>7, <2>8 DEF ThreadGoes, r
<1>10. CASE \/ Edit \/ Save \/ Write \/ FileReload \/ Restart \/ Launch \/ CompilerCreated \/ CompilerFails
            \/ \E o \in Operations : Opened(o) \/ Saved(o) \/ BuildFails(o)
            \/ UNCHANGED vars
  BY <1>1, <1>10, ElsewhereNoneEnded
<1> QED
  BY <1>2, <1>4, <1>5, <1>6, <1>7, <1>8, <1>9, <1>10 DEF Next, Work, Fault, User

\* Lemma: while the session lasts, a thread is created when those before it are gone.
LEMMA OneAtATimeKept ==
  ASSUME Types, Counted, Phases, Threads, OneAtATime, [Next]_vars
  PROVE  OneAtATime'
<1>0. /\ client.worker \in Runtimes \cup {None} /\ client.created \in Nat /\ Runtimes \subseteq Nat
  BY DEF Types, Runtimes
<1>1. Lasting  BY ExitedKept
<1>2. ASSUME client'.created = client.created, client'.intentional = client.intentional, NoneEnded,
             ~session'.stopped => ~session.stopped
      PROVE  OneAtATime'
  BY <1>0, <1>1, <1>2 DEF OneAtATime, NoneEnded, Lasting
<1>3. CASE \/ Edit \/ Save \/ Write \/ FileReload \/ Restart \/ Launch \/ CompilerCreated \/ CompilerFails
           \/ \E o \in Operations : Opened(o) \/ Saved(o) \/ BuildFails(o)
           \/ UNCHANGED vars
  <2>1. NoneEnded /\ UNCHANGED client
    BY <1>3, ElsewhereNoneEnded
  <2>2. session'.stopped = session.stopped
    BY <1>3 DEF Edit, Save, Write, FileReload, Restart, Launch, CompilerCreated, CompilerFails,
                Opened, Saved, BuildFails, vars, Types
  <2> QED  BY <1>2, <2>1, <2>2
<1>4. ASSUME NEW w \in Runtimes,
             \/ Load(w) \/ LoadFailsOrTraps(w) \/ Hang(w) \/ Crash(w) \/ Kill(w) \/ Receive(w)
             \/ Ready(w) \/ RuntimeFails(w) \/ SnapshotArrives(w) \/ Answered(w) \/ Stopped(w)
      PROVE  OneAtATime'
  <2>1. NoneEnded /\ client'.created = client.created
    BY <1>4, ThreadsNoneEnded
  <2>2. session'.stopped = session.stopped /\ client'.intentional = client.intentional
    BY <1>4 DEF Load, LoadFailsOrTraps, Hang, Crash, Kill, Receive, Thread, Ready, RuntimeFails, Fails,
                SnapshotArrives, Answered, Stopped, Types
  <2> QED  BY <1>2, <2>1, <2>2
<1>5. CASE ChangeSetting \/ RequestMemory
  <2>1. /\ NoneEnded /\ client'.created = client.created /\ UNCHANGED session
        /\ client'.intentional = client.intentional
    BY <1>5 DEF ChangeSetting, RequestMemory, operations, NoneEnded, Types
  <2> QED  BY <1>2, <2>1
<1>6. CASE Stop
  <2>1. session'.stopped  BY <1>6 DEF Stop, Types
  <2> QED  BY <2>1 DEF OneAtATime
<1>7. ASSUME NEW o \in Operations, Built(o)
      PROVE  OneAtATime'
  <2>1. BuildEndsTo(o)  BY <1>7, BuildEnds
  <2>2. session'.stopped = session.stopped  BY <2>1 DEF BuildEndsTo, Types
  <2>3. o = "launch" => reload.at = "idle"
    BY <2>1 DEF BuildEndsTo, Phases
  <2>4. CASE client.worker = None
    <3>1. reload.at # "terminating" /\ client'.created = client.created + 1 /\ reload'.at # "terminating"
      BY <2>1, <2>3, <2>4 DEF BuildEndsTo
    <3>2. ~session.stopped => \A w \in Runtimes : w <= client.created => runtime[w].exited
      <4>1. ~session.stopped => \A w \in Runtimes : ~Ending(w)
        BY <3>1 DEF Threads, Phases
      <4>2. \A w \in Runtimes : client.worker # w
        BY <1>0, <2>4 DEF Runtimes, None
      <4> QED  BY <4>1, <4>2 DEF Threads
    <3> QED  BY <1>0, <1>1, <2>2, <3>1, <3>2 DEF OneAtATime, Lasting
  <2>5. CASE client.worker # None
    <3>1. client'.created = client.created /\ client'.intentional /\ reload'.runtime = client.worker
      BY <2>1, <2>5 DEF BuildEndsTo
    <3>2. client.worker = client.created
      BY <2>5 DEF Threads
    <3> QED  BY <1>0, <1>1, <2>2, <3>1, <3>2 DEF OneAtATime, Lasting
  <2> QED  BY <2>4, <2>5
<1>8. ASSUME NEW w \in Runtimes, TimerExpires(w) \/ Exited(w)
      PROVE  OneAtATime'
  <2>1. ThreadEndsTo(w)  BY <1>8, ThreadEnds
  <2>2. UNCHANGED session  BY <2>1 DEF ThreadEndsTo
  <2>3. ThreadGoes(w)  BY <1>8, ThreadGoesWhere
  <2>4. HeardExit(w).intentional = client.intentional /\ HeardExit(w).created = client.created
    BY DEF HeardExit, Types
  <2>5. CASE reload = [at |-> "terminating", runtime |-> w]
              /\ reload' = [at |-> "starting", runtime |-> client.created + 1]
              /\ client'.created = client.created + 1
    <3>1. runtime'[w].exited
      <4>1. SeenTo(Left(runtime[w])).exited /\ (runtime[w].exited => SeenTo(runtime[w]).exited)
        BY DEF SeenTo, Left, Listened, Types, RuntimeRecords
      <4>2. UNCHANGED reload => FALSE
        BY <2>5
      <4>0. runtime \in [Runtimes -> RuntimeRecords]
        BY DEF Types
      <4> DEFINE With(q) == [v \in Runtimes |-> IF v = w THEN q ELSE runtime[v]]
      <4>5. ASSUME NEW c, NEW q, c.created = client.created, q.exited, client.created + 1 # w,
                   Created(c, With(q))
            PROVE  runtime'[w].exited
        BY <4>5 DEF Created
      <4>6. /\ Over(runtime, w) = With(SeenTo(runtime[w]))
            /\ Over(Gone(w), w) = With(SeenTo(Left(runtime[w])))
        BY <4>0, EndSteps
      <4> HIDE DEF With
      <4>3. CASE runtime[w].exited /\ Created(client, Over(runtime, w)) /\ client.created + 1 # w
        BY <4>1, <4>3, <4>5, <4>6
      <4>4. CASE Created(HeardExit(w), Over(Gone(w), w)) /\ client.created + 1 # w
        BY <2>4, <4>1, <4>4, <4>5, <4>6
      <4> QED  BY <2>3, <4>2, <4>3, <4>4 DEF ThreadGoes, operations
    <3>2. ~session.stopped => w = client.created
      BY <2>5 DEF OneAtATime
    <3> QED  BY <1>0, <1>1, <2>2, <2>5, <3>1, <3>2 DEF OneAtATime, Lasting
  <2>6. CASE UNCHANGED reload
    <3>1. client' = client \/ client' = HeardExit(w)
      <4>3. \A c, t : Create("reload", c, t) => reload'.at = "starting"
        BY DEF Create, Moves
      <4> QED  BY <2>3, <2>6, <4>3 DEF ThreadGoes
    <3>2. NoneEnded /\ client'.created = client.created /\ client'.intentional = client.intentional
      BY <2>4, <2>6, <3>1 DEF NoneEnded
    <3> QED  BY <1>2, <2>2, <3>2
  <2> QED  BY <2>1, <2>5, <2>6 DEF ThreadEndsTo
<1> QED
  BY <1>3, <1>4, <1>5, <1>6, <1>7, <1>8 DEF Next, Work, Fault, User

\* Lemma: what a thread says and is told keeps it harmless, unless it reports a failure.
LEMMA HarmlessRecords ==
  ASSUME NEW r \in RuntimeRecords, Harmless(r)
  PROVE  /\ \A m \in Orders : Harmless(Posted(r, m))
         /\ \A m \in Reports : m.kind \notin {"failure", "error"} => Harmless(Reported(r, m))
         /\ r.ending = "killing" => Harmless(Died(r))
         /\ Harmless(Read(r))
         /\ r.outbox # <<>> => /\ Harmless(Listened(r)) /\ Harmless(Left(r)) /\ Harmless(SeenTo(Left(r)))
                               /\ Head(r.outbox).kind \notin {"failure", "error"}
         /\ Harmless(SeenTo(r))
<1> USE DEF Harmless, RuntimeRecords
<1>1. r.inbox \in Seq(Orders) /\ r.outbox \in Seq(Reports)
  OBVIOUS
<1>2. \A m \in Orders : Harmless(Posted(r, m))
  BY DEF Posted
<1>3. ASSUME NEW m \in Reports, m.kind \notin {"failure", "error"}
      PROVE  Harmless(Reported(r, m)) /\ (r.ending = "killing" => Harmless([Reported(r, m) EXCEPT !.state = "dead", !.inbox = <<>>]))
  <2> DEFINE q == Append(r.outbox, m)
  <2>1. Len(q) = Len(r.outbox) + 1 /\ q[Len(r.outbox) + 1] = m /\ \A n \in 1 .. Len(r.outbox) : q[n] = r.outbox[n]
    BY <1>1, Queues
  <2>2. \A n \in 1 .. Len(q) : q[n].kind \notin {"failure", "error"}
    BY <1>1, <1>3, <2>1, Queues
  <2> HIDE DEF q
  <2>3. Reported(r, m) = [r EXCEPT !.outbox = q]
    BY DEF Reported, q
  <2> QED  BY <2>2, <2>3
<1>4. r.ending = "killing" => Harmless(Died(r))
  <2>1. Message("exit", 0) \in Reports /\ Message("exit", 0).kind \notin {"failure", "error"}
    BY MessageTypes DEF Message
  <2> HIDE DEF Harmless
  <2> QED  BY <1>3, <2>1 DEF Died
<1>5. Harmless(Read(r))
  BY DEF Read
<1>6. ASSUME r.outbox # <<>>
      PROVE  /\ Harmless(Listened(r)) /\ Harmless(Left(r)) /\ Harmless(SeenTo(Left(r)))
             /\ Head(r.outbox).kind \notin {"failure", "error"}
  <2> DEFINE q == Tail(r.outbox)
  <2>1. /\ Len(r.outbox) \in Nat \ {0} /\ Len(q) = Len(r.outbox) - 1 /\ Head(r.outbox) = r.outbox[1]
        /\ \A n \in 1 .. Len(q) : q[n] = r.outbox[n + 1]
    BY <1>1, <1>6, Queues
  <2>2. \A n \in 1 .. Len(q) : q[n].kind \notin {"failure", "error"}
    BY <2>1
  <2>3. Head(r.outbox).kind \notin {"failure", "error"}
    BY <2>1
  <2> HIDE DEF q
  <2>4. Listened(r) = [r EXCEPT !.outbox = q] /\ Left(r) = [r EXCEPT !.outbox = q, !.exited = TRUE, !.settings = 0]
        /\ SeenTo(Left(r)) = [r EXCEPT !.outbox = q, !.exited = TRUE, !.settings = 0, !.ending = "over"]
    BY DEF Listened, Left, SeenTo, q
  <2> QED  BY <2>2, <2>3, <2>4
<1>7. Harmless(SeenTo(r))
  BY DEF SeenTo
<1> QED  BY <1>2, <1>3, <1>4, <1>5, <1>6, <1>7

\* Lemma: nobody is told of a failure that was none.
LEMMA UnalarmedKept ==
  ASSUME Types, Counted, Phases, Threads, OneAtATime, Unalarmed, [Next]_vars
  PROVE  Unalarmed'
<1>0. /\ runtime \in [Runtimes -> RuntimeRecords] /\ client.worker \in Runtimes \cup {None}
      /\ client.created \in Nat /\ Runtimes \subseteq Nat /\ failures \in Nat
  BY DEF Types, Runtimes
<1>a. SUFFICES ASSUME failures' = 0, ~session'.stopped, failures = 0, ~session.stopped
               PROVE  ~alarmed' /\ \A w \in Runtimes : Harmless(runtime[w])'
  <2>1. failures' = failures \/ failures' = failures + 1
    BY DEF Next, Work, Fault, User, Edit, Save, Write, FileReload, Restart, ChangeSetting, RequestMemory,
           Launch, CompilerCreated, Opened, Saved, Built, BuildFails, Stop, CompilerFails, Load,
           LoadFailsOrTraps, Hang, Crash, Misfortune, Receive, Kill, Thread, Ready, RuntimeFails,
           SnapshotArrives, Answered, Stopped, TimerExpires, Exited, vars, ghosts
  <2>2. ~session'.stopped => ~session.stopped
    <3>1. CASE \E o \in Operations : Opened(o) \/ Saved(o) \/ Built(o) \/ BuildFails(o)
      BY <3>1 DEF Opened, Saved, Built, BuildFails, Types
    <3>2. CASE \E w \in Runtimes : \/ Load(w) \/ Receive(w) \/ Kill(w) \/ Ready(w) \/ RuntimeFails(w)
                                   \/ SnapshotArrives(w) \/ Answered(w) \/ Stopped(w) \/ TimerExpires(w)
                                   \/ Exited(w) \/ LoadFailsOrTraps(w) \/ Hang(w) \/ Crash(w)
      BY <3>2 DEF Load, Receive, Kill, Thread, Ready, RuntimeFails, SnapshotArrives, Answered, Stopped,
                  TimerExpires, Exited, LoadFailsOrTraps, Hang, Crash, Types
    <3>3. CASE Edit \/ Save \/ Write \/ Restart \/ ChangeSetting \/ RequestMemory \/ Launch \/ Stop
               \/ CompilerFails \/ FileReload \/ CompilerCreated \/ UNCHANGED vars
      BY <3>3 DEF Edit, Save, Write, Restart, ChangeSetting, RequestMemory, Launch, Stop, CompilerFails,
                  FileReload, CompilerCreated, vars, Types
    <3> QED  BY <3>1, <3>2, <3>3 DEF Next, Work, Fault, User
  <2> QED  BY <1>0, <2>1, <2>2 DEF Unalarmed
<1>b. ~alarmed /\ \A w \in Runtimes : Harmless(runtime[w])
  BY <1>a DEF Unalarmed
<1>c. ASSUME UNCHANGED alarmed, NEW w \in Runtimes, NEW q, Changed(w, q), Harmless(q)
      PROVE  ~alarmed' /\ \A v \in Runtimes : Harmless(runtime[v])'
  BY <1>b, <1>c DEF Changed, Harmless
<1>d. ASSUME NEW w \in Runtimes, Hears(w, {"exit"})
      PROVE  client.intentional
  <2> DEFINE r == runtime[w]
  <2>1. r \in RuntimeRecords /\ r.outbox # <<>> /\ Head(r.outbox).kind = "exit"
    BY <1>0, <1>d DEF Hears
  <2>2. r.outbox \in Seq(Reports)
    BY <2>1 DEF RuntimeRecords
  <2>3. Head(r.outbox) = r.outbox[1] /\ 1 \in 1 .. Len(r.outbox)
    BY <2>1, <2>2, Queues
  <2>4. w <= client.created
    BY <1>0, <2>1 DEF Threads, NoRuntime
  <2>5. Sound(r)
    BY <2>4 DEF Threads
  <2>6. r.state = "dead" /\ ~r.exited
    BY <2>1, <2>3, <2>5 DEF Sound
  <2>7. r.ending \in {"killing", "over"}
    BY <1>b, <2>6 DEF Harmless
  <2>8. Ending(w)
    <3>1. client.worker # w
      BY <2>7 DEF Threads, Runtimes, None
    <3> QED  BY <2>4, <2>6, <3>1 DEF Threads
  <2>9. reload.at = "terminating"
    BY <1>a, <2>8 DEF Threads, Phases
  <2> QED  BY <1>a, <2>9 DEF OneAtATime
<1>1. CASE \/ Edit \/ Save \/ Write \/ FileReload \/ Restart \/ Launch \/ CompilerCreated \/ CompilerFails
           \/ \E o \in Operations : Opened(o) \/ Saved(o) \/ BuildFails(o)
           \/ UNCHANGED vars
  <2>1. UNCHANGED runtime
    BY <1>1, ElsewhereNoneEnded
  <2>2. UNCHANGED alarmed
    BY <1>1 DEF Edit, Save, Write, FileReload, Restart, Launch, CompilerCreated, CompilerFails,
                Opened, Saved, BuildFails, vars, ghosts
  <2> QED  BY <1>b, <2>1, <2>2 DEF Harmless
<1>2. ASSUME NEW w \in Runtimes, LoadFailsOrTraps(w) \/ Hang(w) \/ Crash(w)
      PROVE  FALSE
  BY <1>a, <1>2 DEF LoadFailsOrTraps, Hang, Crash, Misfortune
<1>3. ASSUME NEW w \in Runtimes, Load(w) \/ Kill(w) \/ Receive(w)
      PROVE  ~alarmed' /\ \A v \in Runtimes : Harmless(runtime[v])'
  <2> DEFINE r == runtime[w]
             m == Head(r.inbox)
  <2>1. r \in RuntimeRecords /\ Harmless(r)
    BY <1>0, <1>b
  <2>2. UNCHANGED alarmed
    BY <1>3 DEF Load, Kill, Receive, Thread
  <2>3. Kill(w) => r.ending = "killing"
    BY DEF Kill
  <2>4. Receive(w) => m \in Orders /\ Read(r) \in RuntimeRecords /\ Harmless(Read(r))
    <3>1. Receive(w) => r.inbox # <<>>
      BY DEF Receive
    <3> QED  BY <2>1, <3>1, RecordTypes, HarmlessRecords
  <2> HIDE DEF r, m
  <2>5. CASE Load(w)
    <3>1. Message("ready", 0) \in Reports /\ Message("ready", 0).kind \notin {"failure", "error"}
      BY MessageTypes DEF Message
    <3>2. Reported(r, Message("ready", 0)) \in RuntimeRecords /\ Harmless(Reported(r, Message("ready", 0)))
      BY <2>1, <3>1, RecordTypes, HarmlessRecords
    <3>3. Harmless([Reported(r, Message("ready", 0)) EXCEPT !.state = "running"])
      BY <3>2 DEF Harmless, RuntimeRecords
    <3> QED  BY <1>0, <1>c, <2>2, <2>5, <3>3, ThreadSteps DEF r
  <2>6. CASE Kill(w)
    <3>1. Harmless(Died(r))  BY <2>1, <2>3, <2>6, HarmlessRecords
    <3> QED  BY <1>0, <1>c, <2>2, <2>6, <3>1, ThreadSteps DEF r
  <2>7. CASE Receive(w)
    <3>1. ASSUME NEW a \in Reports, a.kind \notin {"failure", "error"}
          PROVE  Reported(Read(r), a) \in RuntimeRecords /\ Harmless(Reported(Read(r), a))
      BY <2>4, <2>7, <3>1, RecordTypes, HarmlessRecords
    <3>2. CASE m.kind = "setSetting"
               /\ Changed(w, [Reported(Read(r), Message("snapshot", m.value)) EXCEPT !.settings = m.value])
      <4>1. Message("snapshot", m.value) \in Reports /\ Message("snapshot", m.value).kind = "snapshot"
        BY <2>4, <2>7, <3>2, MessageTypes DEF Message
      <4>2. /\ Reported(Read(r), Message("snapshot", m.value)) \in RuntimeRecords
            /\ Harmless(Reported(Read(r), Message("snapshot", m.value)))
        BY <3>1, <4>1
      <4>3. Harmless([Reported(Read(r), Message("snapshot", m.value)) EXCEPT !.settings = m.value])
        BY <4>2 DEF Harmless, RuntimeRecords
      <4> QED  BY <1>c, <2>2, <3>2, <4>3
    <3>3. CASE m.kind = "readMemory" /\ Changed(w, Reported(Read(r), Message("answer", m.value)))
      <4>1. Message("answer", m.value) \in Reports /\ Message("answer", m.value).kind = "answer"
        BY <2>4, <2>7, <3>3, MessageTypes DEF Message
      <4> QED  BY <1>c, <2>2, <3>1, <3>3, <4>1
    <3>4. CASE m.kind = "shutdown"
               /\ Changed(w, [Reported(Read(r), Message("stopped", 0))
                                EXCEPT !.state = IF @ = "running" THEN "ended" ELSE @])
      <4>1. Message("stopped", 0) \in Reports /\ Message("stopped", 0).kind = "stopped"
        BY MessageTypes DEF Message
      <4>2. /\ Reported(Read(r), Message("stopped", 0)) \in RuntimeRecords
            /\ Harmless(Reported(Read(r), Message("stopped", 0)))
        BY <3>1, <4>1
      <4>3. Harmless([Reported(Read(r), Message("stopped", 0))
                        EXCEPT !.state = IF @ = "running" THEN "ended" ELSE @])
        BY <4>2 DEF Harmless, RuntimeRecords
      <4> QED  BY <1>c, <2>2, <3>4, <4>3
    <3> QED  BY <1>0, <2>7, <3>2, <3>3, <3>4, ReceiveSteps DEF r, m
  <2> QED  BY <1>3, <2>5, <2>6, <2>7
<1>4. ASSUME NEW w \in Runtimes, RuntimeFails(w)
      PROVE  FALSE
  <2>1. runtime[w] \in RuntimeRecords /\ Harmless(runtime[w])  BY <1>0, <1>b
  <2>2. runtime[w].outbox # <<>> /\ Head(runtime[w].outbox).kind \in {"failure", "error"}
    BY <1>4 DEF RuntimeFails, Hears
  <2> QED  BY <2>1, <2>2, HarmlessRecords
<1>5. ASSUME NEW w \in Runtimes, Ready(w) \/ SnapshotArrives(w) \/ Answered(w) \/ Stopped(w)
      PROVE  ~alarmed' /\ \A v \in Runtimes : Harmless(runtime[v])'
  <2> DEFINE r == runtime[w]
  <2>1. r \in RuntimeRecords /\ Harmless(r) /\ r.outbox # <<>>
    BY <1>0, <1>5, <1>b DEF Ready, SnapshotArrives, Answered, Stopped, Hears
  <2>2. UNCHANGED alarmed
    BY <1>5 DEF Ready, SnapshotArrives, Answered, Stopped, ghosts
  <2> HIDE DEF r
  <2>3. Listened(r) \in RuntimeRecords /\ Harmless(Listened(r))
    BY <2>1, RecordTypes, HarmlessRecords
  <2>4. Harmless([Listened(r) EXCEPT !.ending = IF @ = "waiting" THEN "killing" ELSE @])
    BY <2>3 DEF Harmless, RuntimeRecords
  <2> QED  BY <1>0, <1>5, <1>c, <2>2, <2>3, <2>4, ExtensionSteps DEF r
<1>6. CASE ChangeSetting \/ RequestMemory
  <2>1. PICK w \in Runtimes : client.worker = w
    BY <1>0, <1>6 DEF ChangeSetting, RequestMemory
  <2>2. runtime[w] \in RuntimeRecords /\ Harmless(runtime[w])  BY <1>0, <1>b
  <2>3. \A m : Harmless(Posted(runtime[w], m))
    BY <2>2 DEF Posted, Harmless, RuntimeRecords
  <2>4. UNCHANGED alarmed
    BY <1>6 DEF ChangeSetting, RequestMemory, ghosts
  <2> QED  BY <1>0, <1>6, <1>c, <2>1, <2>3, <2>4, ExtensionSteps
<1>7. CASE Stop
  BY <1>7, <1>a DEF Stop, Types
<1>8. ASSUME NEW o \in Operations, Built(o)
      PROVE  ~alarmed' /\ \A v \in Runtimes : Harmless(runtime[v])'
  <2>1. BuildGoes(o)  BY <1>8, BuildGoesWhere
  <2>2. UNCHANGED alarmed  BY <1>8 DEF Built
  <2>3. CASE Created(client, runtime)
    <3>1. Harmless(NewThread(client))
      BY DEF NewThread, NoRuntime, Harmless
    <3> QED  BY <1>b, <2>2, <2>3, <3>1 DEF Created, Harmless
  <2>4. CASE client.worker # None
             /\ Changed(client.worker,
                        [Posted(runtime[client.worker], Message("shutdown", 0)) EXCEPT !.ending = "waiting"])
    <3>1. PICK w \in Runtimes : w = client.worker  BY <1>0, <2>4
    <3>2. runtime[w] \in RuntimeRecords /\ Harmless(runtime[w])  BY <1>0, <1>b
    <3>3. runtime[w].ending = "no"
      BY <2>4, <3>1 DEF Threads
    <3>4. Harmless([Posted(runtime[w], Message("shutdown", 0)) EXCEPT !.ending = "waiting"])
      BY <3>2, <3>3 DEF Posted, Harmless, RuntimeRecords
    <3> QED  BY <1>c, <2>2, <2>4, <3>1, <3>4
  <2> QED  BY <2>1, <2>3, <2>4 DEF BuildGoes
<1>9. ASSUME NEW w \in Runtimes, TimerExpires(w) \/ Exited(w)
      PROVE  ~alarmed' /\ \A v \in Runtimes : Harmless(runtime[v])'
  <2> DEFINE r == runtime[w]
             With(q) == [v \in Runtimes |-> IF v = w THEN q ELSE runtime[v]]
  <2>1. ThreadGoes(w)  BY <1>9, ThreadGoesWhere
  <2>2. r \in RuntimeRecords /\ Harmless(r)
    BY <1>0, <1>b
  <2>3. \/ UNCHANGED alarmed
        \/ Exited(w) /\ alarmed' = (alarmed \/ ~client.intentional)
    BY <1>9 DEF TimerExpires, Exited
  <2>4. ~alarmed'
    <3>1. Exited(w) => client.intentional
      BY <1>d DEF Exited
    <3> QED  BY <1>b, <2>3, <3>1
  <2>5. UNCHANGED alarmed
    BY <1>b, <2>3, <2>4, <1>0 DEF Types
  <2>6. Over(runtime, w) = With(SeenTo(r)) /\ Over(Gone(w), w) = With(SeenTo(Left(r)))
    BY <1>0, EndSteps
  <2>7. ASSUME NEW c, NEW q, Harmless(q), Created(c, With(q))
        PROVE  \A v \in Runtimes : Harmless(runtime[v])'
    <3>1. Harmless(NewThread(c))
      BY DEF NewThread, NoRuntime, Harmless
    <3> QED  BY <1>b, <2>7, <3>1 DEF Created, Harmless
  <2>8. Exited(w) => r.outbox # <<>>
    BY DEF Exited, Hears
  <2> HIDE DEF r, With
  <2>9. Harmless(SeenTo(r)) /\ (Exited(w) => Harmless(Left(r)) /\ Harmless(SeenTo(Left(r))))
        /\ Harmless([r EXCEPT !.ending = "killing"])
    <3>1. Harmless([r EXCEPT !.ending = "killing"])
      BY <2>2 DEF Harmless, RuntimeRecords
    <3> QED  BY <2>2, <2>8, <3>1, HarmlessRecords
  <2>10. CASE \/ Changed(w, SeenTo(r)) \/ (Exited(w) /\ Changed(w, SeenTo(Left(r))))
              \/ (Exited(w) /\ Changed(w, Left(r))) \/ Changed(w, [r EXCEPT !.ending = "killing"])
    BY <1>c, <2>5, <2>9, <2>10 DEF r
  <2>11. CASE Created(client, Over(runtime, w)) \/ (Exited(w) /\ Created(HeardExit(w), Over(Gone(w), w)))
    BY <2>4, <2>6, <2>7, <2>9, <2>11
  <2> QED  BY <2>1, <2>10, <2>11 DEF ThreadGoes, r
<1> QED
  BY <1>1, <1>2, <1>3, <1>4, <1>5, <1>6, <1>7, <1>8, <1>9 DEF Next, Work, Fault, User

-----------------------------------------------------------------------------
(* The settings map on its way. *)

\* Lemma: a message of another kind changes nothing of those of kind k.
LEMMA SentOther ==
  ASSUME NEW S, NEW s \in Seq(S), NEW m \in S, NEW k, m.kind # k
  PROVE  /\ \A low, high : Rising(s, k, low, high) => Rising(Append(s, m), k, low, high)
         /\ \A v, before : Brings(s, k, v, before) => Brings(Append(s, m), k, v, before)
         /\ Lacks(s, k) => Lacks(Append(s, m), k)
<1> DEFINE q == Append(s, m)
<1>1. /\ Len(s) \in Nat /\ Len(q) = Len(s) + 1 /\ q[Len(s) + 1] = m
      /\ \A n \in 1 .. Len(s) : q[n] = s[n]
  BY Queues
<1> HIDE DEF q
<1>2. \A n \in 1 .. Len(q) : q[n].kind = k => n \in 1 .. Len(s) /\ q[n] = s[n] /\ s[n].kind = k
  BY <1>1
<1>3. \A n \in 1 .. Len(s) : n \in 1 .. Len(q)
  BY <1>1
<1>4. \A low, high : Rising(s, k, low, high) => Rising(q, k, low, high)
  BY <1>2 DEF Rising
<1>5. \A v, before : Brings(s, k, v, before) => Brings(q, k, v, before)
  BY <1>1, <1>3 DEF Brings
<1>6. Lacks(s, k) => Lacks(q, k)
  BY <1>2 DEF Lacks
<1> QED  BY <1>4, <1>5, <1>6 DEF q

\* Lemma: one of kind k that is higher than those before it.
LEMMA SentKind ==
  ASSUME NEW S, NEW s \in Seq(S), NEW m \in S, NEW k, m.kind = k,
         \A x \in S : x.kind = k => x.value \in Int,
         NEW low \in Int, NEW high \in Int, Rising(s, k, low, high), high <= m.value
  PROVE  /\ Rising(Append(s, m), k, low, m.value)
         /\ \A before : Brings(Append(s, m), k, m.value, before)
<1> DEFINE q == Append(s, m)
           len == Len(s) + 1
<1>1. /\ Len(s) \in Nat /\ Len(q) = len /\ q[len] = m
      /\ \A n \in 1 .. Len(s) : q[n] = s[n] /\ s[n] \in S
  BY Queues
<1> HIDE DEF q
<1>2. \A n \in 1 .. Len(s) : s[n].kind = k => s[n].value \in Int /\ low <= s[n].value /\ s[n].value <= m.value
  <2> SUFFICES ASSUME NEW n \in 1 .. Len(s), s[n].kind = k
               PROVE  s[n].value \in Int /\ low <= s[n].value /\ s[n].value <= m.value
    OBVIOUS
  <2>1. s[n].value \in Int /\ m.value \in Int  BY <1>1
  <2>2. low <= s[n].value /\ s[n].value <= high  BY DEF Rising
  <2> QED  BY <2>1, <2>2
<1>3. \A n \in 1 .. Len(q) : n = len \/ n \in 1 .. Len(s)
  BY <1>1
<1>4. low <= m.value /\ m.value \in Int
  BY DEF Rising
<1>5. \A n \in 1 .. Len(q) : q[n].kind = k => low <= q[n].value /\ q[n].value <= m.value
  BY <1>1, <1>2, <1>3, <1>4
<1>6. \A l, n \in 1 .. Len(q) : l < n /\ q[l].kind = k /\ q[n].kind = k => q[l].value <= q[n].value
  <2>1. ASSUME NEW l \in 1 .. Len(q), NEW n \in 1 .. Len(q), l < n, q[l].kind = k, q[n].kind = k
        PROVE  q[l].value <= q[n].value
    <3>1. l \in 1 .. Len(s)
      BY <1>1, <2>1
    <3>2. CASE n = len  BY <1>1, <1>2, <2>1, <3>1, <3>2
    <3>3. CASE n \in 1 .. Len(s)  BY <1>1, <2>1, <3>1, <3>3 DEF Rising
    <3> QED  BY <1>3, <3>2, <3>3
  <2> QED  BY <2>1
<1>7. Rising(q, k, low, m.value)
  BY <1>4, <1>5, <1>6 DEF Rising
<1>8. \A before : Brings(q, k, m.value, before)
  <2>1. len \in 1 .. Len(q)  BY <1>1
  <2> QED  BY <1>1, <2>1 DEF Brings
<1> QED  BY <1>7, <1>8 DEF q

\* Lemma: a message of another kind is taken.
LEMMA TakenOther ==
  ASSUME NEW S, NEW s \in Seq(S), s # <<>>, NEW k, Head(s).kind # k
  PROVE  /\ \A low, high : Rising(s, k, low, high) => Rising(Tail(s), k, low, high)
         /\ \A v, before : Brings(s, k, v, before) => Brings(Tail(s), k, v, before)
         /\ Lacks(s, k) => Lacks(Tail(s), k)
<1> DEFINE q == Tail(s)
<1>1. /\ Len(s) \in Nat \ {0} /\ Len(q) = Len(s) - 1 /\ s[1].kind # k
      /\ \A n \in 1 .. Len(q) : q[n] = s[n + 1]
  BY Queues
<1> HIDE DEF q
<1>2. \A n \in 1 .. Len(q) : n + 1 \in 1 .. Len(s)
  BY <1>1
<1>3. ASSUME NEW low, NEW high, Rising(s, k, low, high)
      PROVE  Rising(q, k, low, high)
  <2>1. \A n \in 1 .. Len(q) : q[n].kind = k => low <= q[n].value /\ q[n].value <= high
    BY <1>1, <1>2, <1>3 DEF Rising
  <2>2. \A m, n \in 1 .. Len(q) : m < n => m + 1 < n + 1
    OBVIOUS
  <2>3. \A m, n \in 1 .. Len(q) : m < n /\ q[m].kind = k /\ q[n].kind = k => q[m].value <= q[n].value
    BY <1>1, <1>2, <1>3, <2>2 DEF Rising
  <2> QED  BY <1>3, <2>1, <2>3 DEF Rising
<1>4. ASSUME NEW v, NEW before, Brings(s, k, v, before)
      PROVE  Brings(q, k, v, before)
  <2>1. CASE before = v  BY <2>1 DEF Brings
  <2>2. ASSUME NEW n \in 1 .. Len(s), s[n].kind = k, s[n].value = v
        PROVE  Brings(q, k, v, before)
    <3>1. n - 1 \in 1 .. Len(q) /\ (n - 1) + 1 = n
      BY <1>1, <2>2
    <3>2. q[n - 1] = s[n]
      BY <1>1, <3>1
    <3> QED  BY <2>2, <3>1, <3>2 DEF Brings
  <2> QED  BY <1>4, <2>1, <2>2 DEF Brings
<1>5. Lacks(s, k) => Lacks(q, k)
  BY <1>1, <1>2 DEF Lacks
<1> QED  BY <1>3, <1>4, <1>5 DEF q

\* Lemma: one of kind k is taken, and what it brings is what came before the others.
LEMMA TakenKind ==
  ASSUME NEW S, NEW s \in Seq(S), s # <<>>, NEW k, Head(s).kind = k,
         \A x \in S : x.kind = k => x.value \in Int,
         NEW low \in Int, NEW high \in Int, Rising(s, k, low, high), Brings(s, k, high, low)
  PROVE  /\ low <= Head(s).value /\ Head(s).value <= high
         /\ Rising(Tail(s), k, Head(s).value, high)
         /\ Brings(Tail(s), k, high, Head(s).value)
<1> DEFINE q == Tail(s)
           v == Head(s).value
<1>1. /\ Len(s) \in Nat \ {0} /\ Len(q) = Len(s) - 1 /\ s[1] = Head(s) /\ Head(s) \in S
      /\ \A n \in 1 .. Len(q) : q[n] = s[n + 1]
      /\ \A n \in 1 .. Len(s) : s[n] \in S
  BY Queues
<1> HIDE DEF q
<1>2. \A n \in 1 .. Len(q) : n + 1 \in 1 .. Len(s) /\ 1 < n + 1
  BY <1>1
<1>3. 1 \in 1 .. Len(s) /\ v \in Int /\ s[1].value = v
  BY <1>1
<1>4. low <= v /\ v <= high
  BY <1>1, <1>3 DEF Rising
<1>5. \A n \in 1 .. Len(q) : q[n].kind = k => v <= q[n].value /\ q[n].value <= high
  BY <1>1, <1>2, <1>3 DEF Rising
<1>6. \A m, n \in 1 .. Len(q) : m < n => m + 1 < n + 1
  OBVIOUS
<1>7. \A m, n \in 1 .. Len(q) : m < n /\ q[m].kind = k /\ q[n].kind = k => q[m].value <= q[n].value
  BY <1>1, <1>2, <1>6 DEF Rising
<1>8. Rising(q, k, v, high)
  BY <1>4, <1>5, <1>7 DEF Rising
<1>9. Brings(q, k, high, v)
  <2>1. CASE low = high
    <3>1. v = high  BY <1>3, <1>4, <2>1
    <3> QED  BY <3>1 DEF Brings
  <2>2. ASSUME NEW n \in 1 .. Len(s), s[n].kind = k, s[n].value = high
        PROVE  Brings(q, k, high, v)
    <3>1. CASE n = 1  BY <1>3, <2>2, <3>1 DEF Brings
    <3>2. CASE n # 1
      <4>1. n - 1 \in 1 .. Len(q) /\ (n - 1) + 1 = n
        BY <1>1, <2>2, <3>2
      <4>2. q[n - 1] = s[n]
        BY <1>1, <4>1
      <4> QED  BY <2>2, <4>1, <4>2 DEF Brings
    <3> QED  BY <3>1, <3>2
  <2> QED  BY <2>1, <2>2 DEF Brings
<1> QED  BY <1>4, <1>8, <1>9 DEF q

\* Lemma: no change of the settings map follows a request to stop.
LEMMA Shutdowns ==
  ASSUME NEW s \in Seq(Orders), ShutdownIsLast(s)
  PROVE  /\ \A m \in Orders : m.kind # "setSetting" => ShutdownIsLast(Append(s, m))
         /\ \A m \in Orders : Lacks(s, "shutdown") => ShutdownIsLast(Append(s, m))
         /\ s # <<>> => ShutdownIsLast(Tail(s))
         /\ s # <<>> /\ Head(s).kind = "shutdown" => Lacks(Tail(s), "setSetting") /\ ~Lacks(s, "shutdown")
<1>1. ASSUME NEW m \in Orders, m.kind # "setSetting" \/ Lacks(s, "shutdown")
      PROVE  ShutdownIsLast(Append(s, m))
  <2> DEFINE q == Append(s, m)
  <2>1. /\ Len(s) \in Nat /\ Len(q) = Len(s) + 1 /\ q[Len(s) + 1] = m
        /\ \A n \in 1 .. Len(s) : q[n] = s[n]
    BY Queues
  <2> HIDE DEF q
  <2>2. ASSUME NEW l \in 1 .. Len(q), NEW n \in 1 .. Len(q), l < n, q[l].kind = "shutdown"
        PROVE  q[n].kind # "setSetting"
    <3>1. l \in 1 .. Len(s)  BY <2>1, <2>2
    <3>2. CASE n = Len(s) + 1  BY <1>1, <2>1, <2>2, <3>1, <3>2 DEF Lacks
    <3>3. CASE n \in 1 .. Len(s)  BY <2>1, <2>2, <3>1, <3>3 DEF ShutdownIsLast
    <3> QED  BY <2>1, <3>2, <3>3
  <2> QED  BY <2>2 DEF ShutdownIsLast, q
<1>2. ASSUME s # <<>>
      PROVE  /\ ShutdownIsLast(Tail(s))
             /\ Head(s).kind = "shutdown" => Lacks(Tail(s), "setSetting") /\ ~Lacks(s, "shutdown")
  <2> DEFINE q == Tail(s)
  <2>1. /\ Len(s) \in Nat \ {0} /\ Len(q) = Len(s) - 1 /\ s[1] = Head(s)
        /\ \A n \in 1 .. Len(q) : q[n] = s[n + 1]
    BY <1>2, Queues
  <2> HIDE DEF q
  <2>2. \A n \in 1 .. Len(q) : n + 1 \in 1 .. Len(s) /\ 1 < n + 1
    BY <2>1
  <2>3. 1 \in 1 .. Len(s)
    BY <2>1
  <2>4. \A m, n \in 1 .. Len(q) : m < n => m + 1 < n + 1
    OBVIOUS
  <2> QED  BY <2>1, <2>2, <2>3, <2>4 DEF ShutdownIsLast, Lacks, q
<1> QED  BY <1>1, <1>2

\* Lemma: what the thread itself does keeps the changes on their way.
LEMMA CarriesThread ==
  ASSUME NEW r \in RuntimeRecords, NEW c \in Settings, NEW last \in Settings, Carries(r, c, last)
  PROVE  /\ \A m \in Reports : m.kind \notin {"snapshot", "stopped"} => Carries(Reported(r, m), c, last)
         /\ r.settings = last => Carries(Died(r), c, last)
         /\ r.inbox # <<>> /\ r.state # "dead" =>
              LET m == Head(r.inbox)
              IN /\ m.kind = "setSetting" =>
                      Carries([Reported(Read(r), Message("snapshot", m.value)) EXCEPT !.settings = m.value], c, last)
                 /\ m.kind = "readMemory" => Carries(Reported(Read(r), Message("answer", m.value)), c, last)
                 /\ m.kind = "shutdown" =>
                      Carries([Reported(Read(r), Message("stopped", 0))
                                 EXCEPT !.state = IF @ = "running" THEN "ended" ELSE @], c, last)
<1>1. /\ r.inbox \in Seq(Orders) /\ r.outbox \in Seq(Reports) /\ r.settings \in Settings
      /\ Settings \subseteq Int
  BY DEF RuntimeRecords, Settings
<1>2. /\ \A m \in Orders : m.kind = "setSetting" => m.value \in Int
      /\ \A m \in Reports : m.kind = "snapshot" => m.value \in Int
  BY <1>1, MessageTypes
<1>3. ASSUME NEW m \in Reports, m.kind \notin {"snapshot", "stopped"}
      PROVE  /\ Carries(Reported(r, m), c, last)
             /\ Rising(Append(r.outbox, m), "snapshot", c, r.settings)
             /\ Brings(Append(r.outbox, m), "snapshot", r.settings, c)
             /\ Lacks(r.outbox, "stopped") => Lacks(Append(r.outbox, m), "stopped")
  <2> DEFINE s == Append(r.outbox, m)
  <2>1. Rising(s, "snapshot", c, r.settings) /\ Brings(s, "snapshot", r.settings, c)
    BY <1>1, <1>3, SentOther DEF Carries
  <2>2. Lacks(r.outbox, "stopped") => Lacks(s, "stopped")
    BY <1>1, <1>3, SentOther
  <2> HIDE DEF s
  <2>3. Reported(r, m) = [r EXCEPT !.outbox = s]
    BY DEF Reported, s
  <2> DEFINE q == [r EXCEPT !.outbox = s]
  <2>4. /\ q.inbox = r.inbox /\ q.outbox = s /\ q.settings = r.settings /\ q.state = r.state
        /\ q.ending = r.ending
    BY DEF RuntimeRecords
  <2> HIDE DEF q
  <2>5. Carries(q, c, last)
    BY <2>1, <2>2, <2>4 DEF Carries
  <2> QED  BY <2>1, <2>2, <2>3, <2>5 DEF q, s
<1>4. ASSUME r.settings = last
      PROVE  Carries(Died(r), c, last)
  <2> DEFINE s == Append(r.outbox, Message("exit", 0))
             q == Died(r)
  <2>1. Message("exit", 0) \in Reports /\ Message("exit", 0).kind \notin {"snapshot", "stopped"}
    BY MessageTypes DEF Message
  <2>2. /\ Rising(s, "snapshot", c, r.settings) /\ Brings(s, "snapshot", r.settings, c)
        /\ Lacks(r.outbox, "stopped") => Lacks(s, "stopped")
    BY <1>3, <2>1
  <2> HIDE DEF s
  <2>3. /\ q.inbox = <<>> /\ q.outbox = s /\ q.settings = r.settings /\ q.ending = r.ending
    BY DEF Died, Reported, RuntimeRecords, s
  <2> HIDE DEF q
  <2>4. Len(<<>>) = 0
    OBVIOUS
  <2>5. /\ Rising(<<>>, "setSetting", last, last) /\ Brings(<<>>, "setSetting", last, last)
        /\ ShutdownIsLast(<<>>) /\ \A k : Lacks(<<>>, k)
    BY <1>1, <2>4 DEF Rising, Brings, ShutdownIsLast, Lacks
  <2> QED  BY <1>4, <2>2, <2>3, <2>5 DEF Carries, q
<1>5. ASSUME r.inbox # <<>>, r.state # "dead", Head(r.inbox).kind = "setSetting"
      PROVE  Carries([Reported(Read(r), Message("snapshot", Head(r.inbox).value))
                        EXCEPT !.settings = Head(r.inbox).value], c, last)
  <2> DEFINE v == Head(r.inbox).value
             m == Message("snapshot", v)
             i == Tail(r.inbox)
             s == Append(r.outbox, m)
             q == [Reported(Read(r), m) EXCEPT !.settings = v]
  <2>1. Head(r.inbox) \in Orders /\ v \in Settings
    BY <1>1, <1>5, Queues, MessageTypes
  <2>2. m \in Reports /\ m.kind = "snapshot" /\ m.value = v
    BY <2>1, MessageTypes DEF Message
  <2>3. /\ r.settings <= v /\ v <= last /\ Rising(i, "setSetting", v, last)
        /\ Brings(i, "setSetting", last, v)
    BY <1>1, <1>2, <1>5, TakenKind DEF Carries
  <2>4. Rising(s, "snapshot", c, v) /\ Brings(s, "snapshot", v, c)
    BY <1>1, <1>2, <2>2, <2>3, SentKind DEF Carries
  <2>5. ShutdownIsLast(i)
    BY <1>1, <1>5, Shutdowns DEF Carries
  <2>6. Lacks(r.inbox, "shutdown") => Lacks(i, "shutdown")
    BY <1>1, <1>5, TakenOther
  <2>7. Lacks(r.outbox, "stopped") => Lacks(s, "stopped")
    BY <1>1, <2>2, SentOther
  <2>8. ~Lacks(r.inbox, "setSetting")
    <3>1. 1 \in 1 .. Len(r.inbox) /\ Head(r.inbox) = r.inbox[1]
      BY <1>1, <1>5, Queues
    <3> QED  BY <1>5, <3>1 DEF Lacks
  <2> HIDE DEF v, m, i, s
  <2>9. r.settings = last => v = last
    <3>1. r.settings \in Int /\ v \in Int /\ last \in Int
      BY <1>1, <2>1
    <3> QED  BY <2>3, <3>1
  <2>10. /\ q.inbox = i /\ q.outbox = s /\ q.settings = v /\ q.ending = r.ending /\ q.state = r.state
    BY DEF Read, Reported, RuntimeRecords, i, s
  <2> HIDE DEF q
  <2>11. Carries(q, c, last)
    BY <1>5, <2>3, <2>4, <2>5, <2>6, <2>7, <2>8, <2>9, <2>10 DEF Carries
  <2> QED  BY <2>11 DEF q, m, v
<1>6. ASSUME r.inbox # <<>>, r.state # "dead", Head(r.inbox).kind # "setSetting"
      PROVE  /\ Rising(Tail(r.inbox), "setSetting", r.settings, last)
             /\ Brings(Tail(r.inbox), "setSetting", last, r.settings)
             /\ Lacks(r.inbox, "setSetting") => Lacks(Tail(r.inbox), "setSetting")
             /\ ShutdownIsLast(Tail(r.inbox))
             /\ Head(r.inbox) \in Orders
  BY <1>1, <1>6, TakenOther, Shutdowns, Queues DEF Carries
<1>7. ASSUME r.inbox # <<>>, r.state # "dead", Head(r.inbox).kind = "readMemory"
      PROVE  Carries(Reported(Read(r), Message("answer", Head(r.inbox).value)), c, last)
  <2> DEFINE m == Message("answer", Head(r.inbox).value)
             i == Tail(r.inbox)
             s == Append(r.outbox, m)
             q == Reported(Read(r), m)
  <2>1. m \in Reports /\ m.kind = "answer"
    BY <1>6, <1>7, MessageTypes DEF Message
  <2>2. /\ Rising(s, "snapshot", c, r.settings) /\ Brings(s, "snapshot", r.settings, c)
        /\ Lacks(r.outbox, "stopped") => Lacks(s, "stopped")
    BY <1>3, <2>1
  <2>3. Lacks(r.inbox, "shutdown") => Lacks(i, "shutdown")
    BY <1>1, <1>7, TakenOther
  <2>4. /\ Rising(i, "setSetting", r.settings, last) /\ Brings(i, "setSetting", last, r.settings)
        /\ Lacks(r.inbox, "setSetting") => Lacks(i, "setSetting")
        /\ ShutdownIsLast(i)
    BY <1>6, <1>7
  <2> HIDE DEF m, i, s
  <2>5. /\ q.inbox = i /\ q.outbox = s /\ q.settings = r.settings /\ q.ending = r.ending /\ q.state = r.state
    BY DEF Read, Reported, RuntimeRecords, i, s
  <2> HIDE DEF q
  <2>6. Carries(q, c, last)
    BY <2>2, <2>3, <2>4, <2>5 DEF Carries
  <2> QED  BY <2>6 DEF q, m
<1>8. ASSUME r.inbox # <<>>, r.state # "dead", Head(r.inbox).kind = "shutdown"
      PROVE  Carries([Reported(Read(r), Message("stopped", 0))
                        EXCEPT !.state = IF @ = "running" THEN "ended" ELSE @], c, last)
  <2> DEFINE m == Message("stopped", 0)
             i == Tail(r.inbox)
             s == Append(r.outbox, m)
             q == [Reported(Read(r), m) EXCEPT !.state = IF @ = "running" THEN "ended" ELSE @]
  <2>1. m \in Reports /\ m.kind # "snapshot"
    BY MessageTypes DEF Message
  <2>2. Rising(s, "snapshot", c, r.settings) /\ Brings(s, "snapshot", r.settings, c)
    BY <1>1, <2>1, SentOther DEF Carries
  <2>3. Lacks(i, "setSetting") /\ ~Lacks(r.inbox, "shutdown")
    BY <1>1, <1>8, Shutdowns DEF Carries
  <2>4. r.ending # "no"
    BY <2>3 DEF Carries
  <2>5. /\ Rising(i, "setSetting", r.settings, last) /\ Brings(i, "setSetting", last, r.settings)
        /\ ShutdownIsLast(i)
    BY <1>6, <1>8
  <2> HIDE DEF m, i, s
  <2>6. /\ q.inbox = i /\ q.outbox = s /\ q.settings = r.settings /\ q.ending = r.ending
        /\ q.state # "dead"
    BY <1>8 DEF Read, Reported, RuntimeRecords, i, s
  <2> HIDE DEF q
  <2>7. Carries(q, c, last)
    BY <2>2, <2>3, <2>4, <2>5, <2>6 DEF Carries
  <2> QED  BY <2>7 DEF q, m
<1> QED  BY <1>3, <1>4, <1>5, <1>7, <1>8

\* Lemma: what the extension hears, sends and does keeps the changes on their way.
LEMMA CarriesExtension ==
  ASSUME NEW r \in RuntimeRecords, NEW c \in Settings, NEW last \in Settings, Carries(r, c, last)
  PROVE  /\ r.outbox # <<>> /\ Head(r.outbox).kind # "snapshot" =>
              /\ Carries(Listened(r), c, last)
              /\ Head(r.outbox).kind = "stopped" =>
                   Carries([Listened(r) EXCEPT !.ending = IF @ = "waiting" THEN "killing" ELSE @], c, last)
         /\ r.outbox # <<>> /\ Head(r.outbox).kind = "snapshot" =>
              Carries(Listened(r), Head(r.outbox).value, last)
         /\ \A m \in Orders : m.kind = "readMemory" => Carries(Posted(r, m), c, last)
         /\ \A m \in Orders :
              m.kind = "setSetting" /\ last <= m.value /\ m.value \in Settings /\ r.ending = "no" /\ r.state # "dead"
                => Carries(Posted(r, m), c, m.value)
         /\ Carries([Posted(r, Message("shutdown", 0)) EXCEPT !.ending = "waiting"], c, last)
         /\ c = last => Carries([r EXCEPT !.ending = "killing"], c, last)
         /\ Sound(r) /\ r.outbox # <<>> /\ Head(r.outbox).kind = "exit" => c = last
<1>1. /\ r.inbox \in Seq(Orders) /\ r.outbox \in Seq(Reports) /\ r.settings \in Settings
      /\ Settings \subseteq Int
  BY DEF RuntimeRecords, Settings
<1>2. /\ \A m \in Orders : m.kind = "setSetting" => m.value \in Int
      /\ \A m \in Reports : m.kind = "snapshot" => m.value \in Int
  BY <1>1, MessageTypes
<1> DEFINE l == Tail(r.outbox)
<1>3. /\ Listened(r).inbox = r.inbox /\ Listened(r).outbox = l /\ Listened(r).settings = r.settings
      /\ Listened(r).state = r.state /\ Listened(r).ending = r.ending
      /\ [Listened(r) EXCEPT !.ending = IF @ = "waiting" THEN "killing" ELSE @].inbox = r.inbox
      /\ [Listened(r) EXCEPT !.ending = IF @ = "waiting" THEN "killing" ELSE @].outbox = l
      /\ [Listened(r) EXCEPT !.ending = IF @ = "waiting" THEN "killing" ELSE @].settings = r.settings
      /\ [Listened(r) EXCEPT !.ending = IF @ = "waiting" THEN "killing" ELSE @].state = r.state
      /\ [Listened(r) EXCEPT !.ending = IF @ = "waiting" THEN "killing" ELSE @].ending =
           IF r.ending = "waiting" THEN "killing" ELSE r.ending
  BY DEF Listened, RuntimeRecords
<1>4. r.outbox # <<>> => (Lacks(r.outbox, "stopped") => Lacks(l, "stopped"))
  <2>1. r.outbox # <<>> /\ Lacks(r.outbox, "stopped") => Head(r.outbox).kind # "stopped"
    <3>1. r.outbox # <<>> => 1 \in 1 .. Len(r.outbox) /\ Head(r.outbox) = r.outbox[1]
      BY <1>1, Queues
    <3> QED  BY <3>1 DEF Lacks
  <2> QED  BY <1>1, <2>1, TakenOther
<1>5. ASSUME r.outbox # <<>>, Head(r.outbox).kind # "snapshot"
      PROVE  /\ Carries(Listened(r), c, last)
             /\ Head(r.outbox).kind = "stopped" =>
                  Carries([Listened(r) EXCEPT !.ending = IF @ = "waiting" THEN "killing" ELSE @], c, last)
  <2>1. Rising(l, "snapshot", c, r.settings) /\ Brings(l, "snapshot", r.settings, c)
    BY <1>1, <1>5, TakenOther DEF Carries
  <2>2. Head(r.outbox).kind = "stopped" => r.settings = last
    <3>1. 1 \in 1 .. Len(r.outbox) /\ Head(r.outbox) = r.outbox[1]
      BY <1>1, <1>5, Queues
    <3>2. Head(r.outbox).kind = "stopped" => ~Lacks(r.outbox, "stopped")
      BY <3>1 DEF Lacks
    <3> QED  BY <3>2 DEF Carries, Lacks, Brings
  <2> HIDE DEF l
  <2>3. Carries(Listened(r), c, last)
    BY <1>3, <1>4, <1>5, <2>1 DEF Carries
  <2>4. Head(r.outbox).kind = "stopped" =>
          Carries([Listened(r) EXCEPT !.ending = IF @ = "waiting" THEN "killing" ELSE @], c, last)
    BY <1>3, <1>4, <1>5, <2>1, <2>2 DEF Carries
  <2> QED  BY <2>3, <2>4
<1>6. ASSUME r.outbox # <<>>, Head(r.outbox).kind = "snapshot"
      PROVE  Carries(Listened(r), Head(r.outbox).value, last)
  <2>1. /\ Rising(l, "snapshot", Head(r.outbox).value, r.settings)
        /\ Brings(l, "snapshot", r.settings, Head(r.outbox).value)
    BY <1>1, <1>2, <1>6, TakenKind DEF Carries
  <2> HIDE DEF l
  <2> QED  BY <1>3, <1>4, <1>6, <2>1 DEF Carries
<1>7. \A m : r.state = "dead" => Posted(r, m) = r
  BY DEF Posted
<1>8. \A m : r.state # "dead" => /\ Posted(r, m).inbox = Append(r.inbox, m) /\ Posted(r, m).outbox = r.outbox
                                 /\ Posted(r, m).settings = r.settings /\ Posted(r, m).state = r.state
                                 /\ Posted(r, m).ending = r.ending
  BY DEF Posted, RuntimeRecords
<1>9. ASSUME NEW m \in Orders, m.kind # "setSetting"
      PROVE  LET i == Append(r.inbox, m)
             IN /\ Rising(i, "setSetting", r.settings, last) /\ Brings(i, "setSetting", last, r.settings)
                /\ ShutdownIsLast(i) /\ (Lacks(r.inbox, "setSetting") => Lacks(i, "setSetting"))
                /\ m.kind # "shutdown" /\ Lacks(r.inbox, "shutdown") => Lacks(i, "shutdown")
  BY <1>1, <1>9, SentOther, Shutdowns DEF Carries
<1>10. ASSUME NEW m \in Orders, m.kind = "readMemory"
       PROVE  Carries(Posted(r, m), c, last)
  <2>1. CASE r.state = "dead"  BY <1>7, <2>1
  <2>2. CASE r.state # "dead"
    <3> DEFINE i == Append(r.inbox, m)
    <3>1. /\ Rising(i, "setSetting", r.settings, last) /\ Brings(i, "setSetting", last, r.settings)
          /\ ShutdownIsLast(i) /\ (Lacks(r.inbox, "setSetting") => Lacks(i, "setSetting"))
          /\ Lacks(r.inbox, "shutdown") => Lacks(i, "shutdown")
      BY <1>9, <1>10
    <3> HIDE DEF i
    <3>2. /\ Posted(r, m).inbox = i /\ Posted(r, m).outbox = r.outbox
          /\ Posted(r, m).settings = r.settings /\ Posted(r, m).state = r.state
          /\ Posted(r, m).ending = r.ending
      BY <1>8, <2>2 DEF i
    <3> QED  BY <3>1, <3>2 DEF Carries
  <2> QED  BY <2>1, <2>2
<1>11. ASSUME NEW m \in Orders, m.kind = "setSetting", last <= m.value, m.value \in Settings,
              r.ending = "no", r.state # "dead"
       PROVE  Carries(Posted(r, m), c, m.value)
  <2> DEFINE i == Append(r.inbox, m)
  <2>1. Rising(i, "setSetting", r.settings, m.value) /\ Brings(i, "setSetting", m.value, r.settings)
    BY <1>1, <1>2, <1>11, SentKind DEF Carries
  <2>2. Lacks(r.inbox, "shutdown") /\ Lacks(r.outbox, "stopped")
    BY <1>11 DEF Carries
  <2>3. ShutdownIsLast(i) /\ Lacks(i, "shutdown")
    BY <1>1, <1>11, <2>2, SentOther, Shutdowns DEF Carries
  <2> HIDE DEF i
  <2>4. /\ Posted(r, m).inbox = i /\ Posted(r, m).outbox = r.outbox
        /\ Posted(r, m).settings = r.settings /\ Posted(r, m).state = r.state
        /\ Posted(r, m).ending = r.ending
    BY <1>8, <1>11 DEF i
  <2> QED  BY <1>11, <2>1, <2>2, <2>3, <2>4 DEF Carries
<1>12. Carries([Posted(r, Message("shutdown", 0)) EXCEPT !.ending = "waiting"], c, last)
  <2> DEFINE m == Message("shutdown", 0)
             q == [Posted(r, m) EXCEPT !.ending = "waiting"]
             i == Append(r.inbox, m)
  <2>1. m \in Orders /\ m.kind # "setSetting"
    BY MessageTypes DEF Message
  <2>2. /\ Rising(i, "setSetting", r.settings, last) /\ Brings(i, "setSetting", last, r.settings)
        /\ ShutdownIsLast(i) /\ (Lacks(r.inbox, "setSetting") => Lacks(i, "setSetting"))
    BY <1>9, <2>1
  <2> HIDE DEF m, i
  <2>3. /\ q.inbox = IF r.state = "dead" THEN r.inbox ELSE i
        /\ q.outbox = r.outbox /\ q.settings = r.settings /\ q.state = r.state /\ q.ending = "waiting"
    BY DEF Posted, RuntimeRecords, i
  <2> HIDE DEF q
  <2>4. Carries(q, c, last)
    BY <2>2, <2>3 DEF Carries
  <2> QED  BY <2>4 DEF q, m
<1>13. ASSUME c = last
       PROVE  Carries([r EXCEPT !.ending = "killing"], c, last)
  <2> DEFINE q == [r EXCEPT !.ending = "killing"]
  <2>1. r.settings = last
    BY <1>1, <1>13 DEF Carries, Rising
  <2>2. /\ q.inbox = r.inbox /\ q.outbox = r.outbox /\ q.settings = r.settings /\ q.state = r.state
        /\ q.ending = "killing"
    BY DEF RuntimeRecords
  <2> HIDE DEF q
  <2>3. Carries(q, c, last)
    BY <2>1, <2>2 DEF Carries
  <2> QED  BY <2>3 DEF q
<1>14. ASSUME Sound(r), r.outbox # <<>>, Head(r.outbox).kind = "exit"
       PROVE  c = last
  <2>1. /\ Len(r.outbox) \in Nat \ {0} /\ 1 \in 1 .. Len(r.outbox) /\ r.outbox[1].kind = "exit"
    BY <1>1, <1>14, Queues
  <2>2. Len(r.outbox) = 1 /\ r.state = "dead"
    BY <1>14, <2>1 DEF Sound
  <2>3. \A n \in 1 .. Len(r.outbox) : r.outbox[n].kind # "snapshot"
    BY <2>1, <2>2
  <2> QED  BY <2>2, <2>3 DEF Carries, Brings
<1> QED  BY <1>5, <1>6, <1>10, <1>11, <1>12, <1>13, <1>14

\* Lemma: a new thread starts from the settings map of the client.
LEMMA CarriesNew ==
  ASSUME NEW c, c.settings \in Settings
  PROVE  OnTheirWay(NewThread(c), c.settings, c.settings)
<1>1. /\ NewThread(c).inbox = <<>> /\ NewThread(c).outbox = <<>> /\ NewThread(c).settings = c.settings
      /\ ~NewThread(c).exited
  BY DEF NewThread, NoRuntime
<1>2. Len(<<>>) = 0 /\ c.settings <= c.settings
  BY DEF Settings
<1> QED  BY <1>1, <1>2 DEF OnTheirWay, Carries, Rising, Brings, Lacks, ShutdownIsLast

SameSettings ==
  client'.created = client.created /\ client'.settings = client.settings /\ UNCHANGED lastSetting

\* Lemma: every step keeps the changes of the settings map on their way.
LEMMA CarriedKept ==
  ASSUME Types, Counted, Phases, Threads, OneAtATime, Carried, [Next]_vars
  PROVE  Carried'
<1> DEFINE Kept == ~session'.stopped /\ ~lost' => \A w \in Runtimes : w = client'.created =>
                     OnTheirWay(runtime'[w], client'.settings, lastSetting')
<1>0. /\ runtime \in [Runtimes -> RuntimeRecords] /\ client.worker \in Runtimes \cup {None}
      /\ client.created \in Nat /\ Runtimes \subseteq Nat /\ client.settings \in Settings
      /\ lastSetting \in Settings /\ Settings \subseteq Nat /\ None = 0 /\ \A w \in Runtimes : w # 0
  BY DEF Types, Runtimes, Settings, None
<1>a. ASSUME Kept, SameSettings \/ client'.created # 0
      PROVE  Carried'
  BY <1>a DEF Carried, SameSettings, OnTheirWay, Carries, Rising, Brings, Lacks, ShutdownIsLast
<1>b. ASSUME SameSettings, UNCHANGED <<runtime, lost>>, session'.stopped = session.stopped
      PROVE  Carried'
  <2>1. Kept
    BY <1>b DEF Carried, SameSettings
  <2> QED  BY <1>a, <1>b, <2>1
<1>c. ASSUME NEW w \in Runtimes, NEW q, Changed(w, q), client'.created = client.created, client.created # 0,
             ~session'.stopped /\ ~lost' /\ w = client.created => OnTheirWay(q, client'.settings, lastSetting'),
             w = client.created
      PROVE  Carried'
  <2>1. Kept
    BY <1>c DEF Changed
  <2> QED  BY <1>a, <1>c, <2>1
<1>d. ASSUME session'.stopped
      PROVE  Kept
  BY <1>d
\* While the session lasts, only the last thread does anything or is heard.
<1>e. ASSUME ~session.stopped, NEW w \in Runtimes, ~runtime[w].exited, runtime[w] # NoRuntime
      PROVE  w = client.created
  BY <1>0, <1>e DEF Threads, OneAtATime
<1>f. ASSUME NEW w \in Runtimes, runtime[w] # NoRuntime
      PROVE  w <= client.created /\ Sound(runtime[w]) /\ client.created # 0
  BY <1>0, <1>f DEF Threads
<1>g. ASSUME NEW w \in Runtimes, runtime[w].outbox # <<>> \/ Live(w)
      PROVE  ~runtime[w].exited /\ runtime[w] # NoRuntime
  <2>1. runtime[w] # NoRuntime
    BY <1>g DEF Live, NoRuntime
  <2> QED  BY <1>f, <1>g, <2>1 DEF Sound, Live
<1>h. ASSUME ~session.stopped, ~lost, NEW w \in Runtimes, w = client.created, ~runtime[w].exited
      PROVE  Carries(runtime[w], client.settings, lastSetting)
  BY <1>h DEF Carried, OnTheirWay
<1>1. CASE \/ Edit \/ Save \/ Write \/ FileReload \/ Restart \/ Launch \/ CompilerCreated \/ CompilerFails
           \/ \E o \in Operations : Opened(o) \/ Saved(o) \/ BuildFails(o)
           \/ UNCHANGED vars
  <2>1. UNCHANGED <<runtime, client>>
    BY <1>1, ElsewhereNoneEnded
  <2>2. UNCHANGED <<lastSetting, lost>> /\ session'.stopped = session.stopped
    BY <1>1 DEF Edit, Save, Write, FileReload, Restart, Launch, CompilerCreated, CompilerFails,
                Opened, Saved, BuildFails, vars, ghosts, Types
  <2> QED  BY <1>b, <2>1, <2>2 DEF SameSettings
<1>2. ASSUME NEW w \in Runtimes,
             Load(w) \/ LoadFailsOrTraps(w) \/ Hang(w) \/ Crash(w) \/ Kill(w) \/ Receive(w)
      PROVE  Carried'
  <2> DEFINE r == runtime[w]
             m == Head(r.inbox)
  <2>1. SameSettings /\ UNCHANGED session /\ (lost' = lost \/ lost' = (lost \/ client.settings # lastSetting))
    BY <1>2 DEF SameSettings, Load, LoadFailsOrTraps, Hang, Crash, Kill, Receive, Thread
  <2>2. r \in RuntimeRecords /\ Live(w) /\ ~r.exited /\ r # NoRuntime
    BY <1>0, <1>2, <1>g DEF Live, Load, LoadFailsOrTraps, Hang, Crash, Kill, Receive
  <2>3. client.created # 0
    BY <1>f, <2>2
  <2>c. ASSUME ~session.stopped => \E q : Changed(w, q) /\ (~lost' => OnTheirWay(q, client.settings, lastSetting))
        PROVE  Carried'
    <3>1. CASE session.stopped  BY <1>a, <2>1, <3>1
    <3>2. CASE ~session.stopped
      <4>1. PICK q : Changed(w, q) /\ (~lost' => OnTheirWay(q, client.settings, lastSetting))
        BY <2>c, <3>2
      <4>2. w = client.created  BY <1>e, <2>2, <3>2
      <4> QED  BY <1>c, <2>1, <2>3, <4>1, <4>2 DEF SameSettings
    <3> QED  BY <3>1, <3>2
  <2>4. SUFFICES ASSUME ~session.stopped
                 PROVE  \E q : Changed(w, q) /\ (~lost' => OnTheirWay(q, client.settings, lastSetting))
    BY <2>c
  <2>5. w = client.created
    BY <1>e, <2>2, <2>4
  <2>6. ~lost => Carries(r, client.settings, lastSetting)
    BY <1>h, <2>2, <2>4, <2>5
  <2>7. ~lost' => ~lost
    BY <2>1
  <2> HIDE DEF r, m
  <2>8. CASE Load(w)
    <3> DEFINE p == Reported(r, Message("ready", 0))
               q == [p EXCEPT !.state = "running"]
    <3>1. ~lost => Carries(p, client.settings, lastSetting)
      <4>1. Message("ready", 0) \in Reports /\ Message("ready", 0).kind \notin {"snapshot", "stopped"}
        BY MessageTypes DEF Message
      <4> QED  BY <1>0, <2>2, <2>6, <4>1, CarriesThread
    <3>2. p \in RuntimeRecords /\ ~p.exited
      <4>1. Message("ready", 0) \in Reports  BY MessageTypes
      <4> QED  BY <2>2, <4>1, RecordTypes DEF Reported, RuntimeRecords
    <3> HIDE DEF p
    <3>3. /\ q.inbox = p.inbox /\ q.outbox = p.outbox /\ q.settings = p.settings /\ q.ending = p.ending
          /\ q.state # "dead" /\ ~q.exited
      BY <3>2 DEF RuntimeRecords
    <3>4. Changed(w, q)
      BY <1>0, <2>8, ThreadSteps DEF r, p
    <3> HIDE DEF q
    <3> QED  BY <2>7, <3>1, <3>3, <3>4 DEF OnTheirWay, Carries
  <2>9. CASE LoadFailsOrTraps(w)
    <3> DEFINE p == Reported(r, Message("failure", 0))
               q == [p EXCEPT !.state = "ended"]
    <3>1. ~lost => Carries(p, client.settings, lastSetting)
      <4>1. Message("failure", 0) \in Reports /\ Message("failure", 0).kind \notin {"snapshot", "stopped"}
        BY MessageTypes DEF Message
      <4> QED  BY <1>0, <2>2, <2>6, <4>1, CarriesThread
    <3>2. p \in RuntimeRecords /\ ~p.exited
      <4>1. Message("failure", 0) \in Reports  BY MessageTypes
      <4> QED  BY <2>2, <4>1, RecordTypes DEF Reported, RuntimeRecords
    <3> HIDE DEF p
    <3>3. /\ q.inbox = p.inbox /\ q.outbox = p.outbox /\ q.settings = p.settings /\ q.ending = p.ending
          /\ q.state # "dead" /\ ~q.exited
      BY <3>2 DEF RuntimeRecords
    <3>4. Changed(w, q)
      BY <1>0, <2>9, ThreadSteps DEF r, p
    <3> HIDE DEF q
    <3> QED  BY <2>7, <3>1, <3>3, <3>4 DEF OnTheirWay, Carries
  <2>10. CASE Hang(w)
    <3> DEFINE q == [r EXCEPT !.state = "hung"]
    <3>1. /\ q.inbox = r.inbox /\ q.outbox = r.outbox /\ q.settings = r.settings /\ q.ending = r.ending
          /\ q.state # "dead" /\ ~q.exited
      BY <2>2 DEF RuntimeRecords
    <3>2. Changed(w, q)
      BY <1>0, <2>10, ThreadSteps DEF r
    <3> HIDE DEF q
    <3> QED  BY <2>6, <2>7, <3>1, <3>2 DEF OnTheirWay, Carries
  <2>11. CASE Crash(w)
    <3> DEFINE p == Reported(r, Message("error", 0))
    <3>1. Message("error", 0) \in Reports /\ Message("error", 0).kind \notin {"snapshot", "stopped"}
      BY MessageTypes DEF Message
    <3>2. p \in RuntimeRecords
      BY <2>2, <3>1, RecordTypes
    <3>3. ~lost => Carries(p, client.settings, lastSetting)
      BY <1>0, <2>2, <2>6, <3>1, CarriesThread
    <3>4. ~p.exited  BY <2>2 DEF Reported, RuntimeRecords
    <3>5. lost' = (lost \/ client.settings # lastSetting)
      BY <2>11 DEF Crash
    <3> HIDE DEF p
    <3>6. p.settings \in Nat  BY <1>0, <3>2 DEF RuntimeRecords
    <3>7. ~lost' => p.settings = lastSetting
      <4>1. ~lost => client.settings <= p.settings /\ p.settings <= lastSetting
        BY <3>3 DEF Carries, Rising
      <4>2. client.settings \in Nat /\ lastSetting \in Nat
        BY <1>0
      <4>3. ~lost' => ~lost /\ client.settings = lastSetting
        BY <3>5
      <4>4. ASSUME client.settings <= p.settings, p.settings <= lastSetting, client.settings = lastSetting
            PROVE  p.settings = lastSetting
        BY ONLY <3>6, <4>2, <4>4
      <4> QED  BY <4>1, <4>3, <4>4
    <3>8. ~lost' => Carries(Died(p), client.settings, lastSetting)
      BY <1>0, <2>7, <3>2, <3>3, <3>7, CarriesThread
    <3>9. ~Died(p).exited  BY <3>2, <3>4 DEF Died, Reported, RuntimeRecords
    <3>10. Changed(w, Died(p))
      BY <1>0, <2>11, ThreadSteps DEF r, p
    <3> QED  BY <3>8, <3>9, <3>10 DEF OnTheirWay
  <2>12. CASE Kill(w)
    <3>1. r.ending = "killing"  BY <2>12 DEF Kill, r
    <3>2. ~lost => Carries(Died(r), client.settings, lastSetting)
      <4>1. ~lost => r.settings = lastSetting  BY <2>6, <3>1 DEF Carries
      <4> QED  BY <1>0, <2>2, <2>6, <4>1, CarriesThread
    <3>3. ~Died(r).exited  BY <2>2 DEF Died, Reported, RuntimeRecords
    <3>4. Changed(w, Died(r))  BY <1>0, <2>12, ThreadSteps DEF r
    <3> QED  BY <2>7, <3>2, <3>3, <3>4 DEF OnTheirWay
  <2>13. CASE Receive(w)
    <3>1. r.inbox # <<>> /\ r.state # "dead"
      BY <1>0, <2>13, ReceiveSteps DEF r
    <3>2. CASE m.kind = "setSetting"
               /\ Changed(w, [Reported(Read(r), Message("snapshot", m.value)) EXCEPT !.settings = m.value])
      <4> DEFINE q == [Reported(Read(r), Message("snapshot", m.value)) EXCEPT !.settings = m.value]
      <4>1. ~q.exited  BY <2>2 DEF Reported, Read, RuntimeRecords
      <4>2. ~lost => Carries(q, client.settings, lastSetting)
        BY <1>0, <2>2, <2>6, <3>1, <3>2, CarriesThread DEF m
      <4> HIDE DEF q
      <4>3. Changed(w, q)  BY <3>2 DEF q
      <4> QED  BY <2>7, <4>1, <4>2, <4>3 DEF OnTheirWay
    <3>3. CASE m.kind = "readMemory" /\ Changed(w, Reported(Read(r), Message("answer", m.value)))
      <4> DEFINE q == Reported(Read(r), Message("answer", m.value))
      <4>1. ~q.exited  BY <2>2 DEF Reported, Read, RuntimeRecords
      <4>2. ~lost => Carries(q, client.settings, lastSetting)
        BY <1>0, <2>2, <2>6, <3>1, <3>3, CarriesThread DEF m
      <4> HIDE DEF q
      <4>3. Changed(w, q)  BY <3>3 DEF q
      <4> QED  BY <2>7, <4>1, <4>2, <4>3 DEF OnTheirWay
    <3>4. CASE m.kind = "shutdown"
               /\ Changed(w, [Reported(Read(r), Message("stopped", 0))
                                EXCEPT !.state = IF @ = "running" THEN "ended" ELSE @])
      <4> DEFINE q == [Reported(Read(r), Message("stopped", 0))
                         EXCEPT !.state = IF @ = "running" THEN "ended" ELSE @]
      <4>1. ~q.exited  BY <2>2 DEF Reported, Read, RuntimeRecords
      <4>2. ~lost => Carries(q, client.settings, lastSetting)
        BY <1>0, <2>2, <2>6, <3>1, <3>4, CarriesThread DEF m
      <4> HIDE DEF q
      <4>3. Changed(w, q)  BY <3>4 DEF q
      <4> QED  BY <2>7, <4>1, <4>2, <4>3 DEF OnTheirWay
    <3> QED  BY <1>0, <2>13, <3>2, <3>3, <3>4, ReceiveSteps DEF r, m
  <2> QED  BY <1>2, <2>8, <2>9, <2>10, <2>11, <2>12, <2>13
<1>3. ASSUME NEW w \in Runtimes, Ready(w) \/ RuntimeFails(w) \/ SnapshotArrives(w) \/ Answered(w) \/ Stopped(w)
      PROVE  Carried'
  <2> DEFINE r == runtime[w]
  <2>1. /\ client'.created = client.created /\ UNCHANGED <<lastSetting, lost>>
        /\ session'.stopped = session.stopped
        /\ client'.settings = IF SnapshotArrives(w) THEN Head(r.outbox).value ELSE client.settings
    <3>1. CASE Ready(w)
      <4>1. UNCHANGED <<client, lastSetting, lost>> /\ session'.stopped = session.stopped
            /\ ~SnapshotArrives(w)
        BY <3>1 DEF Ready, SnapshotArrives, Hears, ghosts, Types
      <4> QED  BY <4>1
    <3>2. CASE RuntimeFails(w)
      BY <3>2 DEF RuntimeFails, Fails, SnapshotArrives, Hears, ghosts, Types
    <3>3. CASE SnapshotArrives(w)
      BY <3>3 DEF SnapshotArrives, ghosts, Types
    <3>4. CASE Answered(w) \/ Stopped(w)
      BY <3>4 DEF Answered, Stopped, SnapshotArrives, Hears, ghosts, Types
    <3> QED  BY <1>3, <3>1, <3>2, <3>3, <3>4
  <2>2. r \in RuntimeRecords /\ r.outbox # <<>> /\ ~r.exited /\ r # NoRuntime
    BY <1>0, <1>3, <1>g DEF Ready, RuntimeFails, SnapshotArrives, Answered, Stopped, Hears
  <2>3. client.created # 0
    BY <1>f, <2>2
  <2>4. CASE session.stopped
    BY <1>a, <2>1, <2>3, <2>4
  <2>5. CASE ~session.stopped
    <3>1. w = client.created
      BY <1>e, <2>2, <2>5
    <3>2. ~lost => Carries(r, client.settings, lastSetting)
      BY <1>h, <2>2, <2>5, <3>1
    <3>3. /\ SnapshotArrives(w) => Head(r.outbox).kind = "snapshot"
          /\ Stopped(w) => Head(r.outbox).kind = "stopped"
          /\ Ready(w) \/ RuntimeFails(w) \/ Answered(w) => Head(r.outbox).kind \notin {"snapshot", "stopped"}
      BY DEF Ready, RuntimeFails, SnapshotArrives, Answered, Stopped, Hears
    <3> HIDE DEF r
    <3>4. ~Listened(r).exited /\ ~[Listened(r) EXCEPT !.ending = IF @ = "waiting" THEN "killing" ELSE @].exited
      BY <2>2 DEF Listened, RuntimeRecords
    <3>5. CASE Ready(w) \/ RuntimeFails(w) \/ SnapshotArrives(w) \/ Answered(w)
      <4>1. Changed(w, Listened(r))  BY <1>0, <3>5, ExtensionSteps DEF r
      <4>2. ~lost => Carries(Listened(r), client'.settings, lastSetting)
        <5>1. CASE SnapshotArrives(w)
          BY <1>0, <2>1, <2>2, <3>2, <3>3, <5>1, CarriesExtension
        <5>2. CASE ~SnapshotArrives(w)
          BY <1>0, <2>1, <2>2, <3>2, <3>3, <3>5, <5>2, CarriesExtension
        <5> QED  BY <5>1, <5>2
      <4> QED  BY <1>c, <2>1, <2>3, <3>1, <3>4, <4>1, <4>2 DEF OnTheirWay
    <3>6. CASE Stopped(w)
      <4> DEFINE q == [Listened(r) EXCEPT !.ending = IF @ = "waiting" THEN "killing" ELSE @]
      <4>1. Changed(w, q)  BY <1>0, <3>6, ExtensionSteps DEF r
      <4>2. ~lost => Carries(q, client.settings, lastSetting)
        BY <1>0, <2>2, <3>2, <3>3, <3>6, CarriesExtension
      <4>3. ~q.exited  BY <3>4
      <4>4. client'.settings = client.settings
        BY <2>1, <3>3, <3>6
      <4> HIDE DEF q
      <4> QED  BY <1>c, <2>1, <2>3, <3>1, <4>1, <4>2, <4>3, <4>4 DEF OnTheirWay
    <3> QED  BY <1>3, <3>5, <3>6
  <2> QED  BY <2>4, <2>5
<1>4. CASE ChangeSetting
  <2>1. PICK w \in Runtimes : client.worker = w
    BY <1>0, <1>4 DEF ChangeSetting
  <2> DEFINE r == runtime[w]
             m == Message("setSetting", lastSetting')
  <2>2. /\ lastSetting' = lastSetting + 1 /\ lastSetting < MaxSettings /\ lost' = (lost \/ ~Live(w))
        /\ UNCHANGED client /\ UNCHANGED session /\ ~session.stopped
    BY <1>4, <2>1 DEF ChangeSetting
  <2>3. w = client.created /\ r.ending = "no" /\ client.created # 0
    BY <1>0, <2>1 DEF Threads
  <2>4. r \in RuntimeRecords  BY <1>0
  <2>5. lastSetting' \in Settings /\ lastSetting <= lastSetting'
    BY <2>2, <1>0 DEF Settings, Types
  <2>6. m \in Orders /\ m.kind = "setSetting" /\ m.value = lastSetting'
    BY <2>5, MessageTypes DEF Message
  <2>7. Changed(w, Posted(r, m))
    BY <1>0, <1>4, <2>1, ExtensionSteps
  <2>8. Live(w) => r.state # "dead" /\ ~r.exited
    BY <1>g DEF Live
  <2> HIDE DEF r, m
  <2>9. ~lost' => OnTheirWay(Posted(r, m), client.settings, lastSetting')
    <3>1. ~lost' => Carries(r, client.settings, lastSetting)
      BY <1>h, <2>2, <2>3, <2>8 DEF r
    <3>2. ~lost' => Carries(Posted(r, m), client.settings, lastSetting')
      <4>1. ASSUME ~lost'
            PROVE  Carries(Posted(r, m), client.settings, m.value)
        <5>1. r.state # "dead" /\ lastSetting <= m.value /\ m.value \in Settings
          BY <2>2, <2>5, <2>6, <2>8, <4>1
        <5>2. Carries(r, client.settings, lastSetting)
          BY <3>1, <4>1
        <5> QED  BY <1>0, <2>3, <2>4, <2>6, <5>1, <5>2, CarriesExtension
      <4> QED  BY <2>6, <4>1
    <3>3. Posted(r, m).exited = r.exited
      BY <2>4 DEF Posted, RuntimeRecords
    <3> QED  BY <2>2, <2>8, <3>2, <3>3 DEF OnTheirWay
  <2> QED  BY <1>c, <2>2, <2>3, <2>7, <2>9
<1>5. CASE RequestMemory
  <2>1. PICK w \in Runtimes : client.worker = w
    BY <1>0, <1>5 DEF RequestMemory
  <2> DEFINE r == runtime[w]
             m == Message("readMemory", client.nextRequestId)
  <2>2. SameSettings /\ UNCHANGED <<session, lost>>
    BY <1>5 DEF RequestMemory, SameSettings, ghosts, Types
  <2>3. w = client.created /\ client.created # 0 /\ ~r.exited
    BY <1>0, <2>1 DEF Threads
  <2>4. r \in RuntimeRecords  BY <1>0
  <2>5. m \in Orders /\ m.kind = "readMemory"
    BY <1>5, MessageTypes DEF RequestMemory, Message
  <2>6. Changed(w, Posted(r, m))
    BY <1>0, <1>5, <2>1, ExtensionSteps
  <2>7. ~lost /\ ~session.stopped => Carries(r, client.settings, lastSetting)
    BY <1>h, <2>3
  <2> HIDE DEF r, m
  <2>8. ~lost /\ ~session.stopped => OnTheirWay(Posted(r, m), client.settings, lastSetting)
    <3>1. Posted(r, m).exited = r.exited
      BY <2>4 DEF Posted, RuntimeRecords
    <3> QED  BY <1>0, <2>3, <2>4, <2>5, <2>7, <3>1, CarriesExtension DEF OnTheirWay
  <2> QED  BY <1>c, <2>2, <2>3, <2>6, <2>8 DEF SameSettings
<1>6. CASE Stop
  <2>1. session'.stopped  BY <1>6 DEF Stop, Types
  <2>2. SameSettings  BY <1>6 DEF Stop, SameSettings, Terminate, Types
  <2> QED  BY <1>a, <1>d, <2>1, <2>2
<1>7. ASSUME NEW o \in Operations, Built(o)
      PROVE  Carried'
  <2>1. BuildEndsTo(o)  BY <1>7, BuildEnds
  <2>2. BuildGoes(o)  BY <1>7, BuildGoesWhere
  <2>3. session'.stopped = session.stopped /\ UNCHANGED <<lastSetting, lost>>
        /\ client'.settings = client.settings
    BY <2>1 DEF BuildEndsTo, Types
  <2>4. CASE client.worker = None
    <3>1. client'.created = client.created + 1
      BY <2>1, <2>4 DEF BuildEndsTo
    <3>2. ~session.stopped /\ ~lost => client.settings = lastSetting
      <4>1. CASE client.created = 0  BY <4>1 DEF Carried
      <4>2. CASE client.created # 0 /\ ~session.stopped /\ ~lost
        <5>1. client.created \in Runtimes
          <6>1. client.created \in Nat /\ client.created # 0 /\ queued \in Nat /\ requested \in Nat
            BY <1>0, <4>2 DEF Types
          <6>2. /\ WillCreate \in 0 .. 1 /\ client.created + WillCreate + queued <= requested + 1
                /\ requested <= MaxReloads
            BY <1>0, <6>1 DEF Counted, WillCreate
          <6>3. client.created \in 1 .. MaxReloads + 1
            BY <6>1, <6>2
          <6> QED  BY <6>3 DEF Runtimes
        <5>2. reload.at # "terminating"
          BY <2>2, <2>4 DEF BuildGoes
        <5>3. ~Ending(client.created)
          BY <4>2, <5>1, <5>2 DEF Threads, Phases
        <5>4. runtime[client.created].exited
          BY <1>0, <2>4, <4>2, <5>1, <5>3 DEF Threads
        <5> QED  BY <4>2, <5>1, <5>4 DEF Carried, OnTheirWay
      <4> QED  BY <4>1, <4>2
    <3>3. Created(client, runtime)
      BY <2>2, <2>4 DEF BuildGoes
    <3>4. Kept
      <4>1. OnTheirWay(NewThread(client), client.settings, client.settings)
        BY <1>0, CarriesNew
      <4>2. \A w \in Runtimes : w = client.created + 1 => runtime'[w] = NewThread(client)
        BY <3>3 DEF Created
      <4> QED  BY <2>3, <3>1, <3>2, <4>1, <4>2
    <3> QED  BY <1>0, <1>a, <3>1, <3>4
  <2>5. CASE client.worker # None
    <3>1. PICK w \in Runtimes : w = client.worker  BY <1>0, <2>5
    <3> DEFINE r == runtime[w]
               q == [Posted(r, Message("shutdown", 0)) EXCEPT !.ending = "waiting"]
    <3>2. w = client.created /\ client.created # 0 /\ ~r.exited
      BY <1>0, <3>1 DEF Threads
    <3>3. Changed(w, q)
      BY <2>2, <2>5, <3>1 DEF BuildGoes
    <3>4. client'.created = client.created
      BY <2>1, <2>5 DEF BuildEndsTo
    <3>5. r \in RuntimeRecords  BY <1>0
    <3>6. ~lost /\ ~session.stopped => Carries(r, client.settings, lastSetting)
      BY <1>h, <3>2
    <3> HIDE DEF r
    <3>7. ~q.exited
      BY <3>2, <3>5 DEF Posted, RuntimeRecords
    <3>8. ~lost /\ ~session.stopped => Carries(q, client.settings, lastSetting)
      BY <1>0, <3>5, <3>6, CarriesExtension
    <3> HIDE DEF q
    <3> QED  BY <1>c, <2>3, <3>2, <3>3, <3>4, <3>7, <3>8 DEF OnTheirWay
  <2> QED  BY <2>4, <2>5
<1>8. ASSUME NEW w \in Runtimes, TimerExpires(w) \/ Exited(w)
      PROVE  Carried'
  <2> DEFINE r == runtime[w]
             With(q) == [v \in Runtimes |-> IF v = w THEN q ELSE runtime[v]]
  <2>1. ThreadEndsTo(w)  BY <1>8, ThreadEnds
  <2>2. ThreadGoes(w)  BY <1>8, ThreadGoesWhere
  <2>3. /\ UNCHANGED session /\ UNCHANGED lastSetting /\ client'.settings = client.settings
        /\ client'.created = client.created \/ client'.created = client.created + 1
    BY <2>1 DEF ThreadEndsTo
  <2>4. r \in RuntimeRecords /\ r # NoRuntime
    BY <1>0, <1>8 DEF TimerExpires, Exited, Hears, NoRuntime
  <2>5. client.created # 0 /\ Sound(r)
    BY <1>f, <2>4
  <2>6. client'.created # 0
    BY <1>0, <2>3, <2>5
  <2>7. CASE session.stopped
    BY <1>a, <1>d, <2>3, <2>6, <2>7
  <2>8. CASE ~session.stopped
    <3>1. Ending(w) => w = client.created /\ reload.at = "terminating" /\ reload.runtime = w
      BY <2>8 DEF Threads, Phases, OneAtATime
    <3>2. TimerExpires(w) => Ending(w) /\ lost' = (lost \/ client.settings # lastSetting)
      BY DEF TimerExpires, Ending
    <3>3. Exited(w) => r.outbox # <<>> /\ Head(r.outbox).kind = "exit" /\ UNCHANGED lost
      BY DEF Exited, Hears
    <3>4. Exited(w) => ~r.exited /\ w = client.created
      BY <1>e, <1>g, <2>4, <2>8, <3>3
    <3>5. w = client.created
      BY <1>8, <3>1, <3>2, <3>4
    <3>6. ~lost => OnTheirWay(r, client.settings, lastSetting)
      BY <2>8, <3>5 DEF Carried
    <3>7. ~lost' => ~lost /\ client.settings = lastSetting
      <4>1. CASE TimerExpires(w)  BY <3>2, <4>1
      <4>2. CASE Exited(w)
        <5>1. ~lost => Carries(r, client.settings, lastSetting)
          BY <3>4, <3>6, <4>2 DEF OnTheirWay
        <5>2. r.outbox # <<>> /\ Head(r.outbox).kind = "exit" /\ (lost' <=> lost)
          BY <3>3, <4>2
        <5>3. ~lost => client.settings = lastSetting
          BY <1>0, <2>4, <2>5, <5>1, <5>2, CarriesExtension
        <5> QED  BY <5>2, <5>3
      <4> QED  BY <1>8, <4>1, <4>2
    <3>8. Over(runtime, w) = With(SeenTo(r)) /\ Over(Gone(w), w) = With(SeenTo(Left(r)))
      BY <1>0, EndSteps
    <3>9. HeardExit(w).created = client.created /\ HeardExit(w).settings = client.settings
      BY DEF HeardExit, Types
    <3>10. ASSUME NEW c, NEW q, c.created = client.created, c.settings = client.settings,
                  Created(c, With(q)), client'.created = client.created + 1
           PROVE  Carried'
      <4>1. OnTheirWay(NewThread(c), c.settings, c.settings)
        BY <1>0, <3>10, CarriesNew
      <4>2. \A v \in Runtimes : v = client.created + 1 => runtime'[v] = NewThread(c)
        BY <3>10 DEF Created
      <4>3. Kept
        BY <2>3, <3>7, <3>10, <4>1, <4>2
      <4> QED  BY <1>a, <2>6, <4>3
    <3> HIDE DEF r, With
    <3>11. /\ SeenTo(r).exited = r.exited /\ SeenTo(Left(r)).exited /\ Left(r).exited
           /\ [r EXCEPT !.ending = "killing"].exited = r.exited
      BY <2>4 DEF SeenTo, Left, Listened, RuntimeRecords
    <3>12. CASE client'.created = client.created
      <4>1. CASE TimerExpires(w) /\ Changed(w, [r EXCEPT !.ending = "killing"]) /\ ~r.exited
        <5> DEFINE q == [r EXCEPT !.ending = "killing"]
        <5>1. ~lost' => Carries(q, client.settings, lastSetting)
          <6>1. ~lost' => Carries(r, client.settings, lastSetting)
            BY <3>6, <3>7, <4>1 DEF OnTheirWay
          <6> QED  BY <1>0, <2>4, <3>7, <6>1, CarriesExtension
        <5>2. ~q.exited  BY <3>11, <4>1
        <5> HIDE DEF q
        <5>3. Changed(w, q)  BY <4>1 DEF q
        <5> QED  BY <1>c, <2>3, <2>5, <3>5, <3>12, <5>1, <5>2, <5>3 DEF OnTheirWay
      <4>2. ASSUME NEW q, Changed(w, q), q.exited
            PROVE  Carried'
        BY <1>c, <2>3, <2>5, <3>5, <3>7, <3>12, <4>2 DEF OnTheirWay
      <4>3. CASE (r.exited /\ Changed(w, SeenTo(r))) \/ Changed(w, SeenTo(Left(r))) \/ Changed(w, Left(r))
        BY <3>11, <4>2, <4>3
      <4>4. ~Create("reload", client, Over(runtime, w)) /\ ~Create("reload", HeardExit(w), Over(Gone(w), w))
        <5>1. \A c, t : Create("reload", c, t) /\ c \in Clients => client'.created = c.created + 1
          BY CreateWhere, TwoOperations
        <5>2. client \in Clients /\ HeardExit(w) \in Clients
          BY DEF HeardExit, Types
        <5> QED  BY <1>0, <3>9, <3>12, <5>1, <5>2
      <4> QED  BY <2>2, <4>1, <4>3, <4>4 DEF ThreadGoes, r
    <3>13. CASE client'.created = client.created + 1
      <4>1. \/ Created(client, Over(runtime, w)) \/ Created(HeardExit(w), Over(Gone(w), w))
            \/ client'.created = client.created
        <5>1. HeardExit(w).created = client.created  BY <3>9
        <5> QED  BY <2>2, <5>1 DEF ThreadGoes
      <4>2. client'.created # client.created
        BY <1>0, <3>13
      <4> QED  BY <3>8, <3>9, <3>10, <3>13, <4>1, <4>2
    <3> QED  BY <2>3, <3>12, <3>13
  <2> QED  BY <2>7, <2>8
<1> QED
  BY <1>1, <1>2, <1>3, <1>4, <1>5, <1>6, <1>7, <1>8 DEF Next, Work, Fault, User

-----------------------------------------------------------------------------
(* The invariant, and what follows from it. *)

Less == {p \in Nat \X Nat : p[1] < p[2]}

\* Lemma: a set of positions of a finite sequence has a last one.
LEMMA LastOf ==
  ASSUME NEW N \in Nat, NEW T \in SUBSET (1 .. N), T # {}
  PROVE  \E x \in T : \A y \in T : y <= x
<1> DEFINE D == {N - n : n \in T}
<1>1. IsWellFoundedOn(Less, Nat)
  BY NatLessThanWellFounded DEF OpToRel, Less
<1>2. D \subseteq Nat /\ D # {}
  <2>1. \A n \in T : N - n \in Nat
    OBVIOUS
  <2>2. PICK n \in T : TRUE
    OBVIOUS
  <2>3. N - n \in D
    BY <2>2
  <2> QED  BY <2>1, <2>3
<1>3. PICK d \in D : \A e \in D : ~(<<e, d>> \in Less)
  <2> HIDE DEF D
  <2> QED  BY <1>1, <1>2, WFMin
<1>4. PICK x \in T : d = N - x
  BY <1>3
<1>5. ASSUME NEW y \in T
      PROVE  y <= x
  <2>1. N - y \in D /\ N - y \in Nat /\ d \in Nat
    BY <1>2
  <2>2. ~(N - y < d)
    BY <1>3, <2>1 DEF Less
  <2> QED  BY <1>4, <2>2
<1> QED  BY <1>5

\* Lemma: the invariant holds when a session begins.
LEMMA InitDebug ==
  ASSUME Init
  PROVE  DebugInv
<1>1. Types
  <2>1. <<>> \in Seq(Orders) /\ <<>> \in Seq(Reports)
    OBVIOUS
  <2>2. 0 \in Settings /\ 1 \in Revisions /\ 1 \in 1 .. MaxRequests + 1
    BY DEF Settings, Revisions
  <2>3. NoRuntime \in RuntimeRecords
    BY <2>1, <2>2 DEF NoRuntime, RuntimeRecords
  <2>4. runtime \in [Runtimes -> RuntimeRecords]
    BY <2>3 DEF Init
  <2>5. client \in Clients
    BY <2>2 DEF Init
  <2>6. OperationTypes
    BY DEF Init, Idle
  <2>7. ScalarTypes
    BY <2>2 DEF Init, Idle
  <2> HIDE DEF OperationTypes, ScalarTypes, Clients
  <2> QED  BY <2>4, <2>5, <2>6, <2>7 DEF Types
<1>2. Counted /\ Phases /\ Quiet /\ Current
  <2>1. Counted  BY DEF Init, Counted, WillCreate, Idle
  <2>2. Phases  BY DEF Init, Phases, Idle
  <2>3. Quiet /\ Current  BY DEF Init, Quiet, Current, Idle
  <2> QED  BY <2>1, <2>2, <2>3
<1>3. \A w \in Runtimes : runtime[w] = NoRuntime /\ w > 0
  BY DEF Init, Runtimes
<1>4. Threads /\ OneAtATime
  <2>1. \A w \in Runtimes : ~Ending(w) /\ ~runtime[w].exited
    BY <1>3 DEF Ending, NoRuntime
  <2>2. client.created = 0 /\ client.worker = None /\ reload.at = "idle" /\ stop.at = "idle"
    BY DEF Init, Idle
  <2>3. \A w \in Runtimes : ~(w <= client.created) /\ ~(w < client.created)
    BY <1>3, <2>2 DEF Runtimes
  <2>4. Endings
    BY <2>1, <2>2
  <2>5. \A w \in Runtimes : client.worker # w
    BY <1>3, <2>2 DEF None
  <2> HIDE DEF Endings
  <2> QED  BY <1>3, <2>1, <2>2, <2>3, <2>4, <2>5 DEF Threads, OneAtATime
<1>5. Unalarmed
  <2>1. Len(<<>>) = 0
    OBVIOUS
  <2> QED  BY <1>3, <2>1 DEF Init, Unalarmed, Harmless, NoRuntime
<1>6. Carried
  BY <1>3 DEF Init, Carried
<1> QED  BY <1>1, <1>2, <1>4, <1>5, <1>6 DEF DebugInv

\* Lemma: every step keeps the invariant.
LEMMA NextDebug ==
  ASSUME DebugInv, [Next]_vars
  PROVE  DebugInv'
<1> USE DEF DebugInv
<1>1. OperationTypes'  BY OperationTypesKept
<1>2. ScalarTypes'  BY ScalarTypesKept
<1>3. client' \in Clients  BY ClientTypesKept
<1>4. runtime' \in [Runtimes -> RuntimeRecords]  BY ThreadTypesKept
<1>5. Types'
  <2> HIDE DEF OperationTypes, ScalarTypes, Clients
  <2> QED  BY <1>1, <1>2, <1>3, <1>4 DEF Types
<1>6. Counted'  BY CountedKept
<1>7. Phases'  BY PhasesKept
<1>8. Threads'  BY ThreadsKept
<1>9. OneAtATime'  BY OneAtATimeKept
<1>10. Unalarmed'  BY UnalarmedKept
<1>11. Quiet'  BY QuietKept
<1>12. Current'  BY CurrentKept
<1>13. Carried'  BY CarriedKept
<1> QED  BY <1>5, <1>6, <1>7, <1>8, <1>9, <1>10, <1>11, <1>12, <1>13

\* Theorem: DebugInv is an invariant, whatever the bounds.
THEOREM DebugInvariant == Spec => []DebugInv
<1>1. Init => DebugInv
  BY InitDebug
<1>2. DebugInv /\ [Next]_vars => DebugInv'
  BY NextDebug
<1> QED  BY <1>1, <1>2, PTL DEF Spec

\* Theorem: every variable keeps its type, and no more runtimes are created than the
\* user asked for.
THEOREM TypesHold == Spec => []TypeOK
<1>1. DebugInv => TypeOK
  <2> SUFFICES ASSUME DebugInv  PROVE TypeOK
    OBVIOUS
  <2>1. Types /\ Counted /\ Phases
    BY DEF DebugInv
  <2>2. queued \in 0 .. MaxReloads /\ requested \in 0 .. MaxReloads /\ client.created \in 0 .. MaxReloads + 1
    <3>1. client.created \in Nat /\ queued \in Nat /\ requested \in Nat /\ MaxReloads \in Nat
      BY <2>1 DEF Types
    <3>2. requested <= MaxReloads /\ client.created + queued <= requested + 1
      BY <2>1, <3>1 DEF Counted, WillCreate
    <3>3. queued > 0 => client.created > 0
      BY <2>1 DEF Phases
    <3> QED  BY ONLY <3>1, <3>2, <3>3
  <2>3. /\ launch \in [at : {"idle", "creating", "opening", "saving", "reading", "compiling", "stuck",
                             "terminating", "starting", "done", "returned"},
                       runtime : Runtimes \cup {None}]
        /\ reload \in [at : {"idle", "creating", "opening", "saving", "reading", "compiling", "stuck",
                             "terminating", "starting", "done", "returned"},
                       runtime : Runtimes \cup {None}]
        /\ stop \in [at : {"idle", "creating", "opening", "saving", "reading", "compiling", "stuck",
                           "terminating", "starting", "done", "returned"},
                     runtime : Runtimes \cup {None}]
    BY <2>1 DEF Types, Building1
  <2>4. \A w \in Runtimes :
          /\ runtime[w].state \in {"none", "loading", "running", "ended", "hung", "dead"}
          /\ runtime[w].settings \in Settings
          /\ runtime[w].ending \in {"no", "waiting", "killing", "over"}
    BY <2>1 DEF Types, RuntimeRecords
  <2>5. client \in [worker : Runtimes \cup {None}, created : 0 .. MaxReloads + 1,
                    intentional : BOOLEAN, settings : Settings,
                    pending : SUBSET [id : Requests, of : Runtimes],
                    nextRequestId : 1 .. MaxRequests + 1]
    BY <2>1, <2>2 DEF Types
  <2> QED  BY <2>1, <2>2, <2>3, <2>4, <2>5 DEF Types, TypeOK
<1> QED  BY <1>1, DebugInvariant, PTL

\* Theorem: a thread that lives is the client's or somebody is terminating it, and
\* while the session lasts there is only one.
THEOREM NoneForgotten == Spec => []NoRuntimeIsForgotten
<1>1. DebugInv => NoRuntimeIsForgotten
  <2> SUFFICES ASSUME DebugInv  PROVE NoRuntimeIsForgotten
    OBVIOUS
  <2>0. client.created \in Nat /\ Runtimes \subseteq Nat /\ Threads /\ OneAtATime
    BY DEF DebugInv, Types, Runtimes
  <2>1. ASSUME NEW w \in Runtimes, Live(w)
        PROVE  /\ w <= client.created /\ ~runtime[w].exited
               /\ client.worker = w \/ runtime[w].ending \in {"waiting", "killing"}
    <3>1. w <= client.created
      BY <2>0, <2>1 DEF Threads, Live, NoRuntime
    <3>2. ~runtime[w].exited
      BY <2>0, <2>1, <3>1 DEF Threads, Sound, Live
    <3> QED  BY <2>0, <3>1, <3>2 DEF Threads, Ending
  <2>2. ASSUME ~session.stopped, NEW w \in Runtimes, Live(w)
        PROVE  w = client.created
    BY <2>0, <2>1, <2>2 DEF OneAtATime
  <2> QED  BY <2>1, <2>2 DEF NoRuntimeIsForgotten
<1> QED  BY <1>1, DebugInvariant, PTL

\* Theorem: the user is told of a failure only if a runtime failed by itself.
THEOREM AlarmsAreTrue == Spec => []NoFalseAlarm
<1>1. DebugInv => NoFalseAlarm
  BY DEF DebugInv, Types, Unalarmed, NoFalseAlarm
<1> QED  BY <1>1, DebugInvariant, PTL

\* Theorem: a stop with nothing about to create a runtime leaves none.
THEOREM StopLeavesNone == Spec => []StopEndsRuntime
<1>1. DebugInv => StopEndsRuntime
  <2> SUFFICES ASSUME DebugInv, stop.at = "returned", quiet, NEW w \in Runtimes, Live(w)
               PROVE  FALSE
    BY DEF StopEndsRuntime
  <2>0. /\ client.created \in Nat /\ Runtimes \subseteq Nat /\ Threads /\ Quiet
        /\ \A v \in Runtimes : v # None
    BY DEF DebugInv, Types, Runtimes, None
  <2>1. w <= client.created
    BY <2>0 DEF Threads, Live, NoRuntime
  <2>2. ~runtime[w].exited
    BY <2>0, <2>1 DEF Threads, Sound, Live
  <2>3. ~Ending(w) /\ client.worker # w
    BY <2>0 DEF Threads, Quiet
  <2> QED  BY <2>0, <2>1, <2>2, <2>3 DEF Threads
<1> QED  BY <1>1, DebugInvariant, PTL

\* Theorem: at rest the last build read what is on disk, or said that it could not.
THEOREM RestIsCurrent == Spec => []RestingRuntimeIsCurrent
<1>1. DebugInv => RestingRuntimeIsCurrent
  BY DEF DebugInv, Current, Phases, RestingRuntimeIsCurrent, AtRest
<1> QED  BY <1>1, DebugInvariant, PTL

\* Theorem: the user's last change of the settings map reaches every later runtime,
\* unless the one that was told of it did not stop by itself.
THEOREM ChangesSurvive == Spec => []SettingsSurvive
<1>1. DebugInv => SettingsSurvive
  <2> SUFFICES ASSUME DebugInv, client.worker # None, ~session.stopped, ~lost
               PROVE  EffectiveSettings(client.worker) = lastSetting
    BY DEF SettingsSurvive
  <2> DEFINE r == runtime[client.worker]
             changes == {n \in 1 .. Len(r.inbox) : r.inbox[n].kind = "setSetting"}
  <2>1. client.worker \in Runtimes /\ client.worker = client.created /\ r \in RuntimeRecords /\ ~r.exited
    BY DEF DebugInv, Types, Threads
  <2>2. Rising(r.inbox, "setSetting", r.settings, lastSetting)
        /\ Brings(r.inbox, "setSetting", lastSetting, r.settings)
    BY <2>1 DEF DebugInv, Carried, OnTheirWay, Carries
  <2>3. /\ Len(r.inbox) \in Nat /\ r.settings \in Int /\ lastSetting \in Int
        /\ \A n \in changes : r.inbox[n].value \in Int
    <3>1. r.inbox \in Seq(Orders) /\ r.settings \in Settings /\ lastSetting \in Settings
      BY <2>1 DEF DebugInv, Types, RuntimeRecords
    <3>2. Len(r.inbox) \in Nat /\ \A n \in 1 .. Len(r.inbox) : r.inbox[n] \in Orders
      BY <3>1, Queues
    <3> QED  BY <3>1, <3>2, MessageTypes DEF Settings
  <2>4. EffectiveSettings(client.worker) =
          IF changes = {} THEN r.settings
          ELSE r.inbox[CHOOSE n \in changes : \A m \in changes : m <= n].value
    BY DEF EffectiveSettings
  <2> HIDE DEF r
  <2>5. CASE changes = {}
    BY <2>2, <2>4, <2>5 DEF Brings
  <2>6. CASE changes # {}
    <3> DEFINE n == CHOOSE n \in changes : \A m \in changes : m <= n
    <3>1. \E x \in changes : \A y \in changes : y <= x
      <4>1. changes \in SUBSET (1 .. Len(r.inbox))
        OBVIOUS
      <4> HIDE DEF changes
      <4> QED  BY <2>3, <2>6, <4>1, LastOf
    <3>2. n \in changes /\ \A m \in changes : m <= n
      <4> HIDE DEF changes
      <4> QED  BY <3>1
    <3>3. EffectiveSettings(client.worker) = r.inbox[n].value
      BY <2>4, <2>6
    <3> HIDE DEF n
    <3>4. r.settings <= r.inbox[n].value /\ r.inbox[n].value <= lastSetting
      BY <2>2, <3>2 DEF Rising
    <3>5. ASSUME NEW k \in changes, r.inbox[k].value = lastSetting
          PROVE  lastSetting <= r.inbox[n].value
      <4>1. CASE k = n  BY <2>3, <3>5, <4>1
      <4>2. CASE k # n
        <5>1. k < n  BY <2>3, <3>2, <4>2
        <5> QED  BY <2>2, <3>2, <3>5, <5>1 DEF Rising
      <4> QED  BY <4>1, <4>2
    <3>6. lastSetting <= r.inbox[n].value
      BY <2>2, <3>4, <3>5 DEF Brings
    <3>7. r.inbox[n].value = lastSetting
      <4>1. r.inbox[n].value \in Int  BY <2>3, <3>2
      <4> QED  BY ONLY <2>3, <3>4, <3>6, <4>1
    <3> QED  BY <3>3, <3>7
  <2> QED  BY <2>5, <2>6
<1> QED  BY <1>1, DebugInvariant, PTL
=============================================================================
