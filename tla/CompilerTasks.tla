---------------------------- MODULE CompilerTasks ----------------------------
(***************************************************************************)
(* The commands of the editor that compile (CompilerTaskController): a     *)
(* release build, a debug watch that rebuilds after every save, and        *)
(* stopping the watch, over one CompilerWorker.                            *)
(*                                                                         *)
(* The extension runs on one thread.  An action is what it does between    *)
(* two awaits, the microtasks that follow a settled promise included.  A   *)
(* watch is named by the command that began it; a build is the part of a   *)
(* release or of a watch that compiles and replaces the output.            *)
(***************************************************************************)
EXTENDS CompilerWorker

CONSTANTS
  Commands,     \* the invocations of a command
  Releases,     \* those that build a release, the others start a watch
  Documents,    \* scripts; the output of each is a file of its own
  Nobody,       \* no command
  MaxVersion    \* bound on document versions

Versions == 1 .. MaxVersion
Snapshots == [document : Documents, revision : Versions, profile : {"release", "debug"}]

ASSUME TasksAssumption ==
  /\ Releases \subseteq Commands
  /\ Nobody \notin Commands
  /\ MaxVersion \in Nat \ {0}
  /\ Snapshots \subseteq Sources

VARIABLES
  version,      \* the version of each document in the editor
  phase,        \* what each command awaits
  subject,      \* the script the command selected
  owner,        \* tasks.current
  first,        \* the revision with which a watch was started
  pending,      \* WatchTask.pending: the revision to build next, or Absent
  build,        \* what the build of the task awaits
  output,       \* what each output file holds
  disposed,     \* the compiler of the controller is undefined
  saved, handled,       \* ghosts: the last revision saved under a watch and the last it built
  overtaken     \* ghost: the watches that saw a save before their first build was queued

taskGhosts == <<saved, handled, overtaken>>
commands  == <<phase, subject, first>>
tasksVars == <<workerVars, version, commands, owner, pending, build, output, disposed, taskGhosts>>

NoBuild == [at |-> "none", request |-> Absent, revision |-> Absent]
NoOutput == [by |-> Nobody, revision |-> Absent]

TasksInit ==
  /\ WorkerInit
  /\ version = [d \in Documents |-> 1]
  /\ phase = [c \in Commands |-> "new"]
  /\ subject \in [Commands -> Documents]
  /\ first = [c \in Commands |-> Absent]
  /\ owner = Nobody
  /\ pending = [c \in Commands |-> Absent]
  /\ build = [c \in Commands |-> NoBuild]
  /\ output = [d \in Documents |-> NoOutput]
  /\ disposed = FALSE
  /\ saved = [c \in Commands |-> Absent]
  /\ handled = [c \in Commands |-> Absent]
  /\ overtaken = {}

Watching(c)  == owner = c /\ c \notin Releases
WatchActive  == owner \in Commands \ Releases
ReleaseActive == owner \in Releases
Compiling(c) == build[c].at # "none"       \* WatchTask.compiling, while the watch is current

\* `snapshot`: the key, the version and the text of the document.
Snapshot(c, r) ==
  [document |-> subject[c], revision |-> r,
   profile |-> IF c \in Releases THEN "release" ELSE "debug"]

-----------------------------------------------------------------------------
(* Pieces of the handlers. *)

PostBuild(k, c, r) ==
  /\ CanPost(k)
  /\ link' = Compile(k, Snapshot(c, r))
  /\ build' = [build EXCEPT ![c] =
                 [at |-> "compiling", request |-> k.nextRequestId, revision |-> r]]

\* Fault: cancels, and queues only when nothing is being built.
QueueCancelOnly(c, r) ==
  IF Compiling(c)
  THEN /\ CanPost(link) /\ link' = CancelCurrent(link)
       /\ UNCHANGED <<pending, build>>
  ELSE PostBuild(link, c, r) /\ UNCHANGED pending

\* Fault: the revision already waiting is kept.
QueueKeepingOlder(c, r) ==
  IF Compiling(c)
  THEN /\ pending' = [pending EXCEPT ![c] = IF @ = Absent THEN r ELSE @]
       /\ CanPost(link) /\ link' = CancelCurrent(link)
       /\ UNCHANGED build
  ELSE PostBuild(link, c, r) /\ UNCHANGED pending

\* queueWatchBuild for the watch c.
QueueWatchBuild(c, r) ==
  IF Compiling(c)
  THEN /\ pending' = [pending EXCEPT ![c] = r]
       /\ CanPost(link) /\ link' = CancelCurrent(link)
       /\ UNCHANGED build
  ELSE /\ PostBuild(link, c, r)
       /\ UNCHANGED pending

EndBuild(c, k) ==
  /\ build' = [build EXCEPT ![c] = NoBuild]
  /\ link' = k

\* The head of the loop of drainWatchBuilds, with the connection k.
DrainNext(c, k) ==
  IF owner = c /\ pending[c] # Absent
  THEN /\ PostBuild(k, c, pending[c])
       /\ pending' = [pending EXCEPT ![c] = Absent]
  ELSE EndBuild(c, k) /\ UNCHANGED pending

\* An error in a build, and its end by itself: the release is over, the watch is
\* reported and cleared if it is still the task.
FinishTask(c) == owner' = IF owner = c THEN Nobody ELSE owner
FailBuild(c, k) == EndBuild(c, k) /\ FinishTask(c)

-----------------------------------------------------------------------------
(* Documents. *)

Edit(d) ==
  /\ version[d] < MaxVersion
  /\ version' = [version EXCEPT ![d] = @ + 1]
  /\ UNCHANGED <<workerVars, commands, owner, pending, build, output, disposed, taskGhosts>>

\* onDidSaveTextDocument: only the watch of that document is told.
Save(d) ==
  /\ WatchActive /\ subject[owner] = d /\ ~disposed
  /\ saved[owner] # version[d]      \* bound: a document is not saved twice
  /\ saved' = [saved EXCEPT ![owner] = version[d]]
  /\ overtaken' = IF phase[owner] = "starting" THEN overtaken \cup {owner} ELSE overtaken
  /\ QueueWatchBuild(owner, version[d])
  /\ UNCHANGED <<alive, worker, version, commands, owner, output, disposed, handled>>

-----------------------------------------------------------------------------
(* Commands. *)

Go(c, p) == phase' = [phase EXCEPT ![c] = p]

quiet == <<workerVars, version, subject, pending, build, output, disposed, taskGhosts>>

\* buildRelease while a release runs returns at once; while a watch runs it asks.
InvokeRelease(c) ==
  /\ phase[c] = "new" /\ c \in Releases
  /\ ~ReleaseActive
  /\ Go(c, IF owner = Nobody THEN "saving" ELSE "asking")
  /\ UNCHANGED <<quiet, owner, first>>

InvokeWatch(c) ==
  /\ phase[c] = "new" /\ c \notin Releases
  /\ ~ReleaseActive
  /\ Go(c, "saving")
  /\ UNCHANGED <<quiet, owner, first>>

Dismiss(c) ==
  /\ phase[c] = "asking"
  /\ Go(c, "done")
  /\ UNCHANGED <<quiet, owner, first>>

\* stopDebugWatch up to its await: nothing unless a watch is current.
StopDebugWatch ==
  IF WatchActive
  THEN /\ pending' = [pending EXCEPT ![owner] = Absent]
       /\ IF Compiling(owner) THEN CanPost(link) /\ link' = CancelCurrent(link)
                              ELSE UNCHANGED link
       /\ owner' = Nobody
  ELSE UNCHANGED <<pending, link, owner>>

StopAndBuild(c) ==
  /\ phase[c] = "asking"
  /\ StopDebugWatch
  /\ Go(c, "clearing")
  /\ UNCHANGED <<alive, worker, version, subject, first, build, output, disposed, taskGhosts>>

StopCommand ==
  /\ WatchActive
  /\ StopDebugWatch
  /\ UNCHANGED <<alive, worker, version, commands, build, output, disposed, taskGhosts>>

Cleared(c) ==
  /\ phase[c] = "clearing"
  /\ Go(c, "saving")
  /\ UNCHANGED <<quiet, owner, first>>

SaveFailed(c) ==
  /\ phase[c] = "saving"
  /\ Go(c, "done")
  /\ UNCHANGED <<quiet, owner, first>>

\* The document is saved.  The release posts its compile before it asks for the
\* task: if another command has taken it, the compile runs for nobody.
SavedRelease(c) ==
  /\ phase[c] = "saving" /\ c \in Releases
  /\ IF disposed
     THEN Go(c, "done") /\ UNCHANGED <<link, build, owner>>
     ELSE LET r == version[subject[c]]
          IN IF owner = Nobody
             THEN PostBuild(link, c, r) /\ owner' = c /\ Go(c, "building")
             ELSE /\ CanPost(link) /\ link' = Compile(link, Snapshot(c, r))
                  /\ Go(c, "done") /\ UNCHANGED <<build, owner>>
  /\ UNCHANGED <<alive, worker, version, subject, first, pending, output, disposed, taskGhosts>>

\* The watch takes its snapshot, becomes the task and awaits the context key.
SavedWatch(c) ==
  /\ phase[c] = "saving" /\ c \notin Releases
  /\ IF owner = Nobody
     THEN /\ owner' = c /\ Go(c, "starting")
          /\ first' = [first EXCEPT ![c] = version[subject[c]]]
          /\ saved' = [saved EXCEPT ![c] = version[subject[c]]]
     ELSE Go(c, "done") /\ UNCHANGED <<owner, first, saved>>
  /\ UNCHANGED <<workerVars, version, subject, pending, build, output, disposed,
                 handled, overtaken>>

\* The context key is set: the first build is queued, if the watch is still the task.
WatchStarted(c) ==
  /\ phase[c] = "starting"
  /\ Go(c, "done")
  /\ first' = [first EXCEPT ![c] = Absent]
  /\ IF owner = c /\ ~disposed
     THEN QueueWatchBuild(c, first[c]) /\ UNCHANGED owner
     ELSE FinishTask(c) /\ UNCHANGED <<pending, link, build>>
  /\ UNCHANGED <<alive, worker, version, subject, output, disposed, taskGhosts>>

-----------------------------------------------------------------------------
(* Builds. *)

Done(C) == phase' = [c \in Commands |-> IF c \in C /\ c \in Releases THEN "done" ELSE phase[c]]

Handled(c) == handled' = [handled EXCEPT ![c] = build[c].revision]

\* A response or an error reaches the build that awaits it.
WatchAnswered(c, k, outcome) ==
  \/ /\ outcome \in {"cancelled", "failed", "outOfOrder"}
     /\ IF outcome = "cancelled" /\ owner = c /\ pending[c] # Absent
        THEN DrainNext(c, k) /\ UNCHANGED owner
        ELSE FailBuild(c, k) /\ UNCHANGED pending
     /\ UNCHANGED handled
  \/ /\ outcome \in {"built", "rejected"}
     /\ UNCHANGED owner
     /\ IF owner # c \/ pending[c] # Absent
        THEN DrainNext(c, k) /\ UNCHANGED handled
        ELSE /\ Handled(c)
             /\ UNCHANGED pending
             /\ IF outcome = "built"
                THEN build' = [build EXCEPT ![c].at = "writing"] /\ link' = k
                ELSE EndBuild(c, k)

ReleaseAnswered(c, k, outcome) ==
  /\ UNCHANGED <<pending, handled>>
  /\ IF outcome = "built" /\ version[subject[c]] = build[c].revision
     THEN /\ build' = [build EXCEPT ![c].at = "writing"] /\ link' = k
          /\ UNCHANGED <<owner, phase>>
     ELSE FailBuild(c, k) /\ Done({c})

Awaits(c, i) == build[c].at = "compiling" /\ build[c].request = i

Answer ==
  /\ toHost # <<>>
  /\ toHost' = Tail(toHost)
  /\ LET answer == Head(toHost)
         k == SettleRequest(link, answer.id)
     IN \/ \E c \in Commands :
             /\ Awaits(c, answer.id)
             /\ \/ c \notin Releases /\ WatchAnswered(c, k, answer.outcome) /\ UNCHANGED phase
                \/ c \in Releases /\ ReleaseAnswered(c, k, answer.outcome)
        \/ /\ \A c \in Commands : ~Awaits(c, answer.id)
           /\ link' = k
           /\ UNCHANGED <<owner, pending, build, phase, handled>>
  /\ UNCHANGED <<alive, activeCompileId, cancelledCompiles, suspended, retained, version,
                 subject, first, output, disposed, saved, overtaken>>

\* replaceOutput: the temporary file is written, then renamed over the output.
Written(c) ==
  /\ build[c].at = "writing"
  /\ build' = [build EXCEPT ![c].at = "renaming"]
  /\ UNCHANGED <<workerVars, version, commands, owner, pending, output, disposed, taskGhosts>>

Renamed(c) ==
  /\ build[c].at = "renaming"
  /\ output' = [output EXCEPT ![subject[c]] = [by |-> c, revision |-> build[c].revision]]
  /\ IF c \in Releases
     THEN FailBuild(c, link) /\ UNCHANGED pending
     ELSE DrainNext(c, link) /\ UNCHANGED owner
  /\ Done({c})
  /\ UNCHANGED <<alive, worker, version, subject, first, disposed, taskGhosts>>

WriteFailed(c) ==
  /\ build[c].at \in {"writing", "renaming"}
  /\ FailBuild(c, link)
  /\ Done({c})
  /\ UNCHANGED <<alive, worker, version, subject, first, pending, output, disposed, taskGhosts>>

\* Every pending promise is rejected, so every build that awaits one fails.  A
\* build that posted to a connection already stopped awaits for ever.
Rejected(k) ==
  {c \in Commands : build[c].at = "compiling" /\ build[c].request \in link.pending \ k.pending}

RejectBuilds(k) ==
  /\ link' = k
  /\ build' = [c \in Commands |-> IF c \in Rejected(k) THEN NoBuild ELSE build[c]]
  /\ Done(Rejected(k))

WorkerFails ==
  /\ alive
  /\ WorkerGone
  /\ RejectBuilds(Terminated(link))
  /\ owner' = IF owner \in Rejected(link') THEN Nobody ELSE owner
  /\ UNCHANGED <<version, subject, first, pending, output, disposed, taskGhosts>>

Dispose ==
  /\ ~disposed
  /\ disposed' = TRUE
  /\ WorkerGone
  /\ IF WatchActive /\ Compiling(owner)
     THEN CanPost(link) /\ RejectBuilds(Terminated(CancelCurrent(link)))
     ELSE RejectBuilds(Terminated(link))
  /\ pending' = [c \in Commands |-> IF Watching(c) THEN Absent ELSE pending[c]]
  /\ owner' = IF WatchActive \/ owner \in Rejected(link') THEN Nobody ELSE owner
  /\ UNCHANGED <<version, subject, first, output, taskGhosts>>

-----------------------------------------------------------------------------
Command(c) ==
  \/ InvokeRelease(c) \/ InvokeWatch(c) \/ Dismiss(c) \/ StopAndBuild(c)
  \/ SaveFailed(c) \/ SavedRelease(c) \/ SavedWatch(c)

Work ==
  \/ WorkerStep /\ UNCHANGED <<version, commands, owner, pending, build, output, disposed, taskGhosts>>
  \/ Answer
  \/ \E c \in Commands : Cleared(c) \/ WatchStarted(c) \/ Written(c) \/ Renamed(c)

TasksNext ==
  \/ Work
  \/ \E c \in Commands : Command(c) \/ WriteFailed(c)
  \/ \E d \in Documents : Edit(d) \/ Save(d)
  \/ StopCommand \/ WorkerFails \/ Dispose

\* The event loops of both threads and the file system go on as long as any of
\* them has work; users and failures need not.
TasksFairness == WF_tasksVars(Work)

TasksSpec == TasksInit /\ [][TasksNext]_tasksVars /\ TasksFairness

-----------------------------------------------------------------------------
(* Properties. *)

TasksTypeOK ==
  /\ version \in [Documents -> Versions]
  /\ phase \in [Commands -> {"new", "asking", "clearing", "saving", "starting", "building", "done"}]
  /\ subject \in [Commands -> Documents]
  /\ first \in [Commands -> Versions \cup {Absent}]
  /\ owner \in Commands \cup {Nobody}
  /\ pending \in [Commands -> Versions \cup {Absent}]
  /\ build \in [Commands -> {NoBuild} \cup [at : {"compiling", "writing", "renaming"},
                                           request : Ids, revision : Versions]]
  /\ output \in [Documents -> [by : Commands \cup {Nobody}, revision : Versions \cup {Absent}]]
  /\ disposed \in BOOLEAN
  /\ saved \in [Commands -> Versions \cup {Absent}]
  /\ handled \in [Commands -> Versions \cup {Absent}]
  /\ overtaken \in SUBSET Commands

\* A revision that waits in a watch has a build to wait for, whose end will take
\* it: a save that arrives just as a build ends is not forgotten.
NoLostSave ==
  \A c \in Commands : Watching(c) /\ pending[c] # Absent => Compiling(c)

\* A release that compiles or replaces the output is the task until it ends: no
\* dialog answered late, no watch that ends and no stop takes it away.
ReleaseKeepsOwnership ==
  \A c \in Commands : c \in Releases => (Compiling(c) <=> owner = c /\ phase[c] = "building")

\* A cancelled compile ends a watch only if another command's compile superseded
\* it: cancelling for a newer save is never taken for a failure, however the
\* cancellation, the answer and the save cross.
EndsCancelled(c) ==
  /\ Watching(c) /\ owner' # c
  /\ toHost # <<>> /\ toHost' = Tail(toHost) /\ alive'
  /\ Head(toHost).outcome = "cancelled"

CancelledWatchWasSuperseded ==
  [][\A c \in Commands :
       EndsCancelled(c) => link.activeCompileRequestId # Head(toHost).id]_tasksVars

AtRest(c) == Watching(c) /\ phase[c] = "done" /\ ~Compiling(c)

\* A watch that waits for the next save has built the last one, or reported its
\* diagnostics, provided no save came before its first build was queued.
RestingWatchIsCurrent ==
  \A c \in Commands : AtRest(c) /\ c \notin overtaken => handled[c] = saved[c]

\* A build that is under way while the worker runs comes to an end: a release
\* always, a watch unless the worker fails.
BuildsEnd ==
  \A c \in Commands :
    alive /\ Compiling(c) ~> ~Compiling(c) \/ (~alive /\ c \notin Releases)

-----------------------------------------------------------------------------
(* What the documents promise and the code does not keep. *)

\* A watch at rest has built the last save (editors/vscode/README.md, "Saves and
\* builds the active script with the debug profile, then rebuilds it after later
\* saves").
LatestSaveIsBuilt ==
  \A c \in Commands : AtRest(c) => handled[c] = saved[c]

=============================================================================
