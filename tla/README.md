# A TLA+ model of SplitScript

SplitScript compiles one-file auto splitter scripts (`*.split`) to WebAssembly
modules for the LiveSplit auto splitting runtime.  The generated module exports
`update`, which the runtime calls at a requested tick rate; everything a script
does happens inside such a call: the module looks for its game process, attaches
to it, discovers an emulator, reads a snapshot of the game's memory, runs the
script's callbacks, and drives the timer.

A call of `update` is a short sequential program, but it runs against a world
that moves on its own: processes start and exit, emulators map and unmap guest
memory, the user operates the timer, and asynchronous script code stays suspended
from one call to the next.  Most of what can go wrong is a value, a future, a
handle or an event that survives from one attachment, attempt or update into
another.  That is what this project models first, and what its proofs are about.

All paths below are relative to the repository (`src/` there is the compiler's
own crate; the paths in `PROJECT.json` have one more `src/` in front).

## 1. Inventory

| Part | Source | State it keeps | Operations | Modelled |
| --- | --- | --- | --- | --- |
| Attachment lifecycle | `src/codegen/update.rs`, `global_plan.rs` | `process`, `process_name`, `process_pointer_size`, provider values and frames, `selected_provider`, preparation frame and value, `attach_ready`, `state_ready`, `current`, `old`, the shared asynchronous action frame, attachment-scoped globals | acquire, detect pointer width, discover, validate the mapping, prepare, select a layout, `onAttach`, publish, `whileAttached`, tear down | `Attachment`, `AttachmentProtocol` |
| Process selection | `src/codegen/update.rs` | guest memory for the PID list, the candidate being asked about | two-call listing, growth of memory, attach by PID, promote, reject | `ProcessSelection` |
| Timer monitor | `src/codegen/update.rs`, `src/scoped_globals.rs` | `observed_timer_state`, `attempt_ready`, attempt-scoped globals | sample, `onStart`, `onReset`, the decision actions | `TimerMonitor` |
| State snapshots | `src/codegen/update.rs`, `managed_state_reads.rs` | the candidate snapshot, poll results, the managed read cache, `current` and `old` | poll each field in dependency order, retain, filter, seed, commit | `StateSnapshot`, `SnapshotHistory` |
| State dependencies | `src/typeck/body_pass.rs`, `src/codegen/update.rs` | none across compilations | find the cycles, order the polling | `StateDependencies` |
| Pointer prefixes | `src/codegen/pointer_prefixes.rs` | address and status of each shared prefix, locals of one update | plan, resolve when first needed | `PointerPrefixes` |
| The update export | `src/codegen/update.rs` | the above together | sample, attach, publish, run, decide, return early | `UpdateExport` |
| Asynchronous code | `src/codegen/async_state.rs`, `async_frame.rs` | the frame of every suspended call, `future_poll_epoch`, the place of a scan | start, poll, race, timeout, scan, retry | `Futures`, `MemoryScan`; not retries, `findMemoryRange`, managed instances, MD5 |
| Settings | `src/codegen/settings.rs` | the settings map and the values last read | refresh, notify | not modelled |
| Compiler service and database | `src/database.rs`, `src/service.rs`, `src/compilation_cancellation.rs` | revisions, cached queries, cancellation tokens | edit, query, cancel | not modelled; the stage its Wasm service retains is in `CompilerWorker` |
| Language server | `src/lsp.rs`, `src/lsp/` | open documents, versions, pending requests | open, change, close, request, cancel | not modelled |
| Compiler worker of the editor | `editors/vscode/src/embeddedCompilerWorkerConnection.ts` and the worker files beside it | pending requests, the active compile | compile, request, supersede, stop | `CompilerWorker` |
| Compiler tasks of the editor | `editors/vscode/src/compilerTasks.ts`, `taskState.ts` | the running task, the watch queue | build, watch, cancel, replace the output | `CompilerTasks` |
| Debugger sessions | `editors/vscode/src/debugger/` | the program and compiler of a session, the reload chain, the worker thread and its requests | launch, reload, restart, watch, stop | `DebugRuntime`; not the adapter, the views and the host imports |
| Process access | `crates/splitscript-process-native/`, `editors/vscode/src/debugger/asr/process.ts` | open handles | attach, read, detach | only as the environment of the above |
| Lexer, parser, formatter, migration | `crates/splitscript-syntax/`, `src/formatter.rs` | none across calls | parse, format, migrate | not modelled: sequential functions of text |
| Matches | `src/typeck/pattern_usefulness.rs`, `src/typeck/expressions.rs`, `src/codegen/expression.rs` | the rows of the earlier arms | check an arm, find what is missing, test the arms | `PatternUsefulness`, `MatchExpression` |
| Scoped globals | `src/scoped_globals.rs`, `src/codegen/update.rs` | paths of `onAttach` and `onStart`, requirements of helpers; at run time the storage and its readiness | analyse, hold back, run, clear | `ScopedGlobals`, `ScopedGlobalUse` |
| Type checker, inference, effects | `src/typeck/`, `src/inference.rs`, `src/effects/` | one compilation | check | otherwise not modelled: its answers appear as assumptions on the constants |
| Expression and value lowering | `src/codegen/expression.rs`, `gc_types.rs`, `runtime_helpers/` | none | emit | not modelled: data, not control |
| Completion, highlighting, documentation, refactoring | `src/completion/`, `src/insight.rs`, `src/documentation/` | none | query | not modelled: pure queries of one revision |

### How the parts interact

    runtime (host)                generated module                     script
    ---------------               ----------------                     ------
    timer, settings  <----------> update: 1. refresh settings
    user operates it              2. sample the timer            ---> onStart, onReset
    process table    <----------> 3. acquire a process           ---> selectProcess
                                  4. is it still open? (no: tear down) ---> onDetach
    emulator memory  <----------> 5. discover, validate, prepare
                                  6. select a layout             ---> onAttach (may suspend)
    game memory      <----------> 7. poll a snapshot, publish it ---> onStateReady
                                  8.                             ---> whileAttached (may suspend)
    timer            <----------- 9. decisions                   ---> start, isLoading, ...

Every step may return early, and the next call starts again at 1; the globals of
the module are all that is left of it.  Steps 2 and 9 communicate through the
sampled timer state and the readiness of the attempt, steps 3 to 8 through the
attachment globals, and `onAttach` and `whileAttached` share one continuation
frame.  The editor runs compiler, language server and debugger in workers and
talks to them in messages; they share no state with the generated module.

### What is hard, and what makes each part correct

* **Attachment.**  A process may close, or an emulator may unmap its guest, in any
  of nine phases, with a discovery, a preparation, `onAttach` or `whileAttached`
  suspended.  Correct means: nothing an attachment owned is seen by the next one;
  a process handle is neither lost nor kept; `onDetach` runs once for every
  attachment that completed and for no other; a rejected process is left alone
  until it closes; the tick rate is always the one of the present state.
* **Process selection.**  The PID list is fetched in two host calls, guest memory
  is grown between them, and every candidate is attached before it is asked about.
  Correct means: no handle leaks on any way out, the host never writes outside
  guest memory, and one dead candidate does not hide a live one.
* **Timer monitor.**  Transitions are derived from samples, values assigned by
  `onStart` have no initialiser, and the sample is used long after it was taken.
  Correct means: each persistent transition is delivered exactly once, and code
  that reads an attempt's values never runs without that attempt.
* **Snapshots.**  Fields depend on each other, any read may fail, fields come and
  go with the shape that a polled enum selects, sibling reads are shared, and
  `current`, `old` and the candidate are references to mutable structs.  Correct
  means: a published snapshot is complete, is made of accepted values only, agrees
  on shared reads, and `old` is the snapshot before it.
* **State dependencies and prefixes.**  Correct means: exactly the cycles are
  reported, a program without one is polled in a topological order, and what
  several fields share on the way to their values is asked for once, and never
  taken for known when the field that asked for it does not exist.
* **Asynchronous code.**  A future may be shared, awaited by its own body, kept in
  an array that its siblings change, and limited by a clock that runs out in the
  poll in which it is ready; a scan keeps its place in memory that is remapped.
  Correct means: a resume function runs at most once per update and never inside
  itself, an await gets its own operand's value, the first ready element wins a
  race and readiness a deadline, and a scan passes over nothing that stays.
* **Matches.**  The analysis recurses over patterns and types, and what it accepts
  ends in a trap if it was wrong.  Correct means: an arm is reported exactly if no
  value reaches it, something is missing exactly if some value is taken by no arm,
  and the analysis ends.
* **Scoped globals.**  A global without an initializer is assigned on some paths of
  `onAttach` or `onStart`, in some shapes of the attachment, and read by helpers,
  fields and actions that run at other times.  Correct means: no run of an accepted
  script, in either build, ever reads the default of such a global's storage.
* **The update export.**  Correct means: an early return of the attachment starves
  neither half, and decisions wait for two snapshots of the attachment.
* **Editor.**  Compiles overtake each other, a worker stops with requests pending,
  a save crosses a cancellation, a reload races a stop, a module hangs.  Correct
  means: every request is answered once and with its own result, no save is lost,
  a watch at rest is current, and no worker outlives its session.

The list of hazards in `PROJECT.json` gives the line at which each of them bites
and the properties that would catch it.

## 2. The modules

### Attachment

`Attachment` is `compile_update` without selection (`ProcessSelection`), the
timer (`TimerMonitor`) and the contents of snapshots.  `pc` names the place the
update has reached; an early `Return` of the generated code is a step to
`pc = "host"`.  The variables are the globals of `global_plan.rs`, with their
names.  Data are abstracted to the attachment *lifetime* that made them: a frame,
a provider value, an attachment-scoped global or a snapshot is a lifetime label,
or `None` for the default that `emit_attachment_teardown` stores.  Labels wrap
after `Lifetimes`; nothing in the code reads them.

| Code | Action |
| --- | --- |
| `emit_default_process_attachment`, `emit_selected_process_attachment` | `Acquire`, `AcquireNothing` |
| `ProcessIsOpen` check, `emit_attachment_teardown` | `ProcessClosed`, `MappingLost` through `DetachProcess`, `ClearAttachment`, `Teardown` |
| `emit_native_pointer_size_detection` | `ProcessOpen`, `PointerSizeUnknown` |
| discovery, one provider or alternatives | `Discover(winner)`, which takes one of the next two rows, and `AlreadyDiscovered` |
| single provider discovery | `DiscoveryPending`, `DiscoveryComplete` |
| provider alternatives | `DiscoverAlternatives(winner)` |
| `emit_provider_validation` | `MappingLost`, `MappingValid` |
| `prepareProcess` | `PreparationPending`, `PreparationComplete`, `PreparationDone` |
| `emit_automatic_shape_selection` | `ShapeRejected`, `ShapeSelected` |
| `onAttach` and its asynchronous frame | `OnAttachPending`, `OnAttachRejected`, `OnAttachComplete`, and `Settle`, which goes past it by `NothingToAttach` or `AttachSettled` |
| snapshot abandoned or committed, `onStateReady` | `SnapshotAbandoned`, `SnapshotCommitted` |
| `whileAttached` | `WhileAttachedPending`, `WhileAttachedComplete` |
| operating system, emulator (external) | `StartProcess`, `ExitProcess`, `ChangeMapping` |

The constants are the features of a script that change the generated code:
its providers (none for a native state), whether there are alternatives, which
of them are attached by identity or validated, and the presence of preparation,
layout selection, `onAttach`, an asynchronous `whileAttached`, and of an operation
that needs the pointer width.  Three ghosts label the lifetime, remember what the
script was told, and count the `onDetach` blocks owed.

`AttachmentProtocol` is what a script is promised (docs/LANGUAGE.md, "Actions"),
whatever its providers: a process is opened, its attachment completes or is
rejected, is published at most once, and ends by closing or by a lost mapping,
a rejected one only by closing.  `Attachment` implements it: `stage` is what the
callbacks have told the script, or `"rejected"`.

### ProcessSelection

One update's acquisition, with the two host queries, the growth of memory between
them, and a process table that changes before each host call.  Sizes are the
code's arithmetic (`maximum_count`, the page rounding) with the page size and the
width of an address as constants.

| Code | Action |
| --- | --- |
| first `ProcessListByName`, capacity check, `MemoryGrow` | `QuerySize`, `QueryFails` |
| second `ProcessListByName` | `QueryList`, `QueryFails` |
| `ProcessAttachByPid`, the block's result | `TryCandidate`, `PromoteCandidate`, `RejectCandidate`, `ListExhausted` |
| script without `selectProcess` | `AttachByName` |
| the process found closed later in the update | `ReleaseClosed` |

Whether the script has a `selectProcess` block is chosen in `Init` (`has_selector`)
and never changes, so one run covers both kinds of script.  The content of the
block is the constant set `Wanted`; its reads of a process that exited may fail.

A failed `memory.grow` returns from the whole update, while too large a list or a
failed query only skips the name; both are modelled as they are.

### TimerMonitor

The timer half of `update`, with the user operating the timer between any two
steps.  What lies between sampling and decisions is a nondeterministic choice
between going on and returning early.  The host's timer behaves as in
`editors/vscode/src/debugger/asr/timer.ts`, except that the last split ends the
run.  `balance` is a ghost: the runs of `onStart` less those of `onReset`.

### StateSnapshot

The snapshots are structs in a heap of three objects, and `current`, `old` and
`candidate_state` are references into it: the first publication makes two of them
the same object, which is what several hazards are about.  A struct that nothing
refers to is blanked, so that garbage does not multiply states.

| Code | Action |
| --- | --- |
| start of the poll, `cache_slots` cleared, candidate allocated | `BeginPoll` |
| `emit_state_field_poll`: dependencies, read, filter | `Poll(f, r)`, part of the following |
| an accepted value | `FieldAccepted` |
| a failure retained from `current` | `FieldRetained` |
| a failure that gives up the candidate | `SnapshotAbandoned` |
| a failure whose predicate meets a null discriminator | `FieldTraps` |
| a conditional field of another shape | `FieldSkipped` |
| `emit_cached_managed_static_read` | `StaticRead`, in `Poll` and `ScriptReads` |
| first publication, `onStateReady` | `PublishFirst` |
| later publications, `emit_dynamic_shape_transition_seeding` | `Rotate` |
| `compile_state_assignment` | `Assign` |
| teardown, end of the update | `Teardown`, `EndUpdate` |

What the type checker guarantees of a program is `ConstantsAssumption`: the order
is topological (`StateDependencies`), a conditional field depends on the enums of
its predicate and only on conditional fields that exist whenever it does, and only
fields of disjoint shapes share a slot.  Whether the script assigns such an enum,
or assigns anything in `onStateReady`, are constants (`Assignable`,
`AssignsWhenReady`), because what is promised depends on them.

`SnapshotHistory` is the promise (docs/LANGUAGE.md, "State and pointer paths"): a first complete
snapshot that is both `current` and `old`, then complete successors, with the
script's own assignments part of what becomes `old`.  `StateSnapshot` implements
it with what the script *sees* of the heap, which is `Nothing` until the first
publication.

### StateDependencies

Both algorithms as the code has them, with their own stacks, index tables and
visit order: Tarjan's components in `check_state_dependency_cycles`, and the
depth-first `state_dependency_order`.  A behaviour is one compilation:
`DependenciesInit` chooses a program, `FindCycles` searches it and, if there are no
cycles, `SortFields` orders it.  Both functions recurse over one field; the
recursion is explicit here, a sequence `calls` of the calls of `visit` that are
under way, each with the dependency it is at, so that a step follows one dependency
or returns, and what holds between the steps can be stated.

| Code | Definition |
| --- | --- |
| the loops over the fields | `SearchFrom`, `OrderFrom` |
| `Tarjan::visit`: its head, one dependency, its end | `Visit`, `Follow` with `Lower`, `Return` with `PopComponent` |
| the loop over the components | `IsCyclic`, `Report` |
| `visit` of `state_dependency_order` | `Begin`, `Descend`, `Leave` |

The property compares the outcome with a definition that has nothing of the
algorithm: f needs g if g is in every set of fields that is closed under
dependencies and holds those of f (`Needs`).  The code orders the
fields of one shape; the model has one shape, since the type checker lets no field
depend on one that may not exist when it does.

### PointerPrefixes

The plan of the prefixes several fields share and the code emitted for them.
Emission and execution are one pass over the fields in polling order, so one
action, `PollField`, does both: what the compiler knows (`guaranteed`,
`possibly_initialized`) and what happens in one poll (the status locals, the
host's answers) advance together.  A path is its base and its offsets; each proper
initial segment of it is one costly question.

| Code | Definition |
| --- | --- |
| `PointerPrefixPlan::build` | `Costly`, `CanShare`, `SharedPrefixes`, `LongestOf` |
| `emit_ensure` | `Ensure`: `EnsureOne` of each shared ancestor in turn, `Resolve` within the run-time test, `Record` |
| `emit_state_field_poll` under the field's predicate | `PollField`, `Exists` |

### UpdateExport

The composition: `EXTENDS TimerMonitor`, an instance `A` of `Attachment`, and two
program counters.  An early return of the attachment half is a `ReturnEarly` of
the whole update; `whileAttached` completing with true goes on to the decisions.
`snapshots` is a ghost.  The abstract specifications are the two halves: every
behaviour of the whole is one of `TimerMonitor` and one of `Attachment`, fairness
included.

### Futures

The frames and resume functions of source functions and closures, `nextTick`,
host queries, `future.race` and `future.timeout`, in scripts whose futures may be
shared, nested, and awaited by one another and by themselves.  `stack` is the
chain of resume functions that are running, each with its activation's locals.
The epoch is the set `polled` of frames that have been polled in this update.  A
future completes with its own name or with the value it forwards.  Time passes
between updates only, in units that saturate at `MaxDuration`.

| Code | Action |
| --- | --- |
| start of `update`, `future_poll_epoch` | `BeginUpdate` |
| `emit_future_poll_status` | `Poll(f)`, part of the actions that poll |
| `compile_continuation_body`, `compile_source_future_poll` | `BodySuspends`, `BodyResumesNextTick`, `BodyPolls`, `BodyWaits`, `BodyTakes`, `BodyCompletes` |
| array methods called by a body | `BodyMutates` |
| `compile_leaf_future_poll`, `compile_suspension_poll` | `NextTick`, `Query` |
| `emit_future_race_poll` | `RacePending`, `RacePolls`, `RaceGoesOn`, `RaceTakes` |
| `emit_future_timeout_poll` | `TimeoutPolls`, `TimeoutTakes`, `TimeoutLooksAtClock` |

### MemoryScan

The five cooperative signature scans over a memory that the game writes, protects,
maps and unmaps between polls.  What matters is which candidates a poll inspects,
so memory is the set of candidates that match at present; a page of 2 and a window
of 4 stand for the 4096 and 524 288 of the code.

| Code | Action |
| --- | --- |
| `emit_cooperative_range_scan` (`scan`, `scanOnce`) | `ScanRange` |
| `emit_cooperative_module_scan_any` (`module.scanAny`) | `ScanModule` |
| `emit_cooperative_process_scan`, `..._any` (`scanMemory`, `scanMemoryAny`) | `ScanProcess`, with `Current` and `NextRange` |
| the match of an earlier poll, state cleared | `Deliver` |
| `compile_scan_process_range` | `Inspected`, `FirstMatch` |
| the game (external) | `Game` |

The scans over a module and over the process are promised for ranges of whole
pages only (`Whole`), which is what modules and mappings are.  TLC shows why this
matters: in a range that is not, `scanAny` gives up a window as soon as the rest is
shorter than the signature whose turn it is, and so misses a shorter one in it.

### PatternUsefulness and MatchExpression

`PatternUsefulness` is the recursion of the code over a matrix of patterns: by
constructor, by array length, by interval, and by default, with its shortcuts and
its own test of which types have values.  Types are names with a shape, a
constructor is a tuple, and an answer is a row of patterns for values that the
candidate takes and the matrix does not.  The recursions are recursive functions, so
that they can be reasoned about: over the patterns of a program, which are trees
(`Height`), and over the depth of the calls.  `MaxDepth` bounds that depth: deeper
calls are taken to have no end.  `MatchExpression` is one match, from its arms to a
run.

| Code | Definition |
| --- | --- |
| `useful_pattern_witness` | `UsefulWitness`, `CoveredByWildcards`, `Gather` |
| `specialize_pattern_matrix`, `default_pattern_matrix` | `SpecializeMatrix`, `DefaultMatrix` |
| `useful_array_witness` | `RepresentativeLengths`, `Lengths`, `AtLength`, `SpecializeArrayMatrix` |
| `useful_integer_witness` | `Cells`, `IntegerInterval`, `SpecializeIntegerMatrix` |
| `type_is_inhabited` | `VisitType`, `InhabitedTypes` |
| the arms of a `match`, nested alternations | `CheckArm`, `AlternativeAnswers`, `Coverage` |
| the errors of a pattern that is checked against a type | `Suits`, `WellFormed`, over `Parts` |
| `missing_patterns` and the end of the arms | `MissingPatterns`, `CheckMissing` |
| the compiled match | `Run`, `TestArm`, `Tests` |

The reference is the compiled match: `AnalysisIsExact` compares the reports with
what `Tests` says of all values, those of recursive types and growable arrays cut
off at a depth beyond all patterns.  What the analysis relies on, and the code does
not see to, has names of its own (`EmptyTypesAreEmpty`, `LengthsSuffice`,
`OverlapsAreTried`); `MCParts` has TLC evaluate them for the types and patterns of
`parts`, and what the code does where they fail is under the violations and after
them.  `EndsWithExamples` adds that every search ends, and that each example of what
is missing stands for a value that no arm without a guard takes.

### ScopedGlobals and ScopedGlobalUse

`ScopedGlobals` is the analysis that lets a global go without an initializer.  A
script is made of blocks, sequences of nodes: reads, writes, calls of helpers,
branches, loops, `return`, failures, debug statements and closures.  What is
computed is left out, so a test compares an enum with a variant or is opaque.  The
shape of an attachment is the values of its dimensions.  `ScopedGlobalUse` loads
what the analysis accepts and runs it: attachments and attempts begin and end in
any order, whichever branch an opaque test may take is taken, iterations are
unbounded, and the process may close while an action waits.

| Code | Definition |
| --- | --- |
| `action_has_attempt_scope`, `attachment_shapes` | `Actions`, `AttachmentShapes` |
| `ScopedUseVisitor`, `conditional_shapes`, `condition_value` | `Blocks`, `OwnUses`, `RefinedBlocks`, `Uses`, `SelectedShapes`, `IsUnderstood` |
| `assignments_in_action` | `Assignments` |
| `infer_function_requirements` | `FunctionRequirements`, `Viral` |
| `Initializer::eval_block`, `eval_statement`, `eval_expr` | `EvalBlock`, `EvalDebug`, `EvalStatement`, `PathGroups`, `CollapsePaths` |
| `analyze`, `record_availability`, `validate_uses` | `Analyze`, `AssignedOnAll`, `Misuses`, `FieldUses` |
| the update export around the actions | `BeginAttachment`, `EndAttachment`, `BeginAttempt`, `EndAttempt`, `RunAttached` |
| the lowered body | `ReadGlobal`, `AssignGlobal`, `Branch`, `SelectArm`, `Iterate`, `EndIteration`, `Jump`, `Evaluate`, `CreateClosure`, `Reject`, `Complete` |

Storage is the set of globals that hold a value; teardown and the end of an attempt
remove those the analysis gave to the lifetime that ends.  An action runs to its
end before the next: `onAttach` and `whileAttached` may wait, but other actions that
run meanwhile neither assign nor clear what they read, except by the process's end.
The reference is the run: `NoDefaultIsObserved` says nothing of the analysis.

### CompilerWorker and CompilerTasks

`CompilerWorker` is the connection the extension holds, the worker that answers it,
and the one staged compilation its Wasm service retains, with the messages in
between.  Who calls the connection is open: after each event the caller may
compile, cancel, or do nothing.

| Code | Definition |
| --- | --- |
| `EmbeddedCompilerWorkerConnection` | `Compile`, `CancelCurrent`, `SettleRequest`, `Stop`, `Terminated`: operators on `link` |
| `handle` of the worker | `ReceiveCompile`, `ReceiveCancel` |
| `compileStaged` and the service's three entry points | `LowerCompile`, `FinishCompile`, `ThrowCancelled` |

`CompilerTasks` says who calls it: release builds, the debug watch and its stop.
An action is what the extension's one thread does between two awaits.

| Code | Action |
| --- | --- |
| `buildRelease` | `InvokeRelease`, `Dismiss`, `StopAndBuild`, `Cleared`, `SavedRelease`, `ReleaseAnswered` |
| `startDebugWatch` | `InvokeWatch`, `SavedWatch`, `WatchStarted` |
| `queueWatchBuild`, `drainWatchBuilds` | `Save`, `QueueWatchBuild`, `WatchAnswered`, `DrainNext` |
| `replaceOutput` | `Written`, `Renamed`, `WriteFailed` |
| `stopDebugWatch`, `dispose`, a worker that fails | `StopCommand`, `Dispose`, `WorkerFails` |

Its connection is `CompilerWorker`'s: `TasksSpec` implements `WorkerSpec`, which is
proved, so what is proved of any caller holds of this one.

### DebugRuntime

One debugger session: the object that builds the program and rebuilds it, the
client that owns the runtime's worker thread, and the threads themselves, of which
several exist while one replaces another.  Messages keep their order.  Modules may
fail, hang, or take their thread down.

| Code | Action |
| --- | --- |
| `DebugRuntimeSession.launch`, `buildArtifact` | `Launch`, `CompilerCreated`, `Opened`, `Saved`, `Built`, `BuildFails` |
| `reload` and its chain, save and file watcher | `Restart`, `Save`, `Write`, `FileReload` through `QueueReload`, `ReloadEnds` |
| `RuntimeClient.launch` and its handlers | `Ready`, `RuntimeFails`, `SnapshotArrives`, `Answered`, `Exited` |
| `RuntimeClient.terminate`, `DebugRuntimeSession.stop` | `Stop`, `Stopped`, `TimerExpires`, `Kill` |
| `runtimeWorker.ts` | `Load`, `Receive`, `LoadFailsOrTraps`, `Hang`, `Crash` |
| editor and user | `Edit`, `ChangeSetting`, `RequestMemory`, `CompilerFails` |

`hotReload` is taken to be on.  Snapshots of a tick, a module's own normal exit and
messages that arrive after `stop()` are left out.

## 3. The runs

Every run explores its whole state space.  Deadlock is checked except where the
system really stops: a module that trapped (`snapshot_or_session`, `first_failure`,
`first_ready`), an `onAttach` or a scan that is done (`async`), a compilation or a
match that is over (`parts`, `endless_match`, `growable_match`), a script that was
rejected (`default_observed`), and an editor in which every command was used
(`latest_save`, `snapshot_or_session`, `stop_returns_control`, and, as a stutter
`Over`, `tasks_or_attachment`).

| Run | Instance | Question |
| --- | --- | --- |
| `update` | one validated provider, every timer action, all that may depending on the attempt | is a persistent timer transition delivered exactly once whatever the attachment does, are decisions gated, does each half behave as it does alone? |
| `snapshot_or_session` | two shapes chosen by `mode`, a filter, a chain of dependencies, two fields read through one static, an assigned field.  Two reloads, two versions, a memory request or a setting, one failure | is a published snapshot complete, fresh and consistent, is `old` the predecessor; is a runtime forgotten, are settings kept, is there a false alarm, do stop, operations and requests end? |
| `first_failure` | the snapshots of `snapshot_or_session` | *violation*: does initialisation wait when a conditional field fails? |
| `parts` | five process instances of two names, memory of three pages, failing queries; 7 225 programs of four fields; three fields over four paths and four conditions; matches of up to three arms on 18 types; some 34 000 scripts over four globals, two helpers and two shapes | does a handle leak or a list overflow, is a wanted process found once the table is quiet; are exactly the cycles reported and the rest polled in order; is a shared prefix asked for once and never used unwritten; are exactly the arms without values and the values without arms reported, does an accepted match select, is each example of what is missing one; does an accepted script read a default? |
| `endless_match` | as `parts`, on an enum whose first variant holds itself | *violation*: does the analysis end? |
| `growable_match` | one match of nine arms on a growable array of truth values, run on all arrays of seven | *violation*: does an accepted match select an arm? |
| `default_observed` | one script that tests an ordinary enum | *violation*: does an accepted script read a default? |
| `async` | `onAttach` over three futures, 1744 scripts; five scans over up to three ranges, one of them not readable | is anything resumed twice or inside itself, does each await get its own value, are races left-biased, deadlines neither early nor missed; does a scan miss what stays? |
| `first_ready` | twelve scripts in which a child changes its race and is ready at once | *violation*: does a race complete with the value of the first ready future? |
| `tasks_or_attachment` | two process instances of two names, three alternatives, two of one emulator, one attached by identity, one validated; preparation, layouts, async `onAttach` and `whileAttached`.  A release and a watch of one document with three versions | does anything outlive its attachment, who owns the continuation, is a rejected process retained, does a lost mapping end the attachment, is the cadence right and the protocol the promised one; are a compile's answers its request's own, is a resting watch current, does every build end? |
| `latest_save` | the same commands | *violation*: is a resting watch current also if a save came while it started? |
| `stop_returns_control` | the sessions of `snapshot_or_session` | *violation*: does a module run after `stop()` has returned? |

`parts`, `async`, `snapshot_or_session` and `tasks_or_attachment` hold parts that
share no state; each behaviour is one of them while the others rest, so one run
answers for all.

### What the violations show

Each refutes a sentence of the documentation or of a comment; `PROJECT.json`
quotes it.

* `first_failure`: whether a failed conditional field can be retained is decided by
  `!state_ready | !predicate(current)`, and both sides are evaluated.  Before the
  first publication `current` is the struct of `emit_initial_state`, whose enum is
  null, so reading it traps: the module dies instead of waiting for the next poll.
* `first_ready`: a race reads `operations[index]` anew after the child was polled.
  A child that replaced its own element makes the race complete with the default of
  a future that is not complete; one that cleared the array makes it trap.
* `latest_save`: `startDebugWatch` takes its snapshot, awaits the context key, and
  queues it.  A save in that gap is built first and then overwritten by the older
  snapshot, and the watch rests on it.
* `stop_returns_control`: `reload()` reads `stopped` only when it is called and
  `launch()` never; an operation that is building when the session stops launches a
  worker that no later call terminates.
* `endless_match`: a wildcard is expanded into the constructors of its type in
  source order, also when no row is left to compare with; if the first variant of an
  enum holds the enum, the same question is asked again without end, and the
  compiler overflows its stack.
* `growable_match`: of a growable array the lengths that are tried are sums of one
  prefix and one suffix, and one more.  That is enough for patterns whose prefixes
  and suffixes do not overlap; where they do, each length is a case of its own, and
  some are not tried.  Nine arms that leave out seven elements are accepted as if
  they took everything, and the compiled match traps.  The attempt to prove
  `AcceptedMatchesSelect` without a condition found this one.
* `default_observed`: a test of any enum value counts as understood, also of one that
  is no dimension of the attachment; no shape then satisfies it, so the block under
  it is never looked at.  A `split` that reads an attempt's global in such a block is
  neither rejected nor held back until `onStart` has run.

Other behaviour that the passing properties except, by an explicit condition:

* A script that assigns an enum its conditional groups test sees fields of the new
  shape that were never polled, and one that assigns in `onStateReady` changes
  `old`, which is then the same struct (`Assignable`, `AssignsWhenReady`).
* A compile posted after its worker stopped is never answered (`alive` in
  `BuildsEnd`), since `compile()` does not look at `stopped`.
* A watch that is stopped between the temporary file and the rename still renames,
  over whatever another task has written meanwhile.
* A change of the program between the reading of the first artifact and the moment
  the session listens is not heard (`missed` in `RestingRuntimeIsCurrent`).
* A reload chain stays behind a compiler that failed or a module that hangs while
  it loads (`Impaired` in `OperationsEnd`).
* A type that is visited within a cycle it cannot be built in by itself is kept as
  uninhabited for the rest of the visit: of `enum A { X(B), Y }`, `enum B { Z(A) }`
  and `struct S { a: A, b: B }`, `S` is said to have no values, so that a match on it
  needs no arms and traps (`CyclicTypes` in `MCMatch`, which `parts` leaves out, and
  of which `EmptyTypesAreEmpty` is false).
* The analysis of scoped globals misses more than `default_observed` shows, and the
  scripts of `parts` avoid it: the right side of `&&` and `||` counts as evaluated;
  a dimension that is computed, or set in a loop, leaves the enum value it was last
  given on the path; what a helper uses under a test of a dimension is not asked of
  its callers; the body of a closure is only looked at where it is written.
* `module.scanAny` of an empty array traps; `scanMemoryAny` guards against it.

### Bounds, and why they are enough

* Two instances: an attachment and the one that follows it, of the same or another
  process.  A model value that exited may start again, so the sequence of
  attachments is unbounded.
* `Lifetimes = 3`: a value may only be confused with that of another lifetime when
  three teardowns pass without clearing it; every teardown clears or violates.  In
  `update`, whose questions are about one attachment and its neighbour, 2.
* Three alternatives: one that wins, one that is polled and loses, one attached
  without a future.
* Five PIDs over two names, one PID to a page of eight bytes: lists that fit, that
  need growth, that cannot grow, and that exceed `maximum_count`.
* One segment in `update`: a split that ends the run; the theorems cover any number.
* Two shapes, one field of each, one common to both, one filter, a chain of three
  dependencies and one shared static: each rule of polling applies to some field,
  and two of them to the same one.  Two values: a change and no change.
* Four fields, two with up to two dependencies and two with one: cycles of every
  length up to four, two disjoint ones, one that hangs on another, two that share a
  field, and fields that are reached twice.
* Three polled fields and four paths: the module alone, one and two dereferences
  shared, an absolute base; unconditional, two exclusive conditions and one that
  overlaps both, in every order.  The bases of paths are model values: a module and
  an address.
* Types of each kind the analysis distinguishes, among them wrappers of wrappers,
  types without values, and cycles through a struct, an option and an enum; integers
  of four values for intervals at both ends; arrays of up to four elements, one more
  than any prefix and suffix.  Three arms: a row that is jointly covered by two.
* Actions of up to three statements from twenty, whose blocks hold up to two more: a
  global assigned before, after, in and around each kind of control flow, and two of
  them combined.  One dimension of two variants and two further globals: one common
  to both shapes, one of each.  Two helpers, one calling the other.
* Ranges of 4, 5, 6 and 0 candidates against windows of 4 and pages of 2: one
  window exactly, one and a tail, a partial page, nothing.  Signatures of one byte
  and two: none and some reach across a border.  Two changes of memory.
* Three futures, scripts of up to three operations, deadlines up to 2: sharing,
  nesting to depth three, self-awaits, and a deadline before, in and after the poll
  that makes its operation ready.
* One release, one watch, three versions: two saves, one during a build and one
  after it, and every order of the two commands.  `MaxRequests` is never reached.
* Two reloads, two revisions, one failure: three runtimes, of which two are alive while one
  replaces another, and a reload that waits behind another.

### Fairness

The runtime calls `update` again and again, and each call runs to its end, since it
is a finite sequence of instructions between host calls that return: `WF` of
`Update`, `Export`, `Next` (of `Futures`) and `PollScan`.  The event loops of the
extension and of the workers deliver messages, timers expire, files are written or
fail, and threads that are terminated end: `WF` of `Work` in `CompilerTasks` and
`DebugRuntime`.  Users, games, compilers that fail and modules that hang or trap
are never assumed to move.  `LostMappingEndsAttachment`, `WantedIsFound`,
`TransitionDelivered` and `MatchesAreFound` are conditional on the world staying as
it is; `WantedIsFound` also on there being room for the lists and on queries that
at last succeed, since the code gives up the update, or the name, otherwise.

## 4. What is proved

TLC checks small instances; the theorems hold for every value of the constants
that satisfies the module's assumption.

* **Attachment** (`AttachmentProofs`).  The properties are not inductive alone.
  `IInv` adds what each place of the update may rely on: a process is held beyond
  acquisition, a provider value is present from validation on, an attachment that
  is ready owes its `onDetach`, and the shared frame belongs to the action that the
  phase allows.  One lemma per group of actions shows `IInv` preserved; the
  properties follow from it.  The action property and the refinement are proved
  from it step by step: each action of `Attachment` is a named action of the
  protocol, or a stutter.
* **ProcessSelection** (`PartsProofs`).  The list fits because a page
  count rounded up suffices (`PagesSuffice`, `RoomGrows`) and memory never shrinks;
  every candidate is tried because the tried ones are at least the prefix of the
  list before `index` (`PrefixTried`).  Only accepted processes are kept, and under
  the right name, because whatever is held came from a list of the name the update
  is at (`Provenance`).
* **TimerMonitor** (`UpdateExportProofs`, first part).  Alternation needs the readiness of the
  attempt, which needs the observed state; together with the bound on splits they
  are inductive.
* **UpdateExport** (`UpdateExportProofs`).  `GateInv` is inductive by itself: it
  says what the early returns have established by each stage, and the end of it is
  that decisions have two snapshots.  Every step of the whole is a step or a
  stutter of each half, so the invariants of the timer half carry over.
* **StateSnapshot** (`StateSnapshotProofs`).  The argument is about the fields polled
  so far (`Done`).  The order makes `Done` closed under dependencies
  (`DependenciesDone`), so filling the next field changes the existence of none of
  them (`ShapeSettled`): their predicates read only enums that are in place.  `IInv`
  then says that their results are there if they exist, that accepted ones depend on
  accepted ones, and that each cache slot holds the host's one answer.  With
  `ScriptLeavesShape` (the script assigns no enum that a group tests), `SInv` adds
  that they are filled, that `current` is complete once it is published, and so is
  `old` in the present shape, by seeding.  `Implements` maps publication, rotation,
  assignment and teardown to the actions of `SnapshotHistory` and every other step
  to a stutter, because the candidate is a struct that neither global refers to.
* **StateDependencies** (`PartsProofs`, second part).  For any fields and dependencies.  A
  visited field is on the stack or in one component (`Partition`).  A call that is
  under way owns what was visited since, up to the next call (`InRegion`): it needs
  all of it, its number is at most that of any field on the stack that its region has
  followed, and is the number of a field that it needs (`LowlinksMean`,
  `StackPaths`).  If a call ends with its own number, all that its region depends on
  is in the region or in components closed before, and each field of it needs an
  earlier one, down to the call's own: so it is a component (`ComponentIsCycle`), and
  the components that are left at the end tell exactly who needs itself and whom
  (`ComponentsTell`), because the closed components before any position are a closed
  set.  The order is then never cut: no call meets a field that is being visited,
  since that field would need itself (`SkipKeeps`), so what a field depends on is
  emitted by the time it returns.
* **PointerPrefixes** (`PartsProofs`, third part).  For any paths, conditions and
  order of fields.  The compiler's two sets bound what the locals hold when the code
  runs: a guaranteed prefix has a status in every poll, one that is not possibly
  initialized has none in any (`Settled`).  Shared prefixes are closed under what
  begins them (`SharedSegments`), so `emit_ensure` goes from a known prefix to the
  next (`EnsureKeeps`), each step asks at most one question and changes nothing that
  is known (`Keeps`), and a field reads its status when it is known for good.  What
  a known prefix holds is then what the answers along it come to (`KnownIsAlong`):
  all were positive, or the one that was not is inherited by every longer prefix.
* **Futures** (`AsyncProofs`).  For any scripts, of any size.  `StackInv` says of
  the calls that are running: all but `onAttach`'s were polled in this update, none
  is complete, no frame occurs twice, each callee is what its caller polls, and the
  answer is about it.  That a resume function is entered only through the epoch
  test then gives `NoReentryOfResume` and `ResumedOnce`, and what the answer means
  gives `ReadyWins`.  `AwaitInv` counts: a body in state `2k` or `2k + 1` has passed
  `k` operations, its awaits among them have received as many values in their order,
  and each value is what the operand completed with and still holds, since a frame
  that is complete is never entered again; so `AwaitsReceiveTheirOwn`.
* **Races** (`AsyncProofs`, second part).  `RaceInv` says of every call of a race on
  the stack, however deep, that its index is within the length its pass began with;
  that the array is at least that long while it has the pass's version; and that then
  the element at the index is the one being polled and those before it were polled in
  this update, are not complete, and are not being resumed by anything the race called
  (`PassedOver`).  The last is what makes it inductive: what is polled but not running
  cannot complete before the next update, since nothing enters it again.  So no pass
  reads beyond its array, whatever scripts do (`PassesEndInTheArray`).  `array[i] = f`
  leaves the version alone (the finding of `first_ready`), so the rest supposes that
  scripts assign no element: then a race that completes while the version is that of
  its pass is fair (`UnchangedRaceIsFair`).  And if they only push, the completion is
  always that of the future polled, nothing traps, and `RaceIsLeftBiased` and
  `FirstReadyWins` hold of every race (`LeftBias`).  A race whose first child clears
  the array and completes at once traps, so a hypothesis on clearing is needed; where
  the run's scripts clear an array and then wait, left bias is checked by TLC only.
* **MemoryScan** (`AsyncProofs`, third part).  For any ranges, signatures, page and
  window sizes, and any number of changes.  What `scanOnce` has still to inspect
  lies at or beyond the offset it keeps (`PassIsComplete`): the overlaps of pages and
  of windows are long enough that a window without a match has no candidate that has
  matched throughout, and the last window reaches the end of the range.  Hence
  `AbsenceIsTrue`.  For all five scans, whatever a window yields lies within a range
  that is mapped and within its bytes (`FoundIsTrue`).
* **Matches** (`MatchProofs`).  For any types, patterns, values and arms.  An answer is
  right (`Right`) if "no" means that the rows take whatever the candidate takes, and
  "yes" that they do not; `UsefulWitnessRight` says that every answer to a question
  of checked rows is right, by induction over the depth of the calls.  Its step
  (`WitnessRight`) has one lemma for each way a question is split.  By constructor and
  by default, values correspond to the vectors of their arguments.  By interval, the
  ends of the patterns cut an integer type into cells in which no pattern tells two
  values apart (`Cells`).  By array length, a pattern with a rest spreads over the
  elements of the length that is asked about, and a length nobody asks about is
  answered for by one that is (`Represents`).  The patterns of a program are trees and
  a rectangle of them shrinks by constructors, so that what is said of alternatives,
  of `Coverage` and of nested alternations is proved over `Height`, on the lowest
  counterexample.  `MatchInv` then ties the rows to the arms that were checked:
  without errors they are well-formed and take the same values, so what nothing is
  missing of is taken by an arm without a guard, and the compiled match, which tests
  the arms in the same order, stops at it or before (`AcceptedSelects`).
  `AnalysisExact` is the other direction too, and needs that the program may meet
  every value that can be built.

  The hypotheses are what the code takes for granted.  `EmptyTypesAreEmpty` fails for
  the cyclic types above, and `LengthsSuffice` for `growable_match`;
  `OverlapsDecide` states the second exactly: the lengths that are tried are enough if
  and only if each length at which a prefix and a suffix overlap is tried for the two
  patterns that have them, so that patterns without such an overlap are always
  analysed rightly.  `AllComplete` holds of the types of `parts` but for two whose
  values are cut off for TLC; `MCParts` checks all three.

  The search itself does not end for every type (`endless_match`), so
  `AnalysisTerminates` is about types that are not made of themselves: those a cost
  can be given to that exceeds what their parts cost, with patterns for them
  (`Grounded`).  A row costs, for each of its places, what the type there costs and
  the height of the pattern there (`Carries`).  A call drops a place, opens it into
  the arguments of a constructor (`MadeOfLess`), or keeps its type and takes one
  alternative of its pattern, so that each call costs less than the one it is made
  by, in every way a question is split (`ConstructorEnds` to `ArrayEnds`).
  The same bound serves the question for each
  arm, those for the alternatives inside it and the last one, for what is missing
  (`CheckArmEnds`, `CheckMissingEnds`).  `MCParts` gives such costs to all types of
  `parts` but the three recursive ones.  A struct that is made of itself, as `void`,
  may be among them, since it is found empty before it is opened; of the other
  recursive types TLC checks that the search ends for those of `parts`.
* **CompilerWorker** (`CompilerTasksProofs`, first part).  For any caller.  A request
  is in one place at a time: posted, suspended in the worker, or answered
  (`Consistent`, `NoneLost`).  From it follow ownership of the stage and of the
  answers, and that only suspended compiles are marked as cancelled, so the set
  stays small.
* **CompilerTasks** (`CompilerTasksProofs`).  For any number of commands, documents
  and versions.  `TasksInv` adds that a command that has not begun its task owns
  nothing, which is what the awaits between the check of the task and the taking of
  it could break; no save is lost and a release is the task until it ends.  Each
  step is a `WorkerNext` step or leaves the worker alone, so `TasksSpec` implements
  `WorkerSpec` and inherits its theorems.  `RestingIsCurrent` follows what the build
  under way, what waits and the last build handled: one of the three is the last
  save, unless a save crossed the start of the watch (`UpToDate`).
  `CancelledAreSuperseded` orders the messages by their ids: the compile the
  connection takes for active is the newest it posted, and one that is cancelled
  while it is the newest was cancelled by the connection itself (`InTurn`), so a
  watch that learns of a cancellation has another build coming or was stopped.
* **DebugRuntime** (`DebugRuntimeProofs`).  For every number of reloads, revisions,
  requests, changes of settings and failures.  None of the six properties is
  inductive; `DebugInv` is their common strengthening.  `Counted` and `Phases` say
  where launch, the reload chain and `stop()` can be together, and how many runtimes
  they will still create; `Threads` says of each thread who terminates it and what it
  may still report; `OneAtATime` that a thread is created only once the one before it
  is gone; `Quiet` what a stop with nothing under way leaves behind; `Current` that a
  change no build has read has a build ahead of it; `Carried` where the last change of
  a setting is on its way through the queues of the thread.  The parts need one
  another.  `RestIsCurrent` uncovered an error of the model: a reload that could not
  save the document counted as one that had tried nothing, which three revisions, one
  more than the run has, would have shown to TLC.  In the code it reports the error,
  having tried what is on disk, and the model now says so.

Only model-checked, and why:

* liveness, and the fairness halves of the two refinements: `LostMappingEndsAttachment`,
  `WantedIsFound`, `TransitionDelivered`, `MatchesAreFound`, `TimeoutsEnd`,
  `BuildsEnd`, `OperationsEnd`, `RequestsSettle`.  The prover has no `ENABLED`;
* `NoDefaultIsObserved` of `ScopedGlobals` with `ScopedGlobalUse`: its operators are
  recursive over statements, and a theorem would need them as functions over a set
  of statements with a height, as the patterns have, and a relation between what is
  left of a run and what the analysis said at that place.  (Where the data is a
  number, or a tree with a height, the inductions of this project are done by hand,
  on the least counterexample.)
* `EndsWithExamples`: that the search ends is proved where no type is made of itself,
  and false of some programs (`endless_match`); what is proved of an answer is whether
  there is a witness, not which;
* `RaceIsLeftBiased` where scripts clear arrays, which some of them violate;
* the seven violations, which are facts about an instance.

## 5. What is abstracted

* Wasm traps: a trap ends the module, and the runtime discards it.
* Calls that script code itself makes on the timer or on `setTickRate`: on the
  timer they are among the moves of the user; `setTickRate` overrides the cadence
  until the next transition, which only removes what `CadenceFollowsAttachment`
  says of that interval, and is left out.
* The order in which teardown clears its globals and then runs `onDetach`: they
  are one step, since no host call lies between them that another actor could see.
* The providers and attachment-wide shape globals of an attachment are fixed while
  it lasts, so `StateSnapshot` starts with the fields they leave.  There a read
  returns any value or fails; which part of it is shared is `PointerPrefixes`.
  Filters keep or reject; values are abstract, so a filter that converts is one
  that keeps.
* `Attachment` knows that a frame is suspended, and for which lifetime; what is
  inside it is `Futures`.  In `Futures` the captures and locals of a frame are left
  out, and `onAttach` is the only root.
* Of scoped globals: how a dimension's enum is named and imported, `break` with a
  value, and the wording and places of the diagnostics.  A script's globals are of
  one lifetime or the other as in the code, but those with an initializer, which
  need no analysis, are left out.
* Locals of an update vanish when it returns.
* PID reuse between the listing and the attach: the host attaches to whatever has
  the PID, and `selectProcess` is asked about that process.
* Artifacts, diagnostics, progress and messages to the user; the browser's compiler
  worker, which has the same handlers as the Node one.

### Not modelled

* *Sequential functions of text or of a program's IR*: lexer, parser, formatter,
  migration, type checking but for cycles, patterns and scoped globals, inference, effects, lowering, the typed Wasm IR and its
  passes, completion, highlighting, documentation, refactoring, the standard
  library's tables and loader.  They are most of the repository.  No state of theirs
  survives a call, nothing interleaves with them, and what they compute is defined
  by tables and cases whose restatement in TLA+ would be a transliteration; the
  repository tests them by snapshots.  What they guarantee of an accepted program
  appears as assumptions on the constants of the modules above.  This is why the
  map covers a small share of the repository's lines.
* *Compiler service, database and language server*: a client edits and asks on one
  thread per service, and a query is a function of a revision.  Their cancellation
  and versions are the next thing to model.
* *Settings*: the map's refresh at the start of an update.
* *Retries, `findMemoryRange`, the scan for managed instances, MD5*: loops over
  the frames and windows that `Futures` and `MemoryScan` model.
* *The debug adapter and the views*: translation of protocol messages.
* *Process access*: calls of the operating system; the environment of the above.

## 6. Plan

*Done:* the attachment, selection, timer and snapshots with their abstract
specifications, and the update export that composes them; dependencies, prefixes
and scans; futures; matches and scoped globals; the editor's compiler worker and
tasks; debugger sessions; the proofs of all but scoped globals.

*Next, in this order:*

1. The soundness of the analysis of scoped globals, with its recursion over
   statements written as a sequence of open statements, as `StateDependencies` writes
   its calls, or over statements with a height, as `MatchProofs` does with patterns.
2. Retries in `Futures`: an attempt runs to its end or its failure within one poll,
   and the next poll evaluates it anew.
3. `CompilerQueries` and `LanguageServer`: revisions, cancellation, stale answers.
4. `Settings` as one more step of `UpdateExport`.
