# Verification of choo

choo runs units of work (a unit is a directory of task files) in parallel: each unit gets a git
worktree, an AI provider works through its tasks there, and the unit's branch is rebased and merged
into the target branch.  A scheduler orders units by their dependencies; a daemon can run many such
jobs and keeps them in SQLite; a web view, a TUI and gRPC streams show what happens.

This directory holds TLA+ models of that system, the TLC configurations that check them, and
TLAPS proofs.  `src/` below is the repository.

## 1. Inventory

| Component | State | Operations | Interacts with |
|---|---|---|---|
| scheduler (`internal/scheduler`) | graph, status and blockers of every unit, FIFO ready queue | Schedule, Dispatch, Complete, Fail | called by the dispatch loop and by the bus goroutine under one mutex; emits on the bus |
| event bus (`internal/events`) | bounded channel, handlers, closed flag, WaitGroup | Subscribe, Emit, EmitRaw, Close, Wait, dispatch loop | everyone emits; the orchestrator, log, web pusher, TUI bridge subscribe |
| orchestrator (`internal/orchestrator`) | units, pool, scheduler, closing flag, escalation semaphore | Run, handleEvent, shutdown, Close | scheduler, pool, bus, escalator, GitHub |
| worker pool (`internal/worker/pool.go`) | registered workers, semaphore, WaitGroup, cancel context, merge mutex | Submit, Shutdown, Stop | one goroutine per worker |
| worker (`internal/worker/worker.go`) | worktree, branch, unit | Run: setup, task loop, baseline, merge, report | git, provider, bus |
| task loop (`internal/worker/loop.go`) | task statuses in memory and in the files | runTaskLoop, executeTaskWithRetry | provider edits the files and commits |
| code review (`internal/worker/review.go`, `internal/review`, `internal/provider/*reviewer*`) | worktree | runCodeReview, fix loop, cleanup | advisory, before the merge lock |
| git (`internal/git`) | worktrees, branches, index, rebase and merge state on disk | CreateWorktree, Rebase, AbortRebase, MergeManager, GitOps safety checks | subprocesses under a context |
| discovery (`internal/discovery`) | none (reads files) | Discover, frontmatter, validation | orchestrator, spec tools |
| daemon (`internal/daemon`) | managed jobs, log streams | StartJob, StopJob, ResumeJobs, WatchJob, Shutdown | database, bus, gRPC |
| daemon process (`internal/daemon/pid.go`, `daemon.go`, `internal/cli/daemon.go`) | PID file, socket | Acquire, Release, start in the background, stop, status | other daemons, the file system |
| database (`internal/daemon/db`) | runs, units, events tables | create, update, list | daemon |
| web (`internal/web`, `static/app.js`) | store of the last run, SSE clients, the page's state | Pusher, socket server, Hub, handlers | bus of the job, browsers |
| GitHub (`internal/github`) | none (remote state) | pull requests, checks, PollReview | feature completion |
| features (`internal/feature`) | feature status, drift baseline | workflow, review cycle, completion check | provider, git, GitHub |
| feature documents (`internal/feature/prd.go`, `repository.go`, `cli/cleanup.go`) | frontmatter of PRDs and task files | UpdateStatus, UpdateState, WritePRDFrontmatter, reset | users edit the same files |
| completion (`internal/orchestrator/complete.go`, `internal/archive`) | archived specifications | archive, commit, push, pull request | git, GitHub |
| specs (`internal/spec`) | workflow state on disk | generate, validate, resume | provider |
| provider (`internal/provider`) | none (subprocess) | Claude and Codex invocation, stream parsing | worker, review |
| escalation (`internal/escalate`) | none | terminal, Slack, webhook, fan-out | orchestrator, worker |
| container (`internal/container`, `internal/daemon/container_job.go`, `log_streamer.go`) | containers, a row for each | create, start, logs, wait | daemon, bus |
| command line and terminal view (`internal/cli`, `cli/tui`) | signal handler, deferred calls, the view's program | run, resume, cleanup, daemon | all of the above |
| client, config, skills | settings | | |

### What is hard

* **Interleaving.** The dispatch loop and the bus goroutine call the scheduler from two sides; a
  unit's outcome reaches it through worker, channel, handler.  Workers merge into one checkout.
* **Loss.** `Bus.Emit` drops when the channel is full; a worker may end without an event.
* **Repetition.** `Scheduler.Fail` itself emits `UnitFailed`, which calls `Fail` again.
* **Cancellation.** The pool's context kills git and Claude in the middle of a rebase or merge, and
  the cleanup runs under the same context.
* **Retry on a changed world.** A retried Claude finds what the previous attempt left.
* **Shutdown order.** Late events and escalations race `Close`; signals come during the set-up and during
  the deferred calls of `choo run`.
* **Files as state.** PID file, frontmatter, workflow state and worktrees are read, changed and written by
  processes that crash, race and repeat each other, and by users.
* **Pipes and connections.** A scanner that stops reading, a buffer that is full, a connection that is replaced
  while its lines are still read.

### What makes each component correct

The scheduler must never start a unit before its dependencies are complete, forget to wake one, leave
one pending that can never run, exceed the limit, or start one twice.  The bus must deliver what it
accepts once and in order, and count exactly.  The orchestrator must not believe what is not true and
must return.  A merge must not report what is not in the target, lose what is, or leave the repository
in the middle of an operation.  A worker must not hand on a task whose command did not pass or which is
not in its last commit.  The daemon must not lose a running row, a job or its limit, and a stream must
not deliver less than it took.  The spec workflow must not skip a phase or claim one.  The graph must be refused exactly when it is cyclic or dangling,
and so must invalid units.  Features must not be worked on before their specifications are reviewed, committed and
pushed; no update of a document may be lost; what is called archived must be in the branch of the pull request.  A
view must not go back in time, nobody may wait for ever for a pipe, a hub or a signal handler, and only one daemon may be up.

`PROJECT.json` lists the hazards with their lines, each with the properties that would catch it.

## 2. Modules

| Module | Models | State and actions |
|---|---|---|
| `Execution` | what the scheduler promises: a unit starts after its dependencies are complete, once; a failure skips what depends on it | one phase per unit; `Start`, `Finish`, `FailAndSkip` |
| `Scheduler` | `internal/scheduler` | `deps` = `Graph.edges`, `status` and `blockedBy` = `UnitState`, `ready` = `ReadyQueue.set`, `pushed` restricted to `ready` = `ReadyQueue.queue`. `Dispatch`, `Complete`, `Fail` are one action each: they hold `Scheduler.mu` from start to end |
| `SchedulerProofs` | | inductive invariant, safety theorems, refinement of `Execution` |
| `Channel` | a Go channel with non-blocking sends | `Sent`, `HasRoom` |
| `EventBus` | `internal/events/bus.go` | emitters, dispatch goroutine, subscribers and closers, one action per statement between which they interleave |
| `Orchestrator` | one run: the dispatch loop, the bus goroutine with `handleEvent`, the pool, a goroutine per unit, cancellation, `Close` | extends `Scheduler` and calls its actions; `orch` is the loop's program counter, `handler` the bus goroutine's, `worker[u]` a worker's |
| `OrchestratorProofs` | | a run keeps the scheduler's contract; dependencies are merged; statuses are true; the result stands; after `Close` nobody is left; what alone orphans a unit |
| `UnitMerge` | `Worker.mergeToFeatureBranch` and the worktree it works from | opens up `MergeLands`/`MergeFails` of `Orchestrator`. A history is a set of commits, a rebase makes copies; one action per git or Claude command |
| `TaskLoop` | `runTaskLoop`, `executeTaskWithRetry`, `runBaselinePhase`, `runCodeReview` and a second run | opens up `TasksDone`/`TasksFail`. Each status lives in memory, in the task file and in the last commit |
| `Jobs` | the daemon: `StartJob`, `StopJob`, `Shutdown`, the job goroutines, graceful shutdown, crash, `ResumeJobs` | the runs table, `jobManagerImpl.jobs`, `GRPCServer.activeJobs`; one action per database statement or lock |
| `Watch` | `WatchJob`, `SubscribeFrom` and the adapter between them | two bounded channels and three goroutines for each stream |
| `GraphSort` | `filterToUnit`, `filterOutCompleteUnits`, `NewGraph`, `topologicalSort`, `GetLevels`, `findCycle` | one action per iteration; compared with paths and circular sets |
| `SpecWorkflow` | `choo feature spec`: `internal/spec` and the command's branches in `internal/cli/feature_spec.go` | `file` = the state file, `mem` = `Workflow.state`; one action per form of the command, per phase outcome and per write |
| `RunCommand` | `choo run` and `resume`: set-up, deferred calls in their order, signal handler, terminal program, early returns | `deferred` calls as a stack; `bus`, `workers` and the view as the neighbours it must not outlive |
| `AgentStream` | `ClaudeProvider.Invoke` with its pipe and scanner, every handler of `stream.go`, the items of `progress.go` | a line is a record; the agent writes what it may; `said` is what the stream said last of a specification |
| `WebView` | pusher, socket server, store, hub, SSE handlers and the page | one value for each event of a unit; lines in flight on old and new connections; one action per channel operation |
| `ContainerJob` | `StartContainerJob`, its goroutine, the log streamer | the row, the container, its log and what was emitted of it |
| `DaemonProcess` | PID file, socket, start in the background, stop, crash, reuse of PIDs | a daemon is a process; each read and write of a file is an action |
| `Worktrees` | `CreateWorktree`, setup commands, `choo cleanup`, `CleanupOrphans`, `MergeManager` | what git lists, what exists, what is checked out; the rebase open in a worktree |
| `GitOps` | `gitops.go`: every operation that changes the repository | guard, lock, read of the branch and command of a call are steps; commits and edits are sets |
| `Discovery` | discovery and validation of units; `DetectCycles` step by step | `state` = its marks, `stack` = its recursion |
| `FeatureWorkflow` | the workflow, `ReviewCycle`, `CommitSpecs`, the completion check, drift baseline, restart | `status`, and the files as committed, pushed or changed |
| `Documents` | the writers of a document with frontmatter, their readers | `files` with the temporary one; a write leaves prefixes behind when it is cut off |
| `Completion` | `Complete`, `Archive`, `ArchiveTasksDir`, `createFeaturePR` | work tree, HEAD and remote as sets of archived items |
| `MC*` | instances for TLC | |
| `UnitMergeProofs` | | the lock, the history of the target and the work a dependent starts from |
| `DaemonProofs` | | rows, maps and goroutines of the daemon's jobs; one daemon |
| `ToolsProofs` | | `GitOps` and `Worktrees` |
| `RunningProofs` | | `TaskLoop`, `AgentStream` and `RunCommand` |
| `StreamsProofs` | | `EventBus`, `Watch`, `WebView` and `ContainerJob` |
| `PlanningProofs` | | `GraphSort`, `Discovery`, `SpecWorkflow`, `FeatureWorkflow`, `Documents` and `Completion` |

Composition: `Orchestrator` extends `Scheduler` and `Channel`, and refines `Scheduler` (`ImplementsScheduler`),
which refines `Execution` (`ImplementsExecution`).  What `Scheduler` assumes of its graph (`Acyclic`) is
what `AcceptedIsAcyclic` proves of the graphs that `GraphSort` accepts.  `EventBus` shows that the bus delivers what it accepts once and in
order, which is what lets `Orchestrator` and `Watch` treat it as a queue that may refuse.  `RunCommand` closes the
bus that `EventBus` and `Orchestrator` use, and shows that no worker is left by then; `TaskLoop` takes what
`AgentStream` returns as a provider that succeeds or fails.  `PROJECT.json` maps every definition to the lines it
stands for.

Five MC modules check several components side by side: `MCStreams`, `MCRunning`, `MCPlanning`, `MCTools` and
`MCDaemon` hold an instance of each, and a variable (`way` or `part`) that is chosen in the initial state and says
which of them moves; the others rest in their initial states.  The components share no variable, so the reachable
states are the union of those of the components, and a property of one is trivially true while another moves.
The run of such a module asks the questions of all its components on one configuration.  Where the components have fairness, `AllSpec`
states it for the whole with the same actions: an action of a component that rests is never enabled.
Modules that are only instantiated name their assumptions on constants as operators (`FeatureAssumption`, ...),
which the MC module evaluates (`ASSUME Parameters`).

The proof modules of these components extend the MC module, whose bounds are constants that the cfg sets, so what they
prove of the instances holds for all values of them.  Each begins with the lemma `SideBySide`: a behaviour of `AllSpec` is
one of every component's own specification, stuttering where another moves.  The rest of the proof is about
the component alone.

Operators commented "Mutant of" are faulty variants of the definition that follows them; each shows
that a property notices the fault.

## 3. Runs

| Run | Question | Bounds and why they suffice |
|---|---|---|
| `sched` | Does the scheduler wake, queue and block right under late, repeated and contradictory calls (`StatusesAgree`, `NeverStuck`), and implement `Execution`? | All 543 acyclic graphs on four units, parallelism 2: diamonds, chains of failures, two culprits for one unit, and a full capacity all occur. The order in which discovery lists the units is fixed; renaming them only permutes the graphs |
| `orch` | Is what the scheduler believes and what `Run` returns true? Does `Run` return, does cancelling end it (`RunEnds`), does `Close` end everything, what can orphan a unit, and is every scheduler call legal? | two units, independent or chained; two slots, a channel of two, one escalation at a time, failing status writes, feature mode. Both outcomes of a dependency, drops and late events occur; the safety properties that depend on larger graphs are proved for all |
| `merge` | What a merge may report, lose or leave behind (`RepositoryInOrder`: dependents have their predecessors' work, no operation is left open, a local target stays linear) | three units, one depending on another; an outsider pushing; three attempts; with and without a remote; cancellation at any point |
| `merge_abandoned` | *violation*: Claude gives the merge up and exits well | the same, with `"abandon"` allowed |
| `running` | `TaskLoop`: is what goes on to the merge validated, in order and committed? `AgentStream`: does `Invoke` return, and do the items show the stream's last word? `RunCommand`: is the bus closed last, and does a signal at any moment end the command? | three tasks, the third after the first; marks of several at once; two attempts for each retry; two runs on a worktree. Streams of at most four lines on one specification, a line too long among them, two tools, and a pipe that holds nothing. All failures of the set-up, two workers, a bus of two events, two signals |
| `task_resume` | *violation*: a task whose command failed when it was last run is merged | one task, one attempt, two runs; `MCTaskResume` adds a history of the commands that failed |
| `streams` | `EventBus`: order, count and drain. `Watch`: no send on a closed channel; what was accepted arrives. `WebView`: no view goes back, `Stop` ends. `ContainerJob`: of a run recorded as completed every event that was read is on the bus, or was dropped by a full one | two emitters with two events, one through `EmitRaw`, a buffer of one, so most sends drop, a late subscriber, one closer; a stream's channel of two and three events, so it fills; one browser that may connect twice, a pusher that may dial twice, two events, a client's buffer of one; logs of four lines, with noise and long lines, that may be cut off anywhere, and a job's bus of two |
| `planning` | `GraphSort`: verdict, order and levels. `Discovery`: errors exactly for invalid units. `SpecWorkflow`: does any sequence of commands, interrupts, crashes and half-written files skip a phase, claim one, or cost more than the running one? `FeatureWorkflow`: work starts from reviewed, committed and pushed specifications. `Documents`: no acknowledged update is lost. `Completion`: a success is on the remote | every `depends_on` list of up to two entries, with repetitions, over three units and one unknown ID; every set of complete units; whole graph or one target. Three writers and one edit of a document with a temporary file. Two iterations of a review, two triggers of the completion check and one retry of the push; two specifications and two units of a feature; one specification and two units to archive. `SpecWorkflow` is finite as it is |
| `tools` | `GitOps`: the audit tells the branch that was changed, and nothing is destroyed without leave. `Worktrees`: only rebased branches are pushed | two goroutines, a protected branch and another, one edit; two units, two attempts, a target that moves once: a merge stands on the target it fetched or on an older one, and the theorem has any number of moves |
| `cleanup` | *violation*: a worktree is handed out after `choo cleanup` removed its directory | two units |
| `daemon` | `Jobs`: do rows, maps and goroutines agree through start, stop, shutdown, crash and restart? `DaemonProcess`: is one daemon up at a time? | two jobs, two branches of which one is unnamed, two starters, one stopper, a limit of one, and any statement may fail; two processes that start a daemon. A third would see of the two others only the PID file, which `OneDaemon` compares with who is up; the theorem has any number |
| `jobs_second` | *violation*: two orchestrators on one branch | one branch, one starter, one stopper |

Deadlock is not checked: a run, a worker, a stream or a closed bus really ends.

Bounds that are not in the code: `MaxEmits`, `MaxHandlers` (`EventBus`); `MaxEvents` (`Watch`, `WebView`); `MaxConns` and `MaxClients` (`WebView`); `MaxRuns`
(`TaskLoop`); the number of IDs in `Jobs` (`BeginStart` allows no more calls than there are fresh IDs);
`MaxDeps` (`GraphSort`); `MaxTarget` (`Worktrees`); `MaxLines` (`AgentStream`, `ContainerJob`); `MaxTools`
(`AgentStream`); `MaxSignals` (`RunCommand`); `MaxEdits` (`GitOps`, `Documents`);
`MaxTriggers` (`FeatureWorkflow`).  `MaxAttempts`, `MaxClaude`, `MaxBaseline`, `MaxFix`, `MaxEscalations`, `MaxJobs`,
`MaxParallelism`,
`MaxWorkers`, `MaxQueue`, `QueueCap`, `ClientCap`, `PipeCap`, `BusCap`, `Capacity` and `Cap` are the code's own limits with smaller values.

Abstractions that matter:
* The events of one scheduler operation enter the channel together (`Orchestrator`).  Between them only
  other emitters could put something, and the handler acts on the first of them alone.
* `Claude` and the provider may do anything to the files they are given, succeed or not, and are killed by
  cancellation; they do not touch other worktrees.
* Content of files is reduced to whose work a history has (`UnitMerge`) or to a dirty flag (`TaskLoop`).
* Polls and timeouts may fire at any moment.
* Frontmatter parses or does not; a write that is cut off leaves a prefix, which may still parse (`Documents`).
* Two processes that `fork` in `DaemonProcess` are told apart by their PIDs, which the system may give again.
* `raced` of `Documents` and of `DaemonProcess`, `verdict` and `waived` of `FeatureWorkflow`, `said` of
  `AgentStream`, `waived` of `Completion`, `done` and `waived` of `SpecWorkflow`, `reported` and `escalated` of `Orchestrator`, `passed` and `trusted` of
  `TaskLoop`, `refused` of `MCTaskResume`, `inherited` and `unwritten` of `Jobs`, `undone` of `Worktrees`, `garbled` of `AgentStream`, `dropped` of
  `ContainerJob` and `misread` of `Completion` are history: no action's guard reads them.

Where a property excepts something, the exception is what the code leaves open, and section 4 says what
happens then: overlapping calls of `Acquire` (`OneDaemon`), overlapping updates and torn files (`UpdatesAreKept`), a
line too long for the scanner (`InvokeReturns`, `LastWord`, `CompletedIsTold`), orphaned units (`RunReturns`), rows of a former daemon
and rows whose last status could not be written (`JobsAreTended`), a branch whose agent undid the rebase and then failed (`PushedIsRebased`),
a tool use that got its input in pieces after some in its start (`LastWord`), a log that was cut off and events that a full bus dropped
(`CompletedIsTold`), and items that could not be read (`ArchiveIsPublished`).

### Fairness

`Orchestrator`, `UnitMerge`, `EventBus` and `Watch` assume that each goroutine that can go on does (weak
fairness): the Go runtime starves none, and subprocesses end or are killed with their context.  The merge
lock has strong fairness in `UnitMerge`, since Go's mutex hands over to a waiter after one millisecond.
`AgentStream` supposes that the agent goes on writing or ends, `WebView` that the hub, the pusher, the socket's
connections and the handlers of the browsers go on, and `RunCommand` that its own goroutine, the handler, the
workers and the view do once they are told to stop.
Nothing forces a cancellation, a signal, a disconnect, a push or a crash.  In `Orchestrator` weak fairness of `Run` as
a whole is enough: it is one goroutine.  `RunReturns` supposes that no unit is orphaned, and
`OrphanedOnlyByLoss` says what alone may orphan one.

## 4. Findings

* `merge_abandoned`: `worker.go:576` asks only whether a merge is still in progress; a merge Claude aborted
  is reported as merged, and dependents start without it.
* `jobs_second`: `job_manager.go:274` writes `cancelled` before the orchestrator has ended, so a new start
  runs a second one on the same branch, against the comment at `grpc.go:150`.
* `task_resume`: the backpressure command of a task fails and the run ends, its attempts used up; `loop.go:314` leaves
  the task as `complete` in its file, the next run on the worktree believes it, and the unit is merged, against `WORKER.md`.
* `cleanup`: `cli/cleanup.go:81` removes directories and leaves git's entries, so `CreateWorktree` hands out a
  worktree that is not there, against its comment (`worktree.go:85`).

Read while modelling, reproduced by the actions of the modules, and stated here only:

* `events/bus.go:98` says `Close` waits for pending events; it returns before the drain.
* A failed write of the unit's status ends the worker without `UnitFailed` (`worker.go:194`), although
  every other error emits it.  `StatusWriteFails` is that path; it orphans the unit (`OrphanedOnlyByLoss`).
* `AbortRebase` and `git merge --abort` run under the cancelled context (`worker.go:430`) and do nothing;
  `CONFLICT-RESOLUTION.md:75` promises the cleanup.  `CleanBetweenMerges` (of `RepositoryInOrder`) holds until cancellation only.
* After a crash, `resume.go:124` leaves running rows that `StartJob` attaches to although no job runs
  (`Restart`, `inherited`), now and at every later attempt: `ResumeJobs` starts nothing and reports success (135), while
  `grpc.go:152` says that a start joins "an in-progress workflow".
* A last status that cannot be written is only logged, after a configuration that fails (`job_manager.go:134`) and at
  the end of a job (242): the row stays at running, with the same effect (`unwritten`).
* A second run takes statuses from the uncommitted tree (`worker.go:319`), while `MVP-ORCHESTRATOR.md:1071`
  speaks of the commits.
* The channel of a stream is not closed when its job ends (`job_events.go:144`), so `WatchJob` does not
  return by itself; and the adapter's goroutine stays when it holds an event for a reader that has left
  (`job_manager_adapter.go:146`).
* Sequence numbers count the events of the stream, not of the job (`job_manager_adapter.go:144`): dropped
  events leave no gap, and a reconnection's numbers name other events.
* An interrupted or failed `choo feature spec` saves the phase `failed` (`spec/workflow.go:203`), which
  `--resume` refuses (`state.go:105`), although `feature_spec.go:67` says "Resume interrupted workflow".  Only
  a killed one resumes.
* A dry run saves its progress (`spec/workflow.go:232`), so the next real command goes on after phases that
  were only printed; and a phase run with `--phase` starts from a new state, which forgets `validation_ok`
  and the counts.
* A state file that is not YAML refuses every command, `--force` too, since it is read first
  (`feature_spec.go:110`).
* `findCycle` repeats the closing node at the end but leaves its first occurrence out (`graph.go:242`): the
  cycle 1 -> 2 -> 1 is reported as 2, 1, 1.
* **Command.** `ls-remote` matches every branch that ends in the name, so `EnsureBranchOnRemote` may not push.  A
  second signal is swallowed until `Stop`.  `q` and ctrl+c in the view end the view only, and the summary is printed while
  its screen is still there; nobody waits for the terminal to be restored.
* **Agent stream.**  The handler writes the input of a block's start, which usually is `{}`, into the buffer
  (`stream.go:277`) and appends the pieces to it (320): the input does not parse at the stop, so that a specification
  that was written is not listed (`garbled`), against "finalizes the current tool use" (289).  `StopSpinner` does not wait for its goroutine; `MarkAllDone` marks items done although the
  agent failed; an error while a block's input streams leaves its item done.
* **Web view.** A page that is open when a run starts does not load its units, nor does one whose connection was
  replaced load the state again; a dropped `orch.started` leaves the store without units, and `unit.queued` before it
  is ignored; jobs at the same time overwrite each other's status, and `Store.Reset` is not called.  A second
  `choo run --web` waits in the accept backlog.
* **Containers.** Nothing calls `StartContainerJob`.  A container whose start failed is left behind, a cancelled job's
  goes on, and a line over 64K ends the scan.  A log that fails or ends midway (`log_streamer.go:56`) and an
  event that the full bus drops (106) leave no trace in the row: a run may be completed and not told in full.  `choo run` ignores `--json-events` and `--clone-url`.
* **Daemon process.** Two overlapping calls of `Acquire` start two daemons, against the comment on `PIDFile`; a crash between the creation of the
  file and its content leaves an empty file, which no start gets past; a daemon on its way out may remove the
  socket of its successor (`daemon.go:259`); the start in the background reports success when the child has ended; a
  PID that the system gave to another process blocks the start.
* **Worktrees.** A failed setup command leaves the branch, so that every later `worktree add -b` is refused; only the
  first setup command that matches is run.  When the agent fails with everything staged, the push is refused and the
  rebase stays open.  When it undoes the rebase and then fails, the next attempt finds no conflicts and calls them "All
  resolved" (`merge.go:275`), and the branch is pushed by force as it was, on the old target (107), and scheduled for
  deletion; `undone` marks it, and `PushedIsRebased` does not hold without that exception.  A branch scheduled for deletion
  while `FlushDeletes` goes through its list is forgotten (140).
* **Git safety.** The guard looks at HEAD before the lock is taken and `CheckoutBranch` does not ask it, so another
  caller may have the protected branch checked out by the time of the commit.  `AllowedRemotes` and the safety level
  are not used.  A path that contains `worktrees` passes the test of the repository's root.
* **Features.** After a failed push or a restart, `CommitSpecs` finds nothing to commit and fails for ever; the completion
  event is emitted although the pull request failed, and `findExistingPR` always answers nil; the drift detector's
  stored body makes later edits invisible.  No command constructs the workflow.
* **Discovery.** Cycles among tasks pass validation.  After a cycle was found its nodes stay marked as visiting, so later searches report
  paths that are no cycles (the verdict is still right).  `ValidateUnits` has no caller outside the tests.
* **Documents.**  Two updates at once share one temporary file, `path + ".tmp"` (`prd.go:271`): the first renames it when
  the second has just truncated it, and readers find an empty document, against "atomically" (249); an update that overlaps
  another, or starts from a stale cache, overwrites it.  A truncated body parses and is written back;
  `WritePRDFrontmatter` writes the fields of the cache and drops unknown keys.
* **Completion.**  `ShouldArchive` and `IsUnitComplete` answer false for what they cannot read (`archive.go:97`, 180), so
  a finished item may be skipped and the completion succeed (`misread`).  `Complete` has no caller: `Run` opens the pull request, whose text says that the specifications were
  archived, without it.  An archived specification of the same name is replaced, a directory whose
  name is taken stops every archive, exit code 1 of `git commit` counts as no changes, and a second `Complete` fails at
  `gh pr create`.

## 5. Proofs

A theorem holds for every value of the constants that satisfies the assumptions of its module, which every run of the
module evaluates.  They say what the code gives: `Units` is finite, `Graphs` holds relations on `Units`, `UnitOrder` lists each
unit once (`GraphsAssumption`, `FiniteAssumption`, `OrderAssumption`); limits, counts and capacities are naturals,
positive where the code makes at least one attempt or one slot (`ParallelismAssumption`, `RunAssumption`, `MergeAssumption`,
`TaskAssumption`, `JobsAssumption`, `GitAssumption`, `BusAssumption` and the `Parameters` of the MC modules); the IDs of `GraphSort`
are numbers and the directories of `Discovery` have the fields that the parser fills (`GraphAssumption`, `TreesAssumption`); values that stand for
nobody are not members of the sets they stand beside; the sets of emitters, jobs and tasks are finite.  Every
safety invariant and action property that a passing run checks is a theorem.  Three theorems have a hypothesis of their own, named
below; a run shows of each hypothesis that it is needed.

**Scheduler.**  `SchedInv` is inductive (`StepInv`): types, `QueueMatchesStatus`, `DependenciesFirst`,
`FailureContained`, `NoLostWakeup`, `WithinParallelism` and acyclicity.  None of the parts is inductive
alone.  That `Fail` blocks no unit that is queued or running needs `DependenciesFirst`
(`BlockingHitsPending`); `DependenciesFirst` after `Dispatch` needs `QueueMatchesStatus`.  What
`propagateBlocked` reaches is the least set closed under blocking; `BlockingIsClosed`, `BlockingHitsWaiting`
and `BlockingIsExact` are the facts about it, proved without induction from its definition as an
intersection.  `NeverStuckHolds` uses acyclicity: a minimal unit of the pending ones would wait for nothing.
`Refinement` maps `status` to `Execution`'s phases; each action is a step or a stutter (`StepImplements`).
`StatusesAgree`, which `sched` checks, is the conjunction of four of the facts in `SchedInv`
(`StatusesAgreeHolds`); each of them is a theorem of its own, too.

**Orchestrator.**  `RunInv` adds to `SchedInv` that the loop and the worker of its unit agree, that a unit
with a worker has been started in the scheduler, and that every completed status and every event in the
channel or the handler is vouched for by what the worker reported (`StatusVouchedFor`, `EventsVouchedFor`).
The last is why a stale, repeated or reordered event is harmless: the channel's content has the type
`Seq(GoodEvents)`, and `GoodEvents` only grows (`VouchersKept`).  From it `ContractKept` (each step is a
scheduler step or leaves the scheduler alone), `DependenciesMergedHolds` and `StatusIsTrueHolds`.  By
`ContractKept` every theorem of `SchedulerProofs` holds of a run.
`EndInv` is the invariant of the end.  `ResultIsFinal` says that a result is the count of a state in which all units
are terminal, and `TerminalStands` that such units stay so: a late report of a failure has nobody left to block.  `CloseInOrder`
follows `Close` through its waits; `ClosedIsQuietHolds` is what they leave.  `OrphanedOnlyByLossHolds` is about single
steps: `TendedStep` goes through the actions and shows that the report of a unit that loses its worker is in the channel or with
the handler, unless the channel was full (`NothingDropped`) or the status could not be written.

**Merges.**  `LockInv` holds whatever Claude does: the steps of `mergeToFeatureBranch` are the lock holder's, and a merge or a rebase
that is open without being cancelled is the holder's too.  From it `CleanBetweenMergesHolds` and `OneMergerHolds`; `NothingLostHolds` is
`TargetGrows`, one case per action that writes the target.  `HistoryInv` adds that a branch past its tasks has the unit's
work, that the target has it from `landed` on, that a branch holds its predecessors' work, and that a local target is linear, which
needs that a branch to be merged stands on it.  `RebaseKeepsWork` is the lemma about copies.  `MergedMeansLandedHolds` and
`RepositoryInOrderHolds` suppose `ClaudeFinishes`: Claude does not abort a merge and report success.  `merge_abandoned` drops
the hypothesis and finds the violation.

**Daemon.**  `JobsInv`: a call of `StartJob` has a job of its own from the insert to the end (`StartsAreApart`), an ID is
used once (`FreshIsUnused`), a goroutine is in the manager's map until its outcome is in the row (`RunnerIsListed`), `StopJob` cancels
before it forgets (`StopsCancelled`), and `JobsAreTended` itself.  A running row that no job is listed for is one of a
former daemon or one whose last write failed (`inherited`, `unwritten`).  `ProcessInv`: unless two calls of `Acquire` overlapped,
one process at most is between `Acquire` and the release, so the file it made is the one it writes.

**Git.**  `GitInv`: between the lock and the end a call has the lock, so the branch it read is the one it changes; what
the options forbid never gets past the guard.  `NothingDestroyedHolds` (`DestroysNothing`) takes it one operation
at a time.  `TreeInv`: a unit that is to push has a rebase open, which makes git refuse, stands on the target it
fetched, or is in `undone`.

**Tasks and command.**  `TaskInv`: the prompt's tasks are ready (`PromptIsReady`, with `LeastNumber` for the choice of the task to verify);
what memory calls complete was validated or found complete, after what it depends on; what was validated stays complete in the file and, but
for the task about to be committed, in the last commit (`ValidatedStays`).  `FirstRunValidatesAll` supposes `MaxRuns = 1` and
gives what `WORKER.md` promises; `task_resume` has a second run and shows
how a task that was refused gets past it.  `RunInv`: while a worker is at work `closeOrch` is still the
first of the deferred calls (`ClosedFirst`).
`StreamInv`: while the invocation reads, the handler is as many points behind the agent as there are lines in the pipe.  `Follows` says so: there is
a sequence of points in the stream's story, one more than lines, of which the first is what the handler knows, the last what the agent
has said, and each line leads from one to the next.  A line the agent writes adds a point (`AgentWrites`), one that is handled
takes one away (`HandlerFollows`), and at the end of the stream the two agree on every result that was told (`FinishTells`).
A specification that a garbled call tells of is left out of what they agree on.

**Streams.**  `BusInv`: the channel is the rest of what was accepted, every handler has seen a stretch that ends with or just before the event
in dispatch, and the WaitGroup counts channel, dispatch and the emitters between `Add` and the send.  `BoxInv`: the bus has the
events of the lines read that it did not drop, each once, in their order, and a run goes on to its verdict only when the scan is over, for one of its
reasons: the end, a line too long, a log cut off or an ended context.  `NoSendOnClosedHolds` and `NothingIsLostHolds` are about single steps of a stream; the latter follows an event from queue to
queue (`HoldsAppend`, `HoldsTail`).  `WebInv`: events are numbered; the numbers grow along the way from the lines to the pusher's hand and
on to its queue, and from connection to connection (`NumbersInOrder`, which needs that connections are accepted in the order
they were dialled); and whatever the store, a page or a client's channel shows is no newer than anything still under way (`Behind`,
`ShownInOrder`).  `ViewsNeverRevertHolds` follows, since each event that is applied was behind what it replaces.

**Planning.**  `ArchiveInv` says how far the archive has come at each step of `Complete` and that no step before it did more; a finished item that is not
in the archive by then is in `misread`.
`FeatureInv` adds to `WorkFromRemote` that every status past the review has a verdict or a waiver, and what a call that is
under way presupposes.  `WorkflowInv`: unless the user took a shortcut, a command that stands at a phase has all before it done,
claims no more in memory, and the file stands just before its phase; a file cut off claims less (`PartlyClaimsLess`).
`DocInv`: unless two updates overlapped or one that writes in place was cut off, one writer is midway at most, it keeps all there is, the temporary
file is not the document, and the document holds every update that returned.  The exceptions are those of the property.
`GraphInv` has a part for each loop: `KahnInv` (the degree of a unit counts the entries of its list, repetitions included, whose units are
not ordered yet; those at zero are in the queue), `LevelInv`, and `SearchInv` (the gray units are a path, what is black has black
dependents only and no circular set).  That there is a cycle to report follows: the units that Kahn's algorithm leaves are circular, so they
cannot all be black.  Induction over data is replaced by a least counterexample (`LeastNumber`, by well-foundedness of the
finite sets): an order without a circular set (`OrderedAreAcyclic`), and paths, which never leave a closed set (`PathsStayInside`) and of
which the units reached form one (`PathsGoOn`), so that the closure of `filterToUnit` is what paths lead to.
`DiscInv`: until a cycle is found the stack of `DetectCycles` is a path, what was taken off a list of things to do is visited or on top, and
what is visited has no circular set (`StackInv`).  `ChecksAreNumbering` shows, by counting, that the separate checks for repetitions,
gaps and missing references come to a numbering from 1 to n.

**Only model-checked.**
* Liveness, which is beyond the prover: `RunEnds`, `MergesEnd`, `InvokeReturns`, `SignalEndsRun`, `EarlyEventsDelivered`, `StopEnds`
  and the part of `TakenIsReceived` that says that the way is empty again and again.
* What a recursive definition computes for every input: the order of the ready queue's content goes through `SelectSeq`.

`WithinParallelism`, `OnlyValidTransitions`, `OneMergerHolds`, `StartsAreApartHolds` and `FirstRunValidatesAll` (`EveryTaskValidated`) are the other
way round: proved, and checked by no run as they stand.

## 6. Not modelled

`PROJECT.json` lists each part with the reason.  The client and the generated code wrap calls that are modelled;
configuration is merged once, without state of its own; escalation delivers or ignores an error; review criteria are text
of prompts; the daemon's tables of units and events are never written.  GitHub's polls and the helpers around
them (`worker/merge.go`, `worker/feedback.go`, most of `git_delegate.go`) have no caller that would compose them into
a sequence.  Read all the same: `doRequest` repeats a `PUT` of a merge whose answer was lost, and reports a failure
although the merge happened; the flag `Merged` of the answer is not looked at; the check after a push asks only whether the branch
exists.  Of the modelled parts, these are left out: path validation of `GitOps`, prioritization and prompts of
features, the layout of the web view, two `choo feature spec` commands at once.

## 7. Plan

1. **Theorems.**  A composition of `TaskLoop` and `UnitMerge` as a refinement of the worker of `Orchestrator`, step by step.
2. **Compositions.**  `Jobs` with `Orchestrator` (who closes what under the daemon), and the composition that item 1 needs.
3. **GitHub**, when the program has a sequence of calls to model.
