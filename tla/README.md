# Verification of the workflow execution engine

TLA+ models of the engine under `src/core`, checked with TLC and, where a result should hold for every
instance, proved with TLAPS. Every definition is translated from the Go source; `PROJECT.json` says from which
lines. Nothing here is needed to build or run the engine.

    tlc -workers 2 -config MC_Scheduler.cfg MC_Scheduler     # a run
    tlapm Scheduler_proofs.tla                               # a proof module

## 1. The system

The engine runs *workflows*: directed graphs of nodes, each backed by a model call or a tool call. Everything
that happens in a run is an event in an append-only, hash-chained log, from which runs are resumed, audited and
streamed to a browser.

| Part | State | Operations | What makes it correct |
|---|---|---|---|
| **Scheduler** `core/engine/scheduler.go`, `budget.go` | the coordinator's maps (state, pending parents, outputs), two queues, the halt cause, the budget tracker; a pool of worker goroutines behind two unbuffered channels | run: decide, dispatch, complete, observe cancellation, finish | joins wait for all parents; one task per running node; a halt stops new work but waits for the old; the result agrees with the record; it always returns |
| **Node execution** `engine/node.go`, `retry.go`, `inputs.go`, `*_executor.go` | none of its own; emits events, reads and fills the cache and the artifact store | gather inputs, consult cache, attempt with retries and backoff, check contract, store, record | retry classes bounded separately; a hit degrades to a miss; WorkerFinished only after the artifact is stored |
| **Approvals and resume** `engine/approval.go`, `resume.go` | none: the log is the state | read records, ask, hold, refuse, call; rebuild finished nodes | no mutation without a recorded grant; finished work is not repeated; a decision is final |
| **Event log** `core/eventlog` | one JSONL file per execution; per instance, the hash of its last line and a mutex | Append, ReadAll, Verify, snapshots | the chain holds under goroutines, two instances, short writes and crashes; changes are found |
| **Control plane** `core/server/controls.go` | the registry of runs in flight, the run parameters on disk | run, resume, retry from a node, re-execute, cancel, approve, reject, Reconcile at start | a handle for every run in flight; one run of an execution at a time; nothing shown as running that nobody runs |
| **Event stream** `core/server/server.go` | per connection, the number of events sent | replay, tail, close | every event once, in order; closed when the run is over, not before |
| **Cache, artifact store** `core/cache`, `core/store` | an index file read once per instance; content-addressed blobs | get, put, clear, quota | an entry is never wrong; a save changes what its caller meant; the quota holds |
| **Validation, policy, contracts** `core/validate`, `core/policy`, `core/contract` | none | pure checks of a graph, a context, an output | of a graph that passes the scheduler leaves no node undecided, but those behind a wired fallback node that was not needed |
| **Workers and versions** `core/registry`, `server.go` | worker files in workflow directories, the version each workflow names | save, edit, register, export, import as a template | a version names one definition for ever |
| **Replay, backup** `core/replay`, `cli/cmd/backup.go` | an archive | fold a log into an audit, bundle it, run it again, back up, restore | agrees with what the run returned; what is restored can be resumed |
| **Settings** `core/settings` | one file | replace, read at each launch | a run uses a mode that exists |
| **Providers, tools, serialization, rest of the CLI, SDK, UI** | I/O | | |

How they interact. An HTTP handler asks the registry whether the execution runs, builds a new *assembly* (with an
event log instance of its own) and launches a goroutine that calls the scheduler. The scheduler reads the
approval records once, dispatches nodes to its workers and appends through the assembly's log; the handlers append
decisions through the server's log to the same file. The event stream polls that file and asks the registry whether
the run is over. Cancelling cancels the context of the run whose handle the registry holds. After a crash, a new
server's Reconcile closes the executions that were started and have no terminal event. An assembly also has a cache
and an artifact store of its own, over the files that all launches and the server share, and reads its workers from the
workflow's directory, where saves through the API put new versions. A resumed run knows of the runs before it only what
the log and the artifacts tell; so do audits, bundles and backups.

What is hard about it: completions in any order into counters (the scheduler); several causes that halt one run
(failure, budget, approval, rejection, cancellation, a bad condition), of which the first must win; fallbacks, which
run under another node's identity; unbuffered channels between the coordinator and the pool, where a miscount
hangs the run; log instances with stale caches; short writes; check-then-act windows in the handlers; crashes
between two appends; a registry entry that outlives the terminal event; results of several runs mixed in one log; copies
of an index that fall behind the file; versions minted by a scan and a write with nothing held. `PROJECT.json` lists these hazards with
their lines and the properties about them.

## 2. Plan

| # | Module | Composes | Status |
|---|---|---|---|
| 1 | `WorkflowRun`: what a run promises, no goroutine or counter in it | | done |
| 2 | `Scheduler`: coordinator, pool, caller; implements `WorkflowRun` | `WorkflowRun` | done |
| 3 | `Scheduler_proofs` | `Scheduler` | types, task ownership, irrevocability, joins, starts |
| 3a | `Scheduler_record` | `Scheduler` | the result and the record |
| 3b | `Scheduler_refines` | `Scheduler`, `WorkflowRun` | the step simulation; that every node resolves |
| 4 | `EventLog`: two instances over one file, faults, Verify | | done |
| 5 | `ControlPlane`: registry, handlers, run goroutine, approvals, Reconcile, stream | | done |
| 6 | `ControlPlane_proofs` | `ControlPlane` | types, handles, approvals, nothing silent |
| 7 | `NodeExecution`: a node's attempts, cache, contract, events and cancellation | | done |
| 8 | `NodeExecution_proofs` | `NodeExecution` | all its safety properties |
| 9 | `Resume`: one execution of a whole graph across runs, crashes, retries-from, backups; validation, conditions, policy, audit | a coarser `Scheduler` and `NodeExecution`'s events | done |
| 10 | `Library`: worker files, versions, templates | | done |
| 11 | `Workspace`: cache index, artifact store and settings shared by launches | `Library` | done |
| 12 | `Workspace_proofs` | `Workspace`, `Library` | all their properties |
| 13 | `EventLog_proofs` | `EventLog` | types, the chain, detection of changes, acknowledged events |
| 14 | `Resume_proofs` | `Resume` | all its properties |

Abstract specifications: `WorkflowRun`, which `Scheduler` implements; `EveryCallReturns` is the step that stands for a whole
`NodeExecution` in `Scheduler`. There is one passing run per module, and one more for each finding.

Every safety and action property that a run checks is now also a theorem; liveness is left to TLC (section 5). What could still be
added: versions with parts of several digits in `Library`, and one model in which the goroutines of `Scheduler` write the
record of `Resume`, so that cancellation, budgets and the cache meet resumes.

## 3. What is modelled

### Scheduler and WorkflowRun

One execution of `Scheduler.run`. `pc` is where the coordinator is (set-up, loop, returned); the other variables are its
local variables by their own names. `held` and `ret` are the worker goroutines: `held[w]` is the task `w` received from
the unbuffered task channel, `ret[w]` what it is blocked sending on the completion channel. One action per branch:
`Start`/`RefuseToStart` before the loop; `Activate`/`Skip` for an iteration of `processDecisions`;
`Dispatch`, `ObserveCancel` and the `Complete...` actions for the three cases of the select and the branches of
`handleCompletion`; `Finish` after the loop; `ExecuteNode` for a worker; `ParentCancel` for the caller.

- `toDecide` and `ready` are queues in the code and sets here, which covers every order of nodes and edges an
  author may have written.
- An artifact is not represented: a conditional edge is true, false or not evaluable, chosen when it is
  evaluated.
- What runs inside `executeNode` is one step with every result the coordinator tells apart: success, an error, a
  client's own timeout, an interruption (only when the context is done), an approval asked for, a rejection.
- `starts` is a history variable.

`WorkflowRun` says the same without goroutines, counters, budgets or causes, and `KeepsPromise` checks that
`Scheduler` implements it, liveness included (`Promise == INSTANCE WorkflowRun WITH ...`).

### EventLog

One execution's file and the two `Log` instances that write it. `BeginAppend` is `headHash` under the instance's mutex,
`EndAppend` the write and the update of the cached head; `ShortWrite` leaves nothing, a part of a line, or a line without
its newline; a later append lands on the open tail. `Launch` gives the run's instance an empty cache, `Crash` both.
`Change` edits, deletes or swaps lines. A line's hash is a number of its own: SHA-256 is taken to be injective. The
last line can be changed or cut off without a trace (nothing anchors it), so `ChangeDetected` speaks of lines with a
successor.

### ControlPlane

One execution as the server sees it: ids are never reused and every map is keyed by id, so executions do not touch
each other. A handler is as many actions as it has points between which others can run: `PostRetry` checks the
registry, `AssemblyFails` or `Launch` follows; a decision goes `PostDecision`, `ReadCheckpoint`, `AppendDecision`,
`Launch`. `PostCancel` is one critical section. A run's goroutine is `Rebuild` or `RefuseToRebuild`, `ReadApprovals`, then
the checkpoint (`Ask`, `Held`, `CallTool`, `ToolReturns`, `Reuse`), `FinishRun` (the ExecutionFinished event) and `Leave`
(the deferred removal from the registry) - two steps, because the stream can look in between. `Crash` loses
memory and keeps disk; `Scan` and `Settle` are the two appends of Reconcile. `Connect` and `Send` are the stream.

The workflow is reduced to what clients can tell of it: one mutating tool behind a checkpoint, with anything else
free to fail the run at any time (`NodeFails`). A run that failed or was cancelled drains (`scheduler.go:455-475`): a tool
node in flight may still ask for an approval or make its call, and `Drain` is that it was not, or gave up before. A retry from a node is one that
drops the tool's result; one that leaves it alone is a plain resume. Runs that were allowed to mutate unattended have
no checkpoint and are left out. Appends succeed here; `EventLog` is about those that do not. A viewer that
disconnects changes nothing but its own stream, and is left out.

### NodeExecution

What `Scheduler` takes as one step: `executeNode` with `withRetry` around the executor. Several calls run at once, on nodes
with the same worker and inputs, so that the model-backed ones share a cache key; cache and store are all they share.
`pc[p]` walks a call through `executeNode`: `Begin`, then `Hit` or `Miss`; per attempt `Call` or `Refuse` (no such worker,
provider or tool, invalid input, a missing approval), then `Succeed`, `Retry` and `Backoff`, or `Exhaust`; then `GiveUp`, or `Put`,
`Record` and `Remember`. `Retry` records, counts and keeps the feedback as one step, because all of it is on the
goroutine's own stack. `log[p]` holds the node's own events in order; `tries[p]` is a history of the executor's calls.

- An error is its class (transient, contract violation, fatal, approval) and whether the context caused it. "cut" is a
  model call that the context ended, which the provider reports as transient.
- Delays are left out: a backoff ends at any time, and afterwards the context decides.
- A cache entry may have lost its artifact before the run begins. Nothing deletes artifacts during it: the store's
  `GarbageCollect` has no caller.

### Resume

One execution from its submission to its last resume. `files` is what survives the process: the snapshot (that it was
taken, and the inputs in it), the event log, the artifacts; `run` holds the coordinator's maps and the tasks of its
workers and is gone after a `Crash`, which may come between any two writes. A node's work is three of them, in the code's
order: `PutArtifact`, `CreateArtifact` (the event), `Finish` (WorkerFinished, and what the coordinator does on
receiving it). `Run` is a submission through the command line, which validates (`Graph`), or through the API, which does not;
`Rerun` is `Resume` and `ResumeFrom`, which rebuild the succeeded nodes with `Reconstruct`; `Reexecute` runs the frozen workflow
under a new id, without its inputs. `BackUpArtifacts` and `BackUpExecution` are the two parts of the directory walk that
matter, with anything in between; `Restore` is into an empty workspace or over this one.

Here the pure algorithms are in their place: `Graph` (validation), `EvalCondition` with `LookupPath`, `Truthy` and `Compare`
(conditional edges), `Resolve` and `Admitted` (context policy and a tool's references), `Unresolvable` (what an executor refuses),
`AuditState`, `Bundled`, `RunningNodes` (folds of the log). JSON values are typed pairs; a path is a sequence of segments.

- The scheduler is coarser than in `Scheduler`: no worker goroutines, budget or cancellation, which add no event about
  a node but ends that failures have too. It is finer where `NodeExecution` is: each write of a node's end is a step.
- Fallbacks are those of the code. `FallbackOnly` nodes are not seeded (`Begun`, `scheduler.go:373`), neither when they have
  no parents nor when all their parents are reused; one with a parent that settles in this run is decided like any
  other (`Released`). `Substitute` dispatches a failed node again, once, for its fallback (`Doer`) to run in its name:
  events are the node's, the checkpoint of a gated tool the fallback's (`Checkpoint`). `Final` skips the fallback nodes
  still pending at the end and does not settle their children, which is how a run ends `incomplete`.
- A cache hit is left out. It records WorkerFinished without what the node was given (`node.go:285`), so what
  `OfOnePiece` says of a node's inputs is about nodes that were executed; what a hit serves is `Workspace`'s matter.
- `history` is what the code does not keep: nodes a retry threw away, whether the process ever died, whether a restored
  backup was torn. A re-execution begins a new one, unless it is refused.
- A run never adds workers: a resume uses those on disk, which are the same here (see section 4, differences).

### Library and Workspace

`Library` is one worker's files in two workflow directories, the version each workflow pins, and the templates. A save is
`SaveScan` and `SaveWrite`, since nothing is held between them; an import is `BeginImport` (workflow.yaml) and `EndImport`
(the worker's file). `Registry` is the files a launch registers, which refuses two bodies for one version.
`past` holds every body a version ever had, and which of three excuses applied.

`Workspace` adds the cache, the store and the settings. `index` is `cache/index.json`; `copies[c]` is what one Cache instance
loaded, once, and saves whole; `stale` (history) says that another saved since. A node in a launch goes `BeginNode` (lookup; served or
run), `CheckArtifact` or `RefuseArtifact` (size and quota under the instance's mutex), `CommitArtifact` (the rename), `EndNode` (the
entry, in mode on). `ClearAll`, `ClearExecution`, `OpenForClear` go through the server's Cache, which outlives launches;
`ClearByCommand` is another process. A request that clears one node's keys, or keys it lists, is left out
(`extras.go:148-151`): it takes away less than `ClearExecution`, in the same way. `Return` ends a launch at any point, so it is also its crash.

- Versions have one digit per part, for which the order of strings is that of numbers (`Digit`): no save mints the tenth patch, and pre-releases
  are not compared with parts of several digits, where the code compares strings.
- A hash is its content; a key is the version, the part of the body it holds, and the bag of input hashes, because
  `Key` sorts them.
- Hand edits of worker files are left out. A launch reads workflow and workers in one step. One whose worker is not registered
  fails in the run, and is not a launch here.

## 4. What is checked

| Run | Bounds | Shows |
|---|---|---|
| `scheduler` | 72 workflows of at most 4 nodes, 2 workers, one cancellation at any moment, spends of 0 or (2,1,1) | types, `Joins`, `OneTaskPerRunningNode`, `StartedAtMostOnce`, `ResultMatchesRecord`, `ResolvesEveryNode`, `Irrevocable`, `EveryRunReturns`, `KeepsPromise` |
| `scheduler_timeout_policy` | the same | violation of `FailurePolicyApplied` (finding 1) |
| `event_log` | 2 goroutines and the server, 5 lines, 1 decision per process, 2 faults | `ChainIntact`, `AckedKept`, `ChangeDetected` |
| `event_log_two_decisions` | the same with 2 decisions, no fault | violation of `ChainIntact` (finding 2) |
| `control_plane` | 1 client, 1 viewer, 3 launches, 2 crashes | `HandleHeld`, `DecidedOnce`, `DecisionStands`, `CallsAreGranted`, `NotSilentlyRunning`, `StreamFollows` |
| `control_plane_two_requests` | 2 clients, 2 launches | violation of `HandleHeld` (finding 3) |
| `stream_hides_a_retry` | 1 client, 2 launches | violation of `ClosedOnTheLast` (finding 4) |
| `stream_stays_open` | 1 launch | violation of `StreamCloses` (finding 5) |
| `node_execution` | 2 calls, 1 artifact, 1 transient retry, 1 for the contract, one cancellation at any moment | `BudgetsApart`, `FeedbackIsPassedOn`, `OneCallAfterCancel`, `RecordAgrees`, `FinishedIsStored`, `EveryCallReturns` |
| `node_interrupted` | the same | violation of `InterruptionIsNoFailure` (finding 6) |
| `resume` | 296 submissions of at most 4 nodes, 2 workers, 2 more runs, 1 backup, a crash between any two writes | `OfOnePiece`, `AuditAgrees`, `RecordSuffices`, `FinishedNotRepeated`, `NoneLeftRunning`, `OnlyFallbacksStrand`, `OneBranch` |
| `workspace` | 8 workspaces, each with its own budget of operations; 2 saves, 2 launches at once; quota 2, artifacts of 1, 2 and 3 | `OneDefinition`, `HitIsRight`, `SavesAreExact`, `QuotaBounded` |

Why the bounds are enough. *Scheduler*: the shapes it treats differently are a join, a conditional edge, each policy, a
fallback (dedicated, wired into the graph, nested, missing), a budget, a resumed run, an unbound input; the workflows hold
each of them and every mix of two policies on every ordered graph of three nodes. Two workers are the least that
complete out of order, and four nodes keep more tasks ready than there are workers. *EventLog*: five lines hold a
decision between two launches with a line on either side; two faults are a torn write followed by a crash, or either
followed by a change. *ControlPlane*: a checkpoint is asked for, decided and called in two launches, and the third
is a retry after that; two crashes are what it takes to die inside Reconcile; the one client may make its requests in
any order, so only overlapping ones are missing, which have a run of their own. *NodeExecution*: one retry of each class gives every order of the two in which one
could use up the other's budget, and a violation, a transient failure and a third attempt in a row; two calls are what
it takes for one to fill the cache while the other looks or stores. *Resume*: every set of seven edges over three nodes,
loops and cycles included, goes through both entries; a chain of three whose outputs differ from run to run is the
least in which a retry in the middle has something above to keep and something below to drop, and two more runs are a
retry that dies and a resume after it; the other submissions each hold one feature (a mistake in the file, a pair of conditions, a
context, a gated tool, inputs, a failing node that the workflow goes on after, a backup; a fallback node wired without a
parent, behind the node it is for, beside it, or not wired and with an approval of its own). *Workspace*: each workspace is busy
with one part of what is shared, because the parts meet only through the files: saves and templates, the directory with
the cache, stale copies with clears, settings, the quota. Two launches and the server are three copies of the index, of
which two can be behind; three nodes fill, overwrite and hit an entry; the launches and the savers are symmetric. The
bounds of each submission and workspace are its `lives`, `backups` and `left`. The configuration of `event_log` turns
off the deadlock check, since the bounds on lines and faults end its behaviours; the others are checked for deadlock.

Fairness. The coordinator is a goroutine that never blocks while one of its cases is ready: `WF(Coordinator)`. A
worker's call returns because model and tool calls run under timeouts and the retries are counted:
`WF(ExecuteNode(w))`. The caller need not cancel. In the control plane the goroutines of runs and of handlers, the
reconciliation and the stream's ticks go on when they can; clients need not ask, viewers need not connect, and
nothing makes the server crash or stay up. A node's
goroutine goes on, and its calls end (`WF(ExecuteNode(p))`), which is what `Scheduler` assumes of it: `EveryCallReturns`
shows that the retries add nothing to that assumption. `EventLog`, `Resume` and `Workspace` state no fairness: all their properties
are safety, and a process may die at any time. No strong fairness is used.

### Findings

1. **A client timeout is taken for a cancellation** (`scheduler.go:412`). A model call's own HTTP timeout wraps
   `context.DeadlineExceeded`, and `handleCompletion` treats every such error as collateral of a cancellation: the node's
   failure policy, its fallback included, is not applied. REQ-RUNTIME-04 says it is.
2. **The second decision breaks the chain** (`writer.go:76`). The server's log instance chains its second append
   to an execution from the head it cached at the first, though the run in between wrote more lines.
3. **Two overlapping requests run an execution twice** (`controls.go:134`). The check of the registry and the
   registration are apart; the second registration replaces the first cancel function, and the first run to end removes
   the other's.
4. **A stream can hide a retry** (`server.go:305`). A connection that catches up after a retry has returned closes at
   the first run's ExecutionFinished.
5. **A stream can stay open for ever** (`server.go:305`). It sends ExecutionFinished while the run is still
   registered, and asks the registry never again.
6. **An interrupted node is recorded as failed** (`node.go:195`). A call or a backoff that the cancellation ends is an
   error like any other to `executeNode`, which records a Failure (a call that is cut may even be recorded as a Retry
   first); the scheduler then settles the node failed (`scheduler.go:413`). REQ-RUNTIME-05 says it is not misreported so.

### Differences between documents and code that have no run

- BudgetExceeded is emitted once per completion after the limit is reached, also after another halt
  (`scheduler.go:441`); BudgetWarning once per run, where `docs/spec/budgets.md:18-20` reads as once per dimension. The
  budget is checked only after a completion.
- `validate.Graph` wants every node of a graph connected, a fallback node included (`validate/graph.go:67-77`), where the
  scheduler assumes fallback nodes to be dedicated, "not otherwise wired into the graph" (`scheduler.go:236-238`). Take
  nodes `a` with fallback `f`, `f` and `x`, and edges from `a` and `f` to `x`: the graph is valid, `a` succeeds, `f` is never
  seeded and is skipped at the end without `x` being settled, and the run fails with `incomplete_graph`
  (`scheduler.go:479-484`, `:511-513`) although no node failed. A resume can meet the same behind an `f` all of whose
  parents are reused. `OnlyFallbacksStrand` says that this is the only way a validated workflow is left undecided, and
  `Wired` in `MC_Resume` holds the example; `ResolvesEveryNode` is about dedicated fallback nodes.
- A wired fallback node that is reached as an ordinary node and asks for an approval is reported as skipped when the run
  ends (`scheduler.go:477-482`, whose comment says such a node was never triggered). The proof of `StartedAtMostOnce` failed there first; it and `ResultMatchesRecord` excuse just this case (`SkippedAsUnneeded`).
- Verify does not notice that the end of a log was cut off (`verify.go:38-41`, REQ-EVENT-03), and one torn line makes
  the whole log unreadable, so that it can be neither resumed nor reconciled.
- Reconcile does not settle a *resumed* run that died: the execution is shown as its earlier run left it.
- Overlapping approve and reject requests can both be recorded (ADR 0016 has the second rejected); the same window as
  finding 3.
- An approval recorded just before a crash or an assembly error launches nothing, and repeating it answers 200 and
  launches nothing either; a resume does.
- A resume has no cache mode, a re-execution no inputs. A resume runs the workers that are on disk now, not those the
  execution began with.
- After a retry from a node, a later resume counts the nodes it threw away that have not finished since - not reached,
  failed or skipped - as finished, with the results of the attempt before (`resume.go:99`): the result mixes two
  attempts. `OfOnePiece` and `AuditAgrees` leave out just these nodes, so they do not forbid it.
- `registry/version.go:3-5` and `server.go:643` have a version immutable for ever. The registry compares only the files at
  hand, and a save can write over one: two overlapping saves mint the same version (`server.go:677`); one after a
  pre-release mints 1.0.0 (`server.go:804`), which may exist; two directories mint the same versions, and the cache is
  one for both. `OneDefinition` names these three excuses, and holds without them.
- The cache key holds neither the goal of a worker nor the order of its inputs (`cache/key.go:42`), so after any of the three a
  hit may be the other definition's.
- Clearing the cache through the API works on the server's copy, loaded once (`server.go:141`), while runs write through
  their own (`runner/config.go:100`): the clear of one execution may remove nothing, or save a copy that lacks or
  restores entries, where REQ-CTRL-03 (`docs/spec/control-plane.md:35`) has it as a control of its own.
- Overlapping launches can exceed the quota by one artifact each but one (`artifact_store.go:136`).
- Runs through the API are not validated: a cycle is found only as `incomplete_graph` when the run ends.
  `validate.Graph` accepts any ancestor in an `artifacts` policy, while `policy.Resolve` only sees direct parents.
- The audit shows nodes a halted run never reached as skipped (`audit.go:21`), and a started one without an end with no state
  at all; progress counts a node that runs again as completed.
- Where the field is missing, neither of two opposite orderings holds, and neither branch runs (`conditional.go:38`).
- A backup of a workspace in use copies the artifacts before the executions: what the log gained in between names artifacts the
  archive lacks. A forced restore merges with what is there.
- Importing a template again writes over the worker's plain file.
- A mutating tool whose call returned just before a crash is called again, under the same grant.

## 5. What is proved

**Scheduler_proofs**, for every set of workflows, pool and spends that satisfy `SchedulerAssumption`:

- `TypeCorrect`: `Spec => []TypeOK`. The inductive invariant `Typed` adds `ReportsHeldTask`: a worker that has a
  result to report holds the task it is about.
- `OneTaskEach`: `Spec => []OneTaskPerRunningNode`. `TypedOwned` is `Typed` with the ownership facts themselves:
  queued and held tasks belong to running nodes, no two to the same node, every running node has one, `inFlight`
  counts the busy workers. The conjuncts are inductive only together: that a node to be activated has no task yet, for
  one, follows from its being pending and from tasks belonging to running nodes. Lemmas follow the task through its
  life: activated, dispatched, released by a completion.
- `NothingUndone`: `Spec => Irrevocable`, from the same invariant: completions settle only nodes that run, and
  decisions only pending ones.
- `NodesJoin` and `RunsOnce`: `Spec => []Joins` and `Spec => []StartedAtMostOnce`. The invariant has two halves, kept
  together. `Decisive`: a pending counter is the number of parents that have not settled (`Counted`), a node in
  `toDecide` has none (`Due`), and nothing was done for a node still to be decided (`NotYet`); so a counter reaches
  zero once, and the decision reads parents that no longer change. `Careful`: starts are as many as tasks handed out,
  of which a fallback adds one (`Allowed`), finished and skipped nodes have none (`NeverBegun`), finished ones stay
  succeeded (`Reused`), and `Joins`. There is one lemma per kind of step; `SettleDecides` is what they share.

**Scheduler_record**, `ResultTrue`: `Spec => []ResultMatchesRecord`. The invariant `Truthful` says, from the start,
what the end must find: as many Cancelled events as the cause calls for, no ExecutionFinished yet, every held task
begun, and a node put back for every halt that waits for an approval. That such a node is not decided again rests on
`Decisive`.

**Scheduler_refines**, `StepsKeepPromise`: `Spec => Promise!Init /\ [][Promise!Next]_(Promise!runVars)`: every step of
the scheduler is a step of `WorkflowRun` or a stutter, for every workflow and pool. Besides `Decisive` and `Careful`
it needs how a run looks before its loop (`Opening`), that it has no result before it ends (`Unended`), that of the
fallback nodes only those with a parent are ever decided (`Wired`), and that every node whose parents have settled is
in the queue of decisions (`Reached`). The fairness half of `KeepsPromise` stays with TLC. `EveryNodeResolves`: `Spec
=> []ResolvesEveryNode`, if no workflow has a cycle. By `Reached` and `Decisive` each node that a run nothing halted
would leave pending has a parent that is pending too, and on a graph without cycles no set of nodes is like that.

**EventLog_proofs**, for any number of writers, launches, lines and faults:

- `TypeCorrect`: `Spec => []TypeOK`.
- `ChainHolds` and `ChangesFound`: `[]ChainIntact` and `[]ChangeDetected`, under `AtMostOneDecision` (a server process
  decides at most once per execution, which finding 2 shows cannot be dropped). `Turns` says who may hold an append
  when; `Heads` are the hashes that an append under way or the run's instance would chain to. `Sound` says that hashes
  are distinct and below the next (`Numbered`, `Distinct`), that neither a line nor a head reaches back past the line
  before it (`NoSkip`, `Current`), that readable lines are chained (`Linked`), and that on a readable file the heads
  are its own (`OnDisk`). A change breaks a link that no later append repairs, since appends leave the lines with
  successors alone.
- `AcksStay`: `Spec => []AckedKept`, with any number of decisions. Hashes ascend along the file and along the
  acknowledgements (`Ascends`, `AcksAscend`), so that the acknowledged lines of the file, in order, are the
  acknowledgements in order; a line that a later write may still join is not acknowledged (`OpenOwed`), and on a
  readable file every acknowledged hash is there (`AllThere`).

**ControlPlane_proofs**, for every number of clients, viewers, launches and crashes:

- `TypeCorrect`: `Spec => []TypeOK`; the invariant adds that a closing run has an outcome (`Concluded`), or FinishRun
  could record none, and that a request being decided carries a decision (`Addressed`).
- Under `OneAtATime` (requests do not overlap, which finding 3 shows cannot be dropped):
  - `HeldWhileInFlight`: `Spec => []HandleHeld`. It needs `NothingRegistered` (while a request is between its check
    and its launch the registry is empty) and `Begun` (without run parameters nothing has happened).
  - `ApprovalBeforeMutation`, `OneDecision`, `DecisionsStand`: `[]CallsAreGranted`, `[]DecidedOnce` and
    `DecisionStands`. They need, besides the handle, `Answered` (a decision follows a request), `StillPending` (a
    checkpoint read as pending still is when the decision is appended) and `UpToDate` (the approvals a working run
    read are those in the log). The last is why the handle matters: only a second run or an overlapping decision could
    make the copy stale.
- `NothingSilent`: `Spec => []NotSilentlyRunning`, requests that overlap included. `Driven`: while a server serves, an
  execution that has begun and not ended has a goroutine that is still to end it; `Unlaunched`: a launch takes a
  number nobody used. Reconcile gives `Driven` back after a crash.

**NodeExecution_proofs**, for any number of calls side by side, any outputs and any retry budgets: every safety
property the run checks. The invariant is `TypeOK` and, for each call, `Sound`, five facts that are inductive only
together: `Informed` (a call that met a violation carries feedback; which violation's text it is, is not represented), `Counted` (the tries in the record
are what the counters say), `Late` (after a cancellation what was tried is what was due), `Kept` (what it holds is in
the store, from the put on) and `Logged` (the events so far are those of the phase it is in). Calls disturb one
another only through the cache and the store, which only grow: each of the five has a lemma about the call that moves
(`InformedStep` and so on), and one lemma, `SoundForOthers`, is about all the others. `Budgets`, `FeedbackStays`,
`OneLateCall`, `FinishedStays`, `RecordTrue` and `TypeCorrect` follow.

**Workspace_proofs**, for any number of launches, directories, bodies, artifacts and operations. The invariant is in
three parts, of which each rests on the ones before (`UseInvariant`):

- `LibInv`, the library. Unless one of the three excuses applied, the highest version ever given to a body is still
  among the files of the directory that mints (`HighestStays`) and is no plain file an import may write over; a save
  under way is alone (`OneSave`) and above every version there was (`SaveIsNew`). So no version gets a second body:
  `OneDefinitionHolds`, `Spec => []OneDefinition`. The order of versions is made an order of numbers by `Place`, since
  the provers do not see that a lexicographic order is total.
- `CacheInv`, the cache: the index and every copy of it map a key only to an entry made under that key (`Keyed`), what
  a launch has put out or was served belongs to the key at hand (`Served`), and a copy that is not marked stale equals
  the index (`Fresh`). `CacheInvariant`; `SavesExact`: `Spec => SavesAreExact`, from `Fresh`; `HitsMatch`: `Spec =>
  []ServedRight`, the first half of `HitIsRight`, from `Keyed`: a stale copy loses or restores entries, but never
  under another key.
- `UseInv`: what is cached, launched and served is of definitions the library has seen. With `OneDefinition` it gives
  the other half: `HitsAreRight`, `Spec => []HitIsRight`; and `TypeCorrect`.

`QuotaHolds`: `Spec => []QuotaBounded`. The inductive fact is about the stored artifacts and those that passed their
check together: they stay within the quota and one artifact for each launch but one (`QuotaInv`), since the launch
that checks last counts all that is stored. A sum over a set is no induction here: `Total` is the cardinality of a set
of pairs (`Bytes`), and the library's facts about finite sets are enough.

**Resume_proofs**, for every set of submissions (any graph, any documents, any inputs), any number of slots, and any
number of crashes, resumes, retries, re-executions, backups and restores. The invariant `Core` is about the three
places where a node's state is kept:

- *The record* (`LogOK`). A node that recorded a WorkerFinished has a document; if no retry threw it away, then
  (`Sound`) its last end is that finish, its parents finished too, over edges that hold on what they last made, and
  what it was given, or its fallback was, is what they last made. The archive's record is sound with its own list of nodes thrown away,
  which is why a restore is harmless.
- *The run* (`RunInv`), rebuilt from the record or begun afresh. `Agree` ties the states and outputs to the record:
  succeeded nodes are finished and have the recorded document (`Succ`), failed ones last failed, and a finished node
  that was not thrown away is succeeded, with all its parents (`Kept`). `Kept` is what makes a second WorkerFinished
  impossible to mix: as long as it holds no parent of such a node runs again. A retry drops a node and everything
  after it (`DownstreamClosed`), without which `Kept` would fail. To show `Sound` of a node that finishes, it must
  have been chosen by every edge into it (`Chosen`) and given what its parents put out (`Fed`), and its artifact must
  be the one last recorded (`Tasks`). A fallback changes none of it: the node goes on running in its own name and on the
  inputs it had, and its failure is recorded like any other. `Queued`, `NotLost` and `DueOK` (no undecided node with
  settled parents is forgotten, unless it is `Unseeded`) are about the coordinator's queues, and `Cardinality(Busy(run)) <= Slots` about its pool.
- *The result* (`ResultInv`), which outlives the run while the log may gain an approval.

`CoreInvariant` (`Spec => []Core`) has a lemma per step. From it follow `ResultsOfOnePiece`, `AuditsAgree` and
`BranchesExclude`: `[]OfOnePiece`, `[]AuditAgrees`, `[]OneBranch`. The last adds that a node behind one edge is
skipped just when the edge does not hold (`BehindOne`) and that opposite comparisons of whole numbers disagree
(`Opposed`).

Beside `Core`, three smaller invariants:

- `Recoverable`: the artifacts the record names are stored, and those its first `mark` events name are in the archive;
  the inputs frozen in the snapshot suffice; an archive is never ahead of the log. A running execution only adds to
  both (`OnlyGrows`). `RecordsSuffice` (`[]RecordSuffices`) and, with `Kept` and `Queued`, `NotRepeated` (`Spec =>
  FinishedNotRepeated`): a new start in the record is a dispatch, a dispatched node runs, and a finished one does not.
- `Quitted`: unless the process died, what the record shows as running waits for an approval (`Accounted`) or has a
  task. A node is asked for once and replaced once because the run knows what it has read and done (`Remembered`): what
  it takes for asked was asked in the record of this very execution, and what it replaced has a recorded failure. For
  this the run of a re-execution must be begun from its own, empty record. `NoneRuns`: `[]NoneLeftRunning`.
- `Checked` and `Told`: a graph the command line let through has no cycle, and a result that says the scheduler could not
  decide it says so for one reason (`Strands`). When a run that nothing halted has nothing left to do, an undecided node
  has an undecided parent or is an unseeded fallback node (`NotLost`). Of the undecided nodes among a node and its
  ancestors a graph without a cycle has a first one (`SomeFirst`, by the number of ancestors), which then is the
  fallback node (`Stranded`). `FallbacksStrand`: `[]OnlyFallbacksStrand`. `TypeCorrect`: `[]TypeOK`.

Assumptions on constants, all evaluated by TLC on the runs' instances: `SchedulerAssumption`, `EventLogAssumption`,
`ControlPlaneAssumption`, `NodeExecutionAssumption` and `SlotsAssumption` give pools, bounds and budgets their types.
`SubmissionsAssumption`: a file has finitely many nodes, an executor returns documents, no document is "no artifact",
and the numbers a condition compares are whole (the code compares floating-point numbers; what the proof uses is that
their order is total, so a condition that is given YAML's `.nan` is left out). `ScenariosAssumption`: the first files
of a directory are ones a registry takes, and nothing is unpacked yet; `ImportsAssumption` and `OffersAssumption` are
types. `EveryNodeResolves` assumes that the workflows have no cycle (`Acyclic`; `NoCycles` says it of the run's), and
`Dedicated` is a hypothesis of the property itself. Some theorems rest on `AtMostOneDecision` or `OneAtATime`, which
findings 2 and 3 show to be needed.

What the proofs changed in the models. An archive remembers whether the record was already torn when it was taken
(`archive.torn`): without it a backup of a torn workspace restored as whole would have been said to suffice. A refused
re-execution leaves `history` alone, since the old execution is still there; the run of one that is not refused reads
its own record (`Begun`), not that of the execution it repeats. `RestrictValues` replaced folds over
lists of edges, and `AncestorsOf` the iteration of parents, by definitions without recursion; TLC checks the same
instances as before.

Only model-checked: liveness (`EveryRunReturns`, `EveryCallReturns`, `StreamFollows`, and the fairness half of
`KeepsPromise`), which is beyond the proof system. Inductions over data are avoided, not done: `AncestorsOf` is a
least closed set, a last event and a first node come from the well-foundedness of the natural numbers, and nothing is
claimed of what `FoldLeft` computes in `LookupPath` beyond its being some value.

## 6. What is not modelled

Requests to and responses from model providers, the tools' own effects, formats and serialization, diagnostics, cost tables, secret
scanning, the comparison of two audits, JSON Schema, routes that only read or format a file, the rest of the command line, the SDK and
the user interface: I/O and pure conversions of data that no property here is about. The store's `GarbageCollect` has no caller. How much
a run overspends its budget (`scheduler.go:441`) depends on prices; the model leaves a node's spend free. That an approval is
launched again after a crash (`controls.go:243`) nothing promises.
