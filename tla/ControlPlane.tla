---------------------------- MODULE ControlPlane ----------------------------
(***************************************************************************)
(* The control plane (core/server) as one execution sees it: the registry  *)
(* of runs in flight, the handlers that start, cancel, retry and decide,   *)
(* the reconciliation of a restarted server, and the live event stream.    *)
(* The registry and the log directory are keyed by execution id and ids    *)
(* are never reused, so executions are independent of each other; a        *)
(* re-execution is the start of another one.                               *)
(*                                                                         *)
(* A run is Scheduler's subject.  Here it is what the control plane and    *)
(* its clients can tell of it: the workflow has one mutating tool behind   *)
(* an approval checkpoint, anything else in it may fail, and the run       *)
(* records the events below.  An event is its type; ExecutionFinished is   *)
(* the state it carries.  Appends are taken to succeed: EventLog is about  *)
(* those that do not.                                                      *)
(***************************************************************************)
EXTENDS Naturals, Sequences, FiniteSets, SequencesExt

CONSTANTS Clients,     \* concurrent API clients, each with one request at a time
          Viewers,     \* WebSocket clients of the event stream
          MaxLaunches, \* bound: runs launched for the execution
          MaxCrashes   \* bound: crashes of the server

ASSUME ControlPlaneAssumption ==
  /\ IsFiniteSet(Clients) /\ IsFiniteSet(Viewers)
  /\ MaxLaunches \in Nat /\ MaxCrashes \in Nat

VARIABLES
  disk,     \* "nothing", "params" (runparams.json) or "snapshot" (and snapshot.json)
  log,      \* the execution's events
  boot,     \* "scan" and "settle" (inside Reconcile) or "serving"
  handle,   \* the run whose cancel function the registry holds, or NoRun
  run,      \* run[r]: the goroutine of the r-th launch
  launched, \* launches so far
  req,      \* req[c]: where c's request is
  stream,   \* stream[v]: the event stream v follows
  crashes   \* crashes so far

vars == <<disk, log, boot, handle, run, launched, req, stream, crashes>>

Finished == {"paused", "failed", "cancelled", "succeeded"}
Events   == {"Started", "Requested", "Granted", "Rejected", "Called", "Done",
             "Cancelled"} \cup Finished

RunIds == 1..MaxLaunches
NoRun  == 0

Run == [phase : {"unused", "launched", "rebuilt", "snapshot", "working", "calling",
                 "closing", "returned", "gone"},
        mode : {"fresh", "resume", "from", "none"},
        known : {"none", "pending", "granted", "rejected"},
        reuse : BOOLEAN, cancelled : BOOLEAN, outcome : Finished \cup {"none"}]

Blank(phase, mode) ==
  [phase |-> phase, mode |-> mode, known |-> "none", reuse |-> FALSE,
   cancelled |-> FALSE, outcome |-> "none"]

Requests == [op : {"none", "fresh", "resume", "from", "Granted", "Rejected"},
             at : {"idle", "checked", "read", "launch"}]
Idle     == [op |-> "none", at |-> "idle"]

Stream == [conn : {"off", "open", "closed"}, sent : Nat]
Off    == [conn |-> "off", sent |-> 0]

Init ==
  /\ disk = "nothing" /\ log = <<>>
  /\ boot = "serving"
  /\ handle = NoRun
  /\ run = [r \in RunIds |-> Blank("unused", "none")]
  /\ launched = 0
  /\ req = [c \in Clients |-> Idle]
  /\ stream = [v \in Viewers |-> Off]
  /\ crashes = 0

Emit(e) == log' = Append(log, e)

Recorded(e) == e \in ToSet(log)

\* What was last recorded about the checkpoint; a request makes it pending,
\* whatever was decided before.
About == {"Requested", "Granted", "Rejected"}

LastAbout(events, e) ==
  \E i \in DOMAIN events :
    events[i] = e /\ \A j \in i + 1..Len(events) : events[j] \notin About

StatusIn(events) ==
  IF \A i \in DOMAIN events : events[i] \notin About THEN "none"
  ELSE CASE LastAbout(events, "Requested") -> "pending"
         [] LastAbout(events, "Granted")   -> "granted"
         [] OTHER                          -> "rejected"

-----------------------------------------------------------------------------
(* The handlers. *)

Unchecked  == TRUE \* mutant: the registry is not asked
NotRunning == handle = NoRun

\* handleRun: the id is new, and its run parameters are stored.
PostRun(c) ==
  /\ boot = "serving" /\ req[c] = Idle /\ disk = "nothing"
  /\ disk' = "params"
  /\ req' = [req EXCEPT ![c] = [op |-> "fresh", at |-> "launch"]]
  /\ UNCHANGED <<log, boot, handle, run, launched, stream, crashes>>

\* handleRetry, with and without a node to start from.
PostRetry(c) ==
  /\ boot = "serving" /\ req[c] = Idle /\ disk # "nothing" /\ NotRunning
  /\ \E m \in {"resume", "from"} : req' = [req EXCEPT ![c] = [op |-> m, at |-> "launch"]]
  /\ UNCHANGED <<disk, log, boot, handle, run, launched, stream, crashes>>

PostDecision(c) ==
  /\ boot = "serving" /\ req[c] = Idle /\ log # <<>> /\ NotRunning
  /\ \E d \in {"Granted", "Rejected"} : req' = [req EXCEPT ![c] = [op |-> d, at |-> "checked"]]
  /\ UNCHANGED <<disk, log, boot, handle, run, launched, stream, crashes>>

AnyCheckpoint == StatusIn(log) # "none" \* mutant: a decided checkpoint is decided again
Undecided     == StatusIn(log) = "pending"

\* Unknown, stale or decided checkpoints are answered at once.
ReadCheckpoint(c) ==
  /\ req[c].at = "checked"
  /\ req' = [req EXCEPT ![c] = IF Undecided THEN [@ EXCEPT !.at = "read"] ELSE Idle]
  /\ UNCHANGED <<disk, log, boot, handle, run, launched, stream, crashes>>

AppendDecision(c) ==
  /\ req[c].at = "read"
  /\ Emit(req[c].op)
  /\ req' = [req EXCEPT ![c] = [op |-> "resume", at |-> "launch"]]
  /\ UNCHANGED <<disk, boot, handle, run, launched, stream, crashes>>

\* The run parameters or the workflow do not load: nothing is launched.
AssemblyFails(c) ==
  /\ req[c].at = "launch" /\ req[c].op # "fresh"
  /\ req' = [req EXCEPT ![c] = Idle]
  /\ UNCHANGED <<disk, log, boot, handle, run, launched, stream, crashes>>

\* launch: the registry's entry for the id is written whatever it held.
Launch(c) ==
  /\ req[c].at = "launch" /\ launched < MaxLaunches
  /\ launched' = launched + 1
  /\ run' = [run EXCEPT ![launched + 1] = Blank("launched", req[c].op)]
  /\ handle' = launched + 1
  /\ req' = [req EXCEPT ![c] = Idle]
  /\ UNCHANGED <<disk, log, boot, stream, crashes>>

\* handleCancel, one critical section of the registry.
PostCancel(c) ==
  /\ boot = "serving" /\ req[c] = Idle /\ handle # NoRun
  /\ run' = [run EXCEPT ![handle].cancelled = TRUE]
  /\ UNCHANGED <<disk, log, boot, handle, launched, req, stream, crashes>>

Handler(c) == ReadCheckpoint(c) \/ AppendDecision(c) \/ AssemblyFails(c) \/ Launch(c)

-----------------------------------------------------------------------------
(* A run's goroutine. *)

Step(r, from, to) ==
  /\ run[r].phase = from
  /\ run' = [run EXCEPT ![r].phase = to]
  /\ UNCHANGED <<boot, handle, launched, req, stream, crashes>>

\* reconstruct.  A retry from a node upstream of the tool drops its result.
Rebuild(r) ==
  /\ run[r].phase = "launched" /\ run[r].mode # "fresh"
  /\ disk = "snapshot" /\ log # <<>>
  /\ run' = [run EXCEPT ![r].phase = "rebuilt",
                        ![r].reuse = run[r].mode = "resume" /\ Recorded("Done")]
  /\ UNCHANGED <<disk, log, boot, handle, launched, req, stream, crashes>>

\* There is no snapshot or no log to resume, an artifact is not in the store,
\* or the node to retry from is not in the workflow: the run returns without
\* an event.
RefuseToRebuild(r) ==
  /\ run[r].mode # "fresh"
  /\ Step(r, "launched", "returned")
  /\ UNCHANGED <<disk, log>>

\* approvalRecords, read once for the whole run.
ReadApprovals(r) ==
  /\ run[r].phase = IF run[r].mode = "fresh" THEN "launched" ELSE "rebuilt"
  /\ run' = [run EXCEPT ![r].phase = IF run[r].mode = "fresh" THEN "snapshot" ELSE "working",
                        ![r].known = StatusIn(log)]
  /\ disk' = IF run[r].mode = "fresh" THEN "snapshot" ELSE disk
  /\ UNCHANGED <<log, boot, handle, launched, req, stream, crashes>>

\* A required input has no value, or the snapshot cannot be written: the run
\* returns before its first event.
RefuseToStart(r) ==
  /\ run[r].mode = "fresh"
  /\ Step(r, "launched", "returned")
  /\ UNCHANGED <<disk, log>>

StartFresh(r) == Step(r, "snapshot", "working") /\ Emit("Started") /\ UNCHANGED disk

Conclude(r, from, outcome) ==
  /\ run[r].phase = from
  /\ run' = [run EXCEPT ![r].phase = "closing",
                        ![r].outcome = IF @ = "none" THEN outcome ELSE @]
  /\ UNCHANGED <<disk, boot, handle, launched, req, stream, crashes>>

\* Some other node of the workflow fails the run.  A tool node in flight is
\* waited for: it may still ask or call, and what comes of it no longer counts.
NodeFails(r) ==
  /\ run[r].phase \in {"working", "calling"} /\ run[r].outcome = "none"
  /\ run' = [run EXCEPT ![r].outcome = "failed"]
  /\ UNCHANGED <<disk, log, boot, handle, launched, req, stream, crashes>>

\* It was not in flight, or returned before it came to its checkpoint.
Drain(r) ==
  run[r].outcome # "none" /\ Conclude(r, "working", run[r].outcome) /\ UNCHANGED log

Reuse(r) == run[r].reuse /\ Conclude(r, "working", "succeeded") /\ UNCHANGED log

AnyRecord(known) == known # "none"     \* mutant: a pending checkpoint lets the call through
MayCall(known)   == known = "granted"
AskAgain(known)  == known # "granted"  \* mutant: a rejected checkpoint is requested anew
MustAsk(known)   == known = "none"

\* checkApproval, and the tool behind it.
Ask(r) ==
  /\ ~run[r].reuse /\ MustAsk(run[r].known)
  /\ Conclude(r, "working", "paused")
  /\ Emit("Requested")

Held(r) ==
  /\ ~run[r].reuse /\ run[r].known \in {"pending", "rejected"}
  /\ ~MayCall(run[r].known) /\ ~MustAsk(run[r].known)
  /\ Conclude(r, "working", IF run[r].known = "pending" THEN "paused" ELSE "failed")
  /\ UNCHANGED log

CallTool(r) ==
  /\ ~run[r].reuse /\ MayCall(run[r].known)
  /\ Step(r, "working", "calling")
  /\ Emit("Called") /\ UNCHANGED disk

ToolReturns(r) ==
  \/ Conclude(r, "calling", "succeeded") /\ Emit("Done")
  \/ Conclude(r, "calling", "failed") /\ UNCHANGED log

ObserveCancel(r) ==
  /\ run[r].phase \in {"working", "calling"} /\ run[r].cancelled /\ run[r].outcome = "none"
  /\ run' = [run EXCEPT ![r].outcome = "cancelled"]
  /\ Emit("Cancelled")
  /\ UNCHANGED <<disk, boot, handle, launched, req, stream, crashes>>

FinishRun(r) == Step(r, "closing", "returned") /\ Emit(run[r].outcome) /\ UNCHANGED disk

\* The deferred done(id): the entry goes, whoever wrote it.
Leave(r) ==
  /\ run[r].phase = "returned"
  /\ run' = [run EXCEPT ![r] = Blank("gone", "none")]
  /\ handle' = NoRun
  /\ UNCHANGED <<disk, log, boot, launched, req, stream, crashes>>

RunStep(r) ==
  \/ Rebuild(r) \/ RefuseToRebuild(r) \/ ReadApprovals(r) \/ RefuseToStart(r) \/ StartFresh(r)
  \/ NodeFails(r) \/ Drain(r) \/ Reuse(r) \/ Ask(r) \/ Held(r) \/ CallTool(r) \/ ToolReturns(r)
  \/ ObserveCancel(r) \/ FinishRun(r) \/ Leave(r)

-----------------------------------------------------------------------------
(* The process. *)

\* The process dies and a new one starts, with nothing in memory.
Crash ==
  /\ crashes < MaxCrashes
  /\ crashes' = crashes + 1
  /\ boot' = "scan" /\ handle' = NoRun
  /\ run' = [r \in RunIds |-> IF run[r].phase = "unused" THEN run[r]
                              ELSE Blank("gone", "none")]
  /\ req' = [c \in Clients |-> Idle]
  /\ stream' = [v \in Viewers |-> IF stream[v].conn = "open" THEN Off ELSE stream[v]]
  /\ UNCHANGED <<disk, log, launched>>

EverFinished == ToSet(log) \cap Finished # {}
\* mutant: a Cancelled event counts as terminal
EverClosed  == ~Recorded("Started") \/ EverFinished \/ Recorded("Cancelled")
NoNeed      == ~Recorded("Started") \/ EverFinished

Interrupted == "interrupted" \* mutant: the reason is recorded as the state
SettledAs   == "cancelled"

\* Reconcile, before the first request is served; its two appends.
Scan ==
  /\ boot = "scan"
  /\ boot' = IF NoNeed THEN "serving" ELSE "settle"
  /\ IF NoNeed THEN UNCHANGED log ELSE Emit("Cancelled")
  /\ UNCHANGED <<disk, handle, run, launched, req, stream, crashes>>

Settle ==
  /\ boot = "settle"
  /\ boot' = "serving"
  /\ Emit(SettledAs)
  /\ UNCHANGED <<disk, handle, run, launched, req, stream, crashes>>

-----------------------------------------------------------------------------
(* The event stream. *)

Connect(v) ==
  /\ boot = "serving" /\ stream[v].conn = "off" /\ disk # "nothing"
  /\ stream' = [stream EXCEPT ![v].conn = "open"]
  /\ UNCHANGED <<disk, log, boot, handle, run, launched, req, crashes>>

\* mutant: only live runs are tailed
Tailing(v) == stream[v].sent < Len(log) /\ handle # NoRun
Behind(v)  == stream[v].sent < Len(log)

\* Ticks read the log in batches; a batch is a stream that sends later.
Send(v) ==
  /\ stream[v].conn = "open" /\ Behind(v)
  /\ LET n == stream[v].sent + 1
     IN stream' = [stream EXCEPT ![v].sent = n,
                     ![v].conn = IF log[n] \in Finished /\ NotRunning THEN "closed" ELSE @]
  /\ UNCHANGED <<disk, log, boot, handle, run, launched, req, crashes>>

Next ==
  \/ \E c \in Clients : \/ PostRun(c) \/ PostRetry(c) \/ PostDecision(c) \/ PostCancel(c)
                        \/ Handler(c)
  \/ \E r \in RunIds : RunStep(r)
  \/ Crash \/ Scan \/ Settle
  \/ \E v \in Viewers : Connect(v) \/ Send(v)

\* Goroutines and handlers that can go on do; clients need not ask and the
\* process need not crash.
Fairness ==
  /\ \A c \in Clients : WF_vars(Handler(c))
  /\ \A r \in RunIds : WF_vars(RunStep(r))
  /\ WF_vars(Scan \/ Settle)
  /\ \A v \in Viewers : WF_vars(Send(v))

Spec == Init /\ [][Next]_vars /\ Fairness

-----------------------------------------------------------------------------
(* Properties. *)

InFlight(r) == run[r].phase \notin {"unused", "gone"}

\* Every variable keeps its type.
TypeOK ==
  /\ disk \in {"nothing", "params", "snapshot"}
  /\ log \in Seq(Events)
  /\ boot \in {"scan", "settle", "serving"}
  /\ handle \in RunIds \cup {NoRun}
  /\ run \in [RunIds -> Run]
  /\ launched \in 0..MaxLaunches
  /\ req \in [Clients -> Requests]
  /\ stream \in [Viewers -> Stream]
  /\ crashes \in 0..MaxCrashes

\* REQ-CTRL-02: the service holds a cancel handle for every run in flight;
\* hence there is at most one run of an execution at a time.
HandleHeld == \A r \in RunIds : InFlight(r) => handle = r

\* REQ-RUNTIME-07 and ADR 0016: a checkpoint is decided once, whatever is
\* asked again, concurrently with runs and across restarts.
DecidedOnce ==
  \A i, j \in DOMAIN log : {log[i], log[j]} \subseteq {"Granted", "Rejected"} => i = j

\* ... and the decision stands: nothing a later run records makes it pending
\* again or reverses it.
DecisionStands ==
  [][ StatusIn(log) \in {"granted", "rejected"} => StatusIn(log') = StatusIn(log) ]_vars

\* REQ-RUNTIME-07: the mutating tool is called only after a recorded grant of
\* a recorded request, and never after a rejection.
CallsAreGranted ==
  \A i \in DOMAIN log : log[i] = "Called" =>
    /\ \E j, k \in 1..(i - 1) : j < k /\ log[j] = "Requested" /\ log[k] = "Granted"
    /\ \A j \in 1..(i - 1) : log[j] # "Rejected"

\* summarize: whether a list of executions shows s, the state of the last end.
Summary(s) ==
  \/ s = "running" /\ ~EverFinished
  \/ s \in Finished /\ \E i \in DOMAIN log :
       log[i] = s /\ \A j \in i + 1..Len(log) : log[j] \notin Finished

\* REQ-CTRL-02: a server that takes requests never shows an execution as
\* running that no goroutine of it drives, wherever the one before it died,
\* inside its own reconciliation included.
NotSilentlyRunning ==
  boot = "serving" /\ Recorded("Started") /\ (\A r \in RunIds : ~InFlight(r))
    => ~Summary("running")

\* A stream that stays open sends every event that is recorded, those after
\* an ExecutionFinished and those of the server itself included.
StreamFollows ==
  \A v \in Viewers : []<>(stream[v].conn = "open" => stream[v].sent = Len(log))

\* server.go, handleEvents: "replaying everything recorded so far and then
\* tailing live until the terminal ExecutionFinished event": the event a
\* stream closes on is the last ExecutionFinished there is.
ClosedOnTheLast ==
  [][ \A v \in Viewers :
        stream[v].conn = "open" /\ stream'[v].conn = "closed"
          => \A n \in stream'[v].sent + 1..Len(log) : log[n] \notin Finished ]_vars

\* "... at which point the connection is closed": the stream of an execution
\* that has finished and that nobody runs again is closed in the end.
Over == boot = "serving" /\ EverFinished /\ \A r \in RunIds : ~InFlight(r)
StreamCloses == \A v \in Viewers : []<>(Over => stream[v].conn # "open")

=============================================================================
