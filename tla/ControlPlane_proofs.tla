------------------------- MODULE ControlPlane_proofs -------------------------
(***************************************************************************)
(* What holds of the control plane however many runs are launched and      *)
(* however often the server dies: its types; that nothing is shown as      *)
(* running that nobody runs; and, as long as one request is handled at a   *)
(* time, a cancel handle for every run in flight and approvals that hold.  *)
(***************************************************************************)
EXTENDS ControlPlane, SequenceTheorems, TLAPS

\* A run about to finish has something to report.
Concluded == \A r \in RunIds : run[r].phase = "closing" => run[r].outcome # "none"

\* A request that is being decided carries a decision, one that is about to
\* launch a way to run.
Addressed ==
  \A c \in Clients :
    /\ req[c].at \in {"checked", "read"} => req[c].op \in {"Granted", "Rejected"}
    /\ req[c].at = "launch" => req[c].op \in {"fresh", "resume", "from"}

Typed == TypeOK /\ Concluded /\ Addressed

-----------------------------------------------------------------------------
(* Type correctness. *)

\* The checkpoint's status is one of four, whatever the log holds.
LEMMA StatusType ==
  ASSUME NEW events
  PROVE  StatusIn(events) \in {"none", "pending", "granted", "rejected"}
BY DEF StatusIn

\* A recorded event keeps the log a sequence of events.
LEMMA EmitType ==
  ASSUME log \in Seq(Events), NEW e \in Events, Emit(e)
  PROVE  log' \in Seq(Events)
BY DEF Emit

\* A fresh record of a run has the type of one.
LEMMA BlankType ==
  ASSUME NEW phase \in {"unused", "launched", "gone"},
         NEW mode \in {"fresh", "resume", "from", "none"}
  PROVE  Blank(phase, mode) \in Run /\ Blank(phase, mode).phase = phase
BY DEF Blank, Run

\* Nothing has happened at first.
LEMMA TypedInit == Init => Typed
<1> SUFFICES ASSUME Init PROVE Typed
  OBVIOUS
<1> USE ControlPlaneAssumption
<1>1. run \in [RunIds -> Run] /\ \A r \in RunIds : run[r].phase = "unused"
  BY BlankType DEF Init
<1>2. log \in Seq(Events)
  BY DEF Init
<1>3. req \in [Clients -> Requests] /\ stream \in [Viewers -> Stream]
  BY DEF Init, Requests, Idle, Stream, Off
<1> QED
  BY <1>1, <1>2, <1>3
     DEF Init, Typed, TypeOK, Concluded, Addressed, NoRun, RunIds, Idle

\* The handlers of one client keep the types.
LEMMA TypedHandlers ==
  ASSUME Typed, NEW c \in Clients,
         PostRun(c) \/ PostRetry(c) \/ PostDecision(c) \/ PostCancel(c) \/ Handler(c)
  PROVE  Typed'
<1> USE ControlPlaneAssumption
<1> USE DEF Typed, TypeOK, Concluded, Addressed
<1>1. CASE PostRun(c)
  BY <1>1 DEF PostRun, Requests, Idle
<1>2. CASE PostRetry(c)
  BY <1>2 DEF PostRetry, Requests, Idle
<1>3. CASE PostDecision(c)
  BY <1>3 DEF PostDecision, Requests, Idle
<1>4. CASE PostCancel(c)
  <2>1. handle \in RunIds
    BY <1>4 DEF PostCancel
  <2>2. run' \in [RunIds -> Run]
    <3> DEFINE new == [run[handle] EXCEPT !.cancelled = TRUE]
    <3>1. new \in Run
      BY ZenonT(30), <2>1 DEF Run
    <3>2. run' = [run EXCEPT ![handle] = new]
      BY <1>4 DEF PostCancel
    <3> HIDE DEF new
    <3> QED
      BY <2>1, <3>1, <3>2
  <2>3. \A r \in RunIds : run'[r].phase = run[r].phase /\ run'[r].outcome = run[r].outcome
    BY <1>4, <2>1 DEF PostCancel, Run
  <2> QED
    BY <1>4, <2>2, <2>3 DEF PostCancel
<1>5. CASE ReadCheckpoint(c)
  BY <1>5 DEF ReadCheckpoint, Requests, Idle
<1>6. CASE AppendDecision(c)
  <2>1. log' \in Seq(Events)
    BY <1>6, EmitType DEF AppendDecision, Events
  <2> QED
    BY <1>6, <2>1 DEF AppendDecision, Requests, Idle
<1>7. CASE AssemblyFails(c)
  BY <1>7 DEF AssemblyFails, Requests, Idle
<1>8. CASE Launch(c)
  <2>1. launched + 1 \in RunIds /\ launched' \in 0..MaxLaunches
    BY <1>8 DEF Launch, RunIds
  <2>2. Blank("launched", req[c].op) \in Run /\ Blank("launched", req[c].op).phase = "launched"
    BY <1>8, BlankType DEF Launch
  <2>3. run' \in [RunIds -> Run] /\ Concluded'
    BY <1>8, <2>1, <2>2 DEF Launch
  <2>4. req' \in [Clients -> Requests] /\ Addressed'
    BY <1>8 DEF Launch, Requests, Idle
  <2> QED
    BY <1>8, <2>1, <2>3, <2>4 DEF Launch
<1> QED
  BY <1>1, <1>2, <1>3, <1>4, <1>5, <1>6, <1>7, <1>8 DEF Handler

\* A run that concludes has something to report.
LEMMA ConcludeTypes ==
  ASSUME Typed, NEW r \in RunIds, NEW from, NEW outcome \in Finished,
         Conclude(r, from, outcome), log' \in Seq(Events)
  PROVE  Typed'
<1> USE DEF Typed, TypeOK
<1> DEFINE ends == IF run[r].outcome = "none" THEN outcome ELSE run[r].outcome
<1> DEFINE new  == [run[r] EXCEPT !.phase = "closing", !.outcome = ends]
<1>1. run' = [run EXCEPT ![r] = new]
  BY DEF Conclude, Run
<1>2. ends \in Finished
  BY DEF Run
<1>3. ends # "none"
  BY <1>2 DEF Finished
<1>4. new \in Run /\ new.outcome # "none"
  BY <1>2, <1>3 DEF Run
<1> HIDE DEF new
<1>5. run' \in [RunIds -> Run] /\ Concluded'
  BY <1>1, <1>4 DEF Concluded
<1> QED
  BY <1>5 DEF Conclude, Addressed

\* A step of a run's goroutine keeps the types.
LEMMA TypedRunStep ==
  ASSUME Typed, NEW r \in RunIds, RunStep(r)
  PROVE  Typed'
<1> USE ControlPlaneAssumption
<1> USE DEF Typed, TypeOK, Concluded, Addressed
<1>1. CASE Rebuild(r)
  <2> DEFINE again == run[r].mode = "resume" /\ Recorded("Done")
             new   == [run[r] EXCEPT !.phase = "rebuilt", !.reuse = again]
  <2>1. new \in Run /\ new.phase = "rebuilt"
    <3>1. run[r] \in Run /\ again \in BOOLEAN
      OBVIOUS
    <3> HIDE DEF again
    <3> QED
      BY <3>1 DEF Run
  <2>2. run' = [run EXCEPT ![r] = new]
    BY <1>1 DEF Rebuild, Run
  <2> HIDE DEF new
  <2>3. run' \in [RunIds -> Run] /\ Concluded'
    BY <2>1, <2>2
  <2> QED
    BY <1>1, <2>3 DEF Rebuild
<1>2. CASE ReadApprovals(r)
  <2> DEFINE to  == IF run[r].mode = "fresh" THEN "snapshot" ELSE "working"
             new == [run[r] EXCEPT !.phase = to, !.known = StatusIn(log)]
  <2>1. run' = [run EXCEPT ![r] = new]
    BY <1>2 DEF ReadApprovals, Run
  <2>2. new \in Run /\ new.phase = to
    <3>1. run[r] \in Run /\ to \in {"snapshot", "working"}
      OBVIOUS
    <3>2. StatusIn(log) \in {"none", "pending", "granted", "rejected"}
      BY StatusType
    <3> HIDE DEF to
    <3> QED
      BY <3>1, <3>2 DEF Run
  <2> HIDE DEF new
  <2>3. run' \in [RunIds -> Run] /\ Concluded'
    BY <2>1, <2>2
  <2> QED
    BY <1>2, <2>3 DEF ReadApprovals
<1>3. CASE StartFresh(r)
  <2>1. log' \in Seq(Events)
    BY <1>3, EmitType DEF StartFresh, Events
  <2> QED
    BY ZenonT(30), <1>3, <2>1 DEF StartFresh, Step, Run
<1>13. CASE RefuseToStart(r)
  BY <1>13 DEF RefuseToStart, Step, Run
<1>14. CASE RefuseToRebuild(r)
  BY <1>14 DEF RefuseToRebuild, Step, Run
<1>4. CASE NodeFails(r)
  <2> DEFINE new == [run[r] EXCEPT !.outcome = "failed"]
  <2>1. run' = [run EXCEPT ![r] = new]
    BY <1>4 DEF NodeFails, Run
  <2>2. new \in Run /\ new.outcome = "failed"
    <3>1. run[r] \in Run /\ "failed" \in Finished
      BY DEF Finished
    <3> QED
      BY <3>1 DEF Run
  <2> HIDE DEF new
  <2>3. run' \in [RunIds -> Run] /\ Concluded'
    BY <2>1, <2>2
  <2> QED
    BY <1>4, <2>3 DEF NodeFails
<1>5. CASE Reuse(r)
  BY <1>5, ConcludeTypes DEF Reuse, Finished
<1>6. CASE Ask(r)
  <2>1. log' \in Seq(Events)
    BY <1>6, EmitType DEF Ask, Events
  <2> QED
    BY <1>6, <2>1, ConcludeTypes DEF Ask, Finished
<1>7. CASE Held(r)
  BY <1>7, ConcludeTypes DEF Held, Finished
<1>8. CASE CallTool(r)
  <2>1. log' \in Seq(Events)
    BY <1>8, EmitType DEF CallTool, Events
  <2> QED
    BY ZenonT(30), <1>8, <2>1 DEF CallTool, Step, Run
<1>9. CASE ToolReturns(r)
  <2>1. log' \in Seq(Events)
    BY <1>9, EmitType DEF ToolReturns, Events
  <2> QED
    BY <1>9, <2>1, ConcludeTypes DEF ToolReturns, Finished
<1>10. CASE ObserveCancel(r)
  <2>1. log' \in Seq(Events)
    BY <1>10, EmitType DEF ObserveCancel, Events
  <2> DEFINE new == [run[r] EXCEPT !.outcome = "cancelled"]
  <2>2. run' = [run EXCEPT ![r] = new]
    BY <1>10 DEF ObserveCancel, Run
  <2>3. new \in Run /\ new.outcome = "cancelled"
    <3>1. run[r] \in Run /\ "cancelled" \in Finished
      BY DEF Finished
    <3> QED
      BY <3>1 DEF Run
  <2> HIDE DEF new
  <2>4. run' \in [RunIds -> Run] /\ Concluded'
    BY <2>2, <2>3
  <2> QED
    BY <1>10, <2>1, <2>3, <2>4 DEF ObserveCancel
<1>11. CASE FinishRun(r)
  <2>1. run[r].outcome \in Finished
    BY <1>11 DEF FinishRun, Step, Run
  <2>2. log' \in Seq(Events)
    BY <1>11, <2>1, EmitType DEF FinishRun, Events
  <2> QED
    BY ZenonT(30), <1>11, <2>2 DEF FinishRun, Step, Run
<1>12. CASE Leave(r)
  BY <1>12, BlankType DEF Leave, NoRun
<1>15. CASE Drain(r)
  <2>1. run[r].outcome \in Finished
    BY <1>15 DEF Drain, Run
  <2> QED
    BY <1>15, <2>1, ConcludeTypes DEF Drain
<1> QED
  BY <1>1, <1>2, <1>3, <1>4, <1>5, <1>6, <1>7, <1>8, <1>9, <1>10, <1>11, <1>12, <1>13,
     <1>14, <1>15 DEF RunStep

\* Crashes, reconciliation and streams keep the types.
LEMMA TypedProcess ==
  ASSUME Typed,
         Crash \/ Scan \/ Settle \/ \E v \in Viewers : Connect(v) \/ Send(v)
  PROVE  Typed'
<1> USE ControlPlaneAssumption
<1> USE DEF Typed, TypeOK, Concluded, Addressed
<1>1. CASE Crash
  <2>1. run' \in [RunIds -> Run] /\ Concluded'
    BY <1>1, BlankType DEF Crash
  <2>2. req' \in [Clients -> Requests] /\ Addressed'
    BY <1>1 DEF Crash, Requests, Idle
  <2>3. stream' \in [Viewers -> Stream]
    BY <1>1 DEF Crash, Stream, Off
  <2> QED
    BY <1>1, <2>1, <2>2, <2>3 DEF Crash, NoRun
<1>2. CASE Scan
  <2>1. log' \in Seq(Events)
    BY <1>2, EmitType DEF Scan, Events
  <2> QED
    BY <1>2, <2>1 DEF Scan
<1>3. CASE Settle
  <2>1. log' \in Seq(Events)
    BY <1>3, EmitType DEF Settle, SettledAs, Events, Finished
  <2> QED
    BY <1>3, <2>1 DEF Settle
<1>4. ASSUME NEW v \in Viewers, Connect(v) PROVE Typed'
  BY <1>4 DEF Connect, Stream
<1>5. ASSUME NEW v \in Viewers, Send(v) PROVE Typed'
  BY <1>5 DEF Send, Stream
<1> QED
  BY <1>1, <1>2, <1>3, <1>4, <1>5

\* Every step keeps the types.
LEMMA TypedStep == Typed /\ [Next]_vars => Typed'
<1>1. Typed /\ UNCHANGED vars => Typed'
  BY DEF Typed, TypeOK, Concluded, Addressed, vars
<1> QED
  BY <1>1, TypedHandlers, TypedRunStep, TypedProcess DEF Next

\* Type correctness of the control plane, for every number of clients,
\* viewers, launches and crashes.
THEOREM TypeCorrect == Spec => []TypeOK
<1>1. Typed => TypeOK
  BY DEF Typed
<1> QED
  BY <1>1, TypedInit, TypedStep, PTL DEF Spec

-----------------------------------------------------------------------------
(* A handle for every run. *)

\* One request is handled at a time.
OneAtATime == \A c, d \in Clients : c = d

\* While a request is between its check and its launch nothing is registered.
NothingRegistered == \A c \in Clients : req[c] # Idle => handle = NoRun

\* Whatever concerns the execution came after its run parameters.
Begun ==
  disk = "nothing" =>
    /\ log = <<>> /\ handle = NoRun /\ boot # "settle"
    /\ \A c \in Clients : req[c] = Idle
    /\ \A r \in RunIds : ~InFlight(r)

HeldInv == Typed /\ HandleHeld /\ NothingRegistered /\ Begun

\* At first there is no run and no request.
LEMMA HeldInit == Init => HeldInv
<1> SUFFICES ASSUME Init PROVE HeldInv
  OBVIOUS
<1>1. \A r \in RunIds : run[r].phase = "unused"
  BY DEF Init, Blank
<1> QED
  BY <1>1, TypedInit DEF Init, HeldInv, HandleHeld, NothingRegistered, Begun, InFlight

\* A handler that saw nothing registered launches into an empty registry.
LEMMA HeldHandlers ==
  ASSUME OneAtATime, HeldInv, NEW c \in Clients,
         PostRun(c) \/ PostRetry(c) \/ PostDecision(c) \/ PostCancel(c) \/ Handler(c)
  PROVE  HandleHeld' /\ NothingRegistered' /\ Begun'
<1> USE DEF HeldInv, Typed, TypeOK, HandleHeld, NothingRegistered, Begun, InFlight, OneAtATime
<1>1. CASE PostRun(c)
  BY <1>1 DEF PostRun, Idle, Requests
<1>2. CASE PostRetry(c)
  BY <1>2 DEF PostRetry, NotRunning, Idle, Requests
<1>3. CASE PostDecision(c)
  BY <1>3 DEF PostDecision, NotRunning, Idle, Requests
<1>4. CASE PostCancel(c)
  <2>1. handle \in RunIds
    BY <1>4 DEF PostCancel
  <2>2. \A r \in RunIds : run'[r].phase = run[r].phase
    BY <1>4, <2>1 DEF PostCancel, Run
  <2> QED
    BY <1>4, <2>2 DEF PostCancel
<1>5. CASE Handler(c)
  <2>1. req[c] # Idle
    BY <1>5 DEF Handler, ReadCheckpoint, AppendDecision, AssemblyFails, Launch, Idle
  <2>2. handle = NoRun /\ disk # "nothing"
    BY <2>1
  <2>3. CASE ReadCheckpoint(c) \/ AppendDecision(c) \/ AssemblyFails(c)
    BY <2>2, <2>3 DEF ReadCheckpoint, AppendDecision, AssemblyFails
  <2>4. CASE Launch(c)
    <3>1. launched + 1 \in RunIds /\ launched + 1 # NoRun
      BY <2>4, ControlPlaneAssumption DEF Launch, RunIds, NoRun
    <3>2. \A r \in RunIds : ~InFlight(r)
      BY <2>2, ControlPlaneAssumption DEF NoRun, RunIds
    <3>3. HandleHeld'
      BY <2>4, <3>1, <3>2 DEF Launch
    <3>4. \A d \in Clients : req'[d] = Idle
      BY <2>4 DEF Launch
    <3> QED
      BY <2>2, <2>4, <3>3, <3>4 DEF Launch
  <2> QED
    BY <1>5, <2>3, <2>4 DEF Handler
<1> QED
  BY <1>1, <1>2, <1>3, <1>4, <1>5

\* What a step of a run's goroutine finds, and what it leaves alone.
LEMMA RunStepFrame ==
  ASSUME TypeOK, NEW r \in RunIds, RunStep(r)
  PROVE  /\ InFlight(r) /\ req' = req /\ disk' \in {disk, "snapshot"}
         /\ \A s \in RunIds : s # r => run'[s] = run[s]
         /\ handle' = handle \/ (handle' = NoRun /\ ~InFlight(r)')
<1> USE DEF TypeOK
<1>1. CASE Rebuild(r) \/ ReadApprovals(r) \/ NodeFails(r) \/ ObserveCancel(r)
  BY <1>1 DEF Rebuild, ReadApprovals, NodeFails, ObserveCancel, InFlight
<1>2. CASE RefuseToRebuild(r) \/ RefuseToStart(r) \/ StartFresh(r) \/ CallTool(r) \/ FinishRun(r)
  BY <1>2 DEF RefuseToRebuild, RefuseToStart, StartFresh, CallTool, FinishRun, Step, InFlight
<1>3. CASE Drain(r) \/ Reuse(r) \/ Ask(r) \/ Held(r) \/ ToolReturns(r)
  BY <1>3 DEF Drain, Reuse, Ask, Held, ToolReturns, Conclude, InFlight
<1>4. CASE Leave(r)
  BY <1>4 DEF Leave, Blank, InFlight
<1> QED
  BY <1>1, <1>2, <1>3, <1>4 DEF RunStep

\* A run in flight stays the registered one until it leaves, and is the only
\* one to leave.
LEMMA HeldRunStep ==
  ASSUME HeldInv, NEW r \in RunIds, RunStep(r)
  PROVE  HandleHeld' /\ NothingRegistered' /\ Begun'
<1> USE DEF HeldInv, Typed
<1>1. InFlight(r) /\ handle = r /\ disk # "nothing"
  BY RunStepFrame DEF HandleHeld, Begun
<1>2. \A s \in RunIds : s # r => ~InFlight(s)
  BY <1>1 DEF HandleHeld
<1>3. HandleHeld'
  BY <1>1, <1>2, RunStepFrame DEF HandleHeld, InFlight
<1>4. NothingRegistered'
  <2>1. \A c \in Clients : req[c] = Idle
    BY <1>1, ControlPlaneAssumption DEF NothingRegistered, RunIds, NoRun
  <2> QED
    BY <2>1, RunStepFrame DEF NothingRegistered
<1>5. disk' # "nothing"
  BY <1>1, RunStepFrame
<1> QED
  BY <1>3, <1>4, <1>5 DEF Begun

\* A crash takes every run and every request with it; the rest touches
\* neither.
LEMMA HeldProcess ==
  ASSUME HeldInv,
         Crash \/ Scan \/ Settle \/ \E v \in Viewers : Connect(v) \/ Send(v)
  PROVE  HandleHeld' /\ NothingRegistered' /\ Begun'
<1> USE DEF HeldInv, Typed, TypeOK, HandleHeld, NothingRegistered, Begun, InFlight
<1>1. CASE Crash
  <2>1. \A r \in RunIds : run'[r].phase \in {"unused", "gone"}
    BY <1>1 DEF Crash, Blank
  <2> QED
    BY <1>1, <2>1 DEF Crash
<1>2. CASE Scan
  <2>1. log = <<>> => NoNeed
    BY DEF NoNeed, Recorded, ToSet
  <2> QED
    BY <1>2, <2>1 DEF Scan
<1>3. CASE Settle
  BY <1>3 DEF Settle
<1>4. ASSUME NEW v \in Viewers, Connect(v) \/ Send(v)
      PROVE  HandleHeld' /\ NothingRegistered' /\ Begun'
  BY <1>4 DEF Connect, Send
<1> QED
  BY <1>1, <1>2, <1>3, <1>4

\* Every step keeps a handle for every run in flight.
LEMMA HeldStep == ASSUME OneAtATime, HeldInv, [Next]_vars PROVE HeldInv'
<1>1. Typed'
  BY TypedStep DEF HeldInv
<1>2. CASE UNCHANGED vars
  BY <1>1, <1>2 DEF HeldInv, HandleHeld, NothingRegistered, Begun, InFlight, vars
<1>3. CASE Next
  BY <1>1, <1>3, HeldHandlers, HeldRunStep, HeldProcess DEF HeldInv, Next
<1> QED
  BY <1>2, <1>3

\* REQ-CTRL-02 for requests that do not overlap: a cancel handle for every
\* run in flight, and hence one run of an execution at a time.
THEOREM HeldWhileInFlight == ASSUME OneAtATime PROVE Spec => []HandleHeld
<1>1. HeldInv /\ [Next]_vars => HeldInv'
  BY HeldStep
<1>2. HeldInv => HandleHeld
  BY DEF HeldInv
<1> QED
  BY <1>1, <1>2, HeldInit, PTL DEF Spec

-----------------------------------------------------------------------------
(* Approval before mutation. *)

Decisions == {"Granted", "Rejected"}

\* A decision answers a request and is not followed by another request.
Answered ==
  \A i \in DOMAIN log : log[i] \in Decisions =>
    /\ \E j \in 1..(i - 1) : log[j] = "Requested"
    /\ \A j \in i + 1..Len(log) : log[j] # "Requested"

\* What was read about the checkpoint is still so when it is acted on.
StillPending == \A c \in Clients : req[c].at = "read" => StatusIn(log) = "pending"
UpToDate ==
  \A r \in RunIds : run[r].phase \in {"snapshot", "working"} => run[r].known = StatusIn(log)

Recording == DecidedOnce /\ Answered /\ CallsAreGranted
CheckInv  == HeldInv /\ Recording /\ StillPending /\ UpToDate

\* The checkpoint's status is what the events about it say.
LEMMA StatusMeans ==
  ASSUME NEW s
  PROVE  /\ StatusIn(s) = "none" => \A i \in DOMAIN s : s[i] \notin About
         /\ StatusIn(s) = "pending" => LastAbout(s, "Requested")
         /\ StatusIn(s) = "granted" => LastAbout(s, "Granted")
BY DEF StatusIn

\* An event that is not about the checkpoint leaves its status alone.
LEMMA StatusKept ==
  ASSUME NEW s \in Seq(Events), NEW e \in Events \ About
  PROVE  StatusIn(Append(s, e)) = StatusIn(s)
<1> DEFINE t == Append(s, e)
<1>1. Len(t) = Len(s) + 1 /\ t[Len(t)] = e /\ \A i \in DOMAIN s : t[i] = s[i]
  OBVIOUS
<1>2. DOMAIN t = 1..Len(s) + 1 /\ DOMAIN s = 1..Len(s) /\ Len(s) \in Nat
  OBVIOUS
<1> HIDE DEF t
<1>3. (\A i \in DOMAIN t : t[i] \notin About) <=> (\A i \in DOMAIN s : s[i] \notin About)
  BY <1>1, <1>2
<1>4. ASSUME NEW x \in About PROVE LastAbout(t, x) <=> LastAbout(s, x)
  <2>1. ASSUME NEW i \in DOMAIN t, t[i] = x, \A j \in i + 1..Len(t) : t[j] \notin About
        PROVE  LastAbout(s, x)
    <3>1. i \in DOMAIN s
      BY <1>1, <1>2, <2>1
    <3> QED
      BY <1>1, <1>2, <2>1, <3>1 DEF LastAbout
  <2>2. ASSUME NEW i \in DOMAIN s, s[i] = x, \A j \in i + 1..Len(s) : s[j] \notin About
        PROVE  LastAbout(t, x)
    <3>1. i \in DOMAIN t /\ t[i] = x
      BY <1>1, <1>2, <2>2
    <3>2. \A j \in i + 1..Len(t) : t[j] \notin About
      BY <1>1, <1>2, <2>2
    <3> QED
      BY <3>1, <3>2 DEF LastAbout
  <2> QED
    BY <2>1, <2>2 DEF LastAbout
<1>5. "Requested" \in About /\ "Granted" \in About
  BY DEF About
<1>6. StatusIn(t) = StatusIn(s)
  BY <1>3, <1>4, <1>5 DEF StatusIn
<1> QED
  BY <1>6 DEF t

\* Recording something that is neither about the checkpoint nor a call keeps
\* what the log promises.
LEMMA QuietEvent ==
  ASSUME Recording, log \in Seq(Events), NEW e \in Events \ (About \cup {"Called"}), Emit(e)
  PROVE  Recording' /\ StatusIn(log') = StatusIn(log)
<1>1. /\ Len(log') = Len(log) + 1 /\ DOMAIN log' = 1..Len(log) + 1
      /\ DOMAIN log = 1..Len(log) /\ Len(log) \in Nat
      /\ log'[Len(log) + 1] = e /\ \A i \in DOMAIN log : log'[i] = log[i]
  BY DEF Emit
<1>2. e \notin Decisions /\ e \notin {"Requested", "Called"}
  BY DEF Decisions, About
<1>3. DecidedOnce'
  BY <1>1, <1>2 DEF Recording, DecidedOnce, Decisions
<1>4. Answered'
  BY SMTT(30), <1>1, <1>2 DEF Recording, Answered
<1>5. CallsAreGranted'
  BY <1>1, <1>2 DEF Recording, CallsAreGranted
<1>6. StatusIn(log') = StatusIn(log)
  BY StatusKept DEF Emit
<1> QED
  BY <1>3, <1>4, <1>5, <1>6 DEF Recording

\* A call is recorded while the last word on the checkpoint is the grant.
LEMMA GrantedCall ==
  ASSUME Recording, log \in Seq(Events), StatusIn(log) = "granted", Emit("Called")
  PROVE  Recording' /\ StatusIn(log') = StatusIn(log)
<1>1. /\ Len(log') = Len(log) + 1 /\ DOMAIN log' = 1..Len(log) + 1
      /\ DOMAIN log = 1..Len(log) /\ Len(log) \in Nat
      /\ log'[Len(log) + 1] = "Called" /\ \A i \in DOMAIN log : log'[i] = log[i]
  BY DEF Emit, Events
<1>2. DecidedOnce'
  BY <1>1 DEF Recording, DecidedOnce
<1>3. Answered'
  BY <1>1 DEF Recording, Answered, Decisions
<1>4. PICK k \in DOMAIN log : log[k] = "Granted"
  BY StatusMeans DEF LastAbout
<1>5. PICK j \in 1..(k - 1) : log[j] = "Requested"
  BY <1>4 DEF Recording, Answered, Decisions
<1>6. \A i \in DOMAIN log : log[i] # "Rejected"
  BY <1>4 DEF Recording, DecidedOnce
<1>7. CallsAreGranted'
  <2>1. \A i \in DOMAIN log : log'[i] = "Called" =>
          /\ \E m, n \in 1..(i - 1) : m < n /\ log'[m] = "Requested" /\ log'[n] = "Granted"
          /\ \A m \in 1..(i - 1) : log'[m] # "Rejected"
    <3> SUFFICES ASSUME NEW i \in DOMAIN log, log'[i] = "Called"
                 PROVE  /\ \E m, n \in 1..(i - 1) :
                             m < n /\ log'[m] = "Requested" /\ log'[n] = "Granted"
                        /\ \A m \in 1..(i - 1) : log'[m] # "Rejected"
      OBVIOUS
    <3>1. log[i] = "Called" /\ 1..(i - 1) \subseteq DOMAIN log
      BY <1>1
    <3>2. PICK m, n \in 1..(i - 1) : m < n /\ log[m] = "Requested" /\ log[n] = "Granted"
      BY <3>1 DEF Recording, CallsAreGranted
    <3> QED
      BY <1>1, <1>6, <3>1, <3>2
  <2>2. /\ j \in 1..Len(log) /\ k \in 1..Len(log) /\ j < k
        /\ log'[j] = "Requested" /\ log'[k] = "Granted"
    BY <1>1, <1>4, <1>5
  <2>3. \A m \in 1..Len(log) : log'[m] # "Rejected"
    BY <1>1, <1>6
  <2> QED
    BY <1>1, <2>1, <2>2, <2>3 DEF CallsAreGranted
<1>8. StatusIn(log') = StatusIn(log)
  BY StatusKept DEF Emit, Events, About
<1> QED
  BY <1>2, <1>3, <1>7, <1>8 DEF Recording

\* A request is recorded when nothing was ever recorded about the checkpoint.
LEMMA FirstRequest ==
  ASSUME Recording, log \in Seq(Events), StatusIn(log) = "none", Emit("Requested")
  PROVE  Recording'
<1>1. /\ Len(log') = Len(log) + 1 /\ DOMAIN log' = 1..Len(log) + 1
      /\ DOMAIN log = 1..Len(log) /\ Len(log) \in Nat
      /\ log'[Len(log) + 1] = "Requested" /\ \A i \in DOMAIN log : log'[i] = log[i]
  BY DEF Emit, Events
<1>2. \A i \in DOMAIN log' : log'[i] \notin Decisions
  BY <1>1, StatusMeans DEF About, Decisions
<1>3. CallsAreGranted'
  BY <1>1 DEF Recording, CallsAreGranted
<1> QED
  BY <1>2, <1>3 DEF Recording, DecidedOnce, Answered, Decisions

\* A decision is recorded while the last word is the request.
LEMMA FirstDecision ==
  ASSUME Recording, log \in Seq(Events), StatusIn(log) = "pending",
         NEW d \in Decisions, Emit(d)
  PROVE  Recording'
<1>1. /\ Len(log') = Len(log) + 1 /\ DOMAIN log' = 1..Len(log) + 1
      /\ DOMAIN log = 1..Len(log) /\ Len(log) \in Nat
      /\ log'[Len(log) + 1] = d /\ \A i \in DOMAIN log : log'[i] = log[i]
  BY DEF Emit, Events, Decisions
<1>2. PICK k \in DOMAIN log :
        log[k] = "Requested" /\ \A j \in k + 1..Len(log) : log[j] \notin About
  BY StatusMeans DEF LastAbout
<1>3. \A i \in DOMAIN log : log[i] \notin Decisions
  <2> SUFFICES ASSUME NEW i \in DOMAIN log, log[i] \in Decisions PROVE FALSE
    OBVIOUS
  <2>1. i # k
    BY <1>2 DEF Decisions
  <2>2. CASE i < k
    BY <1>1, <1>2, <2>2 DEF Recording, Answered
  <2>3. CASE i > k
    BY <1>1, <1>2, <2>3 DEF About, Decisions
  <2> QED
    BY <1>1, <2>1, <2>2, <2>3
<1>4. DecidedOnce'
  BY <1>1, <1>3 DEF DecidedOnce, Decisions
<1>5. Answered'
  BY <1>1, <1>2, <1>3 DEF Answered, Decisions
<1>6. CallsAreGranted'
  BY <1>1 DEF Recording, CallsAreGranted, Decisions
<1> QED
  BY <1>4, <1>5, <1>6 DEF Recording

\* What a step does to a decision that was taken.
Stands == StatusIn(log) \in {"granted", "rejected"} => StatusIn(log') = StatusIn(log)

\* Only a handler that read a pending checkpoint records a decision, and no
\* run is in flight then.
LEMMA CheckHandlers ==
  ASSUME OneAtATime, CheckInv, NEW c \in Clients,
         PostRun(c) \/ PostRetry(c) \/ PostDecision(c) \/ PostCancel(c) \/ Handler(c)
  PROVE  Recording' /\ StillPending' /\ UpToDate' /\ Stands
<1> USE DEF CheckInv, HeldInv, Typed, TypeOK
<1>1. CASE log' = log /\ run' = run
  <2>1. \A d \in Clients : req'[d].at = "read" => req[d].at = "read" \/ StatusIn(log) = "pending"
    <3>1. CASE PostRun(c) \/ PostRetry(c) \/ PostDecision(c) \/ PostCancel(c)
      BY <3>1 DEF PostRun, PostRetry, PostDecision, PostCancel
    <3>2. CASE ReadCheckpoint(c)
      BY <3>2 DEF ReadCheckpoint, Undecided, Idle
    <3>3. CASE AppendDecision(c) \/ AssemblyFails(c) \/ Launch(c)
      BY <3>3 DEF AppendDecision, AssemblyFails, Launch, Idle
    <3> QED
      BY <3>1, <3>2, <3>3 DEF Handler
  <2>2. StillPending' /\ UpToDate'
    BY <1>1, <2>1 DEF StillPending, UpToDate
  <2>3. Recording' /\ Stands
    BY <1>1 DEF Stands, Recording, DecidedOnce, Answered, CallsAreGranted
  <2> QED
    BY <2>2, <2>3
<1>2. CASE PostCancel(c)
  <2>1. handle \in RunIds
    BY <1>2 DEF PostCancel
  <2>2. \A r \in RunIds : run'[r].phase = run[r].phase /\ run'[r].known = run[r].known
    BY <1>2, <2>1 DEF PostCancel, Run
  <2> QED
    BY <1>2, <2>2 DEF PostCancel, StillPending, UpToDate, Stands, Recording, DecidedOnce,
                      Answered, CallsAreGranted
<1>3. CASE AppendDecision(c)
  <2>1. req[c].op \in Decisions /\ req[c] # Idle /\ StatusIn(log) = "pending"
    BY <1>3 DEF AppendDecision, Addressed, Decisions, Idle, StillPending
  <2>2. Recording'
    BY <1>3, <2>1, FirstDecision DEF AppendDecision
  <2>3. \A r \in RunIds : ~InFlight(r)
    BY <2>1, ControlPlaneAssumption DEF NothingRegistered, HandleHeld, NoRun, RunIds
  <2>4. UpToDate'
    BY <1>3, <2>3 DEF AppendDecision, UpToDate, InFlight
  <2>5. StillPending'
    BY <1>3 DEF AppendDecision, StillPending, OneAtATime
  <2> QED
    BY <2>1, <2>2, <2>4, <2>5 DEF Stands
<1>4. CASE Launch(c)
  <2>1. \A r \in RunIds : run'[r] = run[r] \/ run'[r].phase = "launched"
    BY <1>4 DEF Launch, Blank
  <2>2. UpToDate'
    BY <1>4, <2>1 DEF Launch, UpToDate
  <2>3. StillPending'
    BY <1>4 DEF Launch, StillPending, Idle
  <2> QED
    BY <1>4, <2>2, <2>3 DEF Launch, Stands, Recording, DecidedOnce, Answered, CallsAreGranted
<1> QED
  BY <1>1, <1>2, <1>3, <1>4
     DEF PostRun, PostRetry, PostDecision, Handler, ReadCheckpoint, AssemblyFails

\* A run requests approval only of a checkpoint nobody requested, and calls
\* only under the grant it read, which is still the last word.
LEMMA CheckRunStep ==
  ASSUME CheckInv, NEW r \in RunIds, RunStep(r)
  PROVE  Recording' /\ StillPending' /\ UpToDate' /\ Stands
<1> USE DEF CheckInv, HeldInv, Typed, TypeOK
<1>1. handle = r /\ \A s \in RunIds : s # r => ~InFlight(s)
  BY RunStepFrame DEF HandleHeld
<1>2. StillPending'
  <2>1. \A c \in Clients : req[c] = Idle
    BY <1>1, ControlPlaneAssumption DEF NothingRegistered, RunIds, NoRun
  <2> QED
    BY <2>1, RunStepFrame DEF StillPending, Idle
<1>3. \A s \in RunIds : s # r => run'[s].phase \notin {"snapshot", "working"}
  BY <1>1, RunStepFrame DEF InFlight
<1>4. CASE run'[r].phase \notin {"snapshot", "working"} /\ log' = log
  BY <1>2, <1>3, <1>4 DEF UpToDate, Stands, Recording, DecidedOnce, Answered, CallsAreGranted
<1>5. ASSUME run'[r].phase \notin {"snapshot", "working"},
             NEW e \in Events \ (About \cup {"Called"}), Emit(e)
      PROVE  Recording' /\ UpToDate' /\ Stands
  BY <1>3, <1>5, QuietEvent DEF UpToDate, Stands
<1>6. CASE ReadApprovals(r)
  <2>1. run'[r].known = StatusIn(log) /\ log' = log
    BY <1>6 DEF ReadApprovals, Run
  <2> QED
    BY <1>2, <1>3, <2>1 DEF UpToDate, Stands, Recording, DecidedOnce, Answered, CallsAreGranted
<1>7. CASE StartFresh(r)
  <2>1. Emit("Started") /\ "Started" \in Events \ (About \cup {"Called"})
    BY <1>7 DEF StartFresh, Events, About
  <2>2. run[r].phase = "snapshot" /\ run'[r].known = run[r].known
    BY <1>7 DEF StartFresh, Step, Run
  <2>3. Recording' /\ StatusIn(log') = StatusIn(log)
    BY <2>1, QuietEvent
  <2> QED
    BY <1>2, <1>3, <2>2, <2>3 DEF UpToDate, Stands
<1>8. CASE Ask(r)
  <2>1. run[r].phase = "working" /\ run[r].known = "none" /\ run'[r].phase = "closing"
    BY <1>8 DEF Ask, Conclude, MustAsk, Run
  <2>2. StatusIn(log) = "none"
    BY <2>1 DEF UpToDate
  <2>3. Recording'
    BY <1>8, <2>2, FirstRequest DEF Ask
  <2> QED
    BY <1>2, <1>3, <2>1, <2>2, <2>3 DEF UpToDate, Stands
<1>9. CASE CallTool(r)
  <2>1. run[r].phase = "working" /\ run[r].known = "granted" /\ run'[r].phase = "calling"
    BY <1>9 DEF CallTool, Step, MayCall, Run
  <2>2. StatusIn(log) = "granted"
    BY <2>1 DEF UpToDate
  <2>3. Recording' /\ StatusIn(log') = StatusIn(log)
    BY <1>9, <2>2, GrantedCall DEF CallTool
  <2> QED
    BY <1>2, <1>3, <2>1, <2>3 DEF UpToDate, Stands
<1>10. CASE Rebuild(r)
  <2>1. run'[r].phase = "rebuilt" /\ log' = log
    BY <1>10 DEF Rebuild, Run
  <2> QED
    BY <1>2, <1>4, <2>1
<1>11. CASE Drain(r) \/ Reuse(r) \/ Held(r)
  <2>1. run'[r].phase = "closing" /\ log' = log
    BY <1>11 DEF Drain, Reuse, Held, Conclude, Run
  <2> QED
    BY <1>2, <1>4, <2>1
<1>12. CASE ToolReturns(r)
  <2>1. run'[r].phase = "closing" /\ (log' = log \/ Emit("Done"))
    BY <1>12 DEF ToolReturns, Conclude, Run
  <2>2. "Done" \in Events \ (About \cup {"Called"})
    BY DEF Events, About
  <2> QED
    BY <1>2, <1>4, <1>5, <2>1, <2>2
<1>13. CASE ObserveCancel(r)
  <2>1. run'[r].phase = run[r].phase /\ run'[r].known = run[r].known /\ Emit("Cancelled")
    BY <1>13 DEF ObserveCancel, Run
  <2>2. "Cancelled" \in Events \ (About \cup {"Called"})
    BY DEF Events, About
  <2>3. Recording' /\ StatusIn(log') = StatusIn(log)
    BY <2>1, <2>2, QuietEvent
  <2> QED
    BY <1>2, <1>3, <2>1, <2>3 DEF UpToDate, Stands
<1>14. CASE FinishRun(r)
  <2>1. run'[r].phase = "returned" /\ Emit(run[r].outcome)
    BY <1>14 DEF FinishRun, Step, Run
  <2>2. run[r].outcome \in Finished
    BY <1>14 DEF FinishRun, Step, Run, Concluded
  <2>3. Finished \subseteq Events \ (About \cup {"Called"})
    BY DEF Finished, Events, About
  <2> QED
    BY <1>2, <1>5, <2>1, <2>2, <2>3
<1>15. CASE Leave(r)
  <2>1. run'[r].phase = "gone" /\ log' = log
    BY <1>15 DEF Leave, Blank
  <2> QED
    BY <1>2, <1>4, <2>1
<1>16. CASE RefuseToStart(r) \/ RefuseToRebuild(r)
  <2>1. run'[r].phase = "returned" /\ log' = log
    BY <1>16 DEF RefuseToStart, RefuseToRebuild, Step, Run
  <2> QED
    BY <1>2, <1>4, <2>1
<1>17. CASE NodeFails(r)
  <2>1. run'[r].phase = run[r].phase /\ run'[r].known = run[r].known /\ log' = log
    BY <1>17 DEF NodeFails, Run
  <2> QED
    BY <1>2, <1>3, <2>1 DEF UpToDate, Stands, Recording, DecidedOnce, Answered, CallsAreGranted
<1> QED
  BY <1>6, <1>7, <1>8, <1>9, <1>10, <1>11, <1>12, <1>13, <1>14, <1>15, <1>16, <1>17 DEF RunStep

\* Nothing the server does on its own is about a checkpoint.
LEMMA CheckProcess ==
  ASSUME CheckInv,
         Crash \/ Scan \/ Settle \/ \E v \in Viewers : Connect(v) \/ Send(v)
  PROVE  Recording' /\ StillPending' /\ UpToDate' /\ Stands
<1> USE DEF CheckInv, HeldInv, Typed, TypeOK
<1>1. CASE Crash
  <2>1. \A r \in RunIds : run'[r].phase \in {"unused", "gone"}
    BY <1>1 DEF Crash, Blank
  <2>2. \A c \in Clients : req'[c].at = "idle"
    BY <1>1 DEF Crash, Idle
  <2> QED
    BY <1>1, <2>1, <2>2 DEF Crash, StillPending, UpToDate, Stands, Recording, DecidedOnce,
                            Answered, CallsAreGranted
<1>2. CASE log' = log /\ run' = run /\ req' = req
  BY <1>2 DEF StillPending, UpToDate, Stands, Recording, DecidedOnce, Answered, CallsAreGranted
<1>3. ASSUME NEW e \in {"Cancelled", "cancelled"}, Emit(e), run' = run, req' = req
      PROVE  Recording' /\ StillPending' /\ UpToDate' /\ Stands
  <2>1. e \in Events \ (About \cup {"Called"})
    BY DEF Events, About, Finished
  <2>2. Recording' /\ StatusIn(log') = StatusIn(log)
    BY <1>3, <2>1, QuietEvent
  <2> QED
    BY <1>3, <2>2 DEF StillPending, UpToDate, Stands
<1>4. CASE Scan
  BY <1>2, <1>3, <1>4 DEF Scan
<1>5. CASE Settle
  BY <1>3, <1>5 DEF Settle, SettledAs
<1> QED
  BY <1>1, <1>2, <1>4, <1>5 DEF Connect, Send

\* The invariant behind the three theorems, and what no step does.
LEMMA CheckStep ==
  ASSUME OneAtATime, CheckInv, [Next]_vars
  PROVE  CheckInv' /\ (Stands \/ UNCHANGED vars)
<1>1. HeldInv'
  BY HeldStep DEF CheckInv
<1>2. CASE UNCHANGED vars
  BY <1>1, <1>2 DEF CheckInv, Recording, DecidedOnce, Answered, CallsAreGranted,
                    StillPending, UpToDate, vars
<1>3. CASE Next
  <2>1. Recording' /\ StillPending' /\ UpToDate' /\ Stands
    BY <1>3, CheckHandlers, CheckRunStep, CheckProcess DEF Next
  <2> QED
    BY <1>1, <2>1 DEF CheckInv
<1> QED
  BY <1>2, <1>3

\* At first nothing is recorded.
LEMMA CheckInit == Init => CheckInv
<1> SUFFICES ASSUME Init PROVE CheckInv
  OBVIOUS
<1>1. log = <<>> /\ \A r \in RunIds : run[r].phase = "unused"
  BY DEF Init, Blank
<1>2. Recording
  BY <1>1 DEF Recording, DecidedOnce, Answered, CallsAreGranted
<1>3. StillPending /\ UpToDate
  BY <1>1 DEF Init, StillPending, UpToDate, Idle
<1> QED
  BY <1>2, <1>3, HeldInit DEF CheckInv

\* REQ-RUNTIME-07: no mutating call without a grant of a request recorded
\* before it, and none after a rejection, across runs, retries and crashes.
THEOREM ApprovalBeforeMutation == ASSUME OneAtATime PROVE Spec => []CallsAreGranted
<1>1. CheckInv /\ [Next]_vars => CheckInv'
  BY CheckStep
<1>2. CheckInv => CallsAreGranted
  BY DEF CheckInv, Recording
<1> QED
  BY <1>1, <1>2, CheckInit, PTL DEF Spec

\* ADR 0016: a checkpoint is decided once.
THEOREM OneDecision == ASSUME OneAtATime PROVE Spec => []DecidedOnce
<1>1. CheckInv /\ [Next]_vars => CheckInv'
  BY CheckStep
<1>2. CheckInv => DecidedOnce
  BY DEF CheckInv, Recording
<1> QED
  BY <1>1, <1>2, CheckInit, PTL DEF Spec

\* ADR 0016: no step takes a decision back.
THEOREM DecisionsStand == ASSUME OneAtATime PROVE Spec => DecisionStands
<1>1. CheckInv /\ [Next]_vars => CheckInv'
  BY CheckStep
<1>2. CheckInv /\ [Next]_vars =>
        [StatusIn(log) \in {"granted", "rejected"} => StatusIn(log') = StatusIn(log)]_vars
  BY CheckStep DEF Stands
<1> QED
  BY <1>1, <1>2, CheckInit, PTL DEF Spec, DecisionStands

-----------------------------------------------------------------------------
(* Nothing is shown as running that nobody runs. *)

Begins(r) == run[r].phase \in {"working", "calling", "closing"}

\* An execution that has begun and not ended has a run that will end it, or a
\* server that is still to reconcile it; what is not launched yet is unused.
Driven ==
  boot = "serving" /\ Recorded("Started") /\ ~EverFinished => \E r \in RunIds : Begins(r)
Unlaunched == \A r \in RunIds : r > launched => run[r].phase = "unused"

DrivenInv == Typed /\ Driven /\ Unlaunched

\* What an appended event changes of what the log says.
LEMMA LogGrows ==
  ASSUME Typed, NEW e \in Events, Emit(e)
  PROVE  /\ EverFinished' <=> EverFinished \/ e \in Finished
         /\ Recorded("Started")' <=> Recorded("Started") \/ e = "Started"
<1>1. ToSet(log') = ToSet(log) \cup {e}
  <2>1. log \in Seq(Events) /\ Len(log) \in Nat /\ log' = Append(log, e)
    BY DEF Typed, TypeOK, Emit
  <2>2. DOMAIN log' = DOMAIN log \cup {Len(log) + 1}
    BY <2>1
  <2>3. log'[Len(log) + 1] = e /\ \A i \in DOMAIN log : log'[i] = log[i]
    BY <2>1
  <2> QED
    BY <2>2, <2>3 DEF ToSet
<1> QED
  BY <1>1 DEF EverFinished, Recorded

\* A step that begins no execution and leaves every run that has begun so.
LEMMA DrivenKept ==
  ASSUME Typed, Driven, boot' = boot \/ boot' # "serving",
         log' = log \/ (\E e \in Events \ {"Started"} : Emit(e)),
         \A r \in RunIds : Begins(r) => Begins(r)' \/ EverFinished'
  PROVE  Driven'
<1>1. /\ EverFinished => EverFinished'
      /\ Recorded("Started")' => Recorded("Started")
  <2>1. CASE log' = log
    BY <2>1 DEF EverFinished, Recorded
  <2>2. CASE \E e \in Events \ {"Started"} : Emit(e)
    BY <2>2, LogGrows
  <2> QED
    BY <2>1, <2>2
<1> QED
  BY <1>1 DEF Driven

\* A goroutine that ends a run it has begun records the end.
LEMMA DrivenRunStep ==
  ASSUME DrivenInv, NEW r \in RunIds, RunStep(r)
  PROVE  Driven' /\ Unlaunched'
<1> USE DEF DrivenInv, Typed, TypeOK
<1>0. boot' = boot /\ launched' = launched /\ \A q \in RunIds \ {r} : run'[q] = run[q]
  BY DEF RunStep, Rebuild, RefuseToRebuild, ReadApprovals, RefuseToStart, StartFresh, NodeFails, Drain,
         Reuse, Ask, Held, CallTool, ToolReturns, ObserveCancel, FinishRun, Leave, Step, Conclude
<1>1. run[r].phase # "unused"
  BY DEF RunStep, Rebuild, RefuseToRebuild, ReadApprovals, RefuseToStart, StartFresh, NodeFails, Drain,
         Reuse, Ask, Held, CallTool, ToolReturns, ObserveCancel, FinishRun, Leave, Step, Conclude
<1>2. Unlaunched'
  BY <1>0, <1>1 DEF Unlaunched
<1>3. CASE StartFresh(r)
  <2>1. run' = [run EXCEPT ![r].phase = "working"]
    BY <1>3 DEF StartFresh, Step
  <2> QED
    BY <1>2, <2>1 DEF Driven, Begins
<1>4. CASE FinishRun(r)
  <2>1. run[r].outcome \in Finished /\ run[r].outcome \in Events \ {"Started"} /\ Emit(run[r].outcome)
    BY <1>4 DEF FinishRun, Step, Run, Concluded, Events, Finished
  <2>2. EverFinished'
    BY <2>1, LogGrows
  <2> QED
    BY <1>0, <1>2, <2>1, <2>2, DrivenKept
<1>5. CASE Rebuild(r) \/ RefuseToRebuild(r) \/ ReadApprovals(r) \/ RefuseToStart(r) \/ Leave(r)
  <2>1. log' = log /\ ~Begins(r)
    BY <1>5 DEF Rebuild, RefuseToRebuild, ReadApprovals, RefuseToStart, Leave, Step, Begins
  <2>2. \A q \in RunIds : Begins(q) => Begins(q)'
    BY <1>0, <2>1 DEF Begins
  <2> QED
    BY <1>0, <1>2, <2>1, <2>2, DrivenKept
<1>6. CASE \/ NodeFails(r) \/ Drain(r) \/ Reuse(r) \/ Ask(r) \/ Held(r) \/ CallTool(r) \/ ToolReturns(r)
           \/ ObserveCancel(r)
  <2>1. log' = log \/ (\E e \in Events \ {"Started"} : Emit(e))
    BY <1>6 DEF NodeFails, Drain, Reuse, Ask, Held, CallTool, ToolReturns, ObserveCancel, Events
  <2>2. Begins(r)'
    BY <1>6 DEF NodeFails, Drain, Reuse, Ask, Held, CallTool, ToolReturns, ObserveCancel, Step, Conclude,
                Begins, Run
  <2>3. \A q \in RunIds : Begins(q) => Begins(q)'
    BY <1>0, <2>2 DEF Begins
  <2> QED
    BY <1>0, <1>2, <2>1, <2>3, DrivenKept
<1> QED
  BY <1>3, <1>4, <1>5, <1>6 DEF RunStep

\* A launch takes a number nobody used, and no handler ends a run.
LEMMA DrivenHandlers ==
  ASSUME DrivenInv, NEW c \in Clients,
         PostRun(c) \/ PostRetry(c) \/ PostDecision(c) \/ PostCancel(c) \/ Handler(c)
  PROVE  Driven' /\ Unlaunched'
<1> USE DEF DrivenInv, Typed, TypeOK
<1> USE ControlPlaneAssumption
<1>1. CASE Launch(c)
  <2>1. launched + 1 \in RunIds /\ launched' = launched + 1 /\ launched \in Nat
    BY <1>1 DEF Launch, RunIds
  <2>2. /\ run' = [run EXCEPT ![launched + 1] = Blank("launched", req[c].op)]
        /\ run[launched + 1].phase = "unused" /\ boot' = boot /\ log' = log
    BY <1>1, <2>1 DEF Launch, Unlaunched
  <2>3. Unlaunched'
    BY <2>1, <2>2 DEF Unlaunched, RunIds
  <2>4. \A q \in RunIds : Begins(q) => Begins(q)'
    BY <2>1, <2>2 DEF Begins
  <2> QED
    BY <2>2, <2>3, <2>4, DrivenKept
<1>2. CASE PostCancel(c)
  <2>1. \A q \in RunIds : run'[q].phase = run[q].phase
    BY <1>2 DEF PostCancel, Run
  <2>2. boot' = boot /\ log' = log /\ launched' = launched
    BY <1>2 DEF PostCancel
  <2>3. \A q \in RunIds : Begins(q) => Begins(q)'
    BY <2>1 DEF Begins
  <2> QED
    BY <2>1, <2>2, <2>3, DrivenKept DEF Unlaunched
<1>3. CASE \/ PostRun(c) \/ PostRetry(c) \/ PostDecision(c) \/ ReadCheckpoint(c)
           \/ AppendDecision(c) \/ AssemblyFails(c)
  <2>1. boot' = boot /\ run' = run /\ launched' = launched
    BY <1>3 DEF PostRun, PostRetry, PostDecision, ReadCheckpoint, AppendDecision, AssemblyFails
  <2>2. log' = log \/ (\E e \in Events \ {"Started"} : Emit(e))
    BY <1>3 DEF PostRun, PostRetry, PostDecision, ReadCheckpoint, AppendDecision, AssemblyFails,
                Addressed, Events
  <2> QED
    BY <2>1, <2>2, DrivenKept DEF Unlaunched, Begins
<1> QED
  BY <1>1, <1>2, <1>3 DEF Handler

\* A new server serves only once it has settled what it found open.
LEMMA DrivenProcess ==
  ASSUME DrivenInv, Crash \/ Scan \/ Settle \/ \E v \in Viewers : Connect(v) \/ Send(v)
  PROVE  Driven' /\ Unlaunched'
<1> USE DEF DrivenInv, Typed, TypeOK
<1>1. CASE Crash
  BY <1>1 DEF Crash, Driven, Unlaunched
<1>2. CASE Scan
  <2>1. CASE NoNeed
    BY <1>2, <2>1 DEF Scan, NoNeed, Driven, Unlaunched, EverFinished, Recorded
  <2>2. CASE ~NoNeed
    BY <1>2, <2>2 DEF Scan, Driven, Unlaunched
  <2> QED
    BY <2>1, <2>2
<1>3. CASE Settle
  <2>1. Emit("cancelled") /\ "cancelled" \in Finished /\ "cancelled" \in Events
    BY <1>3 DEF Settle, SettledAs, Events, Finished
  <2>2. EverFinished'
    BY <2>1, LogGrows
  <2> QED
    BY <1>3, <2>2 DEF Settle, Driven, Unlaunched
<1>4. ASSUME NEW v \in Viewers, Connect(v) \/ Send(v) PROVE Driven' /\ Unlaunched'
  <2>1. UNCHANGED <<boot, log, run, launched>>
    BY <1>4 DEF Connect, Send
  <2> QED
    BY <2>1, DrivenKept DEF Unlaunched, Begins
<1> QED
  BY <1>1, <1>2, <1>3, <1>4

\* REQ-CTRL-02: whoever asks, and wherever the servers before this one died, no
\* execution is shown as running that nobody runs, requests that overlap
\* included.
THEOREM NothingSilent == Spec => []NotSilentlyRunning
<1>1. Init => DrivenInv
  <2>1. ASSUME Init PROVE Driven /\ Unlaunched
    BY <2>1 DEF Init, Driven, Unlaunched, Recorded, ToSet, Blank
  <2> QED
    BY <2>1, TypedInit DEF DrivenInv
<1>2. DrivenInv /\ [Next]_vars => DrivenInv'
  <2>1. ASSUME DrivenInv, UNCHANGED vars PROVE Driven' /\ Unlaunched'
    BY <2>1, DrivenKept DEF DrivenInv, vars, Unlaunched, Begins
  <2>2. ASSUME DrivenInv, Next PROVE Driven' /\ Unlaunched'
    BY <2>2, DrivenHandlers, DrivenRunStep, DrivenProcess DEF Next
  <2> QED
    BY <2>1, <2>2, TypedStep DEF DrivenInv
<1>3. DrivenInv => NotSilentlyRunning
  <2> SUFFICES ASSUME DrivenInv, boot = "serving", Recorded("Started"), Summary("running"),
                      \A r \in RunIds : ~InFlight(r)
               PROVE  FALSE
    BY DEF NotSilentlyRunning
  <2>1. ~EverFinished
    BY DEF Summary, Finished
  <2>2. \E r \in RunIds : Begins(r)
    BY <2>1 DEF DrivenInv, Driven
  <2> QED
    BY <2>2 DEF Begins, InFlight
<1> QED
  BY <1>1, <1>2, <1>3, PTL DEF Spec

=============================================================================
