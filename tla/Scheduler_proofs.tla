--------------------------- MODULE Scheduler_proofs ---------------------------
(***************************************************************************)
(* What holds of every workflow, every pool and every interleaving of one  *)
(* run of the scheduler: its types, the correspondence between running     *)
(* nodes and tasks, what no step may undo, and that each node is decided   *)
(* once, when its parents have settled.                                    *)
(***************************************************************************)
EXTENDS Scheduler, FiniteSetTheorems, TLAPS

\* A worker that is about to report holds the task it reports on.
ReportsHeldTask == \A w \in Workers : ret[w] # "none" => held[w] # NoTask

Typed == TypeOK /\ ReportsHeldTask

-----------------------------------------------------------------------------
(* The constants. *)

\* What a workflow is made of.
LEMMA WorkflowShape ==
  ASSUME wf \in Workflows
  PROVE  /\ wf.nodes \subseteq Nodes /\ IsFiniteSet(wf.nodes)
         /\ wf.edges \subseteq wf.nodes \X wf.nodes
         /\ wf.policy \in [Nodes -> Policies]
         /\ wf.kind \in [Nodes -> Kinds]
         /\ FallbackOnly \subseteq Nodes \cup {NoNode}
<1>1. wf \in WorkflowType
  BY SchedulerAssumption
<1>2. wf.nodes \subseteq Nodes /\ wf.fallback \in [Nodes -> Nodes \cup {NoNode}]
  BY <1>1 DEF WorkflowType
<1>3. IsFiniteSet(wf.nodes)
  BY <1>2, SchedulerAssumption, FS_Subset
<1> QED
  BY <1>1, <1>2, <1>3 DEF WorkflowType, FallbackOnly

\* A node that runs returns one of the results the coordinator tells apart.
LEMMA PossibleResults ==
  ASSUME wf \in Workflows, NEW n \in wf.nodes
  PROVE  Possible(n) \subseteq ReturnKinds
<1>1. wf.kind[n] \in Kinds
  BY WorkflowShape
<1> QED
  BY <1>1 DEF Possible, Kinds, ReturnKinds

\* A real task is not the idle worker's.
LEMMA TaskIsReal ==
  ASSUME wf \in Workflows, NEW t \in [node : wf.nodes, attrTo : wf.nodes]
  PROVE  t # NoTask
BY WorkflowShape, SchedulerAssumption DEF NoTask

-----------------------------------------------------------------------------
(* Type correctness. *)

\* settle keeps the types of the three variables it writes.
LEMMA SettleTypes ==
  ASSUME TypeOK, NEW n \in wf.nodes, NEW st \in Settled, Settle(n, st)
  PROVE  /\ state' \in [wf.nodes -> NodeStates]
         /\ pendingParents' \in [wf.nodes -> Int]
         /\ toDecide' \subseteq wf.nodes
<1>1. st \in NodeStates
  BY DEF Settled, NodeStates
<1>2. state' \in [wf.nodes -> NodeStates]
  BY <1>1 DEF Settle, TypeOK
<1>3. pendingParents' \in [wf.nodes -> Int]
  BY DEF Settle, TypeOK
<1>4. toDecide' \subseteq wf.nodes
  BY DEF Settle, TypeOK, Children
<1> QED
  BY <1>2, <1>3, <1>4

\* The logs of no event and of one.
LEMMA ShortLogs ==
  /\ <<>> \in Seq(RunEvents)
  /\ \A e \in RunEvents : <<e>> \in Seq(RunEvents)
OBVIOUS

\* Appending events of the catalog keeps the log's type.
LEMMA EmitTypes ==
  ASSUME events \in Seq(RunEvents), NEW s \in Seq(RunEvents), Emit(s)
  PROVE  events' \in Seq(RunEvents)
BY DEF Emit

\* cancelHalt leaves a halt cause and at most one event more.
LEMMA CancelHaltTypes ==
  ASSUME TypeOK, CancelHalt
  PROVE  halt' \in HaltCauses \cup {"none"} /\ events' \in Seq(RunEvents)
<1>1. halt' \in HaltCauses \cup {"none"}
  BY DEF TypeOK, CancelHalt, FirstCause, HaltCauses
<1>2. (IF halted THEN <<>> ELSE <<"Cancelled">>) \in Seq(RunEvents)
  BY ShortLogs DEF RunEvents
<1>3. events' \in Seq(RunEvents)
  BY <1>2, EmitTypes DEF CancelHalt, TypeOK
<1> QED
  BY <1>1, <1>3

\* The receive keeps the types of the pool, and names a task of the workflow.
LEMMA ReceiveTypes ==
  ASSUME Typed, NEW w \in Workers, NEW rs \in SUBSET ReturnKinds, Receive(w, rs)
  PROVE  /\ held[w] \in [node : wf.nodes, attrTo : wf.nodes]
         /\ inFlight' \in Int
         /\ held' \in [Workers -> [node : wf.nodes, attrTo : wf.nodes] \cup {NoTask}]
         /\ ret' \in [Workers -> ReturnKinds \cup {"none"}]
         /\ ReportsHeldTask'
<1>1. ret[w] # "none"
  BY DEF Receive, ReturnKinds
<1>2. held[w] \in [node : wf.nodes, attrTo : wf.nodes]
  BY <1>1 DEF Typed, TypeOK, ReportsHeldTask
<1>3. ReportsHeldTask'
  BY DEF Receive, Typed, TypeOK, ReportsHeldTask
<1> QED
  BY <1>2, <1>3 DEF Receive, Typed, TypeOK

\* Every variable has its type when a run begins.
LEMMA InitTyped == Init => Typed
<1> SUFFICES ASSUME Init PROVE Typed
  OBVIOUS
<1> USE DEF Init
<1>1. InitialState \in [wf.nodes -> NodeStates]
  BY DEF InitialState, NodeStates
<1>2. \A n \in wf.nodes : Cardinality(Unsettled(n, InitialState)) \in Int
  <2> TAKE n \in wf.nodes
  <2>1. Unsettled(n, InitialState) \in SUBSET wf.nodes
    BY DEF Unsettled, Parents
  <2>2. IsFiniteSet(Unsettled(n, InitialState))
    BY <2>1, WorkflowShape, FS_Subset
  <2> QED
    BY <2>2, FS_CardinalityType
<1>3. pendingParents \in [wf.nodes -> Int]
  BY <1>2
<1>4. result \in [state : {"none", "paused", "cancelled", "failed", "succeeded"},
                  err : HaltCauses \cup {"none", "setup", "incomplete"}]
  BY DEF NoResult
<1>5. /\ held \in [Workers -> [node : wf.nodes, attrTo : wf.nodes] \cup {NoTask}]
      /\ ret \in [Workers -> ReturnKinds \cup {"none"}]
      /\ spend \in [Dims -> Nat] /\ starts \in [wf.nodes -> Nat]
      /\ state \in [wf.nodes -> NodeStates]
      /\ verdict \in [wf.edges -> {"unknown", "true", "false", "error"}]
  BY <1>1
<1>6. /\ ready \subseteq [node : wf.nodes, attrTo : wf.nodes] /\ fbTried \subseteq wf.nodes
      /\ toDecide \subseteq wf.nodes /\ inFlight \in Int
  OBVIOUS
<1>7. events \in Seq(RunEvents)
  BY ShortLogs
<1>8. /\ wf \in Workflows /\ pc \in {"start", "loop", "returned"}
      /\ halt \in HaltCauses \cup {"none"}
      /\ parentDone \in BOOLEAN /\ ctxSeen \in BOOLEAN /\ warned \in BOOLEAN
  OBVIOUS
<1>9. TypeOK
  BY <1>3, <1>4, <1>5, <1>6, <1>7, <1>8 DEF TypeOK
<1>10. ReportsHeldTask
  BY DEF ReportsHeldTask
<1> QED
  BY <1>9, <1>10 DEF Typed

\* A step of the coordinator outside its select keeps every type.
LEMMA DecisionsTyped ==
  ASSUME Typed,
         \/ ParentCancel \/ RefuseToStart \/ Start \/ Finish
         \/ \E n \in wf.nodes : Activate(n) \/ Skip(n)
  PROVE  Typed'
<1> USE DEF Typed, TypeOK, ReportsHeldTask
<1>1. CASE ParentCancel
  BY <1>1 DEF ParentCancel, graphVars, poolVars, budgetVars
<1>2. CASE RefuseToStart
  <2>1. result' \in [state : {"none", "paused", "cancelled", "failed", "succeeded"},
                     err : HaltCauses \cup {"none", "setup", "incomplete"}]
    BY <1>2 DEF RefuseToStart
  <2> QED
    BY <1>2, <2>1 DEF RefuseToStart, graphVars, poolVars, budgetVars
<1>3. CASE Start
  <2>1. events' \in Seq(RunEvents)
    BY <1>3, ShortLogs, EmitTypes DEF Start, RunEvents
  <2>2. toDecide' \subseteq wf.nodes
    BY <1>3 DEF Start, Seeds
  <2> QED
    BY <1>3, <2>1, <2>2 DEF Start, poolVars, budgetVars
<1>4. CASE Finish
  <2>1. state' \in [wf.nodes -> NodeStates]
    BY <1>4 DEF Finish, NodeStates
  <2>2. events' \in Seq(RunEvents)
    BY <1>4, ShortLogs, EmitTypes DEF Finish, RunEvents
  <2>3. StateOf(halt, state') \in {"none", "paused", "cancelled", "failed", "succeeded"}
    BY DEF StateOf, HaltCauses
  <2>4. ErrOf(halt, state') \in HaltCauses \cup {"none", "setup", "incomplete"}
    BY DEF ErrOf
  <2>5. result' \in [state : {"none", "paused", "cancelled", "failed", "succeeded"},
                     err : HaltCauses \cup {"none", "setup", "incomplete"}]
    BY <1>4, <2>3, <2>4 DEF Finish
  <2> QED
    BY <1>4, <2>1, <2>2, <2>5 DEF Finish, poolVars, budgetVars
<1>5. ASSUME NEW n \in wf.nodes, Activate(n)
      PROVE  Typed'
  <2>1. state' \in [wf.nodes -> NodeStates]
    BY <1>5 DEF Activate, NodeStates
  <2>2. ready' \subseteq [node : wf.nodes, attrTo : wf.nodes]
    BY <1>5 DEF Activate
  <2>3. verdict' \in [wf.edges -> {"unknown", "true", "false", "error"}]
    BY <1>5 DEF Activate, Record, Evaluations
  <2> QED
    BY <1>5, <2>1, <2>2, <2>3 DEF Activate, poolVars, budgetVars
<1>6. ASSUME NEW n \in wf.nodes, Skip(n)
      PROVE  Typed'
  <2>1. /\ state' \in [wf.nodes -> NodeStates]
        /\ pendingParents' \in [wf.nodes -> Int]
        /\ toDecide' \subseteq wf.nodes
    BY <1>6, SettleTypes DEF Skip, Settled
  <2>2. verdict' \in [wf.edges -> {"unknown", "true", "false", "error"}]
    BY <1>6 DEF Skip, Record, Evaluations
  <2>3. halt' \in HaltCauses \cup {"none"}
    BY <1>6 DEF Skip, FirstCause, HaltCauses
  <2> QED
    BY <1>6, <2>1, <2>2, <2>3 DEF Skip, poolVars, budgetVars
<1> QED
  BY <1>1, <1>2, <1>3, <1>4, <1>5, <1>6

\* So does every result the coordinator receives.
LEMMA CompletionsTyped ==
  ASSUME Typed, NEW w \in Workers, Complete(w)
  PROVE  Typed'
<1> USE DEF Typed, TypeOK
<1> DEFINE t == held[w]
<1>1. CASE CompleteUnapproved(w)
  <2>1. Receive(w, {"approval"})
    BY <1>1 DEF CompleteUnapproved
  <2>2. t \in [node : wf.nodes, attrTo : wf.nodes]
    BY <2>1, ReceiveTypes DEF ReturnKinds
  <2>3. state' \in [wf.nodes -> NodeStates] /\ halt' \in HaltCauses \cup {"none"}
    BY <1>1, <2>2 DEF CompleteUnapproved, NodeStates, FirstCause, HaltCauses
  <2> QED
    BY <1>1, <2>1, <2>3, ReceiveTypes DEF CompleteUnapproved, Receive, budgetVars, ReturnKinds
<1>2. CASE CompleteRejected(w)
  <2>1. Receive(w, {"rejected"}) /\ Settle(t.attrTo, "failed")
    BY <1>2 DEF CompleteRejected
  <2>2. halt' \in HaltCauses \cup {"none"}
    BY <1>2 DEF CompleteRejected, FirstCause, HaltCauses
  <2> QED
    BY <1>2, <2>1, <2>2, ReceiveTypes, SettleTypes
    DEF CompleteRejected, Receive, budgetVars, ReturnKinds, Settled
<1>3. CASE CompleteCollateral(w)
  <2>1. Receive(w, Errors) /\ Settle(t.attrTo, "failed")
    BY <1>3 DEF CompleteCollateral
  <2>2. halt' \in HaltCauses \cup {"none"} /\ events' \in Seq(RunEvents)
    BY <1>3, CancelHaltTypes DEF CompleteCollateral
  <2> QED
    BY <1>3, <2>1, <2>2, ReceiveTypes, SettleTypes
    DEF CompleteCollateral, Receive, budgetVars, ReturnKinds, Errors, Settled
<1>4. CASE CompleteByFallback(w)
  <2>1. Receive(w, Errors)
    BY <1>4 DEF CompleteByFallback
  <2>2. t \in [node : wf.nodes, attrTo : wf.nodes]
    BY <2>1, ReceiveTypes DEF ReturnKinds, Errors
  <2>3. ready' \subseteq [node : wf.nodes, attrTo : wf.nodes] /\ fbTried' \subseteq wf.nodes
    BY <1>4, <2>2 DEF CompleteByFallback, FallbackFor
  <2> QED
    BY <1>4, <2>1, <2>3, ReceiveTypes
    DEF CompleteByFallback, Receive, graphVars, budgetVars, ReturnKinds, Errors
<1>5. CASE CompleteFailed(w)
  <2>1. Receive(w, Errors) /\ Settle(t.attrTo, "failed")
    BY <1>5 DEF CompleteFailed
  <2>2. halt' \in HaltCauses \cup {"none"}
    BY <1>5 DEF CompleteFailed, FirstCause, HaltCauses
  <2> QED
    BY <1>5, <2>1, <2>2, ReceiveTypes, SettleTypes
    DEF CompleteFailed, Receive, budgetVars, ReturnKinds, Errors, Settled
<1>6. CASE CompleteOk(w)
  <2>1. Receive(w, {"ok"}) /\ Settle(t.attrTo, "succeeded")
    BY <1>6 DEF CompleteOk
  <2>2. spend' \in [Dims -> Nat]
    BY <1>6, SchedulerAssumption DEF CompleteOk
  <2>3. halt' \in HaltCauses \cup {"none"}
    BY <1>6 DEF CompleteOk, FirstCause, HaltCauses
  <2>4. (IF ShouldWarn(spend') THEN <<"BudgetWarning">> ELSE <<>>) \in Seq(RunEvents)
    BY ShortLogs DEF RunEvents
  <2>5. events' \in Seq(RunEvents)
    BY <1>6, <2>4, ShortLogs, EmitTypes DEF CompleteOk, RunEvents
  <2>6. warned' \in BOOLEAN
    BY <1>6 DEF CompleteOk, ShouldWarn
  <2> QED
    BY <1>6, <2>1, <2>2, <2>3, <2>5, <2>6, ReceiveTypes, SettleTypes
    DEF CompleteOk, Receive, ReturnKinds, Settled
<1> QED
  BY <1>1, <1>2, <1>3, <1>4, <1>5, <1>6 DEF Complete

\* And every step of the pool.
LEMMA PoolTyped ==
  ASSUME Typed,
         \/ ObserveCancel
         \/ \E w \in Workers : ExecuteNode(w)
         \/ \E w \in Workers, t \in ready : Dispatch(w, t)
  PROVE  Typed'
<1> USE DEF Typed, TypeOK, ReportsHeldTask
<1>1. CASE ObserveCancel
  BY <1>1, CancelHaltTypes DEF ObserveCancel, graphVars, poolVars, budgetVars
<1>2. ASSUME NEW w \in Workers, ExecuteNode(w)
      PROVE  Typed'
  <2>1. held[w].node \in wf.nodes
    BY <1>2 DEF ExecuteNode
  <2>2. ret' \in [Workers -> ReturnKinds \cup {"none"}]
    BY <1>2, <2>1, PossibleResults DEF ExecuteNode
  <2> QED
    BY <1>2, <2>2 DEF ExecuteNode, graphVars, budgetVars
<1>3. ASSUME NEW w \in Workers, NEW t \in ready, Dispatch(w, t)
      PROVE  Typed'
  <2>1. t # NoTask
    BY TaskIsReal
  <2>2. ready' \subseteq [node : wf.nodes, attrTo : wf.nodes]
    BY <1>3 DEF Dispatch, Rest
  <2>3. held' \in [Workers -> [node : wf.nodes, attrTo : wf.nodes] \cup {NoTask}]
    BY <1>3 DEF Dispatch
  <2>4. starts' \in [wf.nodes -> Nat]
    BY <1>3 DEF Dispatch
  <2> QED
    BY <1>3, <2>1, <2>2, <2>3, <2>4 DEF Dispatch, graphVars, budgetVars
<1> QED
  BY <1>1, <1>2, <1>3

\* So every step keeps the types.
LEMMA NextTyped == Typed /\ [Next]_vars => Typed'
<1> SUFFICES ASSUME Typed, [Next]_vars PROVE Typed'
  OBVIOUS
<1>1. CASE UNCHANGED vars
  BY <1>1 DEF vars, Typed, TypeOK, ReportsHeldTask
<1>2. CASE Next
  BY <1>1, <1>2, DecisionsTyped, CompletionsTyped, PoolTyped DEF Next, Coordinator, Returned
<1> QED
  BY <1>1, <1>2

\* Every variable of the coordinator and of the pool keeps its type in every
\* run: a worker, in particular, is never handed a task of no node.
THEOREM TypeCorrect == Spec => []TypeOK
<1>1. Init => Typed
  BY InitTyped
<1>2. Typed /\ [Next]_vars => Typed'
  BY NextTyped
<1>3. Typed => TypeOK
  BY DEF Typed
<1> QED
  BY <1>1, <1>2, <1>3, PTL DEF Spec

-----------------------------------------------------------------------------
(* Running nodes and their tasks. *)

TypedOwned == Typed /\ OneTaskPerRunningNode

\* Only finitely many workers can be busy.
LEMMA BusyFinite == IsFiniteSet(Busy)
BY SchedulerAssumption, FS_Subset DEF Busy

\* A receive takes exactly one worker out of the busy ones, and the counter
\* follows.
LEMMA ReceiveReleases ==
  ASSUME TypedOwned, NEW w \in Workers, NEW rs \in SUBSET ReturnKinds, Receive(w, rs)
  PROVE  /\ w \in Busy /\ Owned(w) \in wf.nodes
         /\ Busy' = Busy \ {w} /\ inFlight' = Cardinality(Busy')
         /\ \A v \in Busy' : held'[v] = held[v]
<1> USE DEF TypedOwned, Typed, TypeOK
<1>1. held[w] \in [node : wf.nodes, attrTo : wf.nodes]
  BY ReceiveTypes
<1>2. w \in Busy /\ Owned(w) \in wf.nodes
  BY <1>1, TaskIsReal DEF Busy, Owned
<1>3. Busy' = Busy \ {w} /\ \A v \in Busy' : held'[v] = held[v]
  BY DEF Receive, Busy
<1>4. inFlight' = inFlight - 1
  BY DEF Receive
<1>5. Cardinality(Busy \ {w}) = Cardinality(Busy) - 1
  BY <1>2, BusyFinite, FS_RemoveElement
<1> QED
  BY <1>2, <1>3, <1>4, <1>5 DEF OneTaskPerRunningNode

\* When the task's node stops running with it, the correspondence holds again.
LEMMA ReleaseKeepsOwnership ==
  ASSUME TypedOwned, NEW w \in Workers, NEW rs \in SUBSET ReturnKinds, Receive(w, rs),
         ready' = ready, state'[Owned(w)] # "running",
         \A n \in wf.nodes \ {Owned(w)} : state'[n] = state[n]
  PROVE  OneTaskPerRunningNode'
<1>1. /\ w \in Busy /\ Owned(w) \in wf.nodes
      /\ Busy' = Busy \ {w} /\ inFlight' = Cardinality(Busy')
      /\ \A v \in Busy' : held'[v] = held[v]
  BY ReceiveReleases
<1>2. wf' = wf
  BY DEF Receive
<1>3. /\ \A t \in ready : t.attrTo \in wf.nodes /\ t.attrTo # Owned(w)
      /\ \A v \in Busy : Owned(v) \in wf.nodes
  BY <1>1 DEF TypedOwned, Typed, TypeOK, OneTaskPerRunningNode, TasksApart, Busy, Owned
<1>4. \A v \in Busy' : Owned(v)' = Owned(v) /\ Owned(v) # Owned(w)
  BY <1>1 DEF Owned, TypedOwned, OneTaskPerRunningNode, TasksApart
<1>5. TasksRun'
  BY <1>1, <1>3, <1>4 DEF TypedOwned, OneTaskPerRunningNode, TasksRun
<1>6. TasksApart'
  BY <1>1, <1>4 DEF TypedOwned, OneTaskPerRunningNode, TasksApart
<1>7. RunningHasTask'
  <2> SUFFICES ASSUME NEW n \in wf.nodes, state'[n] = "running"
               PROVE  (\E t \in ready : t.attrTo = n) \/ (\E v \in Busy' : Owned(v)' = n)
    BY <1>2 DEF RunningHasTask
  <2>1. n # Owned(w) /\ state[n] = "running"
    OBVIOUS
  <2>2. (\E t \in ready : t.attrTo = n) \/ (\E v \in Busy : Owned(v) = n)
    BY <2>1 DEF TypedOwned, OneTaskPerRunningNode, RunningHasTask
  <2> QED
    BY <1>1, <1>4, <2>1, <2>2
<1> QED
  BY <1>1, <1>5, <1>6, <1>7 DEF OneTaskPerRunningNode

\* Receiving a result keeps the correspondence.
LEMMA CompletionsOwned ==
  ASSUME TypedOwned, NEW w \in Workers, Complete(w)
  PROVE  OneTaskPerRunningNode'
<1> USE DEF TypedOwned, Typed, TypeOK
<1>1. ASSUME NEW rs \in SUBSET ReturnKinds, NEW st \in Settled,
             Receive(w, rs), Settle(held[w].attrTo, st), ready' = ready
      PROVE  OneTaskPerRunningNode'
  <2>1. Owned(w) \in wf.nodes
    BY <1>1, ReceiveReleases
  <2>2. /\ state'[Owned(w)] # "running"
        /\ \A n \in wf.nodes \ {Owned(w)} : state'[n] = state[n]
    BY <1>1, <2>1 DEF Settle, Settled, Owned
  <2> QED
    BY <1>1, <2>2, ReleaseKeepsOwnership
<1>2. CASE CompleteUnapproved(w)
  <2>1. Receive(w, {"approval"}) /\ ready' = ready
    BY <1>2 DEF CompleteUnapproved
  <2>2. Owned(w) \in wf.nodes
    BY <2>1, ReceiveReleases DEF ReturnKinds
  <2>3. /\ state'[Owned(w)] # "running"
        /\ \A n \in wf.nodes \ {Owned(w)} : state'[n] = state[n]
    BY <1>2, <2>2 DEF CompleteUnapproved, Owned
  <2> QED
    BY <2>1, <2>3, ReleaseKeepsOwnership DEF ReturnKinds
<1>3. CASE CompleteRejected(w)
  BY <1>1, <1>3 DEF CompleteRejected, ReturnKinds, Settled
<1>4. CASE CompleteCollateral(w)
  BY <1>1, <1>4 DEF CompleteCollateral, Errors, ReturnKinds, Settled
<1>5. CASE CompleteFailed(w)
  BY <1>1, <1>5 DEF CompleteFailed, Errors, ReturnKinds, Settled
<1>6. CASE CompleteOk(w)
  BY <1>1, <1>6 DEF CompleteOk, ReturnKinds, Settled
<1>7. CASE CompleteByFallback(w)
  <2>1. Receive(w, Errors) /\ state' = state /\ wf' = wf
    BY <1>7 DEF CompleteByFallback, Receive, graphVars
  <2>2. PICK fb \in FallbackFor(held[w]) : ready' = ready \cup {[node |-> fb, attrTo |-> Owned(w)]}
    BY <1>7 DEF CompleteByFallback, Owned
  <2>3. /\ w \in Busy /\ Owned(w) \in wf.nodes
        /\ Busy' = Busy \ {w} /\ inFlight' = Cardinality(Busy')
        /\ \A v \in Busy' : held'[v] = held[v]
    BY <2>1, ReceiveReleases DEF Errors, ReturnKinds
  <2>4. \A v \in Busy' : Owned(v)' = Owned(v) /\ Owned(v) # Owned(w)
    BY <2>3 DEF Owned, OneTaskPerRunningNode, TasksApart
  <2>5. \A t \in ready : t.attrTo # Owned(w)
    BY <2>3 DEF OneTaskPerRunningNode, TasksApart
  <2>6. TasksRun'
    BY <2>1, <2>2, <2>3, <2>4 DEF OneTaskPerRunningNode, TasksRun
  <2>7. TasksApart'
    BY <2>2, <2>3, <2>4, <2>5 DEF OneTaskPerRunningNode, TasksApart
  <2>8. RunningHasTask'
    <3> SUFFICES ASSUME NEW n \in wf.nodes, state[n] = "running"
                 PROVE  (\E t \in ready' : t.attrTo = n) \/ (\E v \in Busy' : Owned(v)' = n)
      BY <2>1 DEF RunningHasTask
    <3>1. (\E t \in ready : t.attrTo = n) \/ (\E v \in Busy : Owned(v) = n)
      BY DEF OneTaskPerRunningNode, RunningHasTask
    <3> DEFINE new == [node |-> fb, attrTo |-> Owned(w)]
    <3>2. new \in ready' /\ new.attrTo = Owned(w)
      BY <2>2
    <3>3. ASSUME NEW v \in Busy, Owned(v) = n, n # Owned(w)
          PROVE  v \in Busy' /\ Owned(v)' = n
      BY <2>3, <2>4, <3>3
    <3> QED
      BY <2>2, <3>1, <3>2, <3>3
  <2> QED
    BY <2>3, <2>6, <2>7, <2>8 DEF OneTaskPerRunningNode
<1> QED
  BY <1>2, <1>3, <1>4, <1>5, <1>6, <1>7 DEF Complete

\* So does a step that leaves the tasks, and which nodes run, as they are.
LEMMA IdleStepsOwned ==
  ASSUME TypedOwned, wf' = wf, ready' = ready, held' = held, inFlight' = inFlight,
         \A n \in wf.nodes : state'[n] = "running" <=> state[n] = "running"
  PROVE  OneTaskPerRunningNode'
<1>1. Busy' = Busy /\ \A v \in Busy : Owned(v)' = Owned(v)
  BY DEF Busy, Owned
<1>2. /\ \A t \in ready : t.attrTo \in wf.nodes
      /\ \A v \in Busy : Owned(v) \in wf.nodes
  BY DEF TypedOwned, Typed, TypeOK, Busy, Owned
<1>3. TasksRun'
  BY <1>1, <1>2 DEF TypedOwned, OneTaskPerRunningNode, TasksRun
<1>4. TasksApart'
  BY <1>1 DEF TypedOwned, OneTaskPerRunningNode, TasksApart
<1>5. RunningHasTask'
  BY <1>1 DEF TypedOwned, OneTaskPerRunningNode, RunningHasTask
<1> QED
  BY <1>1, <1>3, <1>4, <1>5 DEF TypedOwned, OneTaskPerRunningNode

\* Activating a pending node gives it its task.
LEMMA ActivateOwned ==
  ASSUME TypedOwned, NEW n \in wf.nodes, Activate(n)
  PROVE  OneTaskPerRunningNode'
<1> DEFINE new == [node |-> n, attrTo |-> n]
<1>1. /\ state[n] = "pending" /\ state' = [state EXCEPT ![n] = "running"]
      /\ ready' = ready \cup {new} /\ wf' = wf
      /\ held' = held /\ inFlight' = inFlight
  BY DEF Activate, poolVars
<1>2. Busy' = Busy /\ \A v \in Busy : Owned(v)' = Owned(v)
  BY <1>1 DEF Busy, Owned
<1>3. /\ \A t \in ready : t.attrTo \in wf.nodes /\ t.attrTo # n
      /\ \A v \in Busy : Owned(v) \in wf.nodes /\ Owned(v) # n
  BY <1>1 DEF TypedOwned, Typed, TypeOK, Busy, Owned, OneTaskPerRunningNode, TasksRun
<1>4. state' \in [wf.nodes -> NodeStates] /\ state'[n] = "running"
      /\ \A m \in wf.nodes \ {n} : state'[m] = state[m]
  BY <1>1 DEF TypedOwned, Typed, TypeOK, NodeStates
<1>5. TasksRun'
  BY <1>1, <1>2, <1>3, <1>4 DEF TypedOwned, OneTaskPerRunningNode, TasksRun
<1>6. TasksApart'
  BY <1>1, <1>2, <1>3 DEF TypedOwned, OneTaskPerRunningNode, TasksApart
<1>7. RunningHasTask'
  <2> SUFFICES ASSUME NEW m \in wf.nodes, state'[m] = "running"
               PROVE  (\E t \in ready' : t.attrTo = m) \/ (\E v \in Busy : Owned(v) = m)
    BY <1>1, <1>2 DEF RunningHasTask
  <2>1. new \in ready' /\ new.attrTo = n
    BY <1>1
  <2>2. CASE m # n
    BY <1>1, <1>4, <2>2 DEF TypedOwned, OneTaskPerRunningNode, RunningHasTask
  <2> QED
    BY <2>1, <2>2
<1> QED
  BY <1>1, <1>2, <1>5, <1>6, <1>7 DEF TypedOwned, OneTaskPerRunningNode

\* Dispatching a task moves it from the queue to one idle worker.
LEMMA DispatchOwned ==
  ASSUME TypedOwned, NEW w \in Workers, NEW t \in ready, Dispatch(w, t)
  PROVE  OneTaskPerRunningNode'
<1> USE DEF TypedOwned, Typed, TypeOK
<1>1. /\ held[w] = NoTask /\ held' = [held EXCEPT ![w] = t]
      /\ ready' = ready \ {t} /\ inFlight' = inFlight + 1
      /\ state' = state /\ wf' = wf
  BY DEF Dispatch, Rest, graphVars
<1>2. t \in [node : wf.nodes, attrTo : wf.nodes] /\ t # NoTask
  BY TaskIsReal
<1>3. w \notin Busy /\ Busy' = Busy \cup {w}
  BY <1>1, <1>2 DEF Busy
<1>4. Owned(w)' = t.attrTo /\ \A v \in Busy : Owned(v)' = Owned(v)
  BY <1>1, <1>3 DEF Owned, Busy
<1>5. inFlight' = Cardinality(Busy')
  BY <1>1, <1>3, BusyFinite, FS_AddElement DEF OneTaskPerRunningNode
<1>6. /\ \A u \in ready' : u.attrTo # t.attrTo
      /\ \A v \in Busy : Owned(v) # t.attrTo
  BY <1>1 DEF OneTaskPerRunningNode, TasksApart
<1>7. TasksRun'
  BY <1>1, <1>3, <1>4 DEF OneTaskPerRunningNode, TasksRun
<1>8. TasksApart'
  BY <1>1, <1>3, <1>4, <1>6 DEF OneTaskPerRunningNode, TasksApart
<1>9. RunningHasTask'
  <2> SUFFICES ASSUME NEW m \in wf.nodes, state[m] = "running"
               PROVE  (\E u \in ready' : u.attrTo = m) \/ (\E v \in Busy' : Owned(v)' = m)
    BY <1>1 DEF RunningHasTask
  <2>1. (\E u \in ready : u.attrTo = m) \/ (\E v \in Busy : Owned(v) = m)
    BY DEF OneTaskPerRunningNode, RunningHasTask
  <2> QED
    BY <1>1, <1>3, <1>4, <2>1
<1> QED
  BY <1>5, <1>7, <1>8, <1>9 DEF OneTaskPerRunningNode

\* A run begins with no task and no running node, and every step keeps the
\* correspondence.
LEMMA InitOwned == Init => TypedOwned
<1> SUFFICES ASSUME Init PROVE TypedOwned
  OBVIOUS
<1>1. Typed
  BY InitTyped
<1>2. Busy = {} /\ ready = {} /\ inFlight = 0
  BY DEF Init, Busy
<1>3. \A n \in wf.nodes : state[n] # "running"
  BY DEF Init, InitialState
<1>4. inFlight = Cardinality(Busy)
  BY <1>2, FS_EmptySet
<1> QED
  BY <1>1, <1>2, <1>3, <1>4
  DEF TypedOwned, OneTaskPerRunningNode, TasksRun, TasksApart, RunningHasTask

LEMMA NextOwned == TypedOwned /\ [Next]_vars => TypedOwned'
<1> SUFFICES ASSUME TypedOwned, [Next]_vars PROVE OneTaskPerRunningNode'
  BY NextTyped DEF TypedOwned
<1>1. CASE UNCHANGED vars
  BY <1>1, IdleStepsOwned DEF vars
<1>2. CASE ParentCancel \/ RefuseToStart \/ Start \/ ObserveCancel
  BY <1>2, IdleStepsOwned DEF ParentCancel, RefuseToStart, Start, ObserveCancel,
                              graphVars, poolVars
<1>3. CASE Finish
  <2>1. \A n \in wf.nodes : state'[n] = "running" <=> state[n] = "running"
    BY <1>3 DEF Finish
  <2> QED
    BY <1>3, <2>1, IdleStepsOwned DEF Finish, poolVars
<1>4. ASSUME NEW w \in Workers, ExecuteNode(w)
      PROVE  OneTaskPerRunningNode'
  BY <1>4, IdleStepsOwned DEF ExecuteNode, graphVars
<1>5. ASSUME NEW n \in wf.nodes, Skip(n)
      PROVE  OneTaskPerRunningNode'
  <2>1. \A m \in wf.nodes : state'[m] = "running" <=> state[m] = "running"
    BY <1>5 DEF Skip, Settle, TypedOwned, Typed, TypeOK
  <2> QED
    BY <1>5, <2>1, IdleStepsOwned DEF Skip, poolVars
<1> QED
  BY <1>1, <1>2, <1>3, <1>4, <1>5, ActivateOwned, DispatchOwned, CompletionsOwned
  DEF Next, Coordinator, Returned

\* At every moment of every run each running node has exactly one task, in
\* the queue or with one worker, and inFlight counts the busy workers: for
\* every workflow and every size of the pool.
THEOREM OneTaskEach == Spec => []OneTaskPerRunningNode
<1>1. Init => TypedOwned
  BY InitOwned
<1>2. TypedOwned /\ [Next]_vars => TypedOwned'
  BY NextOwned
<1>3. TypedOwned => OneTaskPerRunningNode
  BY DEF TypedOwned
<1> QED
  BY <1>1, <1>2, <1>3, PTL DEF Spec

-----------------------------------------------------------------------------
(* What no step undoes. *)

SettledKept(n) == state[n] \in Settled => state'[n] = state[n]
StaysHalted == halted => halt' = halt /\ starts' = starts

\* A result settles, or reopens, only the running node it belongs to.
LEMMA CompletionsKeep ==
  ASSUME TypedOwned, NEW w \in Workers, Complete(w)
  PROVE  (\A n \in wf.nodes : SettledKept(n)) /\ StaysHalted
<1> USE DEF TypedOwned, Typed, TypeOK
<1>1. PICK rs \in SUBSET ReturnKinds : Receive(w, rs)
  BY DEF Complete, CompleteUnapproved, CompleteRejected, CompleteCollateral,
         CompleteByFallback, CompleteFailed, CompleteOk, Errors, ReturnKinds
<1>2. held[w].attrTo \in wf.nodes /\ state[held[w].attrTo] = "running"
  BY <1>1, ReceiveReleases DEF Owned, OneTaskPerRunningNode, TasksRun
<1>3. \A n \in wf.nodes \ {held[w].attrTo} : state'[n] = state[n]
  BY <1>2 DEF Complete, CompleteUnapproved, CompleteRejected, CompleteCollateral,
              CompleteByFallback, CompleteFailed, CompleteOk, Settle, graphVars
<1>4. \A n \in wf.nodes : SettledKept(n)
  BY <1>2, <1>3 DEF SettledKept, Settled
<1>5. starts' = starts
  BY <1>1 DEF Receive
<1>6. halted => halt' = halt
  BY DEF Complete, CompleteUnapproved, CompleteRejected, CompleteCollateral,
         CompleteByFallback, CompleteFailed, CompleteOk, FirstCause, CancelHalt
<1> QED
  BY <1>4, <1>5, <1>6 DEF StaysHalted

\* A decision is taken of a pending node only, and a halt hands out nothing.
LEMMA OtherStepsKeep ==
  ASSUME TypedOwned, [Next]_vars, \A w \in Workers : ~Complete(w)
  PROVE  (\A n \in wf.nodes : SettledKept(n)) /\ StaysHalted
<1> USE DEF TypedOwned, Typed, TypeOK, SettledKept, StaysHalted
<1>1. CASE UNCHANGED vars \/ ParentCancel \/ RefuseToStart \/ Start \/ ObserveCancel
  BY <1>1 DEF vars, ParentCancel, RefuseToStart, Start, ObserveCancel, CancelHalt, FirstCause,
              graphVars, poolVars
<1>2. CASE Finish
  BY <1>2 DEF Finish, Settled, poolVars
<1>3. ASSUME NEW n \in wf.nodes, Activate(n) \/ Skip(n)
      PROVE  (\A m \in wf.nodes : SettledKept(m)) /\ StaysHalted
  BY <1>3 DEF Activate, Skip, Settle, Settled, FirstCause, poolVars
<1>4. ASSUME NEW w \in Workers, ExecuteNode(w)
      PROVE  (\A m \in wf.nodes : SettledKept(m)) /\ StaysHalted
  BY <1>4 DEF ExecuteNode, graphVars
<1>5. ASSUME NEW w \in Workers, NEW t \in ready, Dispatch(w, t)
      PROVE  (\A m \in wf.nodes : SettledKept(m)) /\ StaysHalted
  BY <1>5 DEF Dispatch, graphVars
<1> QED
  BY <1>1, <1>2, <1>3, <1>4, <1>5 DEF Next, Coordinator, Returned

\* A settled node keeps its state, a halted run its cause, and after the halt
\* no worker is given anything: in every run of every workflow.
THEOREM NothingUndone == Spec => Irrevocable
<1>1. Init => TypedOwned
  BY InitOwned
<1>2. TypedOwned /\ [Next]_vars => TypedOwned'
  BY NextOwned
<1>3. TypedOwned /\ [Next]_vars =>
        [ /\ \A n \in wf.nodes : state[n] \in Settled => state'[n] = state[n]
          /\ halted => halt' = halt /\ starts' = starts ]_vars
  BY CompletionsKeep, OtherStepsKeep DEF SettledKept, StaysHalted
<1> QED
  BY <1>1, <1>2, <1>3, PTL DEF Spec, Irrevocable

-----------------------------------------------------------------------------
(* Decisions: each node is decided once, when its parents have settled.    *)

\* The parents n still waits for.
Waits(n) == Unsettled(n, state)

\* While a run goes on the counters count just those.
Counted == pc # "returned" => \A n \in wf.nodes : pendingParents[n] = Cardinality(Waits(n))
Due == \A n \in toDecide : Waits(n) = {}

\* Nothing was done on behalf of a node that is still to be decided.
Untouched(n) == starts[n] = 0 /\ n \notin fbTried /\ state[n] # "running"
Undecided(n) == pc = "start" \/ n \in toDecide \/ Waits(n) # {}
NotYet == pc # "returned" => \A n \in wf.nodes : Undecided(n) => Untouched(n)

\* A node that is started had one task, two with a fallback; a task that is
\* still queued counts.
Second(n) == IF n \in fbTried THEN 1 ELSE 0
Allowed ==
  /\ \A n \in wf.nodes : starts[n] <= 1 + Second(n)
  /\ \A t \in ready : starts[t.attrTo] <= Second(t.attrTo)
NeverBegun ==
  \A n \in wf.nodes :
    n \in wf.finished \/ (state[n] = "skipped" /\ ~SkippedAsUnneeded(n)) => starts[n] = 0
Reused == \A n \in wf.nodes : n \in wf.finished => state[n] = "succeeded"

\* How Joins has one node decided.
Joined(n) ==
  /\ state[n] \in {"running", "succeeded", "failed"} =>
       \A p \in Parents(n) : state[p] = "succeeded" /\ verdict[<<p, n>>] = "true"
  /\ state[n] = "skipped" /\ n \notin FallbackOnly =>
       \E p \in Parents(n) : \/ state[p] \in {"failed", "skipped"}
                             \/ verdict[<<p, n>>] \in {"false", "error"}

Decisive == TypedOwned /\ Counted /\ Due /\ NotYet
Careful == Allowed /\ NeverBegun /\ Reused /\ Joins

LEMMA WaitsFinite ==
  ASSUME wf \in Workflows, NEW n
  PROVE  IsFiniteSet(Waits(n))
<1>1. Waits(n) \in SUBSET wf.nodes
  BY DEF Waits, Unsettled, Parents
<1> QED
  BY <1>1, WorkflowShape, FS_Subset

\* A node that settles is waited for no more; a node becomes due when the last
\* of its parents settles, and not before.
LEMMA SettleDecides ==
  ASSUME Decisive, pc = "loop", NEW n \in wf.nodes, NEW st \in Settled,
         state[n] \notin Settled, Settle(n, st), wf' = wf
  PROVE  /\ \A m \in wf.nodes : Waits(m)' = Waits(m) \ {n}
         /\ \A m \in wf.nodes : pendingParents'[m] = Cardinality(Waits(m)')
         /\ \A m \in toDecide' : Waits(m)' = {}
         /\ \A m \in toDecide' \ toDecide : Waits(m) # {}
<1> USE DEF Decisive, TypedOwned, Typed, TypeOK
<1>1. state'[n] \in Settled /\ \A m \in wf.nodes \ {n} : state'[m] = state[m]
  BY DEF Settle
<1>2. \A m \in wf.nodes : Waits(m)' = Waits(m) \ {n}
  BY <1>1 DEF Waits, Unsettled, Parents
<1>3. \A m \in wf.nodes : m \in Children(n) <=> n \in Waits(m)
  BY DEF Children, Waits, Unsettled, Parents
<1>4. ASSUME NEW m \in wf.nodes
      PROVE  pendingParents'[m] = Cardinality(Waits(m)')
  <2>1. pendingParents[m] = Cardinality(Waits(m))
    BY DEF Counted
  <2>2. pendingParents'[m] = pendingParents[m] - (IF m \in Children(n) THEN 1 ELSE 0)
    BY DEF Settle
  <2>3. CASE n \in Waits(m)
    <3>1. Cardinality(Waits(m) \ {n}) = Cardinality(Waits(m)) - 1
      BY <2>3, WaitsFinite, FS_RemoveElement
    <3> QED
      BY <1>2, <1>3, <2>1, <2>2, <2>3, <3>1
  <2>4. CASE n \notin Waits(m)
    <3>0. Waits(m) \ {n} = Waits(m)
      BY <2>4
    <3>1. Waits(m)' = Waits(m) /\ m \notin Children(n)
      BY <1>2, <1>3, <2>4, <3>0
    <3>2. pendingParents[m] \in Int
      OBVIOUS
    <3> QED
      BY <2>1, <2>2, <3>1, <3>2
  <2> QED
    BY <2>3, <2>4
<1>5. ASSUME NEW m \in toDecide'
      PROVE  Waits(m)' = {} /\ (m \in toDecide \/ Waits(m) # {})
  <2>1. m \in toDecide \/ (m \in Children(n) /\ pendingParents'[m] = 0)
    BY DEF Settle
  <2>2. CASE m \in toDecide
    <3>1. Waits(m) = {}
      BY <2>2 DEF Due
    <3> QED
      BY <1>2, <2>2, <3>1
  <2>3. CASE m \in Children(n) /\ pendingParents'[m] = 0
    <3>1. m \in wf.nodes /\ n \in Waits(m)
      BY <1>3, <2>3 DEF Children
    <3>2. Cardinality(Waits(m)') = 0
      BY <1>4, <2>3, <3>1
    <3>3. IsFiniteSet(Waits(m)')
      BY <1>2, <3>1, WaitsFinite, FS_Subset
    <3> QED
      BY <3>1, <3>2, <3>3, FS_EmptySet
  <2> QED
    BY <2>1, <2>2, <2>3
<1> QED
  BY <1>2, <1>4, <1>5

\* A step that decides nothing leaves what is known of the decisions.
LEMMA NoDecision ==
  ASSUME Decisive, wf' = wf, pc' \in {pc, "returned"},
         \A n \in wf.nodes : state'[n] \in Settled <=> state[n] \in Settled,
         pendingParents' = pendingParents, toDecide' \subseteq toDecide
  PROVE  /\ Counted' /\ Due'
         /\ \A n \in wf.nodes : Waits(n)' = Waits(n)
         /\ pc' # "returned" => pc # "returned" /\ \A n \in wf.nodes : Undecided(n)' => Undecided(n)
<1> USE DEF Decisive, TypedOwned, Typed, TypeOK
<1>1. \A n \in wf.nodes : Waits(n)' = Waits(n)
  BY DEF Waits, Unsettled, Parents
<1>2. Counted' /\ Due'
  BY <1>1 DEF Counted, Due
<1> QED
  BY <1>1, <1>2 DEF Undecided

LEMMA JoinedNodes ==
  /\ Joins <=> \A n \in wf.nodes \ wf.finished : Joined(n)
  /\ Joins' <=> \A n \in (wf.nodes \ wf.finished)' : Joined(n)'
BY DEF Joins, Joined

LEMMA JoinsSame ==
  ASSUME Joins, UNCHANGED <<wf, state, verdict>>
  PROVE  Joins'
BY DEF Joins, Parents, FallbackOnly

\* What is left is each kind of step.  Some touch no node at all.
LEMMA QuietStep ==
  ASSUME Decisive, Careful, wf' = wf, pc' \in {pc, "returned"}, ready' = ready,
         UNCHANGED <<graphVars, starts, fbTried, verdict>>
  PROVE  (Counted /\ Due /\ NotYet)' /\ Careful'
<1> USE DEF graphVars
<1>1. /\ Counted' /\ Due'
      /\ pc' # "returned" => pc # "returned" /\ \A n \in wf.nodes : Undecided(n)' => Undecided(n)
  BY NoDecision
<1>2. NotYet'
  BY <1>1 DEF NotYet, Decisive, Untouched
<1>3. Allowed' /\ Reused'
  BY DEF Careful, Allowed, Second, Reused
<1>4. NeverBegun'
  BY DEF Careful, NeverBegun, SkippedAsUnneeded, FallbackOnly
<1>5. Joins'
  BY JoinsSame DEF Careful
<1> QED
  BY <1>1, <1>2, <1>3, <1>4, <1>5 DEF Careful

\* The roots are due from the start.
LEMMA StartStep ==
  ASSUME Decisive, Careful, Start
  PROVE  (Counted /\ Due /\ NotYet)' /\ Careful'
<1> USE DEF Decisive, TypedOwned, Typed, TypeOK
<1>1. /\ pc = "start" /\ pc' = "loop" /\ toDecide' = Seeds /\ wf' = wf /\ verdict' = verdict
      /\ UNCHANGED <<state, pendingParents, ready, starts, fbTried>>
  BY DEF Start, poolVars
<1>2. \A n \in wf.nodes : Waits(n)' = Waits(n)
  BY <1>1 DEF Waits, Unsettled, Parents
<1>3. Counted'
  BY <1>1, <1>2 DEF Counted
<1>4. Due'
  <2> SUFFICES ASSUME NEW n \in Seeds PROVE Waits(n) = {}
    BY <1>1, <1>2 DEF Due, Seeds
  <2>1. n \in wf.nodes /\ Cardinality(Waits(n)) = 0
    BY <1>1 DEF Seeds, Counted
  <2> QED
    BY <2>1, WaitsFinite, FS_EmptySet
<1>5. NotYet'
  BY <1>1 DEF NotYet, Undecided, Untouched
<1>6. Allowed' /\ Reused' /\ NeverBegun'
  BY <1>1 DEF Careful, Allowed, Second, Reused, NeverBegun, SkippedAsUnneeded
<1>7. Joins'
  BY <1>1, JoinsSame DEF Careful
<1> QED
  BY <1>3, <1>4, <1>5, <1>6, <1>7 DEF Careful

\* The verdicts on the edges into a node are its own decision's.
LEMMA RecordsOwnEdges ==
  ASSUME NEW n, NEW v, wf \in Workflows, Record(n, v)
  PROVE  /\ \A m \in wf.nodes \ {n} : \A p \in Parents(m) : verdict'[<<p, m>>] = verdict[<<p, m>>]
         /\ \A p \in Live(n) : verdict'[<<p, n>>] = v[p]
BY DEF Record, Parents, Live

\* The edges of another node: what they were decided on stays.
LEMMA JoinsForOthers ==
  ASSUME Careful, NEW n \in wf.nodes, state[n] \notin Settled, wf' = wf,
         \A m \in wf.nodes \ {n} : state'[m] = state[m],
         \A m \in wf.nodes \ {n} : \A p \in Parents(m) : verdict'[<<p, m>>] = verdict[<<p, m>>],
         NEW m \in wf.nodes \ wf.finished, m # n
  PROVE  Joined(m)'
<1>1. state'[m] = state[m] /\ Parents(m) \subseteq wf.nodes
  BY DEF Parents
<1>2. \A p \in Parents(m) : state[p] \in Settled => state'[p] = state[p]
  BY <1>1
<1>3. Joined(m)
  BY JoinedNodes DEF Careful
<1>4. Parents(m)' = Parents(m) /\ FallbackOnly' = FallbackOnly
  BY DEF Parents, FallbackOnly
<1> QED
  BY <1>1, <1>2, <1>3, <1>4 DEF Joined, Settled

\* An activated node has all its parents behind it.
LEMMA ActivateStep ==
  ASSUME Decisive, Careful, NEW n \in wf.nodes, Activate(n)
  PROVE  (Counted /\ Due /\ NotYet)' /\ Careful'
<1> USE DEF Decisive, TypedOwned, Typed, TypeOK
<1>1. /\ pc = "loop" /\ pc' = pc /\ n \in toDecide /\ state[n] = "pending" /\ wf' = wf
      /\ state' = [state EXCEPT ![n] = "running"] /\ toDecide' = toDecide \ {n}
      /\ ready' = ready \cup {[node |-> n, attrTo |-> n]}
      /\ UNCHANGED <<pendingParents, starts, fbTried>>
  BY DEF Activate, poolVars
<1>2. PICK v \in Evaluations(n) : Active(n, v) /\ Record(n, v)
  BY DEF Activate
<1>3. state'[n] = "running" /\ \A m \in wf.nodes \ {n} : state'[m] = state[m]
  BY <1>1
<1>4. /\ Counted' /\ Due' /\ \A m \in wf.nodes : Waits(m)' = Waits(m)
      /\ \A m \in wf.nodes : Undecided(m)' => Undecided(m)
  <2>1. \A m \in wf.nodes : state'[m] \in Settled <=> state[m] \in Settled
    BY <1>1, <1>3 DEF Settled
  <2> QED
    BY <1>1, <2>1, NoDecision
<1>5. Untouched(n) /\ Waits(n) = {}
  BY <1>1 DEF NotYet, Undecided, Due
<1>6. NotYet'
  <2> SUFFICES ASSUME NEW m \in wf.nodes, Undecided(m)' PROVE Untouched(m)'
    BY <1>1 DEF NotYet
  <2>1. m # n
    BY <1>1, <1>4, <1>5 DEF Undecided
  <2> QED
    BY <1>1, <1>3, <1>4, <2>1 DEF NotYet, Untouched
<1>7. Allowed'
  BY <1>1, <1>5 DEF Careful, Allowed, Second, Untouched
<1>8. NeverBegun' /\ Reused'
  BY <1>1, <1>3 DEF Careful, NeverBegun, SkippedAsUnneeded, Reused
<1>9. Joins'
  <2>1. \A p \in Parents(n) : p \in Live(n) /\ v[p] = "true" /\ p # n /\ p \in wf.nodes
    BY <1>1, <1>2 DEF Active, Live, Parents
  <2>2. /\ \A m \in wf.nodes \ {n} : \A p \in Parents(m) : verdict'[<<p, m>>] = verdict[<<p, m>>]
        /\ \A p \in Live(n) : verdict'[<<p, n>>] = v[p]
    BY <1>2, RecordsOwnEdges
  <2>3. \A p \in Parents(n) : state'[p] = "succeeded" /\ verdict'[<<p, n>>] = "true"
    <3> SUFFICES ASSUME NEW p \in Parents(n)
                 PROVE  state'[p] = "succeeded" /\ verdict'[<<p, n>>] = "true"
      OBVIOUS
    <3>1. p \in Live(n) /\ v[p] = "true" /\ p \in wf.nodes \ {n}
      BY <2>1
    <3>2. state'[p] = state[p] /\ state[p] = "succeeded"
      BY <1>3, <3>1 DEF Live
    <3> QED
      BY <2>2, <3>1, <3>2
  <2>4. Joined(n)'
    BY <1>1, <1>3, <2>3 DEF Joined, Parents
  <2>5. state[n] \notin Settled
    BY <1>1 DEF Settled
  <2>6. \A m \in wf.nodes \ wf.finished : m # n => Joined(m)'
    BY <1>1, <1>3, <2>2, <2>5, JoinsForOthers
  <2> QED
    BY <1>1, <2>4, <2>6, JoinedNodes
<1> QED
  BY <1>4, <1>6, <1>7, <1>8, <1>9 DEF Careful

\* A skipped node has an inactive edge, and nothing was done for it.
LEMMA SkipStep ==
  ASSUME Decisive, Careful, NEW n \in wf.nodes, Skip(n)
  PROVE  (Counted /\ Due /\ NotYet)' /\ Careful'
<1> USE DEF Decisive, TypedOwned, Typed, TypeOK
<1>1. /\ pc = "loop" /\ pc' = pc /\ n \in toDecide /\ state[n] = "pending" /\ wf' = wf
      /\ Settle(n, "skipped") /\ "skipped" \in Settled /\ state[n] \notin Settled
      /\ UNCHANGED <<ready, starts, fbTried>>
  BY DEF Skip, poolVars, Settled
<1>2. PICK v \in Evaluations(n) : ~Active(n, v) /\ Record(n, v)
  BY DEF Skip
<1>3. state'[n] = "skipped" /\ \A m \in wf.nodes \ {n} : state'[m] = state[m]
  BY <1>1 DEF Settle
<1>4. /\ \A m \in wf.nodes : Waits(m)' = Waits(m) \ {n}
      /\ \A m \in wf.nodes : pendingParents'[m] = Cardinality(Waits(m)')
      /\ \A m \in toDecide' : Waits(m)' = {}
      /\ \A m \in toDecide' \ toDecide : Waits(m) # {}
  BY <1>1, SettleDecides
<1>5. Counted' /\ Due'
  BY <1>1, <1>4 DEF Counted, Due
<1>6. Untouched(n) /\ Waits(n) = {}
  BY <1>1 DEF NotYet, Undecided, Due
<1>7. NotYet'
  <2> SUFFICES ASSUME NEW m \in wf.nodes, Undecided(m)' PROVE Untouched(m)'
    BY <1>1 DEF NotYet
  <2>1. Undecided(m)
    BY <1>1, <1>4 DEF Undecided
  <2> QED
    BY <1>1, <1>3, <2>1 DEF NotYet, Untouched
<1>8. Allowed'
  BY <1>1 DEF Careful, Allowed, Second
<1>9. NeverBegun' /\ Reused'
  <2>1. Reused'
    BY <1>1, <1>3 DEF Careful, Reused
  <2>2. starts'[n] = 0
    BY <1>1, <1>6 DEF Untouched
  <2>3. \A m \in wf.nodes \ {n} : SkippedAsUnneeded(m)' <=> SkippedAsUnneeded(m)
    BY <1>1, <1>3 DEF SkippedAsUnneeded, FallbackOnly
  <2>4. NeverBegun'
    BY <1>1, <1>3, <2>2, <2>3 DEF Careful, NeverBegun
  <2> QED
    BY <2>1, <2>4
<1>10. Joins'
  <2>1. /\ \A m \in wf.nodes \ {n} : \A p \in Parents(m) : verdict'[<<p, m>>] = verdict[<<p, m>>]
        /\ \A p \in Live(n) : verdict'[<<p, n>>] = v[p]
    BY <1>2, RecordsOwnEdges
  <2>2. \E p \in Parents(n) : \/ state[p] \in {"failed", "skipped"}
                              \/ verdict'[<<p, n>>] \in {"false", "error"}
    <3>1. CASE Live(n) # Parents(n)
      <4>1. PICK p \in Parents(n) : state[p] # "succeeded"
        BY <3>1 DEF Live
      <4>2. p \in wf.nodes /\ state[p] \in Settled
        BY <1>6, <4>1 DEF Waits, Unsettled, Parents
      <4> QED
        BY <4>1, <4>2 DEF Settled
    <3>2. CASE Live(n) = Parents(n)
      <4>1. PICK p \in Live(n) : v[p] # "true"
        BY <1>2, <3>2 DEF Active
      <4>2. v[p] \in {"false", "error"}
        BY <4>1 DEF Evaluations
      <4>3. p \in Parents(n) /\ verdict'[<<p, n>>] = v[p]
        BY <2>1, <3>2
      <4> QED
        BY <4>2, <4>3
    <3> QED
      BY <3>1, <3>2
  <2>3. \E p \in Parents(n) : \/ state'[p] \in {"failed", "skipped"}
                              \/ verdict'[<<p, n>>] \in {"false", "error"}
    BY <1>1, <1>3, <2>2 DEF Parents
  <2>4. Joined(n)'
    BY <1>1, <1>3, <2>3 DEF Joined, Parents
  <2>5. \A m \in wf.nodes \ wf.finished : m # n => Joined(m)'
    BY <1>1, <1>3, <2>1, JoinsForOthers
  <2> QED
    BY <1>1, <2>4, <2>5, JoinedNodes
<1> QED
  BY <1>5, <1>7, <1>8, <1>9, <1>10 DEF Careful

\* A task that is handed out is its node's first, or its fallback's.
LEMMA DispatchStep ==
  ASSUME Decisive, Careful, NEW w \in Workers, NEW t \in ready, Dispatch(w, t)
  PROVE  (Counted /\ Due /\ NotYet)' /\ Careful'
<1> USE DEF Decisive, TypedOwned, Typed, TypeOK
<1>1. /\ ready' = ready \ {t} /\ starts' = [starts EXCEPT ![t.attrTo] = @ + 1]
      /\ UNCHANGED <<wf, pc, state, pendingParents, toDecide, verdict, fbTried>>
  BY DEF Dispatch, Rest, graphVars
<1>2. /\ t.attrTo \in wf.nodes /\ state[t.attrTo] = "running"
      /\ \A u \in ready' : u.attrTo \in wf.nodes \ {t.attrTo}
  BY <1>1 DEF OneTaskPerRunningNode, TasksRun, TasksApart
<1>3. /\ Counted' /\ Due'
      /\ pc' # "returned" => pc # "returned" /\ \A n \in wf.nodes : Undecided(n)' => Undecided(n)
  BY <1>1, NoDecision
<1>4. starts'[t.attrTo] = starts[t.attrTo] + 1
      /\ \A n \in wf.nodes \ {t.attrTo} : starts'[n] = starts[n]
  BY <1>1, <1>2
<1>5. NotYet'
  <2> SUFFICES ASSUME pc # "returned", NEW n \in wf.nodes, Undecided(n) PROVE Untouched(n)'
    BY <1>1, <1>3 DEF NotYet
  <2>1. Untouched(n) /\ n # t.attrTo
    BY <1>2 DEF NotYet, Untouched
  <2> QED
    BY <1>1, <1>4, <2>1 DEF Untouched
<1>6. Allowed'
  <2>1. starts[t.attrTo] <= Second(t.attrTo) /\ Second(t.attrTo) \in Int
    BY DEF Careful, Allowed, Second
  <2>2. \A n : Second(n)' = Second(n)
    BY <1>1 DEF Second
  <2>3. \A n \in wf.nodes : starts'[n] <= 1 + Second(n)
    <3> SUFFICES ASSUME NEW n \in wf.nodes PROVE starts'[n] <= 1 + Second(n)
      OBVIOUS
    <3>1. CASE n = t.attrTo
      BY <1>4, <2>1, <3>1
    <3>2. CASE n # t.attrTo
      BY <1>4, <3>2 DEF Careful, Allowed
    <3> QED
      BY <3>1, <3>2
  <2>4. \A u \in ready' : starts'[u.attrTo] <= Second(u.attrTo)
    BY <1>1, <1>2, <1>4 DEF Careful, Allowed
  <2> QED
    BY <1>1, <2>2, <2>3, <2>4 DEF Allowed
<1>7. NeverBegun' /\ Reused'
  BY <1>1, <1>2, <1>4 DEF Careful, NeverBegun, Reused, SkippedAsUnneeded, FallbackOnly
<1>8. Joins'
  BY <1>1, JoinsSame DEF Careful
<1> QED
  BY <1>3, <1>5, <1>6, <1>7, <1>8 DEF Careful

\* A result that settles its node.
LEMMA SettledStep ==
  ASSUME Decisive, Careful, NEW w \in Workers, NEW rs \in SUBSET ReturnKinds, Receive(w, rs),
         NEW st \in {"failed", "succeeded"}, Settle(Owned(w), st), UNCHANGED <<ready, fbTried>>
  PROVE  (Counted /\ Due /\ NotYet)' /\ Careful'
<1> USE DEF Decisive, TypedOwned, Typed, TypeOK
<1>1. pc = "loop" /\ UNCHANGED <<wf, pc, verdict, starts, ready, fbTried>>
  BY DEF Receive, Selecting
<1>0. PICK n \in wf.nodes : n = Owned(w) /\ state[n] = "running"
  BY ReceiveReleases DEF OneTaskPerRunningNode, TasksRun
<1>2. n \in wf.nodes /\ state[n] = "running" /\ state[n] \notin Settled /\ st \in Settled
  BY <1>0 DEF Settled
<1>3. state'[n] = st /\ \A m \in wf.nodes \ {n} : state'[m] = state[m]
  BY <1>0, <1>2 DEF Settle
<1>4. /\ \A m \in wf.nodes : Waits(m)' = Waits(m) \ {n}
      /\ \A m \in wf.nodes : pendingParents'[m] = Cardinality(Waits(m)')
      /\ \A m \in toDecide' : Waits(m)' = {}
      /\ \A m \in toDecide' \ toDecide : Waits(m) # {}
  BY <1>0, <1>1, <1>2, SettleDecides
<1>5. Counted' /\ Due'
  BY <1>1, <1>4 DEF Counted, Due
<1>6. NotYet'
  <2> SUFFICES ASSUME NEW m \in wf.nodes, Undecided(m)' PROVE Untouched(m)'
    BY <1>1 DEF NotYet
  <2>1. Undecided(m)
    BY <1>1, <1>4 DEF Undecided
  <2> QED
    BY <1>1, <1>3, <2>1 DEF NotYet, Untouched
<1>7. Allowed'
  BY <1>1 DEF Careful, Allowed, Second
<1>8. NeverBegun' /\ Reused'
  <2>1. n \notin wf.finished /\ state'[n] # "skipped"
    BY <1>2, <1>3 DEF Careful, Reused
  <2>2. Reused'
    BY <1>1, <1>3, <2>1 DEF Careful, Reused
  <2>3. \A m \in wf.nodes \ {n} : SkippedAsUnneeded(m)' <=> SkippedAsUnneeded(m)
    BY <1>1, <1>3 DEF SkippedAsUnneeded, FallbackOnly
  <2>4. NeverBegun'
    BY <1>1, <1>3, <2>1, <2>3 DEF Careful, NeverBegun
  <2> QED
    BY <2>2, <2>4
<1>9. Joins'
  <2>1. n \notin wf.finished
    BY <1>2 DEF Careful, Reused
  <2>2. Joined(n)
    BY <1>2, <2>1, JoinedNodes DEF Careful
  <2>3. \A p \in Parents(n) : p \in wf.nodes \ {n} /\ state[p] = "succeeded" /\ verdict[<<p, n>>] = "true"
    BY <1>2, <2>2 DEF Joined, Parents
  <2>4. Joined(n)'
    BY <1>1, <1>3, <2>3 DEF Joined, Parents
  <2>5. \A m \in wf.nodes \ wf.finished : m # n => Joined(m)'
    BY <1>1, <1>2, <1>3, JoinsForOthers
  <2> QED
    BY <1>1, <2>4, <2>5, JoinedNodes
<1> QED
  BY <1>5, <1>6, <1>7, <1>8, <1>9 DEF Careful

\* One that asks for an approval puts its node back, but not among the
\* undecided.
LEMMA UnapprovedStep ==
  ASSUME Decisive, Careful, NEW w \in Workers, CompleteUnapproved(w)
  PROVE  (Counted /\ Due /\ NotYet)' /\ Careful'
<1> USE DEF Decisive, TypedOwned, Typed, TypeOK
<1>0. PICK n \in wf.nodes : n = Owned(w) /\ state[n] = "running"
  BY ReceiveReleases DEF CompleteUnapproved, OneTaskPerRunningNode, TasksRun, ReturnKinds
<1>1. /\ UNCHANGED <<wf, pc, verdict, starts, ready, fbTried, pendingParents, toDecide>>
      /\ state' = [state EXCEPT ![n] = "pending"] /\ Receive(w, {"approval"}) /\ pc = "loop"
  BY <1>0 DEF CompleteUnapproved, Receive, Selecting, Owned
<1>2. n \in wf.nodes /\ state[n] = "running"
  BY <1>0
<1>3. state'[n] = "pending" /\ \A m \in wf.nodes \ {n} : state'[m] = state[m]
  BY <1>1, <1>2
<1>4. /\ Counted' /\ Due'
      /\ pc' # "returned" => pc # "returned" /\ \A m \in wf.nodes : Undecided(m)' => Undecided(m)
  <2>1. \A m \in wf.nodes : state'[m] \in Settled <=> state[m] \in Settled
    BY <1>2, <1>3 DEF Settled
  <2> QED
    BY <1>1, <2>1, NoDecision
<1>5. NotYet'
  <2> SUFFICES ASSUME pc # "returned", NEW m \in wf.nodes, Undecided(m) PROVE Untouched(m)'
    BY <1>1, <1>4 DEF NotYet
  <2>1. Untouched(m) /\ m # n
    BY <1>2 DEF NotYet, Untouched
  <2> QED
    BY <1>1, <1>3, <2>1 DEF Untouched
<1>6. Allowed'
  BY <1>1 DEF Careful, Allowed, Second
<1>7. NeverBegun' /\ Reused'
  <2>1. n \notin wf.finished /\ state'[n] # "skipped"
    BY <1>2, <1>3 DEF Careful, Reused
  <2>2. Reused'
    BY <1>1, <1>3, <2>1 DEF Careful, Reused
  <2>3. \A m \in wf.nodes \ {n} : SkippedAsUnneeded(m)' <=> SkippedAsUnneeded(m)
    BY <1>1, <1>3 DEF SkippedAsUnneeded, FallbackOnly
  <2>4. NeverBegun'
    BY <1>1, <1>3, <2>1, <2>3 DEF Careful, NeverBegun
  <2> QED
    BY <2>2, <2>4
<1>8. Joins'
  <2>1. state[n] \notin Settled /\ Joined(n)'
    BY <1>2, <1>3 DEF Settled, Joined
  <2>2. \A m \in wf.nodes \ wf.finished : m # n => Joined(m)'
    BY <1>1, <1>2, <1>3, <2>1, JoinsForOthers
  <2> QED
    BY <1>1, <2>1, <2>2, JoinedNodes
<1> QED
  BY <1>4, <1>5, <1>6, <1>7, <1>8 DEF Careful

\* A fallback is a second task, and the last.
LEMMA FallbackStep ==
  ASSUME Decisive, Careful, NEW w \in Workers, CompleteByFallback(w)
  PROVE  (Counted /\ Due /\ NotYet)' /\ Careful'
<1> USE DEF Decisive, TypedOwned, Typed, TypeOK
<1>0. PICK n \in wf.nodes : n = Owned(w) /\ state[n] = "running"
  BY ReceiveReleases
  DEF CompleteByFallback, OneTaskPerRunningNode, TasksRun, ReturnKinds, Errors
<1>1. PICK fb \in FallbackFor(held[w]) : ready' = ready \cup {[node |-> fb, attrTo |-> n]}
  BY <1>0 DEF CompleteByFallback, Owned
<1>2. /\ UNCHANGED <<wf, pc, verdict, starts, state, pendingParents, toDecide>>
      /\ fbTried' = fbTried \cup {n} /\ Receive(w, Errors) /\ pc = "loop"
  BY <1>0 DEF CompleteByFallback, Receive, Selecting, Owned, graphVars
<1>3. n \in wf.nodes /\ state[n] = "running"
  BY <1>0
<1>4. n \notin fbTried
  BY <1>0 DEF FallbackFor, Owned
<1>5. /\ Counted' /\ Due'
      /\ pc' # "returned" => pc # "returned" /\ \A m \in wf.nodes : Undecided(m)' => Undecided(m)
  BY <1>2, NoDecision
<1>6. NotYet'
  <2> SUFFICES ASSUME pc # "returned", NEW m \in wf.nodes, Undecided(m) PROVE Untouched(m)'
    BY <1>2, <1>5 DEF NotYet
  <2>1. Untouched(m) /\ m # n
    BY <1>3 DEF NotYet, Untouched
  <2> QED
    BY <1>2, <2>1 DEF Untouched
<1>7. Allowed'
  <2>1. Second(n) = 0 /\ Second(n)' = 1 /\ \A m \in wf.nodes \ {n} : Second(m)' = Second(m)
    BY <1>2, <1>4 DEF Second
  <2>2. \A m \in wf.nodes : starts[m] <= 1 + Second(m)'
    <3> SUFFICES ASSUME NEW m \in wf.nodes PROVE starts[m] <= 1 + Second(m)'
      OBVIOUS
    <3>1. starts[m] <= 1 + Second(m) /\ starts[m] \in Nat
      BY DEF Careful, Allowed
    <3>2. CASE m = n
      BY <2>1, <3>1, <3>2
    <3>3. CASE m # n
      BY <2>1, <3>1, <3>3
    <3> QED
      BY <3>2, <3>3
  <2>3. ASSUME NEW t \in ready' PROVE starts[t.attrTo] <= Second(t.attrTo)'
    <3>1. CASE t \in ready
      <4>1. t.attrTo \in wf.nodes \ {n}
        BY <1>0, <1>2, <3>1, ReceiveReleases
        DEF OneTaskPerRunningNode, TasksApart, ReturnKinds, Errors
      <4> QED
        BY <2>1, <3>1, <4>1 DEF Careful, Allowed
    <3>2. CASE t = [node |-> fb, attrTo |-> n]
      <4>1. t.attrTo = n /\ starts[n] <= 1
        BY <1>3, <2>1, <3>2 DEF Careful, Allowed
      <4> QED
        BY <2>1, <4>1
    <3> QED
      BY <1>1, <3>1, <3>2
  <2> QED
    BY <1>2, <2>2, <2>3 DEF Allowed
<1>8. NeverBegun' /\ Reused'
  BY <1>2 DEF Careful, NeverBegun, Reused, SkippedAsUnneeded, FallbackOnly
<1>9. Joins'
  BY <1>2, JoinsSame DEF Careful
<1> QED
  BY <1>5, <1>6, <1>7, <1>8, <1>9 DEF Careful

\* In the end fallback nodes that wait for nothing are skipped.
LEMMA FinishStep ==
  ASSUME Decisive, Careful, Finish
  PROVE  (Counted /\ Due /\ NotYet)' /\ Careful'
<1> USE DEF Decisive, TypedOwned, Typed, TypeOK
<1>1. /\ pc = "loop" /\ pc' = "returned" /\ toDecide' = {} /\ UNCHANGED <<wf, verdict, starts, ready, fbTried>>
      /\ \A n \in wf.nodes :
           state'[n] = IF n \in FallbackOnly /\ state[n] = "pending" THEN "skipped" ELSE state[n]
  BY DEF Finish, poolVars
<1>2. Counted' /\ Due' /\ NotYet'
  BY <1>1 DEF Counted, Due, NotYet
<1>3. FallbackOnly' = FallbackOnly
  BY <1>1 DEF FallbackOnly
<1>4. Allowed' /\ Reused'
  BY <1>1 DEF Careful, Allowed, Second, Reused
<1>5. NeverBegun'
  BY <1>1, <1>3 DEF Careful, NeverBegun, SkippedAsUnneeded
<1>6. Joins'
  <2> SUFFICES ASSUME NEW n \in wf.nodes \ wf.finished PROVE Joined(n)'
    BY <1>1, JoinedNodes
  <2>1. Joined(n) /\ Parents(n)' = Parents(n) /\ Parents(n) \subseteq wf.nodes
    BY <1>1, JoinedNodes DEF Careful, Parents
  <2>2. \A p \in Parents(n) : state[p] # "pending" => state'[p] = state[p]
    BY <1>1, <2>1
  <2>3. state'[n] = state[n] \/ (state'[n] = "skipped" /\ n \in FallbackOnly)
    BY <1>1
  <2> QED
    BY <1>1, <1>3, <2>1, <2>2, <2>3 DEF Joined
<1> QED
  BY <1>2, <1>4, <1>5, <1>6 DEF Careful

\* Every completion is one of the three.
LEMMA CompletionsCareful ==
  ASSUME Decisive, Careful, NEW w \in Workers, Complete(w)
  PROVE  (Counted /\ Due /\ NotYet)' /\ Careful'
<1>1. CASE CompleteRejected(w)
  <2>1. /\ Receive(w, {"rejected"}) /\ {"rejected"} \in SUBSET ReturnKinds
        /\ Settle(Owned(w), "failed") /\ UNCHANGED <<ready, fbTried>>
    BY <1>1 DEF CompleteRejected, Owned, ReturnKinds
  <2> QED
    BY <2>1, SettledStep
<1>2. CASE CompleteCollateral(w) \/ CompleteFailed(w)
  <2>1. /\ Receive(w, Errors) /\ Errors \in SUBSET ReturnKinds
        /\ Settle(Owned(w), "failed") /\ UNCHANGED <<ready, fbTried>>
    BY <1>2 DEF CompleteCollateral, CompleteFailed, Owned, Errors, ReturnKinds
  <2> QED
    BY <2>1, SettledStep
<1>3. CASE CompleteOk(w)
  <2>1. /\ Receive(w, {"ok"}) /\ {"ok"} \in SUBSET ReturnKinds
        /\ Settle(Owned(w), "succeeded") /\ UNCHANGED <<ready, fbTried>>
    BY <1>3 DEF CompleteOk, Owned, ReturnKinds
  <2> QED
    BY <2>1, SettledStep
<1> QED
  BY <1>1, <1>2, <1>3, UnapprovedStep, FallbackStep DEF Complete

LEMMA InitCareful == Init => Decisive /\ Careful
<1> SUFFICES ASSUME Init PROVE Decisive /\ Careful
  OBVIOUS
<1>1. TypedOwned
  BY InitOwned
<1> USE DEF TypedOwned, Typed, TypeOK
<1>2. /\ pc = "start" /\ state = InitialState /\ toDecide = {} /\ ready = {} /\ fbTried = {}
      /\ \A n \in wf.nodes : /\ starts[n] = 0
                             /\ pendingParents[n] = Cardinality(Unsettled(n, state))
                             /\ state[n] = IF n \in wf.finished THEN "succeeded" ELSE "pending"
  BY DEF Init, InitialState
<1>3. Counted /\ Due /\ NotYet
  BY <1>2 DEF Counted, Due, NotYet, Untouched, Waits
<1>4. Allowed /\ NeverBegun /\ Reused
  BY <1>2 DEF Allowed, Second, NeverBegun, Reused
<1>5. Joins
  BY <1>2 DEF Joins
<1> QED
  BY <1>1, <1>3, <1>4, <1>5 DEF Decisive, Careful

LEMMA NextCareful == Decisive /\ Careful /\ [Next]_vars => Decisive' /\ Careful'
<1> SUFFICES ASSUME Decisive, Careful, [Next]_vars
             PROVE  (Counted /\ Due /\ NotYet)' /\ Careful'
  BY NextOwned DEF Decisive
<1>1. CASE UNCHANGED vars
  BY <1>1, QuietStep DEF vars, graphVars
<1>2. CASE ParentCancel \/ RefuseToStart \/ ObserveCancel
  BY <1>2, QuietStep DEF ParentCancel, RefuseToStart, ObserveCancel, graphVars, poolVars
<1>3. ASSUME NEW w \in Workers, ExecuteNode(w)
      PROVE  (Counted /\ Due /\ NotYet)' /\ Careful'
  BY <1>3, QuietStep DEF ExecuteNode
<1> QED
  BY <1>1, <1>2, <1>3, StartStep, ActivateStep, SkipStep, DispatchStep, CompletionsCareful,
     FinishStep
  DEF Next, Coordinator, Returned

LEMMA AlwaysCareful == Spec => [](Decisive /\ Careful)
<1>1. Init => Decisive /\ Careful
  BY InitCareful
<1>2. Decisive /\ Careful /\ [Next]_vars => Decisive' /\ Careful'
  BY NextCareful
<1> QED
  BY <1>1, <1>2, PTL DEF Spec

\* A node runs only when every edge into it is active and is skipped only when
\* one is not, whatever order the results of its parents arrive in: for every
\* workflow, every pool and every budget.
THEOREM NodesJoin == Spec => []Joins
<1>1. Decisive /\ Careful => Joins
  BY DEF Careful
<1> QED
  BY <1>1, AlwaysCareful, PTL

\* No node is started twice on a run, or three times with a fallback, and a
\* finished or skipped one never is: in every run of every workflow.
THEOREM RunsOnce == Spec => []StartedAtMostOnce
<1>1. Decisive /\ Careful => StartedAtMostOnce
  <2> SUFFICES ASSUME Careful, NEW n \in wf.nodes
               PROVE  /\ starts[n] <= 1 + Cardinality({n} \cap fbTried)
                      /\ n \in wf.finished \/ (state[n] = "skipped" /\ ~SkippedAsUnneeded(n))
                           => starts[n] = 0
    BY DEF StartedAtMostOnce
  <2>1. Cardinality({n} \cap fbTried) = Second(n)
    <3>1. CASE n \in fbTried
      <4>1. {n} \cap fbTried = {n}
        BY <3>1
      <4> QED
        BY <3>1, <4>1, FS_Singleton DEF Second
    <3>2. CASE n \notin fbTried
      <4>1. {n} \cap fbTried = {}
        BY <3>2
      <4> QED
        BY <3>2, <4>1, FS_EmptySet DEF Second
    <3> QED
      BY <3>1, <3>2
  <2> QED
    BY <2>1 DEF Careful, Allowed, NeverBegun
<1> QED
  BY <1>1, AlwaysCareful, PTL

=============================================================================
