------------------------------ MODULE Scheduler ------------------------------
(***************************************************************************)
(* One execution of a workflow by Scheduler.run (core/engine/scheduler.go):*)
(* a coordinator goroutine that owns every run variable, a bounded pool of *)
(* worker goroutines behind an unbuffered task channel and an unbuffered   *)
(* completion channel, and a caller that may cancel the parent context at  *)
(* any moment.  What a node does inside executeNode is NodeExecution's     *)
(* subject; here a worker takes a task and some time later returns one of  *)
(* the results the coordinator tells apart.                                *)
(*                                                                         *)
(* Abstractions.  An artifact is not represented, only the verdict of each *)
(* conditional edge on it.  toDecide and ready are FIFO queues in the code *)
(* whose order follows the author's order of nodes and edges; they are     *)
(* sets here, so every such order is covered.  outcomes[id].State always   *)
(* equals state[id], so state stands for both.  halted and haltErr are set *)
(* together, so halt stands for both.                                      *)
(***************************************************************************)
EXTENDS Integers, FiniteSets, Sequences

CONSTANTS Nodes,     \* every node id a workflow may use
          NoNode,    \* no node: the absent fallback, the idle worker's task
          Workflows, \* the workflows, with their run options, that may be run
          Workers,   \* the worker goroutines, opts.Concurrency of them
          Usage      \* spends between two budget checks (cost, tokens, time)

Dims        == {"cost", "tokens", "duration"}
NodeStates  == {"pending", "running", "succeeded", "failed", "skipped"}
Settled     == {"succeeded", "failed", "skipped"}
Policies    == {"fail-execution", "continue", "fallback-node"}
\* What runs a node: a model, a tool whose mutation needs no approval or has
\* it, a mutating tool nobody decided on yet, one that was rejected.
Kinds       == {"model", "tool", "unapproved", "rejected"}
HaltCauses  == {"approval", "rejected", "budget", "cancelled", "node_failed", "edge"}
ReturnKinds == {"ok", "error", "timeout", "interrupted", "approval", "rejected"}
RunEvents   == {"ExecutionStarted", "Cancelled", "BudgetExceeded", "BudgetWarning",
                "ExecutionFinished"}

WorkflowType ==
  { w \in [nodes : SUBSET Nodes, edges : SUBSET (Nodes \X Nodes),
           conditional : SUBSET (Nodes \X Nodes),
           policy : [Nodes -> Policies], fallback : [Nodes -> Nodes \cup {NoNode}],
           kind : [Nodes -> Kinds], finished : SUBSET Nodes,
           limit : [Dims -> Nat], fresh : BOOLEAN, inputsBound : BOOLEAN] :
      w.edges \subseteq w.nodes \X w.nodes }

ASSUME SchedulerAssumption ==
  /\ IsFiniteSet(Nodes) /\ NoNode \notin Nodes
  /\ IsFiniteSet(Workers) /\ Workers # {}
  /\ Workflows \subseteq WorkflowType
  /\ Usage \subseteq [Dims -> Nat]

VARIABLES
  wf,             \* the workflow and its options; never written
  pc,             \* "start", "loop" or "returned"
  state,          \* state[n]: the coordinator's view of node n
  pendingParents, \* incoming edges whose source has not settled
  verdict,        \* what evalCondition said of an edge
  toDecide,       \* nodes whose parents have all settled
  ready,          \* tasks waiting for a worker
  inFlight,       \* tasks handed to a worker and not yet completed
  held,           \* held[w]: the task goroutine w runs
  ret,            \* ret[w]: what w is about to send, "none" while it runs
  halt,           \* first cause that halted the run, or "none"
  parentDone,     \* the caller's context is done
  ctxSeen,        \* the ctxDone branch of the select was taken
  fbTried,        \* nodes whose fallback was dispatched
  spend, warned,  \* the budget tracker
  events,         \* run-level events, in order
  starts,         \* starts[n]: tasks begun on behalf of n (history)
  result          \* what run returned: its state and its error

vars == <<wf, pc, state, pendingParents, verdict, toDecide, ready, inFlight, held,
          ret, halt, parentDone, ctxSeen, fbTried, spend, warned, events, starts, result>>
graphVars  == <<state, pendingParents, toDecide>>
poolVars   == <<inFlight, held, ret, starts>>
budgetVars == <<spend, warned>>

Task      == [node : Nodes, attrTo : Nodes]
NoTask    == [node |-> NoNode, attrTo |-> NoNode]
NoResult  == [state |-> "none", err |-> "none"]

-----------------------------------------------------------------------------
(* The graph. *)

Parents(n)  == { p \in wf.nodes : <<p, n>> \in wf.edges }
Children(n) == { c \in wf.nodes : <<n, c>> \in wf.edges }
Unsettled(n, st) == { p \in Parents(n) : st[p] \notin Settled }

\* Nodes named as a fallback target are not seeded.
FallbackOnly ==
  { wf.fallback[n] : n \in { m \in wf.nodes : wf.policy[m] = "fallback-node" } } \ {NoNode}

\* The results a node of a kind can return; a call whose context is done
\* returns the context's error, and a model call may run into its own timeout.
Possible(n) ==
  CASE wf.kind[n] = "model" -> {"ok", "error", "timeout"}
                                 \cup (IF parentDone \/ halt # "none" THEN {"interrupted"} ELSE {})
    [] wf.kind[n] = "tool" -> {"ok", "error"}
    [] wf.kind[n] = "unapproved" -> {"approval", "error"}
    [] wf.kind[n] = "rejected" -> {"rejected", "error"}

-----------------------------------------------------------------------------
(* Bookkeeping shared by the coordinator's branches. *)

halted == halt # "none"
LastCause(cause) == cause \* mutant: a later halt overrides the first
FirstCause(cause) == IF halted THEN halt ELSE cause

Settle(n, st) ==
  /\ state' = [state EXCEPT ![n] = st]
  /\ pendingParents' = [m \in wf.nodes |->
                          pendingParents[m] - (IF m \in Children(n) THEN 1 ELSE 0)]
  /\ toDecide' = (toDecide \ {n}) \cup { c \in Children(n) : pendingParents'[c] = 0 }

Emit(s) == events' = events \o s

\* mutant: not idempotent
CancelTwice ==
  /\ Emit(<<"Cancelled">>)
  /\ halt' = FirstCause("cancelled")

\* cancelHalt: one Cancelled event and the cancellation cause, unless halted.
CancelHalt ==
  /\ Emit(IF halted THEN <<>> ELSE <<"Cancelled">>)
  /\ halt' = FirstCause("cancelled")

Exceeded(s)   == \E d \in Dims : wf.limit[d] > 0 /\ s[d] >= wf.limit[d]
ShouldWarn(s) == ~warned /\ \E d \in Dims : wf.limit[d] > 0 /\ 10 * s[d] >= 8 * wf.limit[d]

InitialState == [n \in wf.nodes |-> IF n \in wf.finished THEN "succeeded" ELSE "pending"]

Init ==
  /\ wf \in Workflows
  /\ pc = "start"
  /\ state = InitialState
  /\ pendingParents = [n \in wf.nodes |-> Cardinality(Unsettled(n, InitialState))]
  /\ verdict = [e \in wf.edges |-> "unknown"]
  /\ toDecide = {} /\ ready = {} /\ inFlight = 0
  /\ held = [w \in Workers |-> NoTask]
  /\ ret = [w \in Workers |-> "none"]
  /\ halt = "none" /\ parentDone = FALSE /\ ctxSeen = FALSE
  /\ fbTried = {}
  /\ spend = [d \in Dims |-> 0] /\ warned = FALSE
  /\ events = <<>>
  /\ starts = [n \in wf.nodes |-> 0]
  /\ result = NoResult

-----------------------------------------------------------------------------
(* Setting the run up (scheduler.go, before the coordinator loop). *)

\* The caller's context: SIGINT, an API cancel, a deadline.
ParentCancel ==
  /\ pc # "returned" /\ ~parentDone
  /\ parentDone' = TRUE
  /\ UNCHANGED <<wf, pc, graphVars, verdict, ready, poolVars, halt, ctxSeen, fbTried,
                 budgetVars, events, result>>

\* A required input is missing, or the snapshot of a fresh run cannot be
\* written: the run fails before any event and any dispatch.
RefuseToStart ==
  /\ pc = "start"
  /\ wf.inputsBound => wf.fresh
  /\ pc' = "returned"
  /\ result' = [state |-> "failed", err |-> "setup"]
  /\ UNCHANGED <<wf, graphVars, verdict, ready, poolVars, halt, parentDone, ctxSeen,
                 fbTried, budgetVars, events>>

\* mutant: a fallback target is seeded like any root
AllRoots == { n \in wf.nodes : state[n] = "pending" /\ pendingParents[n] = 0 }

Seeds == { n \in wf.nodes : state[n] = "pending" /\ pendingParents[n] = 0 } \ FallbackOnly

Start ==
  /\ pc = "start" /\ wf.inputsBound
  /\ pc' = "loop"
  /\ toDecide' = Seeds
  /\ Emit(IF wf.fresh THEN <<"ExecutionStarted">> ELSE <<>>)
  /\ UNCHANGED <<wf, state, pendingParents, verdict, ready, poolVars, halt, parentDone,
                 ctxSeen, fbTried, budgetVars, result>>

-----------------------------------------------------------------------------
(* processDecisions: one iteration per action.  It runs to completion      *)
(* before the coordinator looks at a channel again.                        *)

Live(n) == { p \in Parents(n) : state[p] = "succeeded" }

\* The verdicts evalCondition may give on the live edges into n.
Evaluations(n) ==
  { v \in [Live(n) -> {"true", "false", "error"}] :
      \A p \in Live(n) : <<p, n>> \notin wf.conditional => v[p] = "true" }

AnyActive(n, v) == \A p \in Live(n) : v[p] = "true" \* mutant: a failed parent is overlooked
Active(n, v) == Live(n) = Parents(n) /\ \A p \in Live(n) : v[p] = "true"

Record(n, v) ==
  verdict' = [e \in wf.edges |-> IF e[2] = n /\ e[1] \in Live(n) THEN v[e[1]] ELSE verdict[e]]

\* A node that is not pending would be passed over.  A node's counter reaches
\* zero once, so toDecide never holds one (it would be a deadlock here).
Activate(n) ==
  /\ pc = "loop" /\ n \in toDecide /\ state[n] = "pending"
  /\ \E v \in Evaluations(n) : Active(n, v) /\ Record(n, v)
  /\ state' = [state EXCEPT ![n] = "running"]
  /\ ready' = ready \cup {[node |-> n, attrTo |-> n]}
  /\ toDecide' = toDecide \ {n}
  /\ UNCHANGED <<wf, pc, pendingParents, poolVars, halt, parentDone, ctxSeen, fbTried,
                 budgetVars, events, result>>

\* A condition that cannot be evaluated halts the run and deactivates its edge.
Skip(n) ==
  /\ pc = "loop" /\ n \in toDecide /\ state[n] = "pending"
  /\ \E v \in Evaluations(n) :
       /\ ~Active(n, v)
       /\ Record(n, v)
       /\ halt' = IF \E p \in Live(n) : v[p] = "error" THEN FirstCause("edge") ELSE halt
  /\ Settle(n, "skipped")
  /\ UNCHANGED <<wf, pc, ready, poolVars, parentDone, ctxSeen, fbTried, budgetVars,
                 events, result>>

-----------------------------------------------------------------------------
(* The coordinator's select, and the worker goroutines. *)

InFlightOnly   == inFlight > 0                  \* mutant: queued tasks do not keep the loop
EvenWhenHalted == inFlight > 0 \/ ready # {}    \* mutant: a halt does not end the loop
LoopGuard == inFlight > 0 \/ (ready # {} /\ ~halted)
Selecting == pc = "loop" /\ toDecide = {} /\ LoopGuard

Kept(t) == ready \* mutant: the queue is not advanced
Rest(t) == ready \ {t}

\* taskCh <- next: the head of ready meets an idle worker.
Dispatch(w, t) ==
  /\ Selecting /\ ~halted
  /\ t \in ready /\ held[w] = NoTask
  /\ ready' = Rest(t)
  /\ inFlight' = inFlight + 1
  /\ held' = [held EXCEPT ![w] = t]
  /\ starts' = [starts EXCEPT ![t.attrTo] = @ + 1]
  /\ UNCHANGED <<wf, pc, graphVars, verdict, ret, halt, parentDone, ctxSeen, fbTried,
                 budgetVars, events, result>>

\* executeNode returned; the worker now blocks on the completion channel.
ExecuteNode(w) ==
  /\ held[w] # NoTask /\ ret[w] = "none"
  /\ \E r \in Possible(held[w].node) : ret' = [ret EXCEPT ![w] = r]
  /\ UNCHANGED <<wf, pc, graphVars, verdict, ready, inFlight, held, halt, parentDone,
                 ctxSeen, fbTried, budgetVars, events, starts, result>>

\* case <-ctxDone.
ObserveCancel ==
  /\ Selecting /\ ~ctxSeen /\ (parentDone \/ halted)
  /\ ctxSeen' = TRUE
  /\ CancelHalt
  /\ UNCHANGED <<wf, pc, graphVars, verdict, ready, poolVars, parentDone, fbTried,
                 budgetVars, result>>

\* case c := <-completions: the receive that every branch of
\* handleCompletion shares.
Receive(w, rs) ==
  /\ Selecting
  /\ ret[w] \in rs
  /\ inFlight' = inFlight - 1
  /\ held' = [held EXCEPT ![w] = NoTask]
  /\ ret' = [ret EXCEPT ![w] = "none"]
  /\ UNCHANGED <<wf, pc, verdict, starts, parentDone, ctxSeen, result>>

\* Returning early because the run is being torn down; an error that wraps
\* context.Canceled or DeadlineExceeded counts as that.
Collateral(r) == halted \/ parentDone \/ r \in {"timeout", "interrupted"}
Errors == {"error", "timeout", "interrupted"}

\* mutants: the map lookup's ok is dropped; fbTried is not consulted
AnyFallback(t) ==
  IF wf.policy[t.node] = "fallback-node" /\ t.attrTo \notin fbTried
    THEN {wf.fallback[t.node]} ELSE {}
FallbackAgain(t) ==
  IF wf.policy[t.node] = "fallback-node" THEN {wf.fallback[t.node]} \cap wf.nodes ELSE {}

FallbackFor(t) ==
  IF wf.policy[t.node] = "fallback-node" /\ t.attrTo \notin fbTried
    THEN {wf.fallback[t.node]} \cap wf.nodes ELSE {}

CompleteUnapproved(w) ==
  /\ Receive(w, {"approval"})
  /\ state' = [state EXCEPT ![held[w].attrTo] = "pending"]
  /\ halt' = FirstCause("approval")
  /\ UNCHANGED <<pendingParents, toDecide, ready, fbTried, budgetVars, events>>

CompleteRejected(w) ==
  /\ Receive(w, {"rejected"})
  /\ Settle(held[w].attrTo, "failed")
  /\ halt' = FirstCause("rejected")
  /\ UNCHANGED <<ready, fbTried, budgetVars, events>>

CompleteCollateral(w) ==
  /\ Receive(w, Errors) /\ Collateral(ret[w])
  /\ Settle(held[w].attrTo, "failed")
  /\ IF parentDone THEN CancelHalt ELSE UNCHANGED <<halt, events>>
  /\ UNCHANGED <<ready, fbTried, budgetVars>>

\* The policy is that of the node that ran, which after a fallback is the
\* fallback node's own.
CompleteByFallback(w) ==
  /\ Receive(w, Errors) /\ ~Collateral(ret[w])
  /\ \E fb \in FallbackFor(held[w]) :
       ready' = ready \cup {[node |-> fb, attrTo |-> held[w].attrTo]}
  /\ fbTried' = fbTried \cup {held[w].attrTo}
  /\ UNCHANGED <<graphVars, halt, budgetVars, events>>

CompleteFailed(w) ==
  /\ Receive(w, Errors) /\ ~Collateral(ret[w])
  /\ FallbackFor(held[w]) = {}
  /\ Settle(held[w].attrTo, "failed")
  /\ halt' = IF wf.policy[held[w].node] = "continue" THEN halt ELSE FirstCause("node_failed")
  /\ UNCHANGED <<ready, fbTried, budgetVars, events>>

CompleteOk(w) ==
  /\ Receive(w, {"ok"})
  /\ Settle(held[w].attrTo, "succeeded")
  /\ \E u \in Usage : spend' = [d \in Dims |-> spend[d] + u[d]]
  /\ IF Exceeded(spend')
       THEN /\ Emit(<<"BudgetExceeded">>)
            /\ halt' = FirstCause("budget")
            /\ UNCHANGED warned
       ELSE /\ Emit(IF ShouldWarn(spend') THEN <<"BudgetWarning">> ELSE <<>>)
            /\ warned' = (warned \/ ShouldWarn(spend'))
            /\ UNCHANGED halt
  /\ UNCHANGED <<ready, fbTried>>

Complete(w) ==
  \/ CompleteUnapproved(w) \/ CompleteRejected(w) \/ CompleteCollateral(w)
  \/ CompleteByFallback(w) \/ CompleteFailed(w) \/ CompleteOk(w)

-----------------------------------------------------------------------------
(* Leaving the loop: close(tasks), wg.Wait, classify, ExecutionFinished. *)

StateOf(cause, st) ==
  CASE cause = "approval"  -> "paused"
    [] cause = "cancelled" -> "cancelled"
    [] cause \in HaltCauses \ {"approval", "cancelled"} -> "failed"
    [] OTHER -> IF \E n \in wf.nodes : st[n] \in {"pending", "failed"}
                  THEN "failed" ELSE "succeeded"

ErrOf(cause, st) ==
  IF cause = "none" /\ \E n \in wf.nodes : st[n] = "pending" THEN "incomplete" ELSE cause

Finish ==
  /\ pc = "loop" /\ toDecide = {} /\ ~LoopGuard
  /\ \A w \in Workers : held[w] = NoTask
  /\ state' = [n \in wf.nodes |-> IF n \in FallbackOnly /\ state[n] = "pending"
                                    THEN "skipped" ELSE state[n]]
  /\ result' = [state |-> StateOf(halt, state'), err |-> ErrOf(halt, state')]
  /\ Emit(<<"ExecutionFinished">>)
  /\ pc' = "returned"
  /\ UNCHANGED <<wf, pendingParents, toDecide, verdict, ready, poolVars, halt, parentDone,
                 ctxSeen, fbTried, budgetVars>>

Returned == pc = "returned" /\ UNCHANGED vars

Coordinator ==
  \/ RefuseToStart \/ Start \/ ObserveCancel \/ Finish
  \/ \E n \in wf.nodes : Activate(n) \/ Skip(n)
  \/ \E w \in Workers : Complete(w)
  \/ \E w \in Workers, t \in ready : Dispatch(w, t)

Next ==
  \/ Coordinator
  \/ ParentCancel
  \/ \E w \in Workers : ExecuteNode(w)
  \/ Returned

\* The coordinator goroutine never stops while it can act, and every call a
\* worker makes returns: model calls and tool calls run under timeouts, and
\* both retry counters are bounded.
Fairness == WF_vars(Coordinator) /\ \A w \in Workers : WF_vars(ExecuteNode(w))

Spec == Init /\ [][Next]_vars /\ Fairness

-----------------------------------------------------------------------------
(* Properties. *)

\* Every variable keeps its type.
TypeOK ==
  /\ wf \in Workflows
  /\ pc \in {"start", "loop", "returned"}
  /\ state \in [wf.nodes -> NodeStates]
  /\ pendingParents \in [wf.nodes -> Int]
  /\ verdict \in [wf.edges -> {"unknown", "true", "false", "error"}]
  /\ toDecide \subseteq wf.nodes
  /\ ready \subseteq [node : wf.nodes, attrTo : wf.nodes]
  /\ inFlight \in Int
  /\ held \in [Workers -> [node : wf.nodes, attrTo : wf.nodes] \cup {NoTask}]
  /\ ret \in [Workers -> ReturnKinds \cup {"none"}]
  /\ halt \in HaltCauses \cup {"none"}
  /\ parentDone \in BOOLEAN /\ ctxSeen \in BOOLEAN /\ warned \in BOOLEAN
  /\ fbTried \subseteq wf.nodes
  /\ spend \in [Dims -> Nat]
  /\ events \in Seq(RunEvents)
  /\ starts \in [wf.nodes -> Nat]
  /\ result \in [state : {"none", "paused", "cancelled", "failed", "succeeded"},
                 err : HaltCauses \cup {"none", "setup", "incomplete"}]

\* REQ-RUNTIME-01: a node runs only when every incoming edge is active, that
\* is, its source succeeded and its condition held; and a node is skipped only
\* when some incoming edge is inactive.  The decision is taken once, from
\* counters several completions update in any order.
Joins ==
  \A n \in wf.nodes \ wf.finished :
    /\ state[n] \in {"running", "succeeded", "failed"} =>
         \A p \in Parents(n) : state[p] = "succeeded" /\ verdict[<<p, n>>] = "true"
    /\ state[n] = "skipped" /\ n \notin FallbackOnly =>
         \E p \in Parents(n) : \/ state[p] \in {"failed", "skipped"}
                               \/ verdict[<<p, n>>] \in {"false", "error"}

Owned(w)   == held[w].attrTo
Busy       == { w \in Workers : held[w] # NoTask }

TasksRun ==
  /\ \A t \in ready : state[t.attrTo] = "running"
  /\ \A w \in Busy : state[Owned(w)] = "running"

TasksApart ==
  /\ \A t, u \in ready : t.attrTo = u.attrTo => t = u
  /\ \A v, w \in Busy : Owned(v) = Owned(w) => v = w
  /\ \A t \in ready, w \in Busy : t.attrTo # Owned(w)

RunningHasTask ==
  \A n \in wf.nodes : state[n] = "running" =>
    (\E t \in ready : t.attrTo = n) \/ (\E w \in Busy : Owned(w) = n)

\* A node the coordinator believes to be running has exactly one task, either
\* queued or with exactly one worker, and inFlight counts the workers that
\* still owe a completion: no result is lost, doubled or waited for in vain.
OneTaskPerRunningNode ==
  inFlight = Cardinality(Busy) /\ TasksRun /\ TasksApart /\ RunningHasTask

\* REQ-RUNTIME-06 and the fallback rule: a node runs at most once on a run, at
\* most twice when its fallback took over, and never when the record says it
\* is finished or the coordinator skipped it.  Only a fallback node wired into
\* the graph can have asked for an approval and be settled as "not needed" in
\* the end (scheduler.go:479).
SkippedAsUnneeded(n) == pc = "returned" /\ n \in FallbackOnly /\ state[n] = "skipped"

StartedAtMostOnce ==
  \A n \in wf.nodes :
    /\ starts[n] <= 1 + Cardinality({n} \cap fbTried)
    /\ n \in wf.finished \/ (state[n] = "skipped" /\ ~SkippedAsUnneeded(n)) => starts[n] = 0

Ran == pc = "returned" /\ result.err # "setup"
Occurs(e) == Cardinality({ i \in 1..Len(events) : events[i] = e })

\* What run returns agrees with what it recorded and with the nodes: success
\* means nothing failed or was left behind, a pause has a node to approve (or
\* one that the end settled as not needed), and a cancelled run, and no other,
\* logged exactly one Cancelled event (REQ-RUNTIME-05), whichever path saw the
\* cancellation first.
ResultMatchesRecord ==
  Ran =>
    /\ result.state = "succeeded" => \A n \in wf.nodes : state[n] \in {"succeeded", "skipped"}
    /\ result.state = "paused" =>
         \E n \in wf.nodes : starts[n] > 0 /\ (state[n] = "pending" \/ SkippedAsUnneeded(n))
    /\ Occurs("Cancelled") = (IF result.state = "cancelled" THEN 1 ELSE 0)
    /\ Occurs("ExecutionFinished") = 1 /\ events[Len(events)] = "ExecutionFinished"
    /\ Busy = {}

\* A fallback target is dedicated: no edge touches it.
Dedicated == \A n \in FallbackOnly : Parents(n) = {} /\ Children(n) = {}

\* No cycle, which findCycle sees to for what the command line runs: whatever
\* nodes are picked, one of them has none of the others before it.
Acyclic(w) ==
  \A S \in SUBSET w.nodes : S # {} => \E n \in S : \A p \in S : <<p, n>> \notin w.edges

\* On a graph whose fallback nodes are dedicated a run that nothing halted
\* resolves every node: no ErrIncompleteGraph, no node left running.
ResolvesEveryNode ==
  Ran /\ halt = "none" /\ Dedicated => \A n \in wf.nodes : state[n] \in Settled

\* A settled node keeps its state and a halted run its cause; after the halt
\* nothing new is handed to a worker.
Irrevocable ==
  [][ /\ \A n \in wf.nodes : state[n] \in Settled => state'[n] = state[n]
      /\ halted => halt' = halt /\ starts' = starts ]_vars

\* Every run returns: the loop ends, every worker is joined, and
\* ExecutionFinished is written, however the run was halted.
EveryRunReturns == <>(pc = "returned")

\* REQ-RUNTIME-04, docs/spec/runtime.md: "If a node exhausts its retries, then
\* the engine shall apply the node's failure policy".  A model call that runs
\* into its own client timeout exhausted its retries like any other.
FailurePolicyApplied ==
  [][ \A w \in Workers :
        /\ ret[w] \in {"error", "timeout"} /\ ret'[w] = "none"
        /\ ~halted /\ ~parentDone
        => \/ wf.policy[held[w].node] = "continue"
           \/ wf.policy[held[w].node] = "fallback-node" /\ held[w].attrTo \in fbTried'
           \/ halt' # "none" ]_vars

\* The scheduler keeps the promise of WorkflowRun: REQ-RUNTIME-01, 04 and 05
\* seen from outside, with the pool's size as the number of slots.
Promise == INSTANCE WorkflowRun WITH
  Slots   <- Cardinality(Workers),
  plan    <- [nodes |-> wf.nodes, edges |-> wf.edges, finished |-> wf.finished,
              spare |-> FallbackOnly],
  status  <- [n \in wf.nodes |-> CASE state[n] = "pending" -> "todo"
                                   [] state[n] = "running" -> "doing"
                                   [] OTHER -> state[n]],
  live    <- { Owned(w) : w \in Busy },
  again   <- fbTried,
  stopped <- halted,
  outcome <- IF result.state = "none" THEN "running" ELSE result.state

KeepsPromise == Promise!Spec

=============================================================================
