--------------------------- MODULE Scheduler_refines ---------------------------
(***************************************************************************)
(* Every step of the scheduler is a step of WorkflowRun, or none of its    *)
(* business: for every workflow, every pool and every budget.              *)
(***************************************************************************)
EXTENDS Scheduler_proofs

\* What WorkflowRun sees of a run.
Plan    == [nodes |-> wf.nodes, edges |-> wf.edges, finished |-> wf.finished,
            spare |-> FallbackOnly]
Status  == [n \in wf.nodes |-> CASE state[n] = "pending" -> "todo"
                                 [] state[n] = "running" -> "doing"
                                 [] OTHER -> state[n]]
Now     == { Owned(w) : w \in Busy }
Outcome == IF result.state = "none" THEN "running" ELSE result.state

-----------------------------------------------------------------------------
(* The actions of WorkflowRun in these terms.                              *)

LEMMA SameStutters ==
  ASSUME UNCHANGED <<Plan, Status, Now, fbTried, halted, Outcome>>
  PROVE  UNCHANGED Promise!runVars
BY DEF Promise!runVars, Plan, Status, Now, Outcome

LEMMA InitIs ==
  ASSUME Status = [n \in wf.nodes |-> IF n \in wf.finished THEN "succeeded" ELSE "todo"],
         Now = {}, fbTried = {}, ~halted, Outcome = "running"
  PROVE  Promise!Init
BY DEF Promise!Init, Plan, Status, Now, Outcome

LEMMA EnableIs ==
  ASSUME NEW n \in wf.nodes,
         Outcome = "running", Status[n] = "todo",
         n \in FallbackOnly => Parents(n) # {},
         \A p \in Parents(n) : Status[p] = "succeeded",
         Status' = [Status EXCEPT ![n] = "doing"],
         UNCHANGED <<Plan, Now, fbTried, halted, Outcome>>
  PROVE  Promise!Next
<1>1. Promise!Enable(n)
  BY DEF Promise!Enable, Promise!Before, Plan, Status, Now, Outcome, Parents
<1> QED
  BY <1>1 DEF Promise!Next

LEMMA DropIs ==
  ASSUME NEW n \in wf.nodes,
         Outcome = "running", Status[n] = "todo", Parents(n) # {},
         \A p \in Parents(n) : Status[p] \in {"succeeded", "failed", "skipped"},
         Status' = [Status EXCEPT ![n] = "skipped"],
         halted' \in {halted, TRUE},
         UNCHANGED <<Plan, Now, fbTried, Outcome>>
  PROVE  Promise!Next
<1>1. Promise!Drop(n)
  BY DEF Promise!Drop, Promise!Before, Promise!Done, Plan, Status, Now, Outcome, Parents
<1> QED
  BY <1>1 DEF Promise!Next

LEMMA SameCardinality == \A S : Promise!Cardinality(S) = Cardinality(S)
BY DEF Promise!Cardinality, Cardinality

LEMMA BeginIs ==
  ASSUME NEW n \in wf.nodes,
         ~halted, Outcome = "running", Status[n] = "doing", n \notin Now,
         Cardinality(Now) < Cardinality(Workers),
         Now' = Now \cup {n},
         UNCHANGED <<Plan, Status, fbTried, halted, Outcome>>
  PROVE  Promise!Next
<1>1. Promise!Begin(n)
  BY SameCardinality DEF Promise!Begin, Plan, Status, Now, Outcome
<1> QED
  BY <1>1 DEF Promise!Next

LEMMA EndIs ==
  ASSUME NEW n \in wf.nodes,
         n \in Now, Now' = Now \ {n}, halted' \in {halted, TRUE},
         \/ /\ \E s \in {"succeeded", "failed"} : Status' = [Status EXCEPT ![n] = s]
            /\ UNCHANGED fbTried
         \/ /\ halted'
            /\ Status' = [Status EXCEPT ![n] = "todo"]
            /\ UNCHANGED fbTried
         \/ /\ n \notin fbTried /\ fbTried' = fbTried \cup {n}
            /\ UNCHANGED <<Status, halted>>,
         UNCHANGED <<Plan, Outcome>>
  PROVE  Promise!Next
<1>1. Promise!End(n)
  BY DEF Promise!End, Plan, Status, Now, Outcome
<1> QED
  BY <1>1 DEF Promise!Next

LEMMA StopIs ==
  ASSUME Outcome = "running", ~halted, halted',
         UNCHANGED <<Plan, Status, Now, fbTried, Outcome>>
  PROVE  Promise!Next
<1>1. Promise!Stop
  BY DEF Promise!Stop, Plan, Status, Now, Outcome
<1> QED
  BY <1>1 DEF Promise!Next

LEMMA RefuseIs ==
  ASSUME Promise!Init, Outcome' = "failed",
         UNCHANGED <<Plan, Status, Now, fbTried, halted>>
  PROVE  Promise!Next
<1>1. Promise!Refuse
  BY DEF Promise!Refuse, Plan, Status, Now, Outcome
<1> QED
  BY <1>1 DEF Promise!Next

LEMMA CloseIs ==
  ASSUME Outcome = "running", Now = {},
         \/ halted
         \/ \A n \in wf.nodes :
              /\ Status[n] # "doing"
              /\ Status[n] = "todo" /\ n \notin FallbackOnly =>
                   \E p \in Parents(n) : Status[p] \notin {"succeeded", "failed", "skipped"},
         Status' = [n \in wf.nodes |-> IF n \in FallbackOnly /\ Status[n] = "todo"
                                         THEN "skipped" ELSE Status[n]],
         Outcome' \in IF halted THEN {"paused", "cancelled", "failed"}
                      ELSE IF \A n \in wf.nodes : Status'[n] \in {"succeeded", "skipped"}
                             THEN {"succeeded"} ELSE {"failed"},
         UNCHANGED <<Plan, Now, fbTried, halted>>
  PROVE  Promise!Next
<1>1. Promise!Close
  BY DEF Promise!Close, Promise!Exhausted, Promise!Before, Promise!Done,
         Plan, Status, Now, Outcome, Parents
<1> QED
  BY <1>1 DEF Promise!Next

-----------------------------------------------------------------------------
(* What the simulation needs besides: how a run looks before its loop, and *)
(* that the queue of decisions holds all that are due.                     *)

Opening == pc = "start" => state = InitialState /\ Busy = {} /\ fbTried = {} /\ ~halted
Unended == pc # "returned" => result = NoResult
Wired   == \A n \in toDecide : n \in FallbackOnly => Parents(n) # {}
Reached ==
  pc = "loop" /\ ~halted =>
    \A n \in wf.nodes \ FallbackOnly : state[n] = "pending" /\ Waits(n) = {} => n \in toDecide

Underway == Opening /\ Unended /\ Wired /\ Reached
Inv == Decisive /\ Careful /\ Underway

\* A settled node passes the decision on to the children that waited for it.
LEMMA SettleReaches ==
  ASSUME Inv, pc = "loop", pc' = pc, NEW n \in wf.nodes, NEW st \in Settled,
         state[n] \notin Settled, Settle(n, st), wf' = wf, result' = result, halted => halted'
  PROVE  Underway'
<1> USE DEF Inv, Decisive, TypedOwned, Typed, TypeOK
<1>1. /\ \A m \in wf.nodes : Waits(m)' = Waits(m) \ {n}
      /\ \A m \in wf.nodes : pendingParents'[m] = Cardinality(Waits(m)')
  BY SettleDecides
<1>2. FallbackOnly' = FallbackOnly /\ \A m : Parents(m)' = Parents(m)
  BY DEF FallbackOnly, Parents
<1>3. toDecide' = (toDecide \ {n}) \cup { c \in Children(n) : pendingParents'[c] = 0 }
  BY DEF Settle
<1>4. Wired'
  BY <1>2, <1>3 DEF Underway, Wired, Children, Parents
<1>5. Reached'
  <2> SUFFICES ASSUME ~halted, NEW m \in wf.nodes \ FallbackOnly,
                      state'[m] = "pending", Waits(m)' = {}
               PROVE  m \in toDecide'
    BY <1>2 DEF Reached
  <2>1. m # n /\ state[m] = "pending"
    BY DEF Settle, Settled
  <2>2. CASE Waits(m) = {}
    BY <1>3, <2>1, <2>2 DEF Underway, Reached
  <2>3. CASE Waits(m) # {}
    <3>1. n \in Waits(m)
      BY <1>1, <2>3
    <3>2. m \in Children(n)
      BY <3>1 DEF Waits, Unsettled, Parents, Children
    <3>3. pendingParents'[m] = 0
      BY <1>1, FS_EmptySet
    <3> QED
      BY <1>3, <3>2, <3>3
  <2> QED
    BY <2>2, <2>3
<1> QED
  BY <1>4, <1>5 DEF Underway, Opening, Unended

\* A step that neither settles nor reopens a node has nothing to pass on.
LEMMA NothingToPass ==
  ASSUME Inv, pc' = pc, result' = result, UNCHANGED <<wf, state, toDecide>>, halted => halted',
         pc = "start" => UNCHANGED <<held, fbTried, halt>>
  PROVE  Underway'
<1>1. FallbackOnly' = FallbackOnly /\ \A m : Parents(m)' = Parents(m) /\ Waits(m)' = Waits(m)
  BY DEF FallbackOnly, Parents, Waits, Unsettled
<1>2. Opening'
  BY DEF Inv, Underway, Opening, InitialState, Busy, halted
<1>3. Wired'
  BY <1>1 DEF Inv, Underway, Wired
<1>4. Reached'
  BY <1>1 DEF Inv, Underway, Reached
<1> QED
  BY <1>2, <1>3, <1>4 DEF Inv, Underway, Unended

LEMMA PlanKept ==
  ASSUME wf' = wf
  PROVE  Plan' = Plan /\ FallbackOnly' = FallbackOnly
BY DEF Plan, FallbackOnly

LEMMA OneStatus ==
  ASSUME Typed, wf' = wf, NEW n \in wf.nodes, NEW st \in NodeStates, state' = [state EXCEPT ![n] = st]
  PROVE  Status' = [Status EXCEPT ![n] = CASE st = "pending" -> "todo"
                                           [] st = "running" -> "doing"
                                           [] OTHER -> st]
BY DEF Status, Typed, TypeOK

LEMMA StopKept ==
  ASSUME halted => halted'
  PROVE  halted' \in {halted, TRUE}
BY DEF halted

LEMMA StillRunning ==
  ASSUME Inv, pc # "returned", result' = result
  PROVE  Outcome = "running" /\ Outcome' = Outcome
BY DEF Inv, Underway, Unended, NoResult, Outcome

\* The worker's node is live until its result is received.
LEMMA ReceiveEnds ==
  ASSUME TypedOwned, NEW w \in Workers, NEW rs \in SUBSET ReturnKinds, Receive(w, rs)
  PROVE  Owned(w) \in Now /\ Now' = Now \ {Owned(w)}
<1>1. w \in Busy /\ Busy' = Busy \ {w} /\ \A v \in Busy' : held'[v] = held[v]
  BY ReceiveReleases
<1>2. \A v \in Busy' : Owned(v)' = Owned(v) /\ Owned(v) # Owned(w)
  BY <1>1 DEF Owned, TypedOwned, OneTaskPerRunningNode, TasksApart
<1>3. Now' = { Owned(v) : v \in Busy \ {w} }
  BY <1>1, <1>2 DEF Now
<1> QED
  BY <1>1, <1>2, <1>3 DEF Now

-----------------------------------------------------------------------------
(* The steps.                                                              *)

LEMMA ActivatePromised ==
  ASSUME Inv, NEW n \in wf.nodes, Activate(n)
  PROVE  Promise!Next /\ Underway'
<1> USE DEF Inv, Decisive, TypedOwned
<1>1. /\ pc = "loop" /\ pc' = pc /\ n \in toDecide /\ state[n] = "pending" /\ wf' = wf
      /\ state' = [state EXCEPT ![n] = "running"] /\ toDecide' = toDecide \ {n}
      /\ result' = result /\ UNCHANGED <<held, fbTried, halt>>
  BY DEF Activate, poolVars
<1>2. PICK v \in Evaluations(n) : Active(n, v)
  BY DEF Activate
<1>3. \A p \in Parents(n) : p \in wf.nodes /\ Status[p] = "succeeded"
  BY <1>2 DEF Active, Live, Parents, Status
<1>4. Status' = [Status EXCEPT ![n] = "doing"]
  BY <1>1, OneStatus DEF NodeStates
<1>5. Status[n] = "todo" /\ (n \in FallbackOnly => Parents(n) # {})
  BY <1>1 DEF Status, Underway, Wired
<1>6. Outcome = "running" /\ Outcome' = Outcome
  BY <1>1, StillRunning
<1>7. Plan' = Plan /\ Now' = Now /\ halted' = halted /\ FallbackOnly' = FallbackOnly
  BY <1>1, PlanKept DEF Now, Owned, Busy, halted
<1>8. Promise!Next
  BY <1>1, <1>3, <1>4, <1>5, <1>6, <1>7, EnableIs
<1>9. \A m \in wf.nodes : Waits(m)' = Waits(m)
  <2>1. \A m \in wf.nodes : state'[m] \in Settled <=> state[m] \in Settled
    BY <1>1 DEF Settled, Typed, TypeOK
  <2> QED
    BY <1>1, <2>1 DEF Waits, Unsettled, Parents
<1>10. Wired'
  BY <1>1, <1>7 DEF Underway, Wired, Parents
<1>11. Reached'
  <2> SUFFICES ASSUME ~halted, NEW m \in wf.nodes \ FallbackOnly,
                      state'[m] = "pending", Waits(m) = {}
               PROVE  m \in toDecide'
    BY <1>1, <1>7, <1>9 DEF Reached
  <2>1. m # n /\ state[m] = "pending"
    BY <1>1 DEF Typed, TypeOK
  <2> QED
    BY <1>1, <2>1 DEF Underway, Reached
<1> QED
  BY <1>1, <1>8, <1>10, <1>11 DEF Underway, Opening, Unended

LEMMA SkipPromised ==
  ASSUME Inv, NEW n \in wf.nodes, Skip(n)
  PROVE  Promise!Next /\ Underway'
<1> USE DEF Inv, Decisive, TypedOwned
<1>1. /\ pc = "loop" /\ pc' = pc /\ n \in toDecide /\ state[n] = "pending" /\ wf' = wf
      /\ Settle(n, "skipped") /\ "skipped" \in Settled /\ state[n] \notin Settled
      /\ result' = result /\ UNCHANGED <<held, fbTried>> /\ (halted => halted')
  BY DEF Skip, poolVars, Settled, FirstCause, halted
<1>2. PICK v \in Evaluations(n) : ~Active(n, v)
  BY DEF Skip
<1>3. Parents(n) # {}
  BY <1>2 DEF Active, Live
<1>4. \A p \in Parents(n) : Status[p] \in {"succeeded", "failed", "skipped"}
  <2>1. \A p \in Parents(n) : p \in wf.nodes /\ state[p] \in {"succeeded", "failed", "skipped"}
    BY <1>1 DEF Due, Waits, Unsettled, Parents, Settled
  <2> QED
    BY <2>1 DEF Status
<1>5. Status' = [Status EXCEPT ![n] = "skipped"]
  <2>1. state' = [state EXCEPT ![n] = "skipped"]
    BY <1>1 DEF Settle
  <2> QED
    BY <1>1, <2>1, OneStatus DEF NodeStates
<1>6. Status[n] = "todo"
  BY <1>1 DEF Status
<1>7. Outcome = "running" /\ Outcome' = Outcome
  BY <1>1, StillRunning
<1>8. Plan' = Plan /\ Now' = Now
  BY <1>1, PlanKept DEF Now, Owned, Busy
<1>9. Promise!Next
  BY <1>1, <1>3, <1>4, <1>5, <1>6, <1>7, <1>8, StopKept, DropIs
<1> QED
  BY <1>1, <1>9, SettleReaches

\* A pool of one slot for each worker is never overfull.
LEMMA FreeSlot ==
  ASSUME NEW w \in Workers \ Busy
  PROVE  Cardinality(Now) < Cardinality(Workers)
<1> DEFINE f == [v \in Busy |-> Owned(v)]
<1>1. f \in Surjection(Busy, Now)
  BY DEF Surjection, Now
<1>2. Cardinality(Now) <= Cardinality(Busy) /\ IsFiniteSet(Now)
  BY <1>1, BusyFinite, FS_Surjection
<1>3. IsFiniteSet(Busy \cup {w}) /\ Cardinality(Busy \cup {w}) = Cardinality(Busy) + 1
  BY BusyFinite, FS_AddElement
<1>4. Busy \cup {w} \in SUBSET Workers
  BY DEF Busy
<1>5. Cardinality(Busy \cup {w}) <= Cardinality(Workers)
  BY <1>4, SchedulerAssumption, FS_Subset
<1>6. Cardinality(Now) \in Nat /\ Cardinality(Busy) \in Nat /\ Cardinality(Workers) \in Nat
  BY <1>2, BusyFinite, SchedulerAssumption, FS_CardinalityType
<1> QED
  BY <1>2, <1>3, <1>5, <1>6

LEMMA DispatchPromised ==
  ASSUME Inv, NEW w \in Workers, NEW t \in ready, Dispatch(w, t)
  PROVE  Promise!Next /\ Underway'
<1> USE DEF Inv, Decisive, TypedOwned
<1>1. /\ pc = "loop" /\ pc' = pc /\ ~halted /\ held[w] = NoTask /\ held' = [held EXCEPT ![w] = t]
      /\ UNCHANGED <<wf, state, toDecide, halt, fbTried, result>>
  BY DEF Dispatch, Selecting, graphVars
<1>2. PICK n \in wf.nodes : n = t.attrTo
  BY DEF Typed, TypeOK
<1>3. state[n] = "running" /\ n \notin Now
  BY <1>2 DEF OneTaskPerRunningNode, TasksRun, TasksApart, Now
<1>4. w \in Workers \ Busy
  BY <1>1 DEF Busy
<1>5. Now' = Now \cup {n}
  <2>1. t # NoTask
    BY TaskIsReal DEF Typed, TypeOK
  <2>2. held'[w] = t /\ \A v \in Workers \ {w} : held'[v] = held[v]
    BY <1>1 DEF Typed, TypeOK
  <2>3. Busy' = Busy \cup {w}
    BY <1>4, <2>1, <2>2 DEF Busy
  <2>4. Owned(w)' = n /\ \A v \in Busy : Owned(v)' = Owned(v)
    BY <1>2, <1>4, <2>2 DEF Owned, Busy
  <2> QED
    BY <2>3, <2>4 DEF Now
<1>6. Outcome = "running" /\ Outcome' = Outcome
  BY <1>1, StillRunning
<1>7. Plan' = Plan /\ Status' = Status /\ halted' = halted
  BY <1>1, PlanKept DEF Status, halted
<1>8. Status[n] = "doing"
  BY <1>3 DEF Status
<1>9. Promise!Next
  BY <1>1, <1>3, <1>4, <1>5, <1>6, <1>7, <1>8, FreeSlot, BeginIs
<1> QED
  BY <1>1, <1>7, <1>9, NothingToPass

LEMMA SettledPromised ==
  ASSUME Inv, NEW w \in Workers, NEW rs \in SUBSET ReturnKinds, Receive(w, rs),
         NEW st \in {"failed", "succeeded"}, Settle(Owned(w), st), UNCHANGED fbTried,
         halted => halted'
  PROVE  Promise!Next /\ Underway'
<1> USE DEF Inv, Decisive, TypedOwned
<1>1. pc = "loop" /\ pc' = pc /\ wf' = wf /\ result' = result
  BY DEF Receive, Selecting
<1>2. PICK n \in wf.nodes : n = Owned(w) /\ state[n] = "running"
  BY ReceiveReleases DEF OneTaskPerRunningNode, TasksRun
<1>3. n \in Now /\ Now' = Now \ {n}
  BY <1>2, ReceiveEnds
<1>4. \E s \in {"succeeded", "failed"} : Status' = [Status EXCEPT ![n] = s]
  <2>1. state' = [state EXCEPT ![n] = st] /\ st \in NodeStates
    BY <1>2 DEF Settle, NodeStates
  <2>2. Status' = [Status EXCEPT ![n] = st]
    BY <1>1, <2>1, OneStatus
  <2> QED
    BY <2>2
<1>5. Outcome' = Outcome /\ Plan' = Plan /\ halted' \in {halted, TRUE}
  BY <1>1, StillRunning, PlanKept, StopKept
<1>6. Promise!Next
  BY <1>3, <1>4, <1>5, EndIs
<1>7. Underway'
  BY <1>1, <1>2, SettleReaches DEF Settled
<1> QED
  BY <1>6, <1>7

LEMMA UnapprovedPromised ==
  ASSUME Inv, NEW w \in Workers, CompleteUnapproved(w)
  PROVE  Promise!Next /\ Underway'
<1> USE DEF Inv, Decisive, TypedOwned
<1>1. /\ pc = "loop" /\ pc' = pc /\ Receive(w, {"approval"})
      /\ UNCHANGED <<wf, result, fbTried, toDecide>> /\ halted'
      /\ state' = [state EXCEPT ![Owned(w)] = "pending"]
  BY DEF CompleteUnapproved, Receive, Selecting, FirstCause, halted, Owned
<1>2. PICK n \in wf.nodes : n = Owned(w)
  BY <1>1, ReceiveReleases DEF ReturnKinds
<1>3. n \in Now /\ Now' = Now \ {n}
  BY <1>1, <1>2, ReceiveEnds DEF ReturnKinds
<1>4. Status' = [Status EXCEPT ![n] = "todo"]
  <2>1. state' = [state EXCEPT ![n] = "pending"]
    BY <1>1, <1>2
  <2> QED
    BY <1>1, <2>1, OneStatus DEF NodeStates
<1>5. Outcome' = Outcome /\ Plan' = Plan /\ FallbackOnly' = FallbackOnly /\ halted' \in {halted, TRUE}
  BY <1>1, StillRunning, PlanKept, StopKept
<1>6. Promise!Next
  BY <1>1, <1>3, <1>4, <1>5, EndIs
<1>7. Wired' /\ Reached'
  BY <1>1, <1>5 DEF Underway, Wired, Reached, Parents
<1> QED
  BY <1>1, <1>6, <1>7 DEF Underway, Opening, Unended

LEMMA FallbackPromised ==
  ASSUME Inv, NEW w \in Workers, CompleteByFallback(w)
  PROVE  Promise!Next /\ Underway'
<1> USE DEF Inv, Decisive, TypedOwned
<1>1. /\ pc = "loop" /\ pc' = pc /\ Receive(w, Errors)
      /\ UNCHANGED <<wf, state, result, halt, toDecide>>
      /\ fbTried' = fbTried \cup {Owned(w)} /\ FallbackFor(held[w]) # {}
  BY DEF CompleteByFallback, Receive, Selecting, Owned, graphVars
<1>2. PICK n \in wf.nodes : n = Owned(w)
  BY <1>1, ReceiveReleases DEF ReturnKinds, Errors
<1>3. n \in Now /\ Now' = Now \ {n}
  BY <1>1, <1>2, ReceiveEnds DEF ReturnKinds, Errors
<1>4. n \notin fbTried
  BY <1>1, <1>2 DEF FallbackFor, Owned
<1>5. Outcome' = Outcome /\ Plan' = Plan /\ Status' = Status /\ halted' = halted
  BY <1>1, StillRunning, PlanKept DEF Status, halted
<1>6. Promise!Next
  BY <1>1, <1>2, <1>3, <1>4, <1>5, EndIs
<1> QED
  BY <1>1, <1>5, <1>6, NothingToPass

LEMMA CompletionsPromised ==
  ASSUME Inv, NEW w \in Workers, Complete(w)
  PROVE  Promise!Next /\ Underway'
<1>1. halted => halted'
  BY CompletionsKeep DEF Inv, Decisive, StaysHalted, halted
<1>2. CASE CompleteRejected(w)
  <2>1. /\ Receive(w, {"rejected"}) /\ {"rejected"} \in SUBSET ReturnKinds
        /\ Settle(Owned(w), "failed") /\ UNCHANGED fbTried
    BY <1>2 DEF CompleteRejected, Owned, ReturnKinds
  <2> QED
    BY <1>1, <2>1, SettledPromised
<1>3. CASE CompleteCollateral(w) \/ CompleteFailed(w)
  <2>1. /\ Receive(w, Errors) /\ Errors \in SUBSET ReturnKinds
        /\ Settle(Owned(w), "failed") /\ UNCHANGED fbTried
    BY <1>3 DEF CompleteCollateral, CompleteFailed, Owned, Errors, ReturnKinds
  <2> QED
    BY <1>1, <2>1, SettledPromised
<1>4. CASE CompleteOk(w)
  <2>1. /\ Receive(w, {"ok"}) /\ {"ok"} \in SUBSET ReturnKinds
        /\ Settle(Owned(w), "succeeded") /\ UNCHANGED fbTried
    BY <1>4 DEF CompleteOk, Owned, ReturnKinds
  <2> QED
    BY <1>1, <2>1, SettledPromised
<1> QED
  BY <1>2, <1>3, <1>4, UnapprovedPromised, FallbackPromised DEF Complete

\* When the loop is left nothing runs, and unless the run was halted nothing
\* that could be decided was left.
LEMMA FinishPromised ==
  ASSUME Inv, Finish
  PROVE  Promise!Next /\ Underway'
<1> USE DEF Inv, Decisive, TypedOwned
<1>1. /\ pc = "loop" /\ pc' = "returned" /\ toDecide = {} /\ ~LoopGuard
      /\ \A w \in Workers : held[w] = NoTask
      /\ UNCHANGED <<wf, toDecide, held, ready, halt, fbTried>>
      /\ state' = [n \in wf.nodes |-> IF n \in FallbackOnly /\ state[n] = "pending"
                                        THEN "skipped" ELSE state[n]]
      /\ result' = [state |-> StateOf(halt, state'), err |-> ErrOf(halt, state')]
  BY DEF Finish, poolVars
<1>2. Busy = {} /\ Busy' = {}
  BY <1>1 DEF Busy
<1>3. Now = {} /\ Now' = {}
  BY <1>2 DEF Now
<1>4. \A n \in wf.nodes : state[n] \in NodeStates
  BY DEF Typed, TypeOK
<1>5. Status' = [n \in wf.nodes |-> IF n \in FallbackOnly /\ Status[n] = "todo"
                                      THEN "skipped" ELSE Status[n]]
  <2>1. \A n \in wf.nodes : Status[n] = "todo" <=> state[n] = "pending"
    BY <1>4 DEF Status, NodeStates
  <2>2. ASSUME NEW n \in wf.nodes
        PROVE  Status'[n] = IF n \in FallbackOnly /\ Status[n] = "todo" THEN "skipped" ELSE Status[n]
    BY <1>1, <2>1, <2>2 DEF Status
  <2> QED
    BY <1>1, <2>2 DEF Status
<1>6. ~halted => \A n \in wf.nodes : state[n] # "running"
  BY <1>1, <1>2 DEF LoopGuard, OneTaskPerRunningNode, RunningHasTask
<1>7. ASSUME ~halted, NEW n \in wf.nodes
      PROVE  /\ Status[n] # "doing"
             /\ Status[n] = "todo" /\ n \notin FallbackOnly =>
                  \E p \in Parents(n) : Status[p] \notin {"succeeded", "failed", "skipped"}
  <2>1. Status[n] # "doing"
    BY <1>4, <1>6, <1>7 DEF Status, NodeStates
  <2>2. ASSUME Status[n] = "todo", n \notin FallbackOnly
        PROVE  \E p \in Parents(n) : Status[p] \notin {"succeeded", "failed", "skipped"}
    <3>1. state[n] = "pending"
      BY <1>4, <2>2 DEF Status, NodeStates
    <3>2. PICK p \in Parents(n) : state[p] \notin Settled
      BY <1>1, <1>7, <2>2, <3>1 DEF Underway, Reached, Waits, Unsettled
    <3>3. p \in wf.nodes /\ state[p] \in {"pending", "running"}
      BY <1>4, <3>2 DEF Parents, Settled, NodeStates
    <3>4. Status[p] \notin {"succeeded", "failed", "skipped"}
      BY <3>3 DEF Status
    <3> QED
      BY <3>4
  <2> QED
    BY <2>1, <2>2
<1>8. Outcome' = StateOf(halt, state')
  <2>1. StateOf(halt, state') # "none"
    BY DEF StateOf
  <2> QED
    BY <1>1, <2>1 DEF Outcome
<1>9. Outcome' \in IF halted THEN {"paused", "cancelled", "failed"}
                   ELSE IF \A n \in wf.nodes : Status'[n] \in {"succeeded", "skipped"}
                          THEN {"succeeded"} ELSE {"failed"}
  <2>1. CASE halted
    <3>1. halt \in HaltCauses
      BY <2>1 DEF halted, Typed, TypeOK
    <3> QED
      BY <1>8, <2>1, <3>1 DEF StateOf, HaltCauses
  <2>2. CASE ~halted
    <3>1. StateOf(halt, state') = IF \E n \in wf.nodes : state'[n] \in {"pending", "failed"}
                                    THEN "failed" ELSE "succeeded"
      BY <2>2 DEF StateOf, halted, HaltCauses
    <3>2. \A n \in wf.nodes : state'[n] \in {"pending", "succeeded", "failed", "skipped"}
      BY <1>1, <1>4, <1>6, <2>2 DEF NodeStates
    <3>3. \A n \in wf.nodes : Status'[n] \in {"succeeded", "skipped"}
                                <=> state'[n] \notin {"pending", "failed"}
      BY <1>1, <3>2 DEF Status
    <3> QED
      BY <1>8, <2>2, <3>1, <3>3
  <2> QED
    BY <2>1, <2>2
<1>10. Outcome = "running"
  BY <1>1 DEF Underway, Unended, NoResult, Outcome
<1>11. Plan' = Plan /\ halted' = halted
  BY <1>1, PlanKept DEF halted
<1>12. Promise!Next
  BY <1>1, <1>3, <1>5, <1>7, <1>9, <1>10, <1>11, CloseIs
<1>13. Underway'
  BY <1>1 DEF Underway, Opening, Unended, Wired, Reached
<1> QED
  BY <1>12, <1>13

\* Before the loop the run looks as it was planned.
LEMMA PlannedAtFirst ==
  ASSUME Opening, pc = "start", Unended
  PROVE  Promise!Init
<1>1. Status = [n \in wf.nodes |-> IF n \in wf.finished THEN "succeeded" ELSE "todo"]
  BY DEF Opening, InitialState, Status
<1>2. Now = {} /\ fbTried = {} /\ ~halted
  BY DEF Opening, Now
<1>3. Outcome = "running"
  BY DEF Unended, NoResult, Outcome
<1> QED
  BY <1>1, <1>2, <1>3, InitIs

LEMMA RefusePromised ==
  ASSUME Inv, RefuseToStart
  PROVE  Promise!Next /\ Underway'
<1>1. /\ pc = "start" /\ pc' = "returned" /\ result' = [state |-> "failed", err |-> "setup"]
      /\ UNCHANGED <<wf, state, held, halt, fbTried, toDecide>>
  BY DEF RefuseToStart, graphVars, poolVars
<1>2. Plan' = Plan /\ Status' = Status /\ Now' = Now /\ halted' = halted /\ FallbackOnly' = FallbackOnly
  BY <1>1, PlanKept DEF Status, Now, Owned, Busy, halted
<1>3. Outcome' = "failed"
  BY <1>1 DEF Outcome
<1>4. Promise!Init
  BY <1>1, PlannedAtFirst DEF Inv, Underway
<1>5. Promise!Next
  BY <1>1, <1>2, <1>3, <1>4, RefuseIs
<1>6. Underway'
  BY <1>1, <1>2 DEF Inv, Underway, Opening, Unended, Wired, Reached, Parents
<1> QED
  BY <1>5, <1>6

LEMMA StartPromised ==
  ASSUME Inv, Start
  PROVE  UNCHANGED Promise!runVars /\ Underway'
<1> USE DEF Inv, Decisive, TypedOwned
<1>1. /\ pc = "start" /\ pc' = "loop" /\ toDecide' = Seeds
      /\ UNCHANGED <<wf, state, held, halt, fbTried, result>>
  BY DEF Start, poolVars
<1>2. Plan' = Plan /\ Status' = Status /\ Now' = Now /\ halted' = halted /\ FallbackOnly' = FallbackOnly
  BY <1>1, PlanKept DEF Status, Now, Owned, Busy, halted
<1>3. Outcome' = Outcome
  BY <1>1 DEF Outcome
<1>4. Wired'
  BY <1>1, <1>2 DEF Wired, Seeds
<1>5. Reached'
  <2> SUFFICES ASSUME NEW n \in wf.nodes \ FallbackOnly, state[n] = "pending", Waits(n)' = {}
               PROVE  n \in Seeds
    BY <1>1, <1>2 DEF Reached
  <2>1. Waits(n) = {}
    BY <1>1 DEF Waits, Unsettled, Parents
  <2>2. pendingParents[n] = 0
    BY <1>1, <2>1, FS_EmptySet DEF Counted
  <2> QED
    BY <2>2 DEF Seeds
<1>6. Underway'
  BY <1>1, <1>4, <1>5 DEF Underway, Opening, Unended
<1> QED
  BY <1>1, <1>2, <1>3, <1>6, SameStutters

LEMMA ObservePromised ==
  ASSUME Inv, ObserveCancel
  PROVE  (Promise!Next \/ UNCHANGED Promise!runVars) /\ Underway'
<1>1. /\ pc = "loop" /\ pc' = pc /\ UNCHANGED <<wf, state, held, fbTried, result, toDecide>>
      /\ halted' /\ (halted => halt' = halt)
  BY DEF ObserveCancel, CancelHalt, FirstCause, Selecting, halted, graphVars, poolVars
<1>2. Plan' = Plan /\ Status' = Status /\ Now' = Now
  BY <1>1, PlanKept DEF Status, Now, Owned, Busy
<1>3. Outcome = "running" /\ Outcome' = Outcome
  BY <1>1, StillRunning
<1>4. CASE halted
  <2>1. halted' = halted
    BY <1>1, <1>4 DEF halted
  <2> QED
    BY <1>1, <1>2, <1>3, <2>1, SameStutters, NothingToPass
<1>5. CASE ~halted
  BY <1>1, <1>2, <1>3, <1>5, StopIs, NothingToPass
<1> QED
  BY <1>4, <1>5

LEMMA UnseenPromised ==
  ASSUME Inv, UNCHANGED <<wf, pc, state, toDecide, halt, fbTried, result, held>>
  PROVE  UNCHANGED Promise!runVars /\ Underway'
<1>1. Plan' = Plan /\ Status' = Status /\ Now' = Now /\ halted' = halted /\ Outcome' = Outcome
  BY PlanKept DEF Status, Now, Owned, Busy, halted, Outcome
<1> QED
  BY <1>1, SameStutters, NothingToPass

LEMMA InitInv == Init => Inv /\ Promise!Init
<1> SUFFICES ASSUME Init PROVE Inv /\ Promise!Init
  OBVIOUS
<1>1. Decisive /\ Careful
  BY InitCareful
<1>2. pc = "start" /\ state = InitialState /\ Busy = {} /\ fbTried = {} /\ ~halted /\ toDecide = {}
      /\ result = NoResult
  BY DEF Init, Busy, halted
<1>3. Underway
  BY <1>2 DEF Underway, Opening, Unended, Wired, Reached
<1> QED
  BY <1>1, <1>2, <1>3, PlannedAtFirst DEF Inv, Underway

LEMMA NextInv == Inv /\ [Next]_vars => Inv' /\ (Promise!Next \/ UNCHANGED Promise!runVars)
<1> SUFFICES ASSUME Inv, [Next]_vars
             PROVE  Underway' /\ (Promise!Next \/ UNCHANGED Promise!runVars)
  BY NextCareful DEF Inv
<1>1. CASE UNCHANGED vars \/ ParentCancel
  BY <1>1, UnseenPromised DEF vars, ParentCancel, graphVars, poolVars
<1>2. ASSUME NEW w \in Workers, ExecuteNode(w)
      PROVE  Underway' /\ UNCHANGED Promise!runVars
  BY <1>2, UnseenPromised DEF ExecuteNode, graphVars
<1> QED
  BY <1>1, <1>2, StartPromised, RefusePromised, ObservePromised, FinishPromised,
     ActivatePromised, SkipPromised, DispatchPromised, CompletionsPromised
  DEF Next, Coordinator, Returned

\* The scheduler does what WorkflowRun allows, step by step: nodes are decided
\* by their parents, run in as many places as there are workers, none begins
\* after a stop, and a run that was not stopped closes with nothing left to
\* decide.  That it does close is liveness, and not part of this.
THEOREM StepsKeepPromise == Spec => Promise!Init /\ [][Promise!Next]_(Promise!runVars)
<1>1. Init => Inv /\ Promise!Init
  BY InitInv
<1>2. Inv /\ [Next]_vars => Inv' /\ [Promise!Next]_(Promise!runVars)
  BY NextInv
<1> QED
  BY <1>1, <1>2, PTL DEF Spec

-----------------------------------------------------------------------------
(* A run that nothing halted leaves no node behind.                        *)

Resolved == Inv /\ ResolvesEveryNode

\* Every node a run could leave pending waits for another such node, so on a
\* graph without cycles there is none.
LEMMA FinishResolves ==
  ASSUME Inv, Finish, Acyclic(wf), halt' = "none", Dedicated
  PROVE  \A n \in wf.nodes : state'[n] \in Settled
<1> USE DEF Inv, Decisive, TypedOwned
<1>1. /\ pc = "loop" /\ toDecide = {} /\ ~LoopGuard /\ halt = "none"
      /\ \A w \in Workers : held[w] = NoTask
      /\ state' = [n \in wf.nodes |-> IF n \in FallbackOnly /\ state[n] = "pending"
                                        THEN "skipped" ELSE state[n]]
  BY DEF Finish
<1>2. \A n \in wf.nodes : state[n] \in NodeStates /\ state[n] # "running"
  BY <1>1 DEF Typed, TypeOK, LoopGuard, halted, Busy, OneTaskPerRunningNode, RunningHasTask
<1> DEFINE left == { n \in wf.nodes \ FallbackOnly : state[n] = "pending" }
<1>3. \A n \in left : \E p \in left : <<p, n>> \in wf.edges
  <2> SUFFICES ASSUME NEW n \in left PROVE \E p \in left : <<p, n>> \in wf.edges
    OBVIOUS
  <2>1. PICK p \in Parents(n) : state[p] \notin Settled
    BY <1>1 DEF Underway, Reached, halted, Waits, Unsettled
  <2>2. p \in wf.nodes /\ <<p, n>> \in wf.edges /\ state[p] = "pending"
    BY <1>2, <2>1 DEF Parents, Settled, NodeStates
  <2>3. p \notin FallbackOnly
    BY <2>2 DEF Dedicated, Children
  <2> QED
    BY <2>2, <2>3
<1>4. left = {}
  BY <1>3 DEF Acyclic
<1>5. \A n \in wf.nodes : n \in FallbackOnly \/ state[n] # "pending"
  BY <1>4
<1> QED
  BY <1>1, <1>2, <1>5 DEF NodeStates, Settled

LEMMA NextResolves ==
  ASSUME Resolved, [Next]_vars, Acyclic(wf)
  PROVE  Resolved'
<1> USE DEF Resolved
<1>1. Inv'
  BY NextInv
<1>2. wf' = wf /\ FallbackOnly' = FallbackOnly /\ Dedicated' = Dedicated
  <2>1. wf' = wf
    BY DEF Next, Coordinator, Complete, CompleteUnapproved, CompleteRejected,
       CompleteCollateral, CompleteByFallback, CompleteFailed, CompleteOk, Receive,
       RefuseToStart, Start, ObserveCancel, Finish, Activate, Skip, Dispatch,
       ParentCancel, ExecuteNode, Returned, vars
  <2> QED
    BY <2>1 DEF FallbackOnly, Dedicated, Parents, Children
<1>3. CASE Finish
  BY <1>1, <1>2, <1>3, FinishResolves DEF ResolvesEveryNode
<1>4. CASE RefuseToStart
  BY <1>1, <1>4 DEF RefuseToStart, ResolvesEveryNode, Ran
<1>5. CASE UNCHANGED <<pc, state, halt, result>>
  BY <1>1, <1>2, <1>5 DEF ResolvesEveryNode, Ran
<1>6. CASE pc' = "loop"
  BY <1>1, <1>6 DEF ResolvesEveryNode, Ran
<1>7. pc' = "loop" \/ UNCHANGED <<pc, state, halt, result>> \/ Finish \/ RefuseToStart
  BY DEF Next, Coordinator, Complete, CompleteUnapproved, CompleteRejected,
     CompleteCollateral, CompleteByFallback, CompleteFailed, CompleteOk, Receive, Selecting,
     Start, ObserveCancel, Activate, Skip, Dispatch, ParentCancel, ExecuteNode,
     Returned, vars, graphVars
<1> QED
  BY <1>3, <1>4, <1>5, <1>6, <1>7

\* Where no workflow has a cycle, which is what validate.Graph refuses, and the
\* fallback nodes are dedicated, a run that nothing halted returns with every
\* node settled: no ErrIncompleteGraph and no node left running, for every
\* graph, pool, verdict and order of completions.
THEOREM EveryNodeResolves ==
  ASSUME \A w \in Workflows : Acyclic(w)
  PROVE  Spec => []ResolvesEveryNode
<1>1. Init => Resolved
  BY InitInv DEF Resolved, Init, ResolvesEveryNode, Ran
<1>2. Resolved /\ [Next]_vars => Resolved'
  BY NextResolves DEF Resolved, Inv, Decisive, TypedOwned, Typed, TypeOK
<1>3. Resolved => ResolvesEveryNode
  BY DEF Resolved
<1> QED
  BY <1>1, <1>2, <1>3, PTL DEF Spec

=============================================================================
