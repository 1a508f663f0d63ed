--------------------------- MODULE Scheduler_record ----------------------------
(***************************************************************************)
(* What one run of the scheduler returns agrees with what it wrote and with*)
(* its nodes, for every workflow, every pool and every interleaving.       *)
(***************************************************************************)
EXTENDS Scheduler_proofs

\* One Cancelled event for a cancelled run and no other; the end comes last.
Cancellations == Occurs("Cancelled") = IF halt = "cancelled" THEN 1 ELSE 0
NotFinished   == pc # "returned" => Occurs("ExecutionFinished") = 0

\* A worker that holds a task has begun it, so a run that is halted for an
\* approval has a node that was begun and put back.
BegunByHolder == \A w \in Busy : starts[Owned(w)] > 0
Parked(n)     == starts[n] > 0 /\ state[n] = "pending"
SomeParked    == pc # "returned" /\ halt = "approval" => \E n \in wf.nodes : Parked(n)

Truthful ==
  Cancellations /\ NotFinished /\ BegunByHolder /\ SomeParked /\ ResultMatchesRecord

-----------------------------------------------------------------------------
(* Counting events. *)

Places(e) == { i \in 1..Len(events) : events[i] = e }

LEMMA PlacesFinite ==
  ASSUME Typed, NEW e
  PROVE  IsFiniteSet(Places(e)) /\ Occurs(e) = Cardinality(Places(e)) /\ Occurs(e) \in Nat
<1>1. Len(events) \in Nat
  BY DEF Typed, TypeOK
<1>2. Places(e) \in SUBSET (1..Len(events)) /\ IsFiniteSet(1..Len(events))
  BY <1>1, FS_Interval DEF Places
<1>3. IsFiniteSet(Places(e))
  BY <1>2, FS_Subset
<1>4. Occurs(e) = Cardinality(Places(e))
  BY DEF Occurs, Places
<1> QED
  BY <1>3, <1>4, FS_CardinalityType

\* An event that is written is counted once, and no other event is.
LEMMA OccursNext ==
  ASSUME Typed, NEW x \in RunEvents, Emit(<<x>>), NEW e
  PROVE  /\ x = e => Occurs(e)' = Occurs(e) + 1
         /\ x # e => Occurs(e)' = Occurs(e)
         /\ events'[Len(events')] = x
<1>1. events \in Seq(RunEvents) /\ Len(events) \in Nat
  BY DEF Typed, TypeOK
<1>2. events' = Append(events, x)
  BY <1>1 DEF Emit
<1>3. /\ Len(events') = Len(events) + 1 /\ events'[Len(events) + 1] = x
      /\ \A i \in 1..Len(events) : events'[i] = events[i]
  BY <1>1, <1>2
<1>4. Len(events) + 1 \notin Places(e)
  BY <1>1 DEF Places
<1>5. Occurs(e)' = Cardinality(Places(e)')
  BY DEF Occurs, Places
<1>6. Places(e)' = { i \in 1..(Len(events) + 1) : events'[i] = e }
  BY <1>3 DEF Places
<1>7. ASSUME x = e PROVE Occurs(e)' = Occurs(e) + 1
  <2>1. Places(e)' = Places(e) \cup {Len(events) + 1}
    BY <1>1, <1>3, <1>6, <1>7 DEF Places
  <2>2. Cardinality(Places(e) \cup {Len(events) + 1}) = Cardinality(Places(e)) + 1
    BY <1>4, PlacesFinite, FS_AddElement
  <2> QED
    BY <1>5, <2>1, <2>2, PlacesFinite
<1>8. ASSUME x # e PROVE Occurs(e)' = Occurs(e)
  <2>1. Places(e)' = Places(e)
    BY <1>1, <1>3, <1>6, <1>8 DEF Places
  <2> QED
    BY <1>5, <2>1, PlacesFinite
<1> QED
  BY <1>3, <1>7, <1>8

\* Neither event of the two is written by most steps.
Unlogged == Occurs("Cancelled")' = Occurs("Cancelled")
              /\ Occurs("ExecutionFinished")' = Occurs("ExecutionFinished")

LEMMA NothingLogged ==
  ASSUME Typed, events' = events \/ Emit(<<>>)
  PROVE  Unlogged
<1>1. events' = events
  BY DEF Typed, TypeOK, Emit
<1> QED
  BY <1>1 DEF Unlogged, Occurs

LEMMA OtherLogged ==
  ASSUME Typed, NEW x \in RunEvents \ {"Cancelled", "ExecutionFinished"}, Emit(<<x>>)
  PROVE  Unlogged
<1>1. x \in RunEvents /\ x # "Cancelled" /\ x # "ExecutionFinished"
  OBVIOUS
<1>2. Occurs("Cancelled")' = Occurs("Cancelled")
  BY <1>1, OccursNext
<1>3. Occurs("ExecutionFinished")' = Occurs("ExecutionFinished")
  BY <1>1, OccursNext
<1> QED
  BY <1>2, <1>3 DEF Unlogged

\* The count agrees with the cause when neither moves, and when a cancellation
\* is seen.
Agrees == (Cancellations /\ (pc' # "returned" => pc # "returned") /\ NotFinished
             => Cancellations' /\ NotFinished')

LEMMA UnloggedAgrees ==
  ASSUME Unlogged, halt' = "cancelled" <=> halt = "cancelled"
  PROVE  Agrees
BY DEF Unlogged, Agrees, Cancellations, NotFinished

LEMMA CancelHaltAgrees ==
  ASSUME Typed, CancelHalt
  PROVE  Agrees
<1>1. CASE halted
  <2>1. Emit(<<>>) /\ halt' = halt
    BY <1>1 DEF CancelHalt, FirstCause
  <2> QED
    BY <2>1, NothingLogged, UnloggedAgrees
<1>2. CASE ~halted
  <2>1. Emit(<<"Cancelled">>) /\ halt' = "cancelled" /\ halt = "none"
    BY <1>2 DEF CancelHalt, FirstCause, halted
  <2>2. "Cancelled" \in RunEvents
    BY DEF RunEvents
  <2>3. Occurs("Cancelled")' = Occurs("Cancelled") + 1
    BY <2>1, <2>2, OccursNext
  <2>4. Occurs("ExecutionFinished")' = Occurs("ExecutionFinished")
    BY <2>1, <2>2, OccursNext
  <2> QED
    BY <2>1, <2>3, <2>4 DEF Agrees, Cancellations, NotFinished
<1> QED
  BY <1>1, <1>2

-----------------------------------------------------------------------------
(* The steps. *)

\* A completion writes what its cause allows.
LEMMA CompletionsAgree ==
  ASSUME Typed, NEW w \in Workers, Complete(w)
  PROVE  Agrees
<1>1. CASE CompleteUnapproved(w) \/ CompleteRejected(w) \/ CompleteFailed(w)
  <2>1. events' = events /\ halt' \in {halt, FirstCause("approval"), FirstCause("rejected"),
                                       FirstCause("node_failed")}
    BY <1>1 DEF CompleteUnapproved, CompleteRejected, CompleteFailed
  <2> QED
    BY <2>1, NothingLogged, UnloggedAgrees DEF FirstCause, halted
<1>2. CASE CompleteCollateral(w)
  <2>1. CancelHalt \/ (halt' = halt /\ events' = events)
    BY <1>2 DEF CompleteCollateral
  <2> QED
    BY <2>1, CancelHaltAgrees, NothingLogged, UnloggedAgrees
<1>3. CASE CompleteByFallback(w)
  <2>1. halt' = halt /\ events' = events
    BY <1>3 DEF CompleteByFallback
  <2> QED
    BY <2>1, NothingLogged, UnloggedAgrees
<1>4. CASE CompleteOk(w)
  <2>1. /\ Emit(<<"BudgetExceeded">>) \/ Emit(<<"BudgetWarning">>) \/ Emit(<<>>)
        /\ halt' \in {halt, FirstCause("budget")}
    BY <1>4 DEF CompleteOk
  <2>2. Unlogged
    <3>1. /\ "BudgetExceeded" \in RunEvents \ {"Cancelled", "ExecutionFinished"}
          /\ "BudgetWarning" \in RunEvents \ {"Cancelled", "ExecutionFinished"}
      BY DEF RunEvents
    <3> QED
      BY <2>1, <3>1, NothingLogged, OtherLogged
  <2> QED
    BY <2>1, <2>2, UnloggedAgrees DEF FirstCause, halted
<1> QED
  BY <1>1, <1>2, <1>3, <1>4 DEF Complete

\* Who holds a task keeps having begun it, and who was put back stays put back.
StaysPut ==
  /\ \A w \in Busy' : w \in Busy /\ held'[w] = held[w]
  /\ \A n \in wf.nodes : starts'[n] = starts[n]
  /\ \A n \in wf.nodes : Parked(n) => state'[n] = "pending"
  /\ wf' = wf /\ (pc' # "returned" => pc # "returned")

LEMMA StaysPutKeeps ==
  ASSUME Typed, BegunByHolder, SomeParked, StaysPut, halt' = "approval" => halt = "approval"
  PROVE  (BegunByHolder /\ SomeParked)'
<1>1. BegunByHolder'
  <2> SUFFICES ASSUME NEW w \in Busy' PROVE starts'[held'[w].attrTo] > 0
    BY DEF BegunByHolder, Owned
  <2>1. w \in Busy /\ held'[w] = held[w] /\ held[w].attrTo \in wf.nodes
    BY TaskIsReal DEF StaysPut, Busy, Typed, TypeOK
  <2> QED
    BY <2>1 DEF StaysPut, BegunByHolder, Owned
<1>2. SomeParked'
  BY DEF SomeParked, StaysPut, Parked
<1> QED
  BY <1>1, <1>2

\* The node a completion is about is running, so it is not one put back; when
\* it asks for an approval it becomes one.
LEMMA CompletionsPark ==
  ASSUME Decisive, BegunByHolder, SomeParked, NEW w \in Workers, Complete(w)
  PROVE  (BegunByHolder /\ SomeParked)'
<1> USE DEF Decisive, TypedOwned
<1>1. PICK rs \in SUBSET ReturnKinds : Receive(w, rs)
  <2>1. {"approval"} \in SUBSET ReturnKinds /\ {"rejected"} \in SUBSET ReturnKinds
        /\ {"ok"} \in SUBSET ReturnKinds /\ Errors \in SUBSET ReturnKinds
    BY DEF ReturnKinds, Errors
  <2> QED
    BY <2>1 DEF Complete, CompleteUnapproved, CompleteRejected, CompleteCollateral,
                CompleteByFallback, CompleteFailed, CompleteOk
<1>2. PICK n \in wf.nodes : n = Owned(w) /\ w \in Busy /\ state[n] = "running"
  BY <1>1, ReceiveReleases DEF OneTaskPerRunningNode, TasksRun
<1>3. \A m \in wf.nodes \ {n} : state'[m] = state[m]
  BY <1>2 DEF Typed, TypeOK, Complete, CompleteUnapproved, CompleteRejected, CompleteCollateral,
              CompleteByFallback, CompleteFailed, CompleteOk, Settle, Owned, graphVars
<1>4. StaysPut
  <2>1. /\ held' = [held EXCEPT ![w] = NoTask] /\ starts' = starts /\ wf' = wf /\ pc' = pc
    BY <1>1 DEF Receive
  <2>2. \A v \in Busy' : v \in Busy /\ held'[v] = held[v]
    BY <2>1 DEF Busy, Typed, TypeOK
  <2> QED
    BY <1>2, <1>3, <2>1, <2>2 DEF StaysPut, Parked
<1>5. CASE halt' = "approval" => halt = "approval"
  BY <1>4, <1>5, StaysPutKeeps
<1>6. CASE halt' = "approval" /\ halt # "approval"
  <2>1. CompleteUnapproved(w)
    BY <1>6 DEF Complete, CompleteRejected, CompleteCollateral, CompleteByFallback,
                CompleteFailed, CompleteOk, CancelHalt, FirstCause, halted
  <2>2. state'[n] = "pending"
    BY <1>2, <2>1 DEF CompleteUnapproved, Owned, Typed, TypeOK
  <2>3. starts'[n] > 0 /\ wf' = wf
    BY <1>2, <1>4 DEF BegunByHolder, StaysPut
  <2>4. SomeParked'
    BY <2>2, <2>3 DEF SomeParked, Parked
  <2>5. BegunByHolder'
    <3> SUFFICES ASSUME NEW v \in Busy' PROVE starts'[held'[v].attrTo] > 0
      BY DEF BegunByHolder, Owned
    <3>1. v \in Busy /\ held'[v] = held[v] /\ held[v].attrTo \in wf.nodes
      BY <1>4, TaskIsReal DEF StaysPut, Busy, Typed, TypeOK
    <3> QED
      BY <1>4, <3>1 DEF StaysPut, BegunByHolder, Owned
  <2> QED
    BY <2>4, <2>5
<1> QED
  BY <1>5, <1>6

\* A decision is about a node that was never begun.
LEMMA DecisionsPark ==
  ASSUME Decisive, BegunByHolder, SomeParked, NEW n \in wf.nodes, Activate(n) \/ Skip(n)
  PROVE  (BegunByHolder /\ SomeParked)'
<1> USE DEF Decisive, TypedOwned
<1>1. n \in toDecide /\ pc = "loop" /\ wf' = wf /\ pc' = pc /\ held' = held /\ starts' = starts
  BY DEF Activate, Skip, poolVars
<1>2. starts[n] = 0
  BY <1>1 DEF NotYet, Undecided, Untouched
<1>3. \A m \in wf.nodes \ {n} : state'[m] = state[m]
  BY DEF Typed, TypeOK, Activate, Skip, Settle
<1>4. StaysPut
  BY <1>1, <1>2, <1>3 DEF StaysPut, Parked, Busy
<1>5. halt' = "approval" => halt = "approval"
  BY DEF Activate, Skip, FirstCause, halted
<1> QED
  BY <1>4, <1>5, StaysPutKeeps

\* A task that is handed out is begun with that.
LEMMA DispatchPark ==
  ASSUME Decisive, BegunByHolder, SomeParked, NEW w \in Workers, NEW t \in ready, Dispatch(w, t)
  PROVE  (BegunByHolder /\ SomeParked)'
<1> USE DEF Decisive, TypedOwned, Typed, TypeOK
<1>1. /\ held' = [held EXCEPT ![w] = t] /\ starts' = [starts EXCEPT ![t.attrTo] = @ + 1]
      /\ UNCHANGED <<wf, state, pc, halt>> /\ t.attrTo \in wf.nodes /\ ~halted
  BY DEF Dispatch, graphVars
<1>2. \A n \in wf.nodes : starts'[n] >= starts[n] /\ (n = t.attrTo => starts'[n] > 0)
  BY <1>1
<1>3. BegunByHolder'
  <2> SUFFICES ASSUME NEW v \in Busy' PROVE starts'[held'[v].attrTo] > 0
    BY DEF BegunByHolder, Owned
  <2>1. CASE v = w
    BY <1>1, <1>2, <2>1
  <2>2. CASE v # w
    <3>1. v \in Busy /\ held'[v] = held[v] /\ held[v].attrTo \in wf.nodes
      BY <1>1, <2>2 DEF Busy
    <3>2. starts[held[v].attrTo] > 0 /\ starts'[held[v].attrTo] \in Nat
      BY <1>1, <3>1 DEF BegunByHolder, Owned
    <3> QED
      BY <1>1, <1>2, <3>1, <3>2
  <2> QED
    BY <2>1, <2>2
<1>4. SomeParked'
  BY <1>1 DEF SomeParked, halted
<1> QED
  BY <1>3, <1>4

\* The end: nothing is queued or held, so what the causes and the states say
\* is what is returned.
LEMMA FinishTrue ==
  ASSUME Decisive, Truthful, Finish
  PROVE  Truthful'
<1> USE DEF Decisive, TypedOwned, Truthful
<1>1. /\ pc = "loop" /\ pc' = "returned" /\ UNCHANGED <<wf, held, starts, halt>>
      /\ Emit(<<"ExecutionFinished">>) /\ "ExecutionFinished" \in RunEvents
      /\ result' = [state |-> StateOf(halt, state'), err |-> ErrOf(halt, state')]
  BY DEF Finish, poolVars, RunEvents
<1>2. /\ Occurs("ExecutionFinished")' = Occurs("ExecutionFinished") + 1
      /\ events'[Len(events')] = "ExecutionFinished"
  BY <1>1, OccursNext
<1>3. Occurs("Cancelled")' = Occurs("Cancelled")
  BY <1>1, OccursNext
<1>4. \A n \in wf.nodes :
        state'[n] = IF n \in FallbackOnly /\ state[n] = "pending" THEN "skipped" ELSE state[n]
  BY DEF Finish
<1>5. Busy = {} /\ Busy' = {} /\ inFlight = 0
  <2>1. Busy = {} /\ Busy' = {}
    BY <1>1 DEF Finish, Busy
  <2> QED
    BY <2>1, FS_EmptySet DEF OneTaskPerRunningNode
<1>6. Cancellations' /\ NotFinished' /\ BegunByHolder' /\ SomeParked'
  BY <1>1, <1>3, <1>5 DEF Cancellations, NotFinished, BegunByHolder, SomeParked
<1>7. StateOf(halt, state') = "succeeded" => \A n \in wf.nodes : state'[n] \in {"succeeded", "skipped"}
  <2> SUFFICES ASSUME StateOf(halt, state') = "succeeded", NEW n \in wf.nodes
               PROVE  state'[n] \in {"succeeded", "skipped"}
    OBVIOUS
  <2>1. halt = "none"
    BY DEF StateOf, HaltCauses, Typed, TypeOK
  <2>2. state'[n] \notin {"pending", "failed"}
    BY <1>1, <2>1 DEF StateOf, HaltCauses
  <2>3. ready = {}
    BY <1>5, <2>1 DEF Finish, LoopGuard, halted
  <2>4. state[n] # "running"
    BY <1>5, <2>3 DEF OneTaskPerRunningNode, RunningHasTask
  <2> QED
    BY <1>4, <2>2, <2>4 DEF Typed, TypeOK, NodeStates
<1>8. StateOf(halt, state') = "paused" =>
        \E n \in wf.nodes : starts[n] > 0 /\ (state'[n] = "pending" \/ SkippedAsUnneeded(n)')
  <2> SUFFICES ASSUME StateOf(halt, state') = "paused"
               PROVE  \E n \in wf.nodes : starts[n] > 0 /\ (state'[n] = "pending" \/ SkippedAsUnneeded(n)')
    OBVIOUS
  <2>1. halt = "approval"
    BY DEF StateOf, HaltCauses, Typed, TypeOK
  <2>2. PICK n \in wf.nodes : Parked(n)
    BY <1>1, <2>1 DEF SomeParked
  <2> QED
    BY <1>1, <1>4, <2>2 DEF Parked, SkippedAsUnneeded, FallbackOnly
<1>9. StateOf(halt, state') = "cancelled" <=> halt = "cancelled"
  BY DEF StateOf, HaltCauses
<1>10. Occurs("ExecutionFinished")' = 1
  BY <1>1, <1>2 DEF NotFinished
<1>11. result'.state = StateOf(halt, state')
  BY <1>1
<1>12. ResultMatchesRecord'
  BY <1>1, <1>2, <1>3, <1>5, <1>7, <1>8, <1>9, <1>10, <1>11 DEF ResultMatchesRecord, Cancellations
<1> QED
  BY <1>6, <1>12

LEMMA InitTrue == Init => Truthful
<1> SUFFICES ASSUME Init PROVE Truthful
  OBVIOUS
<1>1. \A e : Occurs(e) = 0
  <2> SUFFICES ASSUME NEW e PROVE Occurs(e) = 0
    OBVIOUS
  <2>1. { i \in 1..Len(events) : events[i] = e } = {}
    BY DEF Init
  <2> QED
    BY <2>1, FS_EmptySet DEF Occurs
<1>2. pc = "start" /\ halt = "none" /\ Busy = {}
  BY DEF Init, Busy
<1> QED
  BY <1>1, <1>2 DEF Truthful, Cancellations, NotFinished, BegunByHolder, SomeParked,
                    ResultMatchesRecord, Ran

\* Before the end nothing is claimed of the result.
LEMMA StillRunning ==
  ASSUME pc' # "returned" \/ result'.err = "setup"
  PROVE  ResultMatchesRecord'
BY DEF ResultMatchesRecord, Ran

LEMMA QuietTrue ==
  ASSUME Decisive, Truthful, pc' \in {pc, "loop"}, pc = "returned" => pc' = "returned",
         UNCHANGED <<wf, state, held, starts, halt, events, result>>
  PROVE  Truthful'
<1>1. Cancellations' /\ NotFinished'
  BY DEF Truthful, Cancellations, NotFinished, Occurs
<1>2. BegunByHolder' /\ SomeParked'
  BY DEF Truthful, BegunByHolder, SomeParked, Parked, Busy, Owned
<1>3. ResultMatchesRecord'
  <2>1. CASE pc' = pc
    BY <2>1 DEF Truthful, ResultMatchesRecord, Ran, Occurs, Busy, SkippedAsUnneeded, FallbackOnly
  <2>2. CASE pc' # pc
    BY <2>2, StillRunning
  <2> QED
    BY <2>1, <2>2
<1> QED
  BY <1>1, <1>2, <1>3 DEF Truthful

LEMMA NextTrue == Decisive /\ Truthful /\ [Next]_vars => Truthful'
<1> SUFFICES ASSUME Decisive, Truthful, [Next]_vars PROVE Truthful'
  OBVIOUS
<1>0. Typed /\ Cancellations /\ NotFinished /\ BegunByHolder /\ SomeParked
  BY DEF Decisive, TypedOwned, Truthful
<1>1. CASE UNCHANGED vars
  BY <1>1, QuietTrue DEF vars
<1>2. CASE ParentCancel
  BY <1>2, QuietTrue DEF ParentCancel, graphVars, poolVars
<1>3. ASSUME NEW w \in Workers, ExecuteNode(w) PROVE Truthful'
  BY <1>3, QuietTrue DEF ExecuteNode, graphVars
<1>4. CASE RefuseToStart
  <2>1. /\ UNCHANGED <<wf, state, held, starts, halt, events>>
        /\ pc' = "returned" /\ result'.err = "setup"
    BY <1>4 DEF RefuseToStart, graphVars, poolVars
  <2>2. Cancellations' /\ NotFinished' /\ BegunByHolder' /\ SomeParked'
    BY <1>0, <2>1 DEF Cancellations, NotFinished, Occurs, BegunByHolder, SomeParked, Busy, Owned
  <2> QED
    BY <2>1, <2>2, StillRunning DEF Truthful
<1>5. CASE Start
  <2>1. /\ UNCHANGED <<wf, state, held, starts, halt>> /\ pc = "start" /\ pc' = "loop"
        /\ Emit(<<"ExecutionStarted">>) \/ Emit(<<>>)
    BY <1>5 DEF Start, poolVars
  <2>2. "ExecutionStarted" \in RunEvents \ {"Cancelled", "ExecutionFinished"}
    BY DEF RunEvents
  <2>3. Agrees
    BY <1>0, <2>1, <2>2, OtherLogged, NothingLogged, UnloggedAgrees
  <2>4. BegunByHolder' /\ SomeParked'
    BY <1>0, <2>1 DEF BegunByHolder, SomeParked, Parked, Busy, Owned
  <2> QED
    BY <1>0, <2>1, <2>3, <2>4, StillRunning DEF Truthful, Agrees
<1>6. CASE ObserveCancel
  <2>1. UNCHANGED <<wf, state, held, starts, pc>> /\ CancelHalt /\ pc = "loop"
    BY <1>6 DEF ObserveCancel, Selecting, graphVars, poolVars
  <2>2. Agrees
    BY <1>0, <2>1, CancelHaltAgrees
  <2>3. BegunByHolder' /\ SomeParked'
    BY <1>0, <2>1 DEF BegunByHolder, SomeParked, Parked, Busy, Owned, CancelHalt, FirstCause, halted
  <2> QED
    BY <1>0, <2>1, <2>2, <2>3, StillRunning DEF Truthful, Agrees
<1>7. ASSUME NEW n \in wf.nodes, Activate(n) \/ Skip(n) PROVE Truthful'
  <2>1. pc' = pc /\ pc = "loop" /\ events' = events /\ (halt' = "cancelled" <=> halt = "cancelled")
    BY <1>7 DEF Activate, Skip, FirstCause, halted
  <2>2. Agrees
    BY <1>0, <2>1, NothingLogged, UnloggedAgrees
  <2>3. BegunByHolder' /\ SomeParked'
    BY <1>0, <1>7, DecisionsPark
  <2> QED
    BY <1>0, <2>1, <2>2, <2>3, StillRunning DEF Truthful, Agrees
<1>8. ASSUME NEW w \in Workers, NEW t \in ready, Dispatch(w, t) PROVE Truthful'
  <2>1. pc' = pc /\ pc = "loop" /\ events' = events /\ halt' = halt
    BY <1>8 DEF Dispatch, Selecting
  <2>2. Agrees
    BY <1>0, <2>1, NothingLogged, UnloggedAgrees
  <2>3. BegunByHolder' /\ SomeParked'
    BY <1>0, <1>8, DispatchPark
  <2> QED
    BY <1>0, <2>1, <2>2, <2>3, StillRunning DEF Truthful, Agrees
<1>9. ASSUME NEW w \in Workers, Complete(w) PROVE Truthful'
  <2>1. pc' = pc /\ pc = "loop"
    BY <1>9 DEF Complete, CompleteUnapproved, CompleteRejected, CompleteCollateral,
                CompleteByFallback, CompleteFailed, CompleteOk, Receive, Selecting
  <2>2. Agrees
    BY <1>0, <1>9, CompletionsAgree
  <2>3. BegunByHolder' /\ SomeParked'
    BY <1>0, <1>9, CompletionsPark
  <2> QED
    BY <1>0, <2>1, <2>2, <2>3, StillRunning DEF Truthful, Agrees
<1> QED
  BY <1>1, <1>2, <1>3, <1>4, <1>5, <1>6, <1>7, <1>8, <1>9, FinishTrue DEF Next, Coordinator, Returned

\* What run returns agrees with what it recorded and with the nodes, for every
\* workflow and every pool: success leaves nothing failed or behind, a pause
\* has its node, only a cancelled run logged Cancelled, and it did so once.
THEOREM ResultTrue == Spec => []ResultMatchesRecord
<1>1. Init => Truthful
  BY InitTrue
<1>2. Decisive /\ Truthful /\ [Next]_vars => Truthful'
  BY NextTrue
<1>3. Truthful => ResultMatchesRecord
  BY DEF Truthful
<1>4. Decisive /\ Careful => Decisive
  OBVIOUS
<1> QED
  BY <1>1, <1>2, <1>3, <1>4, AlwaysCareful, PTL DEF Spec

=============================================================================
