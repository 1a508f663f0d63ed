------------------------- MODULE NodeExecution_proofs -------------------------
(***************************************************************************)
(* What holds of the calls of executeNode for any number of them, any      *)
(* outputs and any retry budgets.                                          *)
(***************************************************************************)
EXTENDS NodeExecution, SequenceTheorems, FiniteSetTheorems, TLAPS

\* An executor that was called has a last try, one that succeeded an artifact.
HasTried == \A p \in Calls : pc[p] = "calling" => tries[p] # <<>>
HasOutput == \A p \in Calls : pc[p] = "store" => out[p] \in Outputs

Typed == TypeOK /\ HasTried /\ HasOutput

-----------------------------------------------------------------------------
(* Tries and events. *)

\* The last try gets its result; the others keep theirs.
LEMMA LastTryIs ==
  ASSUME tries \in [Calls -> Seq(Tried)], NEW p \in Calls, tries[p] # <<>>,
         NEW got \in Errors \cup {"pending", "ok"}, LastTry(p, got)
  PROVE  /\ tries' \in [Calls -> Seq(Tried)]
         /\ \A q \in Calls : q # p => tries'[q] = tries[q]
         /\ Len(tries'[p]) = Len(tries[p]) /\ Len(tries[p]) \in Nat \ {0}
         /\ DOMAIN tries'[p] = 1..Len(tries[p]) /\ DOMAIN tries[p] = 1..Len(tries[p])
         /\ \A i \in 1..Len(tries[p]) :
              /\ tries'[p][i].fed = tries[p][i].fed /\ tries'[p][i].late = tries[p][i].late
              /\ tries'[p][i].got = IF i = Len(tries[p]) THEN got ELSE tries[p][i].got
<1> DEFINE n == Len(tries[p])
           last == [tries[p][n] EXCEPT !.got = got]
           new == [tries[p] EXCEPT ![n] = last]
<1>1. tries[p] \in Seq(Tried) /\ n \in Nat \ {0} /\ DOMAIN tries[p] = 1..n
  BY EmptySeq, LenProperties
<1>2. tries[p][n] \in Tried
  BY <1>1, ElementOfSeq
<1>3. last \in Tried /\ last.fed = tries[p][n].fed /\ last.late = tries[p][n].late /\ last.got = got
  BY <1>2 DEF Tried
<1>4. tries' = [tries EXCEPT ![p] = new]
  BY DEF LastTry
<1> HIDE DEF last
<1>5. new \in Seq(Tried) /\ Len(new) = n /\ DOMAIN new = 1..n
      /\ \A i \in 1..n : new[i] = IF i = n THEN last ELSE tries[p][i]
  BY <1>1, <1>3
<1> HIDE DEF new
<1>6. tries'[p] = new /\ \A q \in Calls : q # p => tries'[q] = tries[q]
  BY <1>4
<1>7. tries' \in [Calls -> Seq(Tried)]
  BY <1>4, <1>5
<1> QED
  BY <1>1, <1>3, <1>5, <1>6, <1>7

\* A try is added behind the others.
LEMMA AppendTry ==
  ASSUME NEW s \in Seq(Tried), NEW try \in Tried
  PROVE  /\ Append(s, try) \in Seq(Tried) /\ Append(s, try) # <<>>
         /\ Len(s) \in Nat /\ DOMAIN s = 1..Len(s)
         /\ DOMAIN Append(s, try) = 1..(Len(s) + 1)
         /\ \A i \in 1..Len(s) : Append(s, try)[i] = s[i]
         /\ Append(s, try)[Len(s) + 1] = try /\ Len(Append(s, try)) = Len(s) + 1
<1>1. Len(s) \in Nat /\ DOMAIN s = 1..Len(s)
  BY LenProperties
<1>2. Append(s, try) \in Seq(Tried) /\ Len(Append(s, try)) = Len(s) + 1
  BY AppendProperties
<1>3. /\ \A i \in 1..Len(s) : Append(s, try)[i] = s[i]
      /\ Append(s, try)[Len(s) + 1] = try
  BY <1>1, AppendProperties
<1>4. DOMAIN Append(s, try) = 1..(Len(s) + 1)
  BY <1>2, LenProperties
<1>5. Len(<<>>) = 0
  OBVIOUS
<1>6. Append(s, try) # <<>>
  BY <1>1, <1>2, <1>5
<1> QED
  BY <1>1, <1>2, <1>3, <1>4, <1>6

\* Events are added to one call's log.
LEMMA EmitType ==
  ASSUME log \in [Calls -> Seq(NodeEvents)], NEW p \in Calls,
         NEW events \in Seq(NodeEvents), Emit(p, events)
  PROVE  /\ log' \in [Calls -> Seq(NodeEvents)]
         /\ \A q \in Calls : q # p => log'[q] = log[q]
         /\ ToSet(log'[p]) = ToSet(log[p]) \cup ToSet(events)
<1>1. log' = [log EXCEPT ![p] = log[p] \o events]
  BY DEF Emit
<1>2. log[p] \in Seq(NodeEvents) /\ log[p] \o events \in Seq(NodeEvents)
  BY ConcatProperties
<1>3. ToSet(log[p] \o events) = ToSet(log[p]) \cup ToSet(events)
  <2>1. \A s : ToSet(s) = Range(s)
    BY DEF ToSet, Range
  <2>2. Range(log[p] \o events) = Range(log[p]) \cup Range(events)
    BY <1>2, RangeConcatenation
  <2> QED
    BY <2>1, <2>2
<1> QED
  BY <1>1, <1>2, <1>3

-----------------------------------------------------------------------------
(* Type correctness. *)

LEMMA TypedInit == Init => Typed
<1> SUFFICES ASSUME Init PROVE Typed
  OBVIOUS
<1>1. log \in [Calls -> Seq(NodeEvents)] /\ tries \in [Calls -> Seq(Tried)]
  BY EmptySeq DEF Init
<1>2. transientN \in [Calls -> 0..Retries] /\ contractN \in [Calls -> 0..ContractRetries]
  BY NodeExecutionAssumption DEF Init
<1> QED
  BY <1>1, <1>2 DEF Init, Typed, TypeOK, HasTried, HasOutput, Errors

\* What an action records are events.
LEMMA EventTypes ==
  ASSUME NEW p \in Calls
  PROVE  /\ <<>> \in Seq(NodeEvents) /\ \A e \in NodeEvents : <<e>> \in Seq(NodeEvents)
         /\ Results(p) \in Seq(NodeEvents)
         /\ \A e \in Errors : Obituary(e) \in Seq(NodeEvents)
         /\ <<"CacheHit", "ArtifactCreated", "WorkerFinished">> \in Seq(NodeEvents)
         /\ (IF kind[p] = "model" THEN <<"ContractValidated">> ELSE <<>>)
              \o <<"ArtifactCreated", "WorkerFinished">> \in Seq(NodeEvents)
<1>1. <<>> \in Seq(NodeEvents) /\ \A e \in NodeEvents : <<e>> \in Seq(NodeEvents)
  BY EmptySeq
<1>2. Results(p) \in Seq(NodeEvents)
  BY <1>1 DEF Results, NodeEvents
<1>3. <<"ContractViolation", "Failure">> \in Seq(NodeEvents)
  BY DEF NodeEvents
<1>4. \A e \in Errors : Obituary(e) \in Seq(NodeEvents)
  BY <1>1, <1>3 DEF Obituary, NodeEvents, Errors
<1>5. <<"CacheHit", "ArtifactCreated", "WorkerFinished">> \in Seq(NodeEvents)
  BY DEF NodeEvents
<1>6. <<"ArtifactCreated", "WorkerFinished">> \in Seq(NodeEvents) /\ <<"ContractValidated">> \in Seq(NodeEvents)
  BY DEF NodeEvents
<1>7. (IF kind[p] = "model" THEN <<"ContractValidated">> ELSE <<>>)
        \o <<"ArtifactCreated", "WorkerFinished">> \in Seq(NodeEvents)
  BY <1>1, <1>6, ConcatProperties
<1> QED
  BY <1>1, <1>2, <1>4, <1>5, <1>7

\* The cache, the store and the record.
LEMMA TypedOutside ==
  ASSUME Typed, NEW p \in Calls,
         Begin(p) \/ Hit(p) \/ Miss(p) \/ GiveUp(p) \/ Put(p) \/ Record(p) \/ Remember(p)
  PROVE  Typed'
<1> USE DEF Typed, TypeOK, HasTried, HasOutput, Goto, settings, counters, shared
<1>1. CASE Begin(p)
  <2>1. <<"WorkerStarted">> \in Seq(NodeEvents)
    BY DEF NodeEvents
  <2> QED
    BY <1>1, <2>1, EmitType DEF Begin
<1>2. CASE Hit(p)
  BY <1>2, EventTypes, EmitType DEF Hit, CanHit
<1>3. CASE Miss(p)
  <2>1. (IF Cached(p) THEN <<"CacheMiss">> ELSE <<>>) \in Seq(NodeEvents)
    BY EventTypes DEF NodeEvents
  <2> QED
    BY <1>3, <2>1, EmitType DEF Miss
<1>4. CASE GiveUp(p)
  <2>1. Obituary(err[p]) \in Seq(NodeEvents)
    BY EventTypes DEF Obituary, NodeEvents
  <2> QED
    BY <1>4, <2>1, EmitType DEF GiveUp
<1>5. CASE Put(p)
  BY <1>5 DEF Put, Errors
<1>6. CASE Record(p)
  BY <1>6, EventTypes, EmitType DEF Record
<1>7. CASE Remember(p)
  BY <1>7 DEF Remember
<1> QED
  BY <1>1, <1>2, <1>3, <1>4, <1>5, <1>6, <1>7

\* The executor and the retries around it.
LEMMA TypedInside ==
  ASSUME Typed, NEW p \in Calls,
         Call(p) \/ Refuse(p) \/ Succeed(p) \/ Retry(p) \/ Exhaust(p) \/ Backoff(p)
  PROVE  Typed'
<1> USE DEF Typed, TypeOK, HasTried, HasOutput, Goto, settings, counters, shared
<1>1. CASE Call(p)
  <2> DEFINE try == [fed |-> feedback[p], late |-> ctxDone, got |-> "pending"]
  <2>1. try \in Tried
    BY DEF Tried
  <2>2. tries' = [tries EXCEPT ![p] = Append(tries[p], try)]
    BY <1>1 DEF Call
  <2> HIDE DEF try
  <2>3. Append(tries[p], try) \in Seq(Tried) /\ Append(tries[p], try) # <<>>
    BY <2>1, AppendTry
  <2>4. tries' \in [Calls -> Seq(Tried)] /\ tries'[p] # <<>>
        /\ \A q \in Calls : q # p => tries'[q] = tries[q]
    BY <2>2, <2>3
  <2>5. (IF kind[p] = "tool" THEN <<"ToolCalled">> ELSE <<>>) \in Seq(NodeEvents)
    BY EventTypes DEF NodeEvents
  <2>6. log' \in [Calls -> Seq(NodeEvents)]
    BY <1>1, <2>5, EmitType DEF Call
  <2> QED
    BY <1>1, <2>4, <2>6 DEF Call
<1>2. CASE Refuse(p)
  <2>1. PICK refusal \in Refusals(p) : err' = [err EXCEPT ![p] = refusal[1]] /\ Emit(p, refusal[2])
    BY <1>2 DEF Refuse
  <2>2. refusal[1] \in Errors
    BY <2>1 DEF Refusals, Errors
  <2>3. refusal[2] \in {<<>>, <<"ToolResult">>, <<"ApprovalRequested">>}
    BY <2>1 DEF Refusals
  <2>4. refusal[2] \in Seq(NodeEvents)
    BY <2>3, EventTypes DEF NodeEvents
  <2> QED
    BY <1>2, <2>1, <2>2, <2>4, EmitType DEF Refuse
<1>3. CASE Succeed(p)
  BY <1>3, EventTypes, EmitType, LastTryIs DEF Succeed
<1>4. CASE Retry(p)
  <2>1. PICK e \in Failures(p) :
       /\ MayRetry(p, e)
       /\ transientN' = [transientN EXCEPT ![p] = @ + (IF e \in Transient THEN 1 ELSE 0)]
       /\ contractN' = [contractN EXCEPT ![p] = @ + (IF e = "violation" THEN 1 ELSE 0)]
       /\ feedback' = [feedback EXCEPT ![p] = Feedback(p, e)]
       /\ LastTry(p, e)
    BY <1>4 DEF Retry
  <2>2. e \in Errors
    BY DEF Failures, Errors
  <2>3. tries' \in [Calls -> Seq(Tried)] /\ \A q \in Calls : q # p => tries'[q] = tries[q]
    BY <1>4, <2>1, <2>2, LastTryIs DEF Retry
  <2>4. transientN[p] \in 0..Retries /\ contractN[p] \in 0..ContractRetries
    OBVIOUS
  <2>5. /\ transientN[p] + (IF e \in Transient THEN 1 ELSE 0) \in 0..Retries
        /\ contractN[p] + (IF e = "violation" THEN 1 ELSE 0) \in 0..ContractRetries
    BY <2>1, <2>4, NodeExecutionAssumption DEF MayRetry, Transient
  <2>6. transientN' \in [Calls -> 0..Retries] /\ contractN' \in [Calls -> 0..ContractRetries]
    BY <2>1, <2>5
  <2>7. feedback' \in [Calls -> BOOLEAN]
    BY <2>1 DEF Feedback
  <2>8. log' \in [Calls -> Seq(NodeEvents)]
    BY <1>4, EventTypes, EmitType DEF Retry, NodeEvents
  <2>9. pc' = [pc EXCEPT ![p] = "backoff"]
    BY <1>4 DEF Retry
  <2>10. HasTried' /\ HasOutput'
    BY <1>4, <2>3, <2>9 DEF Retry
  <2>11. TypeOK'
    BY <1>4, <2>3, <2>6, <2>7, <2>8, <2>9 DEF Retry
  <2> QED
    BY <2>10, <2>11
<1>5. CASE Exhaust(p)
  <2>1. PICK e \in Failures(p) : err' = [err EXCEPT ![p] = e] /\ LastTry(p, e)
    BY <1>5 DEF Exhaust
  <2>2. e \in Errors
    BY DEF Failures, Errors
  <2> QED
    BY <1>5, <2>1, <2>2, EventTypes, EmitType, LastTryIs DEF Exhaust
<1>6. CASE Backoff(p)
  BY <1>6 DEF Backoff, AfterwardsAt, Errors
<1> QED
  BY <1>1, <1>2, <1>3, <1>4, <1>5, <1>6

\* Every step keeps the types.
LEMMA TypedStep == Typed /\ [Next]_vars => Typed'
<1> SUFFICES ASSUME Typed, [Next]_vars PROVE Typed'
  OBVIOUS
<1>1. CASE Cancel
  BY <1>1 DEF Cancel, Typed, TypeOK, HasTried, HasOutput, settings, counters, shared
<1>2. CASE Done \/ UNCHANGED vars
  BY <1>2 DEF Done, vars, Typed, TypeOK, HasTried, HasOutput
<1>3. ASSUME NEW p \in Calls, ExecuteNode(p) PROVE Typed'
  BY <1>3, TypedOutside, TypedInside DEF ExecuteNode
<1> QED
  BY <1>1, <1>2, <1>3 DEF Next

LEMMA TypedAlways == Spec => []Typed
<1> QED
  BY TypedInit, TypedStep, PTL DEF Spec

\* Every variable of executeNode (core/engine/node.go) keeps its type.
THEOREM TypeCorrect == Spec => []TypeOK
<1>1. Typed => TypeOK
  BY DEF Typed
<1> QED
  BY <1>1, TypedAlways, PTL

-----------------------------------------------------------------------------
(* One call at a time: a step of one leaves the others' state alone.       *)

Same(q) ==
  /\ kind'[q] = kind[q] /\ pc'[q] = pc[q] /\ transientN'[q] = transientN[q]
  /\ contractN'[q] = contractN[q] /\ feedback'[q] = feedback[q] /\ err'[q] = err[q]
  /\ out'[q] = out[q] /\ log'[q] = log[q] /\ tries'[q] = tries[q]

LEMMA OthersSame ==
  ASSUME Typed, NEW p \in Calls, ExecuteNode(p), NEW q \in Calls, q # p
  PROVE  Same(q)
<1> USE DEF Typed, TypeOK, Goto, Emit, LastTry, settings, counters, shared
<1>1. CASE Begin(p) \/ Hit(p) \/ Miss(p) \/ Refuse(p) \/ Backoff(p)
  BY <1>1 DEF Begin, Hit, Miss, Refuse, Backoff, Same
<1>2. CASE Call(p)
  BY <1>2 DEF Call, Same
<1>3. CASE Succeed(p)
  BY <1>3 DEF Succeed, Same
<1>4. CASE Retry(p)
  BY <1>4 DEF Retry, Same
<1>5. CASE Exhaust(p)
  BY <1>5 DEF Exhaust, Same
<1>6. CASE GiveUp(p) \/ Put(p) \/ Record(p) \/ Remember(p)
  BY <1>6 DEF GiveUp, Put, Record, Remember, Same
<1> QED
  BY <1>1, <1>2, <1>3, <1>4, <1>5, <1>6 DEF ExecuteNode

\* The tries of a call change when it is called and when it has an answer.
LEMMA TriesSame ==
  ASSUME Typed, NEW p \in Calls,
         Begin(p) \/ Hit(p) \/ Miss(p) \/ Refuse(p) \/ Backoff(p)
           \/ GiveUp(p) \/ Put(p) \/ Record(p) \/ Remember(p)
  PROVE  UNCHANGED <<tries, feedback, transientN, contractN, ctxDone>>
BY DEF Begin, Hit, Miss, Refuse, Backoff, GiveUp, Put, Record, Remember, counters

LEMMA TriesAtCall ==
  ASSUME Typed, NEW p \in Calls, Call(p), NEW n, n = Len(tries[p])
  PROVE  /\ DOMAIN tries[p] = 1..n /\ DOMAIN tries'[p] = 1..(n + 1)
         /\ Len(tries'[p]) = n + 1
         /\ \A i \in 1..n : tries'[p][i] = tries[p][i]
         /\ tries'[p][n + 1].fed = feedback[p] /\ tries'[p][n + 1].late = ctxDone
         /\ tries'[p][n + 1].got = "pending"
<1> DEFINE try == [fed |-> feedback[p], late |-> ctxDone, got |-> "pending"]
<1>1. tries[p] \in Seq(Tried) /\ try \in Tried
  BY DEF Typed, TypeOK, Tried
<1>2. tries'[p] = Append(tries[p], try)
  BY DEF Call, Typed, TypeOK
<1>3. try.fed = feedback[p] /\ try.late = ctxDone /\ try.got = "pending"
  OBVIOUS
<1> HIDE DEF try
<1> QED
  BY <1>1, <1>2, <1>3, AppendTry

\* An answer: success, or an error that is retried or not.
Answered(p, got) ==
  LET n == Len(tries[p])
  IN  /\ n \in Nat \ {0} /\ DOMAIN tries[p] = 1..n /\ DOMAIN tries'[p] = 1..n
      /\ Len(tries'[p]) = n
      /\ \A i \in 1..n :
           /\ tries'[p][i].fed = tries[p][i].fed /\ tries'[p][i].late = tries[p][i].late
           /\ tries'[p][i].got = IF i = n THEN got ELSE tries[p][i].got

LEMMA TriesAtAnswer ==
  ASSUME Typed, NEW p \in Calls, pc[p] = "calling", NEW got \in Errors \cup {"ok"},
         LastTry(p, got)
  PROVE  Answered(p, got)
BY LastTryIs DEF Typed, TypeOK, HasTried, Answered

-----------------------------------------------------------------------------
(* The feedback of a violation. *)

Early == {"start", "lookup", "attempt", "calling", "backoff"}
Waiting(p) == pc[p] = "calling" => tries[p][Len(tries[p])].got = "pending"
Violated(p, upto) == \E j \in 1..upto : tries[p][j].got = "violation"
Informed(p) ==
  /\ \A i \in DOMAIN tries[p] : tries[p][i].fed <=> Violated(p, i - 1)
  /\ pc[p] \in Early => feedback[p] <=> Violated(p, Len(tries[p]))
  /\ Waiting(p)

LEMMA InformedStep ==
  ASSUME Typed, NEW p \in Calls, Informed(p), ExecuteNode(p)
  PROVE  Informed(p)'
<1> PICK n \in Nat : n = Len(tries[p]) /\ DOMAIN tries[p] = 1..n
  BY LenProperties DEF Typed, TypeOK
<1>0. feedback[p] \in BOOLEAN
      /\ pc \in [Calls -> {"start", "lookup", "attempt", "calling", "backoff", "failed", "store",
                           "record", "remember", "returned"}]
  BY DEF Typed, TypeOK
<1>1. CASE Begin(p) \/ Hit(p) \/ Miss(p) \/ Refuse(p) \/ Backoff(p)
             \/ GiveUp(p) \/ Put(p) \/ Record(p) \/ Remember(p)
  <2>1. tries' = tries /\ feedback' = feedback
    BY <1>1, TriesSame
  <2>2. pc'[p] # "calling" /\ (pc'[p] \in Early => pc[p] \in Early)
    BY <1>0, <1>1
       DEF Begin, Hit, Miss, Refuse, Backoff, AfterwardsAt, GiveUp, Put, Record, Remember,
           Goto, Early
  <2> QED
    BY <2>1, <2>2 DEF Informed, Waiting, Violated
<1>2. CASE Call(p)
  <2>1. /\ DOMAIN tries'[p] = 1..(n + 1)
        /\ \A i \in 1..n : tries'[p][i] = tries[p][i]
        /\ tries'[p][n + 1].fed = feedback[p] /\ tries'[p][n + 1].got = "pending"
        /\ Len(tries'[p]) = n + 1
    BY <1>2, TriesAtCall
  <2>4. \A k \in 0..n : Violated(p, k)' <=> Violated(p, k)
    <3> SUFFICES ASSUME NEW k \in 0..n PROVE Violated(p, k)' <=> Violated(p, k)
      OBVIOUS
    <3>1. \A j \in 1..k : tries'[p][j] = tries[p][j]
      BY <2>1
    <3> QED
      BY <3>1 DEF Violated
  <2>5. pc[p] = "attempt" /\ feedback'[p] = feedback[p] /\ pc[p] \in Early
    BY <1>2 DEF Call, Goto, counters, Early
  <2>6. feedback[p] <=> Violated(p, n)
    BY <2>5 DEF Informed
  <2>7. Violated(p, n + 1)' <=> Violated(p, n)
    BY <1>0, <2>1 DEF Violated
  <2>8. \A i \in 1..(n + 1) : tries'[p][i].fed <=> Violated(p, i - 1)'
    <3> SUFFICES ASSUME NEW i \in 1..(n + 1) PROVE tries'[p][i].fed <=> Violated(p, i - 1)'
      OBVIOUS
    <3>1. i - 1 \in 0..n
      BY <1>0
    <3>2. CASE i = n + 1
      BY <1>0, <2>1, <2>4, <2>6, <3>1, <3>2
    <3>3. CASE i \in 1..n
      BY <1>0, <2>1, <2>4, <3>1, <3>3 DEF Informed
    <3> QED
      BY <1>0, <3>2, <3>3
  <2> QED
    BY <2>1, <2>5, <2>6, <2>7, <2>8 DEF Informed, Waiting
<1>3. ASSUME NEW got \in Errors \cup {"ok"}, pc[p] = "calling", LastTry(p, got),
             pc'[p] # "calling", pc'[p] \in Early => feedback'[p] = Feedback(p, got)
      PROVE  Informed(p)'
  <2>1. Answered(p, got)
    BY <1>3, TriesAtAnswer
  <2>2. /\ n \in Nat \ {0} /\ DOMAIN tries'[p] = 1..n /\ Len(tries'[p]) = n
        /\ \A i \in 1..n : /\ tries'[p][i].fed = tries[p][i].fed
                           /\ tries'[p][i].got = IF i = n THEN got ELSE tries[p][i].got
    BY <2>1 DEF Answered
  <2>3. \A k \in 0..(n - 1) : Violated(p, k)' <=> Violated(p, k)
    <3> SUFFICES ASSUME NEW k \in 0..(n - 1) PROVE Violated(p, k)' <=> Violated(p, k)
      OBVIOUS
    <3>1. \A j \in 1..k : j \in 1..n /\ j # n
      BY <2>2
    <3>2. \A j \in 1..k : tries'[p][j].got = tries[p][j].got
      BY <2>2, <3>1
    <3> QED
      BY <3>2 DEF Violated
  <2>4. tries[p][n].got = "pending" /\ feedback[p] <=> Violated(p, n)
    BY <1>3 DEF Informed, Waiting, Early
  <2>5. Violated(p, n)' <=> (Violated(p, n) \/ got = "violation")
    BY <2>2, <2>4 DEF Violated
  <2>6. \A i \in 1..n : tries'[p][i].fed <=> Violated(p, i - 1)'
    <3> SUFFICES ASSUME NEW i \in 1..n PROVE tries'[p][i].fed <=> Violated(p, i - 1)'
      OBVIOUS
    <3>1. i - 1 \in 0..(n - 1)
      BY <2>2
    <3> QED
      BY <1>0, <2>2, <2>3, <3>1 DEF Informed
  <2> QED
    BY <1>3, <2>2, <2>4, <2>5, <2>6 DEF Informed, Waiting, Feedback
<1>4. CASE Succeed(p)
  <2>1. pc[p] = "calling" /\ pc'[p] = "store" /\ LastTry(p, "ok")
    BY <1>0, <1>4 DEF Succeed, Goto
  <2> QED
    BY <1>3, <2>1 DEF Early
<1>5. CASE Retry(p)
  <2>1. PICK e \in Failures(p) : /\ feedback' = [feedback EXCEPT ![p] = Feedback(p, e)]
                                 /\ LastTry(p, e)
    BY <1>5 DEF Retry
  <2>2. pc[p] = "calling" /\ pc'[p] = "backoff" /\ feedback'[p] = Feedback(p, e)
    BY <1>0, <1>5, <2>1 DEF Retry, Goto, Typed, TypeOK
  <2>3. e \in Errors
    BY DEF Failures, Errors
  <2> QED
    BY <1>3, <2>1, <2>2, <2>3
<1>6. CASE Exhaust(p)
  <2>1. PICK e \in Failures(p) : LastTry(p, e)
    BY <1>6 DEF Exhaust
  <2>2. pc[p] = "calling" /\ pc'[p] = "failed"
    BY <1>0, <1>6 DEF Exhaust, Goto
  <2>3. e \in Errors
    BY DEF Failures, Errors
  <2> QED
    BY <1>3, <2>1, <2>2, <2>3 DEF Early
<1> QED
  BY <1>1, <1>2, <1>4, <1>5, <1>6 DEF ExecuteNode

-----------------------------------------------------------------------------
(* The call after the cancellation. *)

Late(p) ==
  /\ \A i, j \in DOMAIN tries[p] : tries[p][i].late /\ tries[p][j].late => i = j
  /\ \A i \in DOMAIN tries[p] :
       tries[p][i].late => ctxDone /\ pc[p] \notin {"start", "lookup", "attempt"}

LEMMA LateStep ==
  ASSUME Typed, NEW p \in Calls, Late(p), ExecuteNode(p)
  PROVE  Late(p)'
<1> PICK n \in Nat : n = Len(tries[p]) /\ DOMAIN tries[p] = 1..n
  BY LenProperties DEF Typed, TypeOK
<1>0. pc \in [Calls -> {"start", "lookup", "attempt", "calling", "backoff", "failed", "store",
                        "record", "remember", "returned"}]
  BY DEF Typed, TypeOK
<1>1. CASE Begin(p) \/ Hit(p) \/ Miss(p) \/ Refuse(p) \/ Backoff(p)
             \/ GiveUp(p) \/ Put(p) \/ Record(p) \/ Remember(p)
  <2>1. tries' = tries /\ ctxDone' = ctxDone
    BY <1>1, TriesSame
  <2>2. pc'[p] \in {"start", "lookup", "attempt"} =>
          ~ctxDone \/ pc[p] \in {"start", "lookup", "attempt"}
    BY <1>0, <1>1
       DEF Begin, Hit, Miss, Refuse, Backoff, AfterwardsAt, GiveUp, Put, Record, Remember, Goto
  <2> QED
    BY <2>1, <2>2 DEF Late
<1>2. CASE Call(p)
  <2>1. /\ DOMAIN tries'[p] = 1..(n + 1)
        /\ \A i \in 1..n : tries'[p][i] = tries[p][i]
        /\ tries'[p][n + 1].late = ctxDone
    BY <1>2, TriesAtCall
  <2>2. pc[p] = "attempt" /\ pc'[p] = "calling" /\ ctxDone' = ctxDone
    BY <1>0, <1>2 DEF Call, Goto
  <2>3. \A i \in 1..n : ~tries[p][i].late
    BY <2>2 DEF Late
  <2>4. \A i \in 1..(n + 1) : tries'[p][i].late => i = n + 1 /\ ctxDone
    <3> SUFFICES ASSUME NEW i \in 1..(n + 1), tries'[p][i].late PROVE i = n + 1 /\ ctxDone
      OBVIOUS
    <3>1. CASE i = n + 1
      BY <2>1, <3>1
    <3>2. CASE i \in 1..n
      BY <2>1, <2>3, <3>2
    <3> QED
      BY <3>1, <3>2
  <2> QED
    BY <2>1, <2>2, <2>4 DEF Late
<1>3. ASSUME NEW got \in Errors \cup {"ok"}, pc[p] = "calling", LastTry(p, got),
             pc'[p] \notin {"start", "lookup", "attempt"}, ctxDone' = ctxDone
      PROVE  Late(p)'
  BY <1>3, TriesAtAnswer DEF Late, Answered
<1>4. CASE Succeed(p)
  <2>1. pc[p] = "calling" /\ pc'[p] = "store" /\ LastTry(p, "ok") /\ ctxDone' = ctxDone
    BY <1>0, <1>4 DEF Succeed, Goto
  <2> QED
    BY <1>3, <2>1
<1>5. CASE Retry(p)
  <2>1. PICK e \in Failures(p) : LastTry(p, e)
    BY <1>5 DEF Retry
  <2>2. pc[p] = "calling" /\ pc'[p] = "backoff" /\ ctxDone' = ctxDone
    BY <1>0, <1>5 DEF Retry, Goto
  <2>3. e \in Errors
    BY DEF Failures, Errors
  <2> QED
    BY <1>3, <2>1, <2>2, <2>3
<1>6. CASE Exhaust(p)
  <2>1. PICK e \in Failures(p) : LastTry(p, e)
    BY <1>6 DEF Exhaust
  <2>2. pc[p] = "calling" /\ pc'[p] = "failed" /\ ctxDone' = ctxDone
    BY <1>0, <1>6 DEF Exhaust, Goto
  <2>3. e \in Errors
    BY DEF Failures, Errors
  <2> QED
    BY <1>3, <2>1, <2>2, <2>3
<1> QED
  BY <1>1, <1>2, <1>4, <1>5, <1>6 DEF ExecuteNode

-----------------------------------------------------------------------------
(* The two budgets. *)

\* The counters count what failed, as long as the executor is tried, and
\* nothing has gone wrong before something is said to.
Counting(p) ==
  /\ Failed(p, Transient) = transientN[p] /\ Failed(p, {"violation"}) = contractN[p]
  /\ Failed(p, {"fatal"}) = 0
Budgeted(p) ==
  /\ Failed(p, Transient) <= Retries + 1
  /\ Failed(p, {"violation"}) <= ContractRetries + 1
  /\ Failed(p, {"fatal"}) <= 1
  /\ err[p] \in Transient => Failed(p, Transient) = Retries + 1
  /\ err[p] = "violation" => Failed(p, {"violation"}) = ContractRetries + 1
Counted(p) ==
  /\ pc[p] \in Early => Counting(p)
  /\ pc[p] \notin {"failed", "returned"} => err[p] = "none"
  /\ Budgeted(p) /\ Waiting(p)

\* An answer adds itself to those of its class.
LEMMA CountAnswer ==
  ASSUME Typed, NEW p \in Calls, pc[p] = "calling", Waiting(p),
         NEW got \in Errors \cup {"ok"}, LastTry(p, got),
         NEW class, "pending" \notin class
  PROVE  /\ Failed(p, class) \in Nat
         /\ Failed(p, class)' = Failed(p, class) + (IF got \in class THEN 1 ELSE 0)
<1> PICK n \in Nat \ {0} : n = Len(tries[p]) /\ DOMAIN tries[p] = 1..n
  BY TriesAtAnswer DEF Answered
<1>1. /\ DOMAIN tries'[p] = 1..n
      /\ \A i \in 1..n : tries'[p][i].got = IF i = n THEN got ELSE tries[p][i].got
  BY TriesAtAnswer DEF Answered
<1> DEFINE before == { i \in DOMAIN tries[p] : tries[p][i].got \in class }
           after == { i \in DOMAIN tries'[p] : tries'[p][i].got \in class }
<1>2. n \notin before
  BY DEF Waiting
<1>3. after = IF got \in class THEN before \cup {n} ELSE before
  BY <1>1, <1>2
<1>4. IsFiniteSet(1..n) /\ before \subseteq 1..n
  BY FS_Interval
<1>5. IsFiniteSet(before) /\ Cardinality(before) \in Nat
  BY <1>4, FS_Subset, FS_CardinalityType
<1>6. Failed(p, class) = Cardinality(before) /\ Failed(p, class)' = Cardinality(after)
  BY DEF Failed
<1> HIDE DEF before, after
<1>7. Cardinality(before \cup {n}) = Cardinality(before) + 1
  BY <1>2, <1>5, FS_AddElement
<1> QED
  BY <1>3, <1>5, <1>6, <1>7

\* A call that has no answer yet is of no class.
LEMMA CountCall ==
  ASSUME Typed, NEW p \in Calls, Call(p), NEW class, "pending" \notin class
  PROVE  Failed(p, class)' = Failed(p, class)
<1> PICK n \in Nat : n = Len(tries[p]) /\ DOMAIN tries[p] = 1..n
  BY LenProperties DEF Typed, TypeOK
<1>1. /\ DOMAIN tries'[p] = 1..(n + 1)
      /\ \A i \in 1..n : tries'[p][i] = tries[p][i]
      /\ tries'[p][n + 1].got = "pending"
  BY TriesAtCall
<1>2. { i \in DOMAIN tries[p] : tries[p][i].got \in class }
        = { i \in DOMAIN tries'[p] : tries'[p][i].got \in class }
  BY <1>1
<1> QED
  BY <1>2 DEF Failed

LEMMA CountedStep ==
  ASSUME Typed, NEW p \in Calls, Counted(p), ExecuteNode(p)
  PROVE  Counted(p)'
<1>0. /\ pc \in [Calls -> {"start", "lookup", "attempt", "calling", "backoff", "failed", "store",
                           "record", "remember", "returned"}]
      /\ err \in [Calls -> Errors \cup {"none"}]
      /\ transientN[p] \in 0..Retries /\ contractN[p] \in 0..ContractRetries
      /\ Retries \in Nat /\ ContractRetries \in Nat
  BY NodeExecutionAssumption DEF Typed, TypeOK
<1>1. CASE Begin(p) \/ Hit(p) \/ Miss(p) \/ Refuse(p) \/ Backoff(p)
             \/ GiveUp(p) \/ Put(p) \/ Record(p) \/ Remember(p)
  <2>1. tries' = tries /\ transientN' = transientN /\ contractN' = contractN
    BY <1>1, TriesSame
  <2>2. \A class : Failed(p, class)' = Failed(p, class)
    BY <2>1 DEF Failed
  <2>3. pc'[p] # "calling" /\ (pc'[p] \in Early => pc[p] \in Early)
    BY <1>0, <1>1
       DEF Begin, Hit, Miss, Refuse, Backoff, AfterwardsAt, GiveUp, Put, Record, Remember,
           Goto, Early
  <2>4. err'[p] = err[p] \/ err'[p] \in {"fatal", "approval", "done", "store"}
    <3>1. CASE Refuse(p)
      <4>1. PICK refusal \in Refusals(p) : err' = [err EXCEPT ![p] = refusal[1]]
        BY <3>1 DEF Refuse
      <4>2. refusal[1] \in {"fatal", "approval"}
        BY <4>1 DEF Refusals
      <4> QED
        BY <1>0, <4>1, <4>2
    <3>2. CASE ~Refuse(p)
      BY <1>0, <1>1, <3>2 DEF Begin, Hit, Miss, Backoff, GiveUp, Put, Record, Remember
    <3> QED
      BY <3>1, <3>2
  <2>5. pc'[p] \notin {"failed", "returned"} =>
          err'[p] = err[p] /\ pc[p] \notin {"failed", "returned"}
    BY <1>0, <1>1
       DEF Begin, Hit, Miss, Refuse, Backoff, AfterwardsAt, GiveUp, Put, Record, Remember, Goto
  <2>6. Budgeted(p)'
    BY <2>2, <2>4 DEF Counted, Budgeted, Transient
  <2>7. (pc[p] \in Early => Counting(p)) /\ (pc'[p] \in Early => Counting(p)')
    BY <2>1, <2>2, <2>3 DEF Counted, Counting
  <2>8. Waiting(p)' /\ (pc'[p] \notin {"failed", "returned"} => err'[p] = "none")
    BY <2>3, <2>5 DEF Counted, Waiting
  <2> QED
    BY <2>6, <2>7, <2>8 DEF Counted
<1>2. CASE Call(p)
  <2>1. /\ Failed(p, Transient)' = Failed(p, Transient)
        /\ Failed(p, {"violation"})' = Failed(p, {"violation"})
        /\ Failed(p, {"fatal"})' = Failed(p, {"fatal"})
    BY <1>2, CountCall DEF Transient
  <2>2. UNCHANGED <<transientN, contractN, err>> /\ pc[p] = "attempt" /\ pc'[p] = "calling"
    BY <1>0, <1>2 DEF Call, Goto, counters
  <2>3. Waiting(p)'
    BY <1>2, TriesAtCall DEF Waiting
  <2>4. Counting(p)' /\ Budgeted(p)'
    BY <2>1, <2>2 DEF Counted, Counting, Budgeted, Early
  <2> QED
    BY <2>2, <2>3, <2>4 DEF Counted
<1>3. ASSUME NEW got \in Errors \cup {"ok"}, pc[p] = "calling", LastTry(p, got)
      PROVE  /\ Failed(p, Transient)' = transientN[p] + (IF got \in Transient THEN 1 ELSE 0)
             /\ Failed(p, {"violation"})' = contractN[p] + (IF got = "violation" THEN 1 ELSE 0)
             /\ Failed(p, {"fatal"})' = (IF got = "fatal" THEN 1 ELSE 0)
             /\ err[p] = "none"
  <2>1. Counting(p) /\ Waiting(p) /\ err[p] = "none"
    BY <1>3 DEF Counted, Early
  <2>2. Failed(p, Transient)' = Failed(p, Transient) + (IF got \in Transient THEN 1 ELSE 0)
    BY <1>3, <2>1, CountAnswer DEF Transient
  <2>3. Failed(p, {"violation"})' = Failed(p, {"violation"}) + (IF got = "violation" THEN 1 ELSE 0)
    BY <1>3, <2>1, CountAnswer
  <2>4. Failed(p, {"fatal"})' = Failed(p, {"fatal"}) + (IF got = "fatal" THEN 1 ELSE 0)
    BY <1>3, <2>1, CountAnswer
  <2> QED
    BY <2>1, <2>2, <2>3, <2>4 DEF Counting
<1>4. CASE Succeed(p)
  <2>1. pc[p] = "calling" /\ pc'[p] = "store" /\ LastTry(p, "ok") /\ err' = err
    BY <1>0, <1>4 DEF Succeed, Goto
  <2>2. /\ Failed(p, Transient)' = transientN[p] /\ Failed(p, {"violation"})' = contractN[p]
        /\ Failed(p, {"fatal"})' = 0 /\ err'[p] = "none"
    BY <1>0, <1>3, <2>1 DEF Transient
  <2> QED
    BY <1>0, <2>1, <2>2 DEF Counted, Budgeted, Waiting, Early, Transient
<1>5. CASE Retry(p)
  <2>1. PICK e \in Failures(p) :
       /\ MayRetry(p, e)
       /\ transientN' = [transientN EXCEPT ![p] = @ + (IF e \in Transient THEN 1 ELSE 0)]
       /\ contractN' = [contractN EXCEPT ![p] = @ + (IF e = "violation" THEN 1 ELSE 0)]
       /\ LastTry(p, e)
    BY <1>5 DEF Retry
  <2>2. pc[p] = "calling" /\ pc'[p] = "backoff" /\ err' = err
    BY <1>0, <1>5 DEF Retry, Goto
  <2>3. e \in Errors /\ e # "fatal"
    BY <2>1 DEF Failures, Errors, MayRetry, Transient
  <2>4. /\ transientN'[p] = transientN[p] + (IF e \in Transient THEN 1 ELSE 0)
        /\ contractN'[p] = contractN[p] + (IF e = "violation" THEN 1 ELSE 0)
    BY <2>1 DEF Typed, TypeOK
  <2>5. Counting(p)' /\ err'[p] = "none"
    BY <1>3, <2>1, <2>2, <2>3, <2>4 DEF Counting
  <2>6. Failed(p, Transient)' <= Retries + 1 /\ Failed(p, {"violation"})' <= ContractRetries + 1
    BY <1>0, <1>3, <2>1, <2>2, <2>3
  <2>7. Budgeted(p)'
    BY <2>5, <2>6 DEF Budgeted, Counting, Transient
  <2> QED
    BY <2>2, <2>5, <2>7 DEF Counted, Waiting
<1>6. CASE Exhaust(p)
  <2>1. PICK e \in Failures(p) :
          ~MayRetry(p, e) /\ err' = [err EXCEPT ![p] = e] /\ LastTry(p, e)
    BY <1>6 DEF Exhaust
  <2>2. pc[p] = "calling" /\ pc'[p] = "failed" /\ err'[p] = e
    BY <1>0, <1>6, <2>1 DEF Exhaust, Goto
  <2>3. e \in Errors
    BY DEF Failures, Errors
  <2>4. /\ e \in Transient => transientN[p] = Retries
        /\ e = "violation" => contractN[p] = ContractRetries
    BY <1>0, <2>1 DEF MayRetry
  <2>5. Budgeted(p)'
    BY <1>0, <1>3, <2>1, <2>2, <2>3, <2>4 DEF Budgeted, Transient
  <2> QED
    BY <2>2, <2>5 DEF Counted, Waiting, Early
<1> QED
  BY <1>1, <1>2, <1>4, <1>5, <1>6 DEF ExecuteNode

-----------------------------------------------------------------------------
(* What is recorded. *)

\* The sets of the events an action records.
LEMMA EventSets ==
  /\ ToSet(<<>>) = {}
  /\ \A a : ToSet(<<a>>) = {a}
  /\ \A a, b : ToSet(<<a, b>>) = {a, b}
  /\ \A a, b, c : ToSet(<<a, b, c>>) = {a, b, c}
BY DEF ToSet

\* What is recorded on the way ends nothing; what ends a call as it must.
Ends == {"WorkerFinished", "Failure", "ContractViolation"}
OnTheWay == {<<>>, <<"WorkerStarted">>, <<"CacheMiss">>, <<"ToolCalled">>, <<"ToolResult">>,
             <<"ApprovalRequested">>, <<"Retry">>}

LEMMA OnTheWayEvents ==
  ASSUME NEW s \in OnTheWay
  PROVE  s \in Seq(NodeEvents) /\ \A e \in Ends : e \notin ToSet(s)
<1>1. CASE s = <<>>
  BY <1>1, EmptySeq, EventSets DEF Ends
<1>2. ASSUME NEW a \in {"WorkerStarted", "CacheMiss", "ToolCalled", "ToolResult",
                        "ApprovalRequested", "Retry"}, s = <<a>>
      PROVE  s \in Seq(NodeEvents) /\ \A e \in Ends : e \notin ToSet(s)
  <2>1. ToSet(s) = {a}
    BY <1>2, EventSets
  <2>2. a \in NodeEvents /\ a \notin Ends
    BY DEF NodeEvents, Ends
  <2> QED
    BY <1>2, <2>1, <2>2
<1> QED
  BY <1>1, <1>2 DEF OnTheWay

LEMMA WayEvents ==
  ASSUME NEW p \in Calls,
         Begin(p) \/ Miss(p) \/ Call(p) \/ Refuse(p) \/ Succeed(p) \/ Retry(p) \/ Exhaust(p)
  PROVE  \E events \in OnTheWay : Emit(p, events)
<1>1. CASE Refuse(p)
  <2>1. PICK refusal \in Refusals(p) : Emit(p, refusal[2])
    BY <1>1 DEF Refuse
  <2>2. refusal[2] \in {<<>>, <<"ToolResult">>, <<"ApprovalRequested">>}
    BY <2>1 DEF Refusals
  <2> QED
    BY <2>1, <2>2 DEF OnTheWay
<1>2. CASE Begin(p) \/ Miss(p) \/ Call(p) \/ Retry(p)
  BY <1>2 DEF Begin, Miss, Call, Retry, OnTheWay
<1>3. CASE Succeed(p) \/ Exhaust(p)
  BY <1>3 DEF Succeed, Exhaust, Results, OnTheWay
<1> QED
  BY <1>1, <1>2, <1>3

LEMMA ObituaryEvents ==
  ASSUME NEW e
  PROVE  Obituary(e) \in Seq(NodeEvents) /\ "WorkerFinished" \notin ToSet(Obituary(e))
<1>1. CASE Obituary(e) = <<>>
  BY <1>1, EmptySeq, EventSets
<1>2. CASE Obituary(e) = <<"Failure">>
  BY <1>2, EventSets DEF NodeEvents
<1>3. CASE Obituary(e) = <<"ContractViolation", "Failure">>
  BY <1>3, EventSets DEF NodeEvents
<1> QED
  BY <1>1, <1>2, <1>3 DEF Obituary

\* Whatever is recorded as finished is stored, and stays the call's artifact.
Kept(p) ==
  /\ pc[p] \in {"record", "remember"} => out[p] \in stored
  /\ "WorkerFinished" \in ToSet(log[p]) =>
       pc[p] \in {"remember", "returned"} /\ out[p] \in stored

LEMMA KeptStep ==
  ASSUME Typed, NEW p \in Calls, Kept(p), ExecuteNode(p)
  PROVE  Kept(p)'
<1>0. /\ pc \in [Calls -> {"start", "lookup", "attempt", "calling", "backoff", "failed", "store",
                           "record", "remember", "returned"}]
      /\ out \in [Calls -> Outputs \cup {None}] /\ log \in [Calls -> Seq(NodeEvents)]
  BY DEF Typed, TypeOK
<1>1. ASSUME NEW events \in Seq(NodeEvents), Emit(p, events)
      PROVE  ToSet(log'[p]) = ToSet(log[p]) \cup ToSet(events)
  BY <1>0, <1>1, EmitType
<1>2. ASSUME NEW events \in Seq(NodeEvents), Emit(p, events), "WorkerFinished" \notin ToSet(events),
             pc[p] \notin {"record", "remember", "returned"},
             pc'[p] \notin {"record", "remember"}
      PROVE  Kept(p)'
  BY <1>1, <1>2 DEF Kept
<1>3. CASE Begin(p) \/ Miss(p) \/ Call(p) \/ Refuse(p) \/ Succeed(p) \/ Retry(p) \/ Exhaust(p)
  <2>1. PICK events \in OnTheWay : Emit(p, events)
    BY <1>3, WayEvents
  <2>2. events \in Seq(NodeEvents) /\ "WorkerFinished" \notin ToSet(events)
    BY OnTheWayEvents DEF Ends
  <2>3. /\ pc[p] \notin {"record", "remember", "returned"}
        /\ pc'[p] \notin {"record", "remember"}
    BY <1>0, <1>3 DEF Begin, Miss, Call, Refuse, Succeed, Retry, Exhaust, Goto
  <2> QED
    BY <1>2, <2>1, <2>2, <2>3
<1>4. CASE Hit(p)
  BY <1>0, <1>4 DEF Hit, CanHit, Goto, Kept, shared
<1>5. CASE Backoff(p)
  BY <1>0, <1>5 DEF Backoff, AfterwardsAt, Goto, Kept
<1>6. CASE GiveUp(p)
  BY <1>0, <1>2, <1>6, ObituaryEvents DEF GiveUp, Goto
<1>7. CASE Put(p)
  BY <1>0, <1>7 DEF Put, Goto, Kept, shared
<1>8. CASE Record(p)
  BY <1>0, <1>8 DEF Record, Goto, Kept, shared
<1>9. CASE Remember(p)
  BY <1>0, <1>9 DEF Remember, Goto, Kept
<1> QED
  BY <1>3, <1>4, <1>5, <1>6, <1>7, <1>8, <1>9 DEF ExecuteNode

\* An event that is not in the log yet occurs in it as often as in what is added.
LEMMA OccursOnce ==
  ASSUME NEW s \in Seq(NodeEvents), NEW t \in Seq(NodeEvents), NEW e, e \notin ToSet(s),
         NEW k \in 1..Len(t), t[k] = e, \A j \in 1..Len(t) : t[j] = e => j = k
  PROVE  Cardinality({ i \in DOMAIN (s \o t) : (s \o t)[i] = e }) = 1
<1> DEFINE at == { i \in DOMAIN (s \o t) : (s \o t)[i] = e }
<1>1. Len(s) \in Nat /\ Len(t) \in Nat /\ DOMAIN s = 1..Len(s)
  BY LenProperties
<1>2. /\ s \o t \in Seq(NodeEvents) /\ Len(s \o t) = Len(s) + Len(t)
      /\ \A i \in 1..(Len(s) + Len(t)) :
           (s \o t)[i] = IF i <= Len(s) THEN s[i] ELSE t[i - Len(s)]
  BY ConcatProperties
<1>3. DOMAIN (s \o t) = 1..(Len(s) + Len(t))
  BY <1>2, LenProperties
<1>4. \A i \in 1..Len(s) : s[i] # e
  BY <1>1 DEF ToSet
<1>5. Len(s) + k \in at
  BY <1>1, <1>2, <1>3
<1>6. ASSUME NEW i \in at PROVE i = Len(s) + k
  <2>1. i \in 1..(Len(s) + Len(t)) /\ (s \o t)[i] = e
    BY <1>3
  <2>2. i > Len(s) /\ t[i - Len(s)] = e
    BY <1>1, <1>2, <1>4, <2>1
  <2>3. i - Len(s) \in 1..Len(t)
    BY <1>1, <2>1, <2>2
  <2>4. i - Len(s) = k
    BY <2>2, <2>3
  <2> QED
    BY <1>1, <2>1, <2>4
<1>7. at = {Len(s) + k}
  BY <1>5, <1>6
<1> QED
  BY <1>7, FS_Singleton

LEMMA OccursNever ==
  ASSUME NEW s \in Seq(NodeEvents), NEW t \in Seq(NodeEvents), NEW e, e \notin ToSet(s),
         \A j \in 1..Len(t) : t[j] # e
  PROVE  Cardinality({ i \in DOMAIN (s \o t) : (s \o t)[i] = e }) = 0
<1>1. Len(s) \in Nat /\ Len(t) \in Nat /\ DOMAIN s = 1..Len(s)
  BY LenProperties
<1>2. /\ s \o t \in Seq(NodeEvents) /\ Len(s \o t) = Len(s) + Len(t)
      /\ \A i \in 1..(Len(s) + Len(t)) :
           (s \o t)[i] = IF i <= Len(s) THEN s[i] ELSE t[i - Len(s)]
  BY ConcatProperties
<1>3. DOMAIN (s \o t) = 1..(Len(s) + Len(t))
  BY <1>2, LenProperties
<1>4. \A i \in 1..Len(s) : s[i] # e
  BY <1>1 DEF ToSet
<1>5. ASSUME NEW i \in 1..(Len(s) + Len(t)) PROVE (s \o t)[i] # e
  <2>1. CASE i <= Len(s)
    BY <1>1, <1>2, <1>4, <2>1
  <2>2. CASE i > Len(s)
    <3>1. i - Len(s) \in 1..Len(t)
      BY <1>1, <2>2
    <3> QED
      BY <1>1, <1>2, <2>2, <3>1
  <2> QED
    BY <1>1, <2>1, <2>2
<1>6. { i \in DOMAIN (s \o t) : (s \o t)[i] = e } = {}
  BY <1>3, <1>5
<1> QED
  BY <1>6, FS_EmptySet

LEMMA LastOfConcat ==
  ASSUME NEW s \in Seq(NodeEvents), NEW t \in Seq(NodeEvents), Len(t) > 0
  PROVE  Last(s \o t) = t[Len(t)]
<1>1. Len(s) \in Nat /\ Len(t) \in Nat
  BY LenProperties
<1>2. /\ Len(s \o t) = Len(s) + Len(t)
      /\ \A i \in 1..(Len(s) + Len(t)) :
           (s \o t)[i] = IF i <= Len(s) THEN s[i] ELSE t[i - Len(s)]
  BY ConcatProperties
<1>3. (s \o t)[Len(s) + Len(t)] = t[Len(t)]
  BY <1>1, <1>2
<1> QED
  BY <1>2, <1>3 DEF Last

\* A log that ends in a result, in a failure, in a violation, or in neither.
Succeeded(p) ==
  /\ Occurs(p, "WorkerFinished") = 1 /\ Last(log[p]) = "WorkerFinished"
  /\ Occurs(p, "Failure") = 0 /\ Occurs(p, "ContractViolation") = 0
Ended(p, violations) ==
  /\ Occurs(p, "Failure") = 1 /\ Last(log[p]) = "Failure"
  /\ Occurs(p, "WorkerFinished") = 0 /\ Occurs(p, "ContractViolation") = violations
Paused(p) == \A e \in Ends : Occurs(p, e) = 0

LEMMA LastEvents ==
  ASSUME log \in [Calls -> Seq(NodeEvents)], NEW p \in Calls,
         \A e \in Ends : e \notin ToSet(log[p]),
         NEW events \in Seq(NodeEvents), Emit(p, events)
  PROVE  /\ events \in {<<"CacheHit", "ArtifactCreated", "WorkerFinished">>,
                        <<"ContractValidated", "ArtifactCreated", "WorkerFinished">>,
                        <<"ArtifactCreated", "WorkerFinished">>} => Succeeded(p)'
         /\ events = <<"Failure">> => Ended(p, 0)'
         /\ events = <<"ContractViolation", "Failure">> => Ended(p, 1)'
         /\ events = <<>> => Paused(p)'
<1> DEFINE s == log[p]
<1>1. s \in Seq(NodeEvents) /\ log'[p] = s \o events
  BY DEF Emit
<1>2. \A e : Occurs(p, e)' = Cardinality({ i \in DOMAIN (s \o events) : (s \o events)[i] = e })
  BY <1>1 DEF Occurs
<1>3. ASSUME NEW e \in Ends, \A j \in 1..Len(events) : events[j] # e
      PROVE  Occurs(p, e)' = 0
  BY <1>1, <1>2, <1>3, OccursNever
<1>4. ASSUME NEW e \in Ends, NEW k \in 1..Len(events), events[k] = e,
             \A j \in 1..Len(events) : events[j] = e => j = k
      PROVE  Occurs(p, e)' = 1
  <2>1. e \notin ToSet(s) /\ s \in Seq(NodeEvents)
    BY <1>1
  <2>2. Cardinality({ i \in DOMAIN (s \o events) : (s \o events)[i] = e }) = 1
    BY <1>4, <2>1, OccursOnce
  <2> QED
    BY <1>2, <2>2
<1>5. Len(events) > 0 => Last(log[p])' = events[Len(events)]
  BY <1>1, LastOfConcat
<1> HIDE DEF s
<1>6. ASSUME NEW a, events = <<a, "ArtifactCreated", "WorkerFinished">>, a \notin Ends
      PROVE  Succeeded(p)'
  <2>1. Len(events) = 3 /\ events[1] = a /\ events[2] = "ArtifactCreated" /\ events[3] = "WorkerFinished"
    BY <1>6
  <2>2. \A j \in 1..3 : j = 1 \/ j = 2 \/ j = 3
    OBVIOUS
  <2>3. Occurs(p, "WorkerFinished")' = 1
    BY <1>4, <1>6, <2>1, <2>2 DEF Ends
  <2>4. Occurs(p, "Failure")' = 0 /\ Occurs(p, "ContractViolation")' = 0
    BY <1>3, <1>6, <2>1, <2>2 DEF Ends
  <2>5. Last(log[p])' = "WorkerFinished"
    BY <1>5, <2>1
  <2> QED
    BY <2>3, <2>4, <2>5 DEF Succeeded
<1>7. CASE events = <<"ArtifactCreated", "WorkerFinished">>
  <2>1. Len(events) = 2 /\ events[1] = "ArtifactCreated" /\ events[2] = "WorkerFinished"
    BY <1>7
  <2>2. \A j \in 1..2 : j = 1 \/ j = 2
    OBVIOUS
  <2>3. Occurs(p, "WorkerFinished")' = 1
    BY <1>4, <2>1, <2>2 DEF Ends
  <2>4. Occurs(p, "Failure")' = 0 /\ Occurs(p, "ContractViolation")' = 0
    BY <1>3, <2>1, <2>2 DEF Ends
  <2>5. Last(log[p])' = "WorkerFinished"
    BY <1>5, <2>1
  <2> QED
    BY <1>7, <2>3, <2>4, <2>5 DEF Succeeded
<1>8. CASE events = <<"Failure">>
  <2>1. Len(events) = 1 /\ events[1] = "Failure"
    BY <1>8
  <2>2. Occurs(p, "Failure")' = 1
    BY <1>4, <2>1 DEF Ends
  <2>3. Occurs(p, "WorkerFinished")' = 0 /\ Occurs(p, "ContractViolation")' = 0
    BY <1>3, <2>1 DEF Ends
  <2>4. Last(log[p])' = "Failure"
    BY <1>5, <2>1
  <2> QED
    BY <1>8, <2>2, <2>3, <2>4 DEF Ended
<1>9. CASE events = <<"ContractViolation", "Failure">>
  <2>1. Len(events) = 2 /\ events[1] = "ContractViolation" /\ events[2] = "Failure"
    BY <1>9
  <2>2. \A j \in 1..2 : j = 1 \/ j = 2
    OBVIOUS
  <2>3. Occurs(p, "Failure")' = 1
    BY <1>4, <2>1, <2>2 DEF Ends
  <2>4. Occurs(p, "ContractViolation")' = 1
    BY <1>4, <2>1, <2>2 DEF Ends
  <2>5. Occurs(p, "WorkerFinished")' = 0
    BY <1>3, <2>1, <2>2 DEF Ends
  <2>6. Last(log[p])' = "Failure"
    BY <1>5, <2>1
  <2> QED
    BY <1>9, <2>3, <2>4, <2>5, <2>6 DEF Ended
<1>10. CASE events = <<>>
  BY <1>3, <1>10 DEF Paused
<1>11. events \in {<<"CacheHit", "ArtifactCreated", "WorkerFinished">>,
                   <<"ContractValidated", "ArtifactCreated", "WorkerFinished">>} => Succeeded(p)'
  BY <1>6 DEF Ends
<1> QED
  BY <1>7, <1>8, <1>9, <1>10, <1>11

\* What a call returns and what its log says agree.
Agreed(p) ==
  /\ err[p] = "none" => Succeeded(p)
  /\ err[p] = "approval" => Paused(p)
  /\ err[p] \notin {"none", "approval"} => Ended(p, IF err[p] = "violation" THEN 1 ELSE 0)
Logged(p) ==
  /\ pc[p] \notin {"remember", "returned"} => \A e \in Ends : e \notin ToSet(log[p])
  /\ pc[p] = "remember" => Succeeded(p)
  /\ pc[p] = "returned" => Agreed(p)
  /\ pc[p] = "failed" => err[p] \in Errors

\* One event and two are three.
LEMMA OneAndTwo ==
  ASSUME NEW s \in Seq(NodeEvents), NEW t \in Seq(NodeEvents), NEW u \in Seq(NodeEvents),
         Len(s) = 1, Len(t) = 2, Len(u) = 3, u[1] = s[1], u[2] = t[1], u[3] = t[2]
  PROVE  s \o t = u
<1>1. s \o t \in Seq(NodeEvents) /\ Len(s \o t) = Len(s) + Len(t)
  BY ConcatProperties
<1>2. \A i \in 1..(Len(s) + Len(t)) : (s \o t)[i] = IF i <= Len(s) THEN s[i] ELSE t[i - Len(s)]
  BY ConcatProperties
<1>3. Len(s \o t) = 3
  BY <1>1
<1>4. (s \o t)[1] = s[1] /\ (s \o t)[2] = t[1] /\ (s \o t)[3] = t[2]
  <2>1. /\ 1 \in 1..(Len(s) + Len(t)) /\ 2 \in 1..(Len(s) + Len(t)) /\ 3 \in 1..(Len(s) + Len(t))
        /\ 1 <= Len(s) /\ ~(2 <= Len(s)) /\ ~(3 <= Len(s))
        /\ 2 - Len(s) = 1 /\ 3 - Len(s) = 2
    OBVIOUS
  <2>2. (s \o t)[1] = s[1]
    BY <1>2, <2>1
  <2>3. (s \o t)[2] = t[2 - Len(s)]
    BY <1>2, <2>1
  <2>4. (s \o t)[3] = t[3 - Len(s)]
    BY <1>2, <2>1
  <2> QED
    BY <2>1, <2>2, <2>3, <2>4
<1>5. \A i \in 1..3 : i = 1 \/ i = 2 \/ i = 3
  OBVIOUS
<1>6. \A i \in 1..Len(s \o t) : (s \o t)[i] = u[i]
  BY <1>3, <1>4, <1>5
<1> QED
  BY <1>1, <1>3, <1>6, SeqEqual

\* What a model's result is recorded as, and a tool's.
LEMMA Validated ==
  /\ <<"ContractValidated">> \o <<"ArtifactCreated", "WorkerFinished">>
       = <<"ContractValidated", "ArtifactCreated", "WorkerFinished">>
  /\ <<>> \o <<"ArtifactCreated", "WorkerFinished">> = <<"ArtifactCreated", "WorkerFinished">>
<1>1. /\ <<"ContractValidated">> \in Seq(NodeEvents)
      /\ <<"ArtifactCreated", "WorkerFinished">> \in Seq(NodeEvents)
      /\ <<"ContractValidated", "ArtifactCreated", "WorkerFinished">> \in Seq(NodeEvents)
  BY DEF NodeEvents
<1>2. \A s, t, u \in Seq(NodeEvents) :
        /\ Len(s) = 1 /\ Len(t) = 2 /\ Len(u) = 3
        /\ u[1] = s[1] /\ u[2] = t[1] /\ u[3] = t[2]
        => s \o t = u
  BY OneAndTwo
<1>3. \A t \in Seq(NodeEvents) : <<>> \o t = t
  BY ConcatEmptySeq
<1> QED
  BY <1>1, <1>2, <1>3

LEMMA LoggedStep ==
  ASSUME Typed, NEW p \in Calls, Logged(p), Counted(p), ExecuteNode(p)
  PROVE  Logged(p)'
<1>0. /\ pc \in [Calls -> {"start", "lookup", "attempt", "calling", "backoff", "failed", "store",
                           "record", "remember", "returned"}]
      /\ err \in [Calls -> Errors \cup {"none"}] /\ log \in [Calls -> Seq(NodeEvents)]
  BY DEF Typed, TypeOK
<1>1. CASE Begin(p) \/ Miss(p) \/ Call(p) \/ Refuse(p) \/ Succeed(p) \/ Retry(p) \/ Exhaust(p)
  <2>1. PICK events \in OnTheWay : Emit(p, events)
    BY <1>1, WayEvents
  <2>2. events \in Seq(NodeEvents) /\ \A e \in Ends : e \notin ToSet(events)
    BY OnTheWayEvents
  <2>3. pc[p] \notin {"remember", "returned"} /\ pc'[p] \notin {"remember", "returned"}
    BY <1>0, <1>1 DEF Begin, Miss, Call, Refuse, Succeed, Retry, Exhaust, Goto
  <2>4. ToSet(log'[p]) = ToSet(log[p]) \cup ToSet(events)
    BY <1>0, <2>1, <2>2, EmitType
  <2>5. pc'[p] = "failed" => err'[p] \in Errors
    <3>1. CASE Refuse(p)
      <4>1. PICK refusal \in Refusals(p) : err' = [err EXCEPT ![p] = refusal[1]]
        BY <3>1 DEF Refuse
      <4>2. refusal[1] \in Errors
        BY <4>1 DEF Refusals, Errors
      <4> QED
        BY <1>0, <4>1, <4>2
    <3>2. CASE Exhaust(p)
      <4>1. PICK e \in Failures(p) : err' = [err EXCEPT ![p] = e]
        BY <3>2 DEF Exhaust
      <4>2. e \in Errors
        BY DEF Failures, Errors
      <4> QED
        BY <1>0, <4>1, <4>2
    <3>3. CASE Begin(p) \/ Miss(p) \/ Call(p) \/ Succeed(p) \/ Retry(p)
      BY <1>0, <3>3 DEF Begin, Miss, Call, Succeed, Retry, Goto
    <3> QED
      BY <1>1, <3>1, <3>2, <3>3
  <2> QED
    BY <2>2, <2>3, <2>4, <2>5 DEF Logged
<1>2. CASE Hit(p)
  <2>1. /\ Emit(p, <<"CacheHit", "ArtifactCreated", "WorkerFinished">>)
        /\ pc[p] = "lookup" /\ pc'[p] = "returned" /\ err' = err
    BY <1>0, <1>2 DEF Hit, Goto
  <2>2. err'[p] = "none" /\ \A e \in Ends : e \notin ToSet(log[p])
    BY <2>1 DEF Counted, Logged
  <2>3. Succeeded(p)'
    BY <1>0, <2>1, <2>2, EventTypes, LastEvents
  <2> QED
    BY <2>1, <2>2, <2>3 DEF Logged, Agreed
<1>3. CASE Backoff(p)
  BY <1>0, <1>3 DEF Backoff, AfterwardsAt, Goto, Logged, Errors
<1>4. CASE Put(p)
  BY <1>0, <1>4 DEF Put, Goto, Logged, Errors
<1>5. CASE GiveUp(p)
  <2>1. Emit(p, Obituary(err[p])) /\ pc[p] = "failed" /\ pc'[p] = "returned" /\ err' = err
    BY <1>0, <1>5 DEF GiveUp, Goto
  <2>2. err[p] \in Errors /\ \A e \in Ends : e \notin ToSet(log[p])
    BY <2>1 DEF Logged
  <2>3. Obituary(err[p]) \in Seq(NodeEvents)
    BY ObituaryEvents
  <2>4. CASE err[p] = "approval"
    <3>1. Paused(p)'
      BY <1>0, <2>1, <2>2, <2>3, <2>4, LastEvents DEF Obituary
    <3> QED
      BY <2>1, <2>4, <3>1 DEF Logged, Agreed
  <2>5. CASE err[p] = "violation"
    <3>1. Ended(p, 1)'
      BY <1>0, <2>1, <2>2, <2>3, <2>5, LastEvents DEF Obituary
    <3> QED
      BY <2>1, <2>5, <3>1 DEF Logged, Agreed
  <2>6. CASE err[p] \notin {"approval", "violation"}
    <3>1. Ended(p, 0)'
      BY <1>0, <2>1, <2>2, <2>3, <2>6, LastEvents DEF Obituary
    <3> QED
      BY <2>1, <2>2, <2>6, <3>1 DEF Logged, Agreed, Errors
  <2> QED
    BY <2>4, <2>5, <2>6
<1>6. CASE Record(p)
  <2> DEFINE events == (IF kind[p] = "model" THEN <<"ContractValidated">> ELSE <<>>)
                         \o <<"ArtifactCreated", "WorkerFinished">>
  <2>1. Emit(p, events) /\ pc[p] = "record" /\ pc'[p] = "remember"
    BY <1>0, <1>6 DEF Record, Goto
  <2>2. events \in Seq(NodeEvents)
    BY EventTypes
  <2>3. events \in {<<"ContractValidated", "ArtifactCreated", "WorkerFinished">>,
                    <<"ArtifactCreated", "WorkerFinished">>}
    <3>1. <<"ContractValidated">> \o <<"ArtifactCreated", "WorkerFinished">>
            = <<"ContractValidated", "ArtifactCreated", "WorkerFinished">>
      BY Validated
    <3>2. <<>> \o <<"ArtifactCreated", "WorkerFinished">> = <<"ArtifactCreated", "WorkerFinished">>
      BY Validated
    <3> QED
      BY <3>1, <3>2
  <2> HIDE DEF events
  <2>4. Succeeded(p)'
    BY <1>0, <2>1, <2>2, <2>3, LastEvents DEF Logged
  <2> QED
    BY <2>1, <2>4 DEF Logged
<1>7. CASE Remember(p)
  <2>1. log' = log /\ err' = err /\ pc[p] = "remember" /\ pc'[p] = "returned"
    BY <1>0, <1>7 DEF Remember, Goto
  <2>2. err[p] = "none" /\ Succeeded(p)
    BY <2>1 DEF Logged, Counted
  <2> QED
    BY <2>1, <2>2 DEF Logged, Agreed, Succeeded, Occurs
<1> QED
  BY <1>1, <1>2, <1>3, <1>4, <1>5, <1>6, <1>7 DEF ExecuteNode

-----------------------------------------------------------------------------
(* All calls, and what follows. *)

Sound(p) == Informed(p) /\ Late(p) /\ Counted(p) /\ Kept(p) /\ Logged(p)
NodeInv == Typed /\ \A p \in Calls : Sound(p)

LEMMA NodeInit == Init => NodeInv
<1> SUFFICES ASSUME Init, NEW p \in Calls PROVE Sound(p)
  BY TypedInit DEF NodeInv
<1>1. /\ tries[p] = <<>> /\ log[p] = <<>> /\ pc[p] = "start" /\ feedback[p] = FALSE
      /\ transientN[p] = 0 /\ contractN[p] = 0 /\ err[p] = "none"
  BY DEF Init
<1>2. DOMAIN tries[p] = {} /\ Len(tries[p]) = 0
  BY <1>1
<1>3. \A class : Failed(p, class) = 0
  BY <1>2, FS_EmptySet DEF Failed
<1>4. ToSet(log[p]) = {}
  BY <1>1, EventSets
<1>5. Informed(p) /\ Late(p)
  BY <1>1, <1>2 DEF Informed, Late, Violated, Waiting
<1>6. Counted(p)
  BY <1>1, <1>3, NodeExecutionAssumption DEF Counted, Counting, Budgeted, Waiting, Transient
<1>7. Kept(p) /\ Logged(p)
  BY <1>1, <1>4 DEF Kept, Logged
<1> QED
  BY <1>5, <1>6, <1>7 DEF Sound

\* The calls a step is not of stay sound: the store only grows, and nothing
\* but a cancellation changes the context.
LEMMA SoundForOthers ==
  ASSUME NEW q, Sound(q), Same(q), ctxDone \in BOOLEAN, ctxDone => ctxDone', stored \subseteq stored'
  PROVE  Sound(q)'
<1> USE DEF Sound, Same
<1>1. Informed(q)'
  BY DEF Informed, Violated, Waiting
<1>2. Late(q)'
  BY DEF Late
<1>3. Counted(q)'
  BY DEF Counted, Counting, Budgeted, Waiting, Failed
<1>4. Kept(q)'
  BY DEF Kept
<1>5. Logged(q)'
  BY DEF Logged, Agreed, Succeeded, Ended, Paused, Occurs
<1> QED
  BY <1>1, <1>2, <1>3, <1>4, <1>5

LEMMA NodeStep == NodeInv /\ [Next]_vars => NodeInv'
<1> SUFFICES ASSUME NodeInv, [Next]_vars PROVE NodeInv'
  OBVIOUS
<1>1. Typed /\ Typed' /\ ctxDone \in BOOLEAN
  BY TypedStep DEF NodeInv, Typed, TypeOK
<1>2. CASE Cancel \/ Done \/ UNCHANGED vars
  <2>1. ASSUME NEW q \in Calls
        PROVE  Same(q) /\ (ctxDone => ctxDone') /\ stored \subseteq stored'
    BY <1>2 DEF Cancel, Done, vars, Same, settings, counters, shared
  <2> QED
    BY <1>1, <2>1, SoundForOthers DEF NodeInv
<1>3. ASSUME NEW p \in Calls, ExecuteNode(p) PROVE NodeInv'
  <2>1. (ctxDone => ctxDone') /\ stored \subseteq stored'
    BY <1>3 DEF ExecuteNode, Begin, Hit, Miss, Call, Refuse, Succeed, Retry, Exhaust, Backoff,
                GiveUp, Put, Record, Remember, shared
  <2>2. ASSUME NEW q \in Calls, q # p PROVE Sound(q)'
    BY <1>1, <1>3, <2>1, <2>2, OthersSame, SoundForOthers DEF NodeInv
  <2>3. Sound(p)'
    BY <1>1, <1>3, InformedStep, LateStep, CountedStep, KeptStep, LoggedStep DEF NodeInv, Sound
  <2> QED
    BY <1>1, <2>2, <2>3 DEF NodeInv
<1> QED
  BY <1>2, <1>3 DEF Next

LEMMA NodeInvariant == Spec => []NodeInv
<1> QED
  BY NodeInit, NodeStep, PTL DEF Spec

\* REQ-RUNTIME-03, REQ-CONTRACT-02 (retry.go:60): each class of failures has a
\* budget of its own, for any two budgets and any order of the failures.
THEOREM Budgets == Spec => []BudgetsApart
<1>1. NodeInv => BudgetsApart
  BY DEF NodeInv, Sound, Counted, Budgeted, BudgetsApart
<1> QED
  BY <1>1, NodeInvariant, PTL

\* REQ-CONTRACT-02 (node.go:149): a violation is passed on to every later
\* attempt of its node and to nobody else's.
THEOREM FeedbackStays == Spec => []FeedbackIsPassedOn
<1>1. ASSUME NodeInv, NEW p \in Calls, NEW i \in DOMAIN tries[p]
      PROVE  tries[p][i].fed = \E j \in 1..(i - 1) : tries[p][j].got = "violation"
  <2>1. tries[p][i] \in Tried
    BY <1>1, ElementOfSeq, LenProperties DEF NodeInv, Typed, TypeOK
  <2>2. tries[p][i].fed \in BOOLEAN
    BY <2>1 DEF Tried
  <2>3. tries[p][i].fed <=> \E j \in 1..(i - 1) : tries[p][j].got = "violation"
    BY <1>1 DEF NodeInv, Sound, Informed, Violated
  <2> QED
    BY <2>2, <2>3
<1>2. NodeInv => FeedbackIsPassedOn
  BY <1>1 DEF FeedbackIsPassedOn
<1> QED
  BY <1>2, NodeInvariant, PTL

\* REQ-RUNTIME-05 (retry.go:112): after the cancellation a node makes at most
\* the call it was about to make.
THEOREM OneLateCall == Spec => []OneCallAfterCancel
<1>1. ASSUME NodeInv, NEW p \in Calls
      PROVE  Cardinality({ i \in DOMAIN tries[p] : tries[p][i].late }) <= 1
  <2> DEFINE late == { i \in DOMAIN tries[p] : tries[p][i].late }
  <2>1. late = {} \/ \E i : late = {i}
    BY <1>1 DEF NodeInv, Sound, Late
  <2> HIDE DEF late
  <2>2. Cardinality(late) = 0 \/ Cardinality(late) = 1
    BY <2>1, FS_EmptySet, FS_Singleton
  <2> QED
    BY <2>2 DEF late
<1>2. NodeInv => OneCallAfterCancel
  BY <1>1 DEF OneCallAfterCancel
<1> QED
  BY <1>2, NodeInvariant, PTL

\* REQ-RUNTIME-06 (node.go:205): whatever is recorded as finished can be read
\* back, whichever of the concurrent calls or the cache it came from.
THEOREM FinishedStays == Spec => []FinishedIsStored
<1>1. NodeInv => FinishedIsStored
  BY DEF NodeInv, Sound, Kept, FinishedIsStored
<1> QED
  BY <1>1, NodeInvariant, PTL

\* REQ-CONTRACT-03, REQ-RUNTIME-06 (node.go:186): what a call returns and what
\* it recorded agree, after any number of retries.
THEOREM RecordTrue == Spec => []RecordAgrees
<1>1. ASSUME NodeInv, NEW p \in Calls, pc[p] = "returned" PROVE Agreed(p)
  BY <1>1 DEF NodeInv, Sound, Logged
<1>2. NodeInv => RecordAgrees
  BY <1>1 DEF RecordAgrees, Agreed, Succeeded, Ended, Paused, Ends
<1> QED
  BY <1>2, NodeInvariant, PTL

=============================================================================
