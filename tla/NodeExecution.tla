---------------------------- MODULE NodeExecution ----------------------------
(***************************************************************************)
(* What a worker goroutine does between a task and its completion:         *)
(* Scheduler.executeNode with its cache, retry loop and artifact store     *)
(* (core/engine/node.go, retry.go), and the executor behind it, a model's  *)
(* or a tool's.  The calls in Calls run concurrently in one run, on nodes  *)
(* with the same worker and inputs, so that the model-backed ones share a  *)
(* cache key.  Scheduler takes one such call as a single step.             *)
(*                                                                         *)
(* An artifact is a model value.  Of an error only its class is kept, and  *)
(* whether the context ended the call.  Delays are not represented.        *)
(***************************************************************************)
EXTENDS Naturals, Sequences, FiniteSets, SequencesExt

CONSTANTS Calls,          \* executeNode calls
          Outputs,        \* what a model or a tool may produce
          None,           \* no artifact
          Retries,        \* the node's retry budget
          ContractRetries \* contract.maxRetries

ASSUME NodeExecutionAssumption ==
  /\ IsFiniteSet(Calls) /\ None \notin Outputs
  /\ Retries \in Nat /\ ContractRetries \in Nat

VARIABLES
  kind,     \* kind[p]: "model" or "tool"; never written
  mode,     \* the run's cache mode; never written
  ctxDone,  \* the run's context was cancelled
  pc,       \* pc[p]: where the call is
  transientN, contractN, \* withRetry's two counters
  feedback, \* feedback[p]: the last violation's errors are to be passed on
  err,      \* err[p]: the error executeNode is to return
  out,      \* out[p]: the artifact of the call
  log,      \* log[p]: the events of the call
  tries,    \* tries[p]: the executor's calls and what they returned (history)
  entry,    \* the cache entry of the shared key
  stored    \* the artifacts in the store

vars == <<kind, mode, ctxDone, pc, transientN, contractN, feedback, err, out, log,
          tries, entry, stored>>
settings == <<kind, mode>>
counters == <<transientN, contractN, feedback>>
shared   == <<entry, stored>>

CacheModes == {"on", "off", "readonly"}
\* "cut": the context ended the model call, which the provider reports as a
\* transient failure; "done": withRetry found the context done.
Errors  == {"transient", "cut", "violation", "fatal", "approval", "done", "store"}
Tried   == [fed : BOOLEAN, late : BOOLEAN, got : Errors \cup {"pending", "ok"}]
NodeEvents == {"WorkerStarted", "CacheHit", "CacheMiss", "ToolCalled", "ToolResult", "Retry",
               "ApprovalRequested", "ContractViolation", "Failure", "ContractValidated",
               "ArtifactCreated", "WorkerFinished"}

\* A cache entry may have outlived its artifact.
Init ==
  /\ kind \in [Calls -> {"model", "tool"}]
  /\ mode \in CacheModes
  /\ ctxDone = FALSE
  /\ pc = [p \in Calls |-> "start"]
  /\ transientN = [p \in Calls |-> 0] /\ contractN = [p \in Calls |-> 0]
  /\ feedback = [p \in Calls |-> FALSE]
  /\ err = [p \in Calls |-> "none"]
  /\ out = [p \in Calls |-> None]
  /\ log = [p \in Calls |-> <<>>]
  /\ tries = [p \in Calls |-> <<>>]
  /\ entry \in Outputs \cup {None}
  /\ stored \in SUBSET Outputs

Goto(p, from, to) == pc[p] = from /\ pc' = [pc EXCEPT ![p] = to]
Emit(p, events)   == log' = [log EXCEPT ![p] = @ \o events]

-----------------------------------------------------------------------------
(* The cache. *)

\* A tool is never cached.  "off" also stands for a scheduler without a cache
\* and for a worker that does not resolve, which has no key.
Cached(p) == kind[p] = "model" /\ mode # "off"

InIndex(p) == Cached(p) /\ entry # None \* mutant: the store is not asked
CanHit(p)  == Cached(p) /\ entry # None /\ entry \in stored

Begin(p) ==
  /\ Goto(p, "start", "lookup")
  /\ Emit(p, <<"WorkerStarted">>)
  /\ UNCHANGED <<settings, ctxDone, counters, err, out, tries, shared>>

\* A hit's record is that of a run that cost nothing.
Hit(p) ==
  /\ CanHit(p)
  /\ Goto(p, "lookup", "returned")
  /\ out' = [out EXCEPT ![p] = entry]
  /\ Emit(p, <<"CacheHit", "ArtifactCreated", "WorkerFinished">>)
  /\ UNCHANGED <<settings, ctxDone, counters, err, tries, shared>>

\* An entry without its artifact is a miss.
Miss(p) ==
  /\ ~CanHit(p)
  /\ Goto(p, "lookup", "attempt")
  /\ Emit(p, IF Cached(p) THEN <<"CacheMiss">> ELSE <<>>)
  /\ UNCHANGED <<settings, ctxDone, counters, err, out, tries, shared>>

-----------------------------------------------------------------------------
(* withRetry around the executor. *)

LastTry(p, got) == tries' = [tries EXCEPT ![p][Len(tries[p])].got = got]

\* The executor goes to the provider or the tool.
Call(p) ==
  /\ Goto(p, "attempt", "calling")
  /\ tries' = [tries EXCEPT ![p] =
                 Append(@, [fed |-> feedback[p], late |-> ctxDone, got |-> "pending"])]
  /\ Emit(p, IF kind[p] = "tool" THEN <<"ToolCalled">> ELSE <<>>)
  /\ UNCHANGED <<settings, ctxDone, counters, err, out, shared>>

\* ... or finds that it cannot: no such worker, provider or tool, input that
\* does not resolve or is invalid, a mutation that nobody approved.
Refusals(p) ==
  {<<"fatal", <<>>>>} \cup
  IF kind[p] = "model" THEN {}
  ELSE {<<"fatal", <<"ToolResult">>>>,
        <<"approval", <<"ApprovalRequested">>>>, <<"approval", <<>>>>}

Refuse(p) ==
  /\ Goto(p, "attempt", "failed")
  /\ \E refusal \in Refusals(p) :
       err' = [err EXCEPT ![p] = refusal[1]] /\ Emit(p, refusal[2])
  /\ UNCHANGED <<settings, ctxDone, counters, out, tries, shared>>

Results(p) == IF kind[p] = "tool" THEN <<"ToolResult">> ELSE <<>>

Succeed(p) ==
  /\ Goto(p, "calling", "store")
  /\ \E o \in Outputs : out' = [out EXCEPT ![p] = o]
  /\ LastTry(p, "ok") /\ Emit(p, Results(p))
  /\ UNCHANGED <<settings, ctxDone, counters, err, shared>>

\* How a call can fail; every error of a tool is fatal.
Failures(p) ==
  IF kind[p] = "tool" THEN {"fatal"}
  ELSE {"transient", "violation", "fatal"} \cup (IF ctxDone THEN {"cut"} ELSE {})

Transient == {"transient", "cut"}

\* mutants: an off-by-one; one counter for both classes
OneMore(p, e) == e \in Transient /\ transientN[p] <= Retries
OneBudget(p, e) == e \in Transient \cup {"violation"} /\ transientN[p] + contractN[p] < Retries
MayRetry(p, e) ==
  \/ e \in Transient /\ transientN[p] < Retries
  \/ e = "violation" /\ contractN[p] < ContractRetries

LatestOnly(p, e) == e = "violation" \* mutant: feedback lives for one attempt
Feedback(p, e)   == feedback[p] \/ e = "violation"

\* A failure its class still has a retry for is recorded as a Retry.
Retry(p) ==
  /\ Goto(p, "calling", "backoff")
  /\ \E e \in Failures(p) :
       /\ MayRetry(p, e)
       /\ transientN' = [transientN EXCEPT ![p] = @ + (IF e \in Transient THEN 1 ELSE 0)]
       /\ contractN' = [contractN EXCEPT ![p] = @ + (IF e = "violation" THEN 1 ELSE 0)]
       /\ feedback' = [feedback EXCEPT ![p] = Feedback(p, e)]
       /\ LastTry(p, e)
  /\ Emit(p, <<"Retry">>)
  /\ UNCHANGED <<settings, ctxDone, err, out, shared>>

Exhaust(p) ==
  /\ Goto(p, "calling", "failed")
  /\ \E e \in Failures(p) :
       /\ ~MayRetry(p, e)
       /\ err' = [err EXCEPT ![p] = e] /\ LastTry(p, e)
  /\ Emit(p, Results(p))
  /\ UNCHANGED <<settings, ctxDone, counters, out, shared>>

\* mutants: the context is not looked at; a sleep that was cut short starts over
Onward(p)    == "attempt"
SleepOn(p)   == IF ctxDone THEN "backoff" ELSE "attempt"
AfterwardsAt(p) == IF ctxDone THEN "failed" ELSE "attempt"

\* The backoff ends with its timer or the context, and the context decides.
Backoff(p) ==
  /\ Goto(p, "backoff", AfterwardsAt(p))
  /\ err' = [err EXCEPT ![p] = IF AfterwardsAt(p) = "failed" THEN "done" ELSE @]
  /\ UNCHANGED <<settings, ctxDone, counters, out, log, tries, shared>>

-----------------------------------------------------------------------------
(* The record. *)

\* mutants: a pause is recorded as a failure; a violation ends like any error
AnyError(e) == IF e = "violation" THEN <<"ContractViolation", "Failure">> ELSE <<"Failure">>
Unnamed(e)  == IF e = "approval" THEN <<>> ELSE <<"Failure">>
Obituary(e) ==
  CASE e = "approval"  -> <<>>
    [] e = "violation" -> <<"ContractViolation", "Failure">>
    [] OTHER           -> <<"Failure">>

GiveUp(p) ==
  /\ Goto(p, "failed", "returned")
  /\ Emit(p, Obituary(err[p]))
  /\ UNCHANGED <<settings, ctxDone, counters, err, out, tries, shared>>

\* store.Put: a quota, a size limit or the disk may refuse it.
Put(p) ==
  \/ /\ Goto(p, "store", "record")
     /\ stored' = stored \cup {out[p]}
     /\ UNCHANGED <<settings, ctxDone, counters, err, out, log, tries, entry>>
  \/ /\ Goto(p, "store", "failed")
     /\ err' = [err EXCEPT ![p] = "store"]
     /\ UNCHANGED <<settings, ctxDone, counters, out, log, tries, shared>>

Record(p) ==
  /\ Goto(p, "record", "remember")
  /\ Emit(p, (IF kind[p] = "model" THEN <<"ContractValidated">> ELSE <<>>)
               \o <<"ArtifactCreated", "WorkerFinished">>)
  /\ UNCHANGED <<settings, ctxDone, counters, err, out, tries, shared>>

Remember(p) ==
  /\ Goto(p, "remember", "returned")
  /\ entry' = IF Cached(p) /\ mode = "on" THEN out[p] ELSE entry
  /\ UNCHANGED <<settings, ctxDone, counters, err, out, log, tries, stored>>

\* The caller cancels, or the run halts.
Cancel ==
  /\ ~ctxDone /\ ctxDone' = TRUE
  /\ UNCHANGED <<settings, pc, counters, err, out, log, tries, shared>>

ExecuteNode(p) ==
  \/ Begin(p) \/ Hit(p) \/ Miss(p) \/ Call(p) \/ Refuse(p) \/ Succeed(p) \/ Retry(p)
  \/ Exhaust(p) \/ Backoff(p) \/ GiveUp(p) \/ Put(p) \/ Record(p) \/ Remember(p)

Done == (\A p \in Calls : pc[p] = "returned") /\ UNCHANGED vars

Next == Cancel \/ Done \/ \E p \in Calls : ExecuteNode(p)

\* A worker goroutine goes on; a provider's or a tool's call ends, by its
\* timeout if not before.
Fairness == \A p \in Calls : WF_vars(ExecuteNode(p))

Spec == Init /\ [][Next]_vars /\ Fairness

-----------------------------------------------------------------------------
(* Properties. *)

\* Every variable keeps its type.
TypeOK ==
  /\ kind \in [Calls -> {"model", "tool"}] /\ mode \in CacheModes /\ ctxDone \in BOOLEAN
  /\ pc \in [Calls -> {"start", "lookup", "attempt", "calling", "backoff", "failed", "store",
                       "record", "remember", "returned"}]
  /\ transientN \in [Calls -> 0..Retries] /\ contractN \in [Calls -> 0..ContractRetries]
  /\ feedback \in [Calls -> BOOLEAN]
  /\ err \in [Calls -> Errors \cup {"none"}]
  /\ out \in [Calls -> Outputs \cup {None}]
  /\ log \in [Calls -> Seq(NodeEvents)]
  /\ tries \in [Calls -> Seq(Tried)]
  /\ entry \in Outputs \cup {None} /\ stored \in SUBSET Outputs

Failed(p, class) == Cardinality({ i \in DOMAIN tries[p] : tries[p][i].got \in class })
Occurs(p, e)     == Cardinality({ i \in DOMAIN log[p] : log[p][i] = e })

\* REQ-RUNTIME-03 and REQ-CONTRACT-02: each class of failures has a budget of
\* its own.  A node fails of one only when that budget is used up, however
\* many failures of the other came in between, and other errors end it at
\* once.
BudgetsApart ==
  \A p \in Calls :
    /\ Failed(p, Transient) <= Retries + 1
    /\ Failed(p, {"violation"}) <= ContractRetries + 1
    /\ Failed(p, {"fatal"}) <= 1
    /\ err[p] \in Transient => Failed(p, Transient) = Retries + 1
    /\ err[p] = "violation" => Failed(p, {"violation"}) = ContractRetries + 1

\* REQ-CONTRACT-02: once an output violated the contract, every attempt of the
\* node is told so, those after a transient failure in between included, and
\* none is before.
FeedbackIsPassedOn ==
  \A p \in Calls : \A i \in DOMAIN tries[p] :
    tries[p][i].fed = \E j \in 1..(i - 1) : tries[p][j].got = "violation"

\* REQ-RUNTIME-05: after the cancellation a node makes at most the one call it
\* was about to make, whatever is left of its budgets.
OneCallAfterCancel ==
  \A p \in Calls : Cardinality({ i \in DOMAIN tries[p] : tries[p][i].late }) <= 1

\* What a call returns and what it recorded agree: a result was recorded as
\* finished, last and once; an error as one failure, last, with a
\* ContractViolation exactly if the contract ended it (REQ-CONTRACT-03); a
\* pause as neither, so that a resume runs the node again.
RecordAgrees ==
  \A p \in Calls : pc[p] = "returned" =>
    LET ok == err[p] = "none"
        failed == ~ok /\ err[p] # "approval"
    IN /\ Occurs(p, "WorkerFinished") = (IF ok THEN 1 ELSE 0)
       /\ ok => Last(log[p]) = "WorkerFinished"
       /\ Occurs(p, "Failure") = (IF failed THEN 1 ELSE 0)
       /\ failed => Last(log[p]) = "Failure"
       /\ Occurs(p, "ContractViolation") = (IF err[p] = "violation" THEN 1 ELSE 0)

\* REQ-RUNTIME-06 rests on it: whatever is recorded as finished can be read
\* back, be it produced by this call, by a concurrent one or served from the
\* cache.
FinishedIsStored ==
  \A p \in Calls : "WorkerFinished" \in ToSet(log[p]) => out[p] \in stored

\* executeNode returns, whatever fails and whenever it is cancelled: what the
\* scheduler's own fairness assumes of its workers.
EveryCallReturns == \A p \in Calls : <>(pc[p] = "returned")

\* REQ-RUNTIME-05: "in-flight nodes interrupted by the cancellation are not
\* misreported as node failures".
InterruptionIsNoFailure ==
  \A p \in Calls : err[p] \in {"cut", "done"} => "Failure" \notin ToSet(log[p])

=============================================================================
