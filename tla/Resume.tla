------------------------------- MODULE Resume -------------------------------
(***************************************************************************)
(* One execution across its runs: the workflow is checked (or not) and     *)
(* run, the process may die between any two writes, and the execution is   *)
(* resumed, retried from a node, re-executed, backed up or restored.  What *)
(* survives is the snapshot, the event log and the artifacts; everything a *)
(* resumed run believes is rebuilt from them.  The scheduler is the one of *)
(* Scheduler.tla, coarser: no worker goroutines, budget, cancellation or   *)
(* cache; finer where the record is written (core/engine/node.go).         *)
(* A hash is the content it names: the store is a set of documents.        *)
(***************************************************************************)
EXTENDS Integers, FiniteSets, SequencesExt

CONSTANTS Workflows,   \* what may be submitted: workflow, inputs, bounds
          Docs,        \* what an executor may return
          TooLarge,    \* the documents of Docs the store refuses
          Slots,       \* RunOptions.Concurrency
          NoDoc        \* no artifact

ASSUME SlotsAssumption == Slots \in Nat \ {0}

VARIABLES wf,      \* the submission
          status,  \* "new", "refused", "running", "returned", "down"
          files,   \* on disk: snapshot taken, its inputs, events, artifacts
          run,     \* the coordinator's maps; the workers' tasks
          result,  \* what the last run returned
          archive, \* a backup, while one exists
          history  \* what the code does not keep: see the properties

vars == <<wf, status, files, run, result, archive, history>>

Verdicts == {"yes", "no", "error"}
NoResult == [state |-> "none", cause |-> "none", nodes |-> <<>>]
NoArchive == [taken |-> "no", mark |-> 0, store |-> {}, record |-> <<>>, dropped |-> {},
              torn |-> FALSE]

-----------------------------------------------------------------------------
(* The graph.  Nodes and edges are listed as the file lists them; an edge  *)
(* with an unknown end takes no part.                                      *)

Ids == { wf.nodes[i].id : i \in DOMAIN wf.nodes }
\* nodesByID: the last node of an id wins.
NodeOf(n) == wf.nodes[CHOOSE i \in DOMAIN wf.nodes :
               /\ wf.nodes[i].id = n
               /\ \A j \in DOMAIN wf.nodes : wf.nodes[j].id = n => j <= i]
Known(e) == e.from \in Ids /\ e.to \in Ids
\* A list of which some elements are left out keeps their places.
Edges == RestrictValues(wf.edges, Known)
EdgesInto(n) == RestrictValues(Edges, LAMBDA e : e.to = n)
ParentsOf(n) == { e.from : e \in ToSet(EdgesInto(n)) }

\* The fallback a node names, if it is a node; every node that is named as one.
Fallback(n) ==
  IF NodeOf(n).policy = "fallback-node" THEN {NodeOf(n).fallback} \cap Ids ELSE {}
FallbackOnly ==
  { wf.nodes[i].fallback : i \in { j \in DOMAIN wf.nodes : wf.nodes[j].policy = "fallback-node" } } \ {""}

\* ancestorsOf: the nodes from which a path of at least one edge leads to n.
Closed(up) == \A m \in up : ParentsOf(m) \subseteq up
AncestorsOf(n) ==
  { m \in Ids : \A up \in SUBSET Ids : ParentsOf(n) \subseteq up /\ Closed(up) => m \in up }

DirectOnly(n) == {n} \cup { m \in Ids : n \in ParentsOf(m) }    \* mutant
\* descendantsInclusive.
DownstreamOf(n) == {n} \cup { m \in Ids : n \in AncestorsOf(m) }

(* validate.Graph, which the command line runs before a run, and the API   *)
(* does not.                                                               *)
UniqueIds == \A i, j \in DOMAIN wf.nodes : wf.nodes[i].id = wf.nodes[j].id => i = j
EndpointsExist == \A e \in ToSet(wf.edges) : Known(e)
NoOrphan ==
  Len(wf.nodes) > 1 => \A n \in Ids : \E e \in ToSet(Edges) : n \in {e.from, e.to}
NoLoopOnly == \A n \in Ids : n \notin ParentsOf(n)    \* mutant
\* findCycle.
NoCycle == \A n \in Ids : n \notin AncestorsOf(n)
OneRef == \A n \in Ids : NodeOf(n).worker # NodeOf(n).tool
InputRefsDeclared ==
  \A n \in Ids : NodeOf(n).tool => NodeOf(n).asks \subseteq { d.name : d \in wf.inputs }
ContextRefsUpstream ==
  \A n \in Ids : NodeOf(n).context.mode = "artifacts" =>
    NodeOf(n).context.from \subseteq AncestorsOf(n)
Graph ==
  /\ UniqueIds /\ EndpointsExist /\ NoOrphan /\ NoCycle
  /\ OneRef /\ InputRefsDeclared /\ ContextRefsUpstream

-----------------------------------------------------------------------------
(* Conditions on an edge (core/engine/conditional.go).  A JSON value is a  *)
(* pair of its type and itself; an object is a function, a list a sequence.*)

Absent == <<"absent", 0>>
Digits == <<"0", "1", "2">>

LookupPath(doc, path) ==
  LET step(cur, seg) ==
        IF cur[1] = "object" /\ seg \in DOMAIN cur[2] THEN cur[2][seg]
        ELSE IF cur[1] = "list" /\ \E i \in DOMAIN cur[2] : Digits[i] = seg
          THEN cur[2][CHOOSE i \in DOMAIN cur[2] : Digits[i] = seg]
        ELSE Absent
  IN  FoldLeft(step, doc, path)

IsNumber(v) == v[1] = "number"
EqualScalar(a, b) == a[1] \in {"number", "string", "bool", "null"} /\ a = b
Truthy(v) ==
  CASE v[1] = "null" -> FALSE
    [] v[1] = "bool" -> v[2]
    [] v[1] = "string" -> v[2] # ""
    [] v[1] = "number" -> v[2] # 0
    [] OTHER -> DOMAIN v[2] # {}

Orders == {"gt", "gte", "lt", "lte"}
Ordered(a, op, b) ==
  CASE op = "gt" -> a > b [] op = "gte" -> a >= b
    [] op = "lt" -> a < b [] OTHER -> a <= b

Said(truth) == IF truth THEN "yes" ELSE "no"

Compare(got, op, want) ==
  CASE op = "eq" -> Said(EqualScalar(got, want))
    [] op = "ne" -> Said(~EqualScalar(got, want))
    [] OTHER -> IF IsNumber(got) /\ IsNumber(want)
                  THEN Said(Ordered(got[2], op, want[2])) ELSE "error"

NeverHolds(op) == Said(FALSE)    \* mutant
\* A missing value: the only true comparison is "ne".
AbsentHolds(op) == Said(op = "ne")

EvalCondition(cond, doc) ==
  IF cond.op = "always" THEN "yes"
  ELSE IF doc[1] = "text" THEN "error"
  ELSE LET got == LookupPath(doc, cond.path)
       IN  CASE cond.op = "exists" -> Said(got # Absent)
             [] cond.op = "truthy" -> Said(got # Absent /\ Truthy(got))
             [] cond.op \in Orders \cup {"eq", "ne"} ->
                  IF got = Absent THEN AbsentHolds(cond.op)
                  ELSE Compare(got, cond.op, cond.value)
             [] OTHER -> "error"

\* Of a submission: a file is finite, an executor returns documents, and the
\* numbers a condition compares are whole.
NumbersWhole(v) == IsNumber(v) => v[2] \in Int
SubmissionOK(w) ==
  /\ IsFiniteSet(DOMAIN w.nodes) /\ w.docs \subseteq Docs
  /\ \A e \in ToSet(w.edges) :
       /\ NumbersWhole(e.cond.value)
       /\ \A d \in Docs : NumbersWhole(LookupPath(d, e.cond.path))
ASSUME SubmissionsAssumption == NoDoc \notin Docs /\ \A w \in Workflows : SubmissionOK(w)

-----------------------------------------------------------------------------
(* What a node may see.  The inputs are those of its active edges: a       *)
(* policy of artifacts only narrows them, whatever it names.               *)

Resolve(context, ins) ==
  CASE context.mode \in {"", "parent-only", "full"} -> ins
    [] context.mode = "none" -> <<>>
    [] context.mode = "diff-only" -> RestrictValues(ins, LAMBDA i : NodeOf(i.from).makes = "diff")
    [] context.mode = "artifacts" -> RestrictValues(ins, LAMBDA i : i.from \in context.from)
    [] OTHER -> <<>>

\* resolvePlaceholder: a tool node names what it reads.
Admitted(n, ins) ==
  IF NodeOf(n).tool
    THEN RestrictValues(ins, LAMBDA i : \E r \in NodeOf(n).reads : r.from = i.from)
  ELSE Resolve(NodeOf(n).context, ins)
HashesOf(items) == [i \in DOMAIN items |-> items[i].doc]

\* An executor refuses before it does anything: a context it does not
\* support, a reference to an input, a node or a field that is not there.
Unresolvable(n, ins, bound) ==
  IF NodeOf(n).tool
    THEN \/ ~(NodeOf(n).asks \subseteq bound)
         \/ \E r \in NodeOf(n).reads : ~\E i \in ToSet(ins) :
            i.from = r.from /\ i.doc[1] # "text" /\ LookupPath(i.doc, r.path) # Absent
    ELSE NodeOf(n).context.mode \notin
           {"", "parent-only", "full", "none", "diff-only", "artifacts"}

\* resolveWorkflowInputs: the names that have a value.
Bound(supplied) == supplied \cup { d.name : d \in { x \in wf.inputs : x.default } }
Missing(supplied) ==
  { d.name : d \in { x \in wf.inputs : x.required } } \ Bound(supplied)

-----------------------------------------------------------------------------
(* What is rebuilt from the record.                                        *)

Types == {"ExecutionStarted", "WorkerStarted", "ApprovalRequested", "ApprovalGranted",
          "ArtifactCreated", "WorkerFinished", "Failure", "ExecutionFinished"}
Event(type, n, hash, seen) == [type |-> type, node |-> n, hash |-> hash, seen |-> seen]
Note(type, n) == Event(type, n, NoDoc, <<>>)
\* A checkpoint is that of the node that asks, whoever's place it takes.
Checkpoint(type, n, asks) == Event(type, n, NoDoc, <<asks>>)

\* Where the record has events of some types about one node; the last of them.
About(log, types, n) == { i \in DOMAIN log : log[i].type \in types /\ log[i].node = n }
Has(log, type, n) == About(log, {type}, n) # {}
LastOf(log, types, n) ==
  log[CHOOSE i \in About(log, types, n) : \A j \in About(log, types, n) : j <= i]
Asked(log, n) == { i \in DOMAIN log : log[i].type = "ApprovalRequested" /\ log[i].seen = <<n>> }
Granted(log, n) == \E e \in ToSet(log) : e.type = "ApprovalGranted" /\ e.seen = <<n>>
LastHash(log, n) ==
  IF Has(log, "ArtifactCreated", n) THEN LastOf(log, {"ArtifactCreated"}, n).hash ELSE NoDoc

\* reconstruct: done iff it ever recorded a WorkerFinished; the hash is the
\* last one recorded.
Finished(log, n) == Has(log, "WorkerFinished", n)
Reusable(log, n) == Finished(log, n) /\ LastHash(log, n) # NoDoc
OfThisRun(log) ==    \* mutant
  { n \in Ids : Reusable(log, n) /\ ~\E e \in ToSet(log) : e.type = "ExecutionFinished" }
Reconstruct(log) == { n \in Ids : Reusable(log, n) }
Loadable(log, store) == \A n \in Reconstruct(log) : LastHash(log, n) \in store

EverFailed(log, n) ==    \* mutant
  IF Has(log, "Failure", n) THEN "failed"
  ELSE IF Has(log, "WorkerFinished", n) THEN "succeeded" ELSE "skipped"
\* Audit: the state the last WorkerFinished or Failure says; its hash is that
\* of the last ArtifactCreated.
Ends == {"WorkerFinished", "Failure"}
AuditState(log, n) ==
  IF About(log, Types, n) = {}
    THEN IF \E e \in ToSet(log) : e.type = "ExecutionFinished" THEN "skipped" ELSE "pending"
  ELSE IF About(log, Ends, n) = {} THEN ""
  ELSE IF LastOf(log, Ends, n).type = "Failure" THEN "failed" ELSE "succeeded"

\* ExportBundle: every artifact the events name, those an audit shows among
\* them.
Bundled(log) == { e.hash : e \in { x \in ToSet(log) : x.type = "ArtifactCreated" } }

\* deriveProgress: started and in no run ended.
RunningNodes(log) ==
  { n \in Ids : /\ Has(log, "WorkerStarted", n)
                /\ ~Has(log, "WorkerFinished", n) /\ ~Has(log, "Failure", n) }

-----------------------------------------------------------------------------
(* The run.                                                                *)

IdleTask == [phase |-> "none", doc |-> NoDoc]
Blank == [state |-> <<>>, out |-> <<>>, due |-> {}, ready |-> {}, used |-> <<>>,
          task |-> <<>>, tried |-> {}, asked |-> {}, cause |-> "none"]

Init ==
  /\ wf \in Workflows
  /\ status = "new"
  /\ files = [snap |-> FALSE, inputs |-> {}, events |-> <<>>, store |-> {}]
  /\ run = Blank /\ result = NoResult /\ archive = NoArchive
  /\ history = [dropped |-> {}, crashed |-> FALSE, torn |-> FALSE,
                lives |-> wf.lives, backups |-> wf.backups]

Halted == run.cause # "none"
Halt(cause) == IF Halted THEN run.cause ELSE cause
Written(events) == [files EXCEPT !.events = @ \o events]
Settled(states, n) == states[n] \in {"succeeded", "failed", "skipped"}
\* settle: the children whose last open parent this was.
Released(states, n) ==
  { m \in Ids : n \in ParentsOf(m) /\ \A p \in ParentsOf(m) : Settled(states, p) }

\* run, up to its loop.  What is reused needs no decision; the nodes whose
\* parents all are do, but for the fallback nodes.
Begun(log, reused) ==
  [state |-> [n \in Ids |-> IF n \in reused THEN "succeeded" ELSE "pending"],
   out |-> [n \in Ids |-> IF n \in reused THEN LastHash(log, n) ELSE NoDoc],
   due |-> { n \in Ids \ (reused \cup FallbackOnly) : ParentsOf(n) \subseteq reused },
   ready |-> {}, used |-> [n \in Ids |-> <<>>], task |-> [n \in Ids |-> IdleTask],
   tried |-> {}, asked |-> { n \in Ids : Asked(log, n) # {} }, cause |-> "none"]

Failed(cause) == [NoResult EXCEPT !.state = "failed", !.cause = cause]

\* A new execution: refused by the command line's check, or for an input.
Accepted == wf.entry = "cli" => Graph
Refuse ==
  /\ status = "new" /\ ~Accepted
  /\ status' = "refused"
  /\ UNCHANGED <<wf, files, run, result, archive, history>>

Start(supplied) ==
  IF Missing(supplied) # {}
    THEN /\ status' = "refused" /\ result' = Failed("inputs")
         /\ UNCHANGED <<files, run>>
    ELSE /\ files' = [files EXCEPT !.snap = TRUE, !.inputs = Bound(supplied),
                                   !.events = <<Note("ExecutionStarted", "")>>]
         /\ run' = Begun(<<>>, {}) /\ status' = "running" /\ result' = NoResult

Run ==
  /\ status = "new" /\ Accepted
  /\ Start(wf.supplied)
  /\ UNCHANGED <<wf, archive, history>>

\* The frozen workflow again under a new id: no reused node, no inputs.
Reexecute ==
  /\ status = "returned" /\ files.snap /\ history.lives > 0
  /\ Start({})
  /\ history' = IF status' = "refused" THEN [history EXCEPT !.lives = @ - 1]
                ELSE [history EXCEPT !.lives = @ - 1, !.dropped = {}, !.crashed = FALSE, !.torn = FALSE]
  /\ archive' = NoArchive
  /\ UNCHANGED wf

\* processDecisions, one node.  It comes before anything else the
\* coordinator does.
Verdict(e) ==
  IF run.state[e.from] # "succeeded" THEN "no"
  ELSE EvalCondition(e.cond, run.out[e.from])
Decide(n) ==
  LET edges == EdgesInto(n)
      said == { Verdict(e) : e \in ToSet(edges) }
      skipped == [run.state EXCEPT ![n] = "skipped"]
  IN  /\ status = "running" /\ n \in run.due
      /\ IF run.state[n] # "pending" THEN run' = [run EXCEPT !.due = @ \ {n}]
         ELSE IF said \subseteq {"yes"} THEN
           run' = [run EXCEPT !.due = @ \ {n}, !.ready = @ \cup {n}, !.state[n] = "running",
                     !.used[n] = [i \in DOMAIN edges |->
                        [from |-> edges[i].from, doc |-> run.out[edges[i].from]]]]
         ELSE
           run' = [run EXCEPT !.due = (@ \ {n}) \cup Released(skipped, n),
                     !.state = skipped,
                     !.cause = IF "error" \in said THEN Halt("edge") ELSE @]
      /\ UNCHANGED <<wf, status, files, result, archive, history>>

InFlight == { n \in DOMAIN run.task : run.task[n].phase # "none" }
OneTooMany == Cardinality(InFlight) <= Slots    \* mutant
Room == Cardinality(InFlight) < Slots

Dispatch(n) ==
  /\ status = "running" /\ run.due = {} /\ ~Halted
  /\ n \in run.ready /\ Room
  /\ run' = [run EXCEPT !.ready = @ \ {n}, !.task[n] = [phase |-> "called", doc |-> NoDoc]]
  /\ files' = Written(<<Note("WorkerStarted", n)>>)
  /\ UNCHANGED <<wf, status, result, archive, history>>

\* The node that runs, in its own name or in that of the node it stands in for.
Doer(n) == IF n \in run.tried THEN NodeOf(n).fallback ELSE n
MustAsk(n) ==
  NodeOf(Doer(n)).tool /\ NodeOf(Doer(n)).gated /\ ~Granted(files.events, Doer(n))
Resolvable(n) == ~Unresolvable(Doer(n), run.used[n], files.inputs)
Parks(n) == Resolvable(n) /\ MustAsk(n)
Callable(n) == Resolvable(n) /\ ~MustAsk(n)

PutAnyway(n, d) ==    \* mutant
  /\ run.task[n].phase = "called" /\ Callable(n)
  /\ files' = [files EXCEPT !.store = @ \cup ({d} \ TooLarge)]
  /\ run' = [run EXCEPT !.task[n] = [phase |-> "stored", doc |-> d]]

\* The executor returned; the artifact is put before it is in the record.
PutArtifact(n, d) ==
  /\ run.task[n].phase = "called" /\ Callable(n) /\ d \notin TooLarge
  /\ files' = [files EXCEPT !.store = @ \cup {d}]
  /\ run' = [run EXCEPT !.task[n] = [phase |-> "stored", doc |-> d]]

CreateArtifact(n) ==
  /\ run.task[n].phase = "stored"
  /\ files' = Written(<<Event("ArtifactCreated", n, run.task[n].doc, <<>>)>>)
  /\ run' = [run EXCEPT !.task[n].phase = "created"]

\* WorkerFinished, and the coordinator's handling of it.
Finish(n) ==
  LET done == [run.state EXCEPT ![n] = "succeeded"]
  IN  /\ run.due = {} /\ run.task[n].phase = "created"
      /\ files' = Written(<<Event("WorkerFinished", n, NoDoc,
                                  HashesOf(Admitted(Doer(n), run.used[n])))>>)
      /\ run' = [run EXCEPT !.task[n] = IdleTask, !.state = done,
                            !.out[n] = run.task[n].doc, !.due = Released(done, n)]

Unsaid(n) == <<>>    \* mutant
\* Any failure: refused, failed in the provider or tool, too large to store.
Obituary(n) == <<Note("Failure", n)>>
Dies(n) ==
  /\ run.due = {} /\ run.task[n].phase = "called"
  /\ (Callable(n) => ~wf.steady) /\ ~Parks(n)
  /\ files' = Written(Obituary(n))

\* The policy is that of the node that ran.  Once, its fallback takes the
\* place of the node that failed.
Substitute(n) ==
  /\ Dies(n) /\ ~Halted
  /\ n \notin run.tried /\ Fallback(n) # {}
  /\ run' = [run EXCEPT !.task[n] = IdleTask, !.ready = @ \cup {n}, !.tried = @ \cup {n}]

\* Collateral: the run is halting, or a model call's own timeout passes for
\* its cancellation.
Collateral(n) == Halted \/ (Callable(n) /\ ~NodeOf(Doer(n)).tool)
Fail(n, collateral) ==
  LET failed == [run.state EXCEPT ![n] = "failed"]
      stops == ~collateral /\ NodeOf(Doer(n)).policy # "continue"
  IN  /\ Dies(n)
      /\ IF collateral THEN Collateral(n)
         ELSE ~Halted /\ (n \in run.tried \/ Fallback(n) = {})
      /\ run' = [run EXCEPT !.task[n] = IdleTask, !.state = failed,
                            !.due = Released(failed, n),
                            !.cause = IF stops THEN Halt("node") ELSE @]

\* ErrApprovalRequired: asked for once, as far as the run has read, the node
\* is pending again.
Park(n) ==
  /\ run.due = {} /\ run.task[n].phase = "called"
  /\ Parks(n)
  /\ files' = IF Doer(n) \in run.asked THEN files
              ELSE Written(<<Checkpoint("ApprovalRequested", n, Doer(n))>>)
  /\ run' = [run EXCEPT !.task[n] = IdleTask, !.state[n] = "pending", !.cause = Halt("approval")]

Work(n) ==
  /\ status = "running"
  /\ \/ \E d \in wf.docs : PutArtifact(n, d)
     \/ CreateArtifact(n) \/ Substitute(n) \/ Park(n)
     \/ \E collateral \in BOOLEAN : Fail(n, collateral)
  /\ UNCHANGED <<wf, status, result, archive, history>>

Complete(n) ==
  /\ status = "running" /\ Finish(n)
  /\ history' = [history EXCEPT !.dropped = @ \ {n}]
  /\ UNCHANGED <<wf, status, result, archive>>

\* Nothing is in flight and nothing may start.
Returns == run.due = {} /\ InFlight = {} /\ (run.ready = {} \/ Halted)
\* A fallback node nothing triggered is skipped; its children are not settled.
Final(n) == IF n \in FallbackOnly /\ run.state[n] = "pending" THEN "skipped" ELSE run.state[n]
Unresolved == \E n \in Ids : Final(n) = "pending"
Outcome ==
  IF run.cause = "approval" THEN "paused"
  ELSE IF ~Halted /\ \A n \in Ids : Final(n) \in {"succeeded", "skipped"} THEN "succeeded"
  ELSE "failed"

Return ==
  /\ status = "running" /\ Returns
  /\ status' = "returned"
  /\ result' = [state |-> Outcome,
                cause |-> IF ~Halted /\ Unresolved THEN "incomplete" ELSE run.cause,
                nodes |-> [n \in Ids |-> [state |-> Final(n), doc |-> run.out[n]]]]
  /\ files' = Written(<<Note("ExecutionFinished", "")>>)
  /\ run' = Blank
  /\ UNCHANGED <<wf, archive, history>>

\* The process dies; the files stay.
Crash ==
  /\ status = "running" /\ history.lives > 0
  /\ status' = "down" /\ run' = Blank
  /\ history' = [history EXCEPT !.crashed = TRUE]
  /\ UNCHANGED <<wf, files, result, archive>>

AtRest == status \in {"returned", "down"}

\* A person grants what was asked for; the answer names the node the last
\* request names.
Approve(n) ==
  /\ AtRest /\ ~Granted(files.events, n)
  /\ \E i \in Asked(files.events, n) :
       /\ \A j \in Asked(files.events, n) : j <= i
       /\ files' = Written(<<Checkpoint("ApprovalGranted", files.events[i].node, n)>>)
  /\ UNCHANGED <<wf, status, run, result, archive, history>>

\* Resume and ResumeFrom: again = {}, or the node retried and its downstream.
Rerun(again) ==
  /\ AtRest /\ files.snap /\ history.lives > 0
  /\ IF Loadable(files.events, files.store) /\ Missing(files.inputs) = {}
       THEN /\ run' = Begun(files.events, Reconstruct(files.events) \ again)
            /\ status' = "running" /\ result' = NoResult
       ELSE /\ result' = Failed("reload")
            /\ UNCHANGED <<run, status>>
  /\ history' = [history EXCEPT !.lives = @ - 1, !.dropped = @ \cup again]
  /\ UNCHANGED <<wf, files, archive>>

Resume == Rerun({})
ResumeFrom(n) == wf.retried /\ Rerun(DownstreamOf(n))

(* wee backup: the directory is walked in order, the artifacts before the  *)
(* executions, whatever runs meanwhile.                                    *)
BackUpArtifacts ==
  /\ status \in {"running", "returned", "down"} /\ history.backups > 0
  /\ archive' = [NoArchive EXCEPT !.taken = "artifacts", !.store = files.store,
                                  !.mark = Len(files.events), !.torn = history.torn]
  /\ history' = [history EXCEPT !.backups = @ - 1]
  /\ UNCHANGED <<wf, status, files, run, result>>

BackUpExecution ==
  /\ archive.taken = "artifacts" /\ status # "refused"
  /\ archive' = [archive EXCEPT !.taken = "all", !.record = files.events,
                                !.dropped = history.dropped]
  /\ UNCHANGED <<wf, status, files, run, result, history>>

\* Into an empty workspace, or by force over this one, whose other files stay.
Restore(over) ==
  /\ AtRest /\ archive.taken = "all"
  /\ files' = [files EXCEPT !.events = archive.record, !.store = over \cup archive.store]
  /\ status' = "down" /\ result' = NoResult /\ archive' = NoArchive
  /\ history' = [history EXCEPT !.dropped = archive.dropped, !.crashed = TRUE,
                                !.torn = archive.torn \/ Len(archive.record) # archive.mark]
  /\ UNCHANGED <<wf, run>>

Next ==
  \/ Refuse \/ Run \/ Reexecute \/ Return \/ Crash \/ Resume
  \/ \E n \in Ids : Decide(n) \/ Dispatch(n) \/ Work(n) \/ Complete(n)
                    \/ Approve(n) \/ ResumeFrom(n)
  \/ BackUpArtifacts \/ BackUpExecution
  \/ \E over \in {{}, files.store} : Restore(over)

\* An execution at rest stays so until somebody wants something of it.
Quiet == (AtRest \/ status = "refused") /\ UNCHANGED vars

Spec == Init /\ [][Next \/ Quiet]_vars

-----------------------------------------------------------------------------
(* Properties.  history.dropped holds the nodes a retry threw away and     *)
(* that have not finished since.                                           *)

\* The type of every variable; a node reused or finished has its document.
TypeOK ==
  /\ status \in {"new", "refused", "running", "returned", "down"}
  /\ files.store \subseteq Docs \ TooLarge
  /\ \A e \in ToSet(files.events) : e.type \in Types /\ e.hash \in Docs \cup {NoDoc}
  /\ status = "running" =>
       /\ run.due \cup run.ready \subseteq Ids
       /\ run.cause \in {"none", "approval", "node", "edge"}
       /\ Cardinality(InFlight) <= Slots
       /\ \A n \in Ids :
            /\ run.state[n] \in {"pending", "running", "succeeded", "failed", "skipped"}
            /\ (run.state[n] = "succeeded") = (run.out[n] # NoDoc)
            /\ run.task[n].phase # "none" => run.state[n] = "running"
  /\ result.cause \in {"none", "approval", "node", "edge", "incomplete", "inputs", "reload"}
  /\ history.dropped \subseteq Ids

Returned == result.nodes # <<>>
Outputs(edges) == [i \in DOMAIN edges |->
                     [from |-> edges[i].from, doc |-> result.nodes[edges[i].from].doc]]

\* A result is of one piece over any number of crashes, resumes and retries:
\* what a succeeded node was given (contextHashes, node.go:217) is what its
\* parents put out in the same result, over edges that hold, read by the node
\* itself or by its fallback - unless a retry threw the node away and did not
\* get to it, which a later resume does not know (resume.go:99).
OfOnePiece ==
  Returned => \A n \in Ids \ history.dropped :
    result.nodes[n].state = "succeeded" =>
      LET edges == EdgesInto(n)
      IN  /\ \A e \in ToSet(edges) :
               /\ result.nodes[e.from].state = "succeeded"
               /\ EvalCondition(e.cond, result.nodes[e.from].doc) = "yes"
          /\ \E d \in {n} \cup Fallback(n) :
               LastOf(files.events, {"WorkerFinished"}, n).seen
                 = HashesOf(Admitted(d, Outputs(edges)))

\* Audit, which reads only the record, and the run's result agree on what
\* succeeded, with what artifact, and on what failed (replay/audit.go:19-25).
AuditAgrees ==
  Returned => \A n \in Ids \ history.dropped :
    LET r == result.nodes[n]
    IN  /\ (r.state = "succeeded") = (AuditState(files.events, n) = "succeeded")
        /\ r.state = "succeeded" => LastHash(files.events, n) = r.doc
        /\ r.state = "failed" => AuditState(files.events, n) = "failed"

\* After a run that nothing interrupted, progress shows no node as running,
\* but one that waits for an approval: every way out of executeNode records
\* an end (server/extras.go:81).
NoneLeftRunning ==
  status = "returned" /\ ~history.crashed =>
    \A n \in RunningNodes(files.events) : Asked(files.events, n) # {}

\* Of a workflow the command line accepted the scheduler leaves a node
\* undecided (ErrIncompleteGraph, scheduler.go:511) for one reason only: the
\* node is behind a fallback node that was not seeded (scheduler.go:373), for
\* all that its parents had succeeded, and was skipped at the end without its
\* children being settled (scheduler.go:479).
OnlyFallbacksStrand ==
  wf.entry = "cli" /\ result.cause = "incomplete" =>
    \A n \in Ids : result.nodes[n].state = "pending" =>
      \E f \in AncestorsOf(n) \cap FallbackOnly :
        /\ result.nodes[f].state = "skipped"
        /\ \A p \in ParentsOf(f) : result.nodes[p].state = "succeeded"

Opposite == {{"eq", "ne"}, {"gt", "lte"}, {"gte", "lt"}}

\* Of two nodes behind opposite conditions on one output exactly one is run,
\* for eq and ne also when the output has no such field (conditional.go:38);
\* then no order holds, and neither is run.  A fallback node is not seeded
\* by a resume (scheduler.go:373).
OneBranch ==
  Returned /\ result.cause = "none" =>
    \A e, f \in ToSet(Edges) :
      /\ e.from = f.from /\ {e.cond.op, f.cond.op} \in Opposite
      /\ e.cond.path = f.cond.path /\ e.cond.value = f.cond.value
      /\ ToSet(EdgesInto(e.to)) = {e} /\ ToSet(EdgesInto(f.to)) = {f}
      /\ {e.to, f.to} \cap (history.dropped \cup FallbackOnly) = {}
      /\ result.nodes[e.from].state = "succeeded"
      => IF e.cond.op \in Orders /\ LookupPath(result.nodes[e.from].doc, e.cond.path) = Absent
           THEN \A x \in {e.to, f.to} : result.nodes[x].state = "skipped"
           ELSE (result.nodes[e.to].state = "skipped") # (result.nodes[f.to].state = "skipped")

\* Whatever was cut short, what a resume, an audit and a bundle read is
\* there: the artifacts the events name, the inputs the workflow requires -
\* unless the backup restored was made while events were written.
RecordSuffices ==
  ~history.torn =>
    /\ Bundled(files.events) \subseteq files.store
    /\ files.snap => Missing(files.inputs) = {}

\* A node with a recorded WorkerFinished and an artifact is not started again,
\* unless it was retried (REQ-RUNTIME-06, resume.go:40).
FinishedNotRepeated ==
  [][\A n \in Ids : /\ \E i \in About(files.events', {"WorkerStarted"}, n) :
                         i > Len(files.events)
                    /\ Reusable(files.events, n)
       => n \in history.dropped]_vars

=============================================================================
