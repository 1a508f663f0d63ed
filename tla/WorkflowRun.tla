----------------------------- MODULE WorkflowRun -----------------------------
(***************************************************************************)
(* What one execution of a workflow promises, with no goroutine, channel,  *)
(* counter or budget in sight (docs/spec/runtime.md, REQ-RUNTIME-01, 04,   *)
(* 05): nodes are decided by their parents, run in at most Slots places at *)
(* once, nothing begins after the stop, and the run closes when nothing is *)
(* live and, unless it was stopped, nothing is left to decide.             *)
(***************************************************************************)
EXTENDS Naturals, FiniteSets

CONSTANTS Slots    \* how many nodes may be live at once

VARIABLES plan,    \* the nodes, edges, nodes already finished, spare nodes
          status,  \* "todo", "doing", or how the node settled
          live,    \* the nodes being run
          again,   \* nodes whose second chance (a fallback) was used
          stopped, \* the run was halted
          outcome  \* "running", then how it ended

runVars == <<plan, status, live, again, stopped, outcome>>

Done == {"succeeded", "failed", "skipped"}
Before(n) == { p \in plan.nodes : <<p, n>> \in plan.edges }

Init ==
  /\ status = [n \in plan.nodes |-> IF n \in plan.finished THEN "succeeded" ELSE "todo"]
  /\ live = {} /\ again = {} /\ stopped = FALSE /\ outcome = "running"

\* Every parent succeeded: the node is to be run.  A spare node is never a root.
Enable(n) ==
  /\ outcome = "running" /\ status[n] = "todo"
  /\ n \in plan.spare => Before(n) # {}
  /\ \A p \in Before(n) : status[p] = "succeeded"
  /\ status' = [status EXCEPT ![n] = "doing"]
  /\ UNCHANGED <<plan, live, again, stopped, outcome>>

\* Every parent settled and some edge is inactive; an edge that cannot be
\* evaluated also stops the run.
Drop(n) ==
  /\ outcome = "running" /\ status[n] = "todo" /\ Before(n) # {}
  /\ \A p \in Before(n) : status[p] \in Done
  /\ status' = [status EXCEPT ![n] = "skipped"]
  /\ stopped' \in {stopped, TRUE}
  /\ UNCHANGED <<plan, live, again, outcome>>

Begin(n) ==
  /\ ~stopped /\ outcome = "running"
  /\ status[n] = "doing" /\ n \notin live /\ Cardinality(live) < Slots
  /\ live' = live \cup {n}
  /\ UNCHANGED <<plan, status, again, stopped, outcome>>

\* The node settles, or is parked for a human and stops the run, or gets its
\* one second chance.
End(n) ==
  /\ n \in live /\ live' = live \ {n}
  /\ stopped' \in {stopped, TRUE}
  /\ \/ /\ \E s \in {"succeeded", "failed"} : status' = [status EXCEPT ![n] = s]
        /\ UNCHANGED again
     \/ /\ stopped'
        /\ status' = [status EXCEPT ![n] = "todo"]
        /\ UNCHANGED again
     \/ /\ n \notin again /\ again' = again \cup {n}
        /\ UNCHANGED <<status, stopped>>
  /\ UNCHANGED <<plan, outcome>>

Stop ==
  /\ outcome = "running" /\ ~stopped
  /\ stopped' = TRUE
  /\ UNCHANGED <<plan, status, live, again, outcome>>

\* Nothing was begun and nothing will be.
Refuse ==
  /\ Init /\ outcome' = "failed"
  /\ UNCHANGED <<plan, status, live, again, stopped>>

\* Left alone, the run decided all it could; spare nodes need no decision.
Exhausted ==
  \A n \in plan.nodes :
    /\ status[n] # "doing"
    /\ status[n] = "todo" /\ n \notin plan.spare =>
         \E p \in Before(n) : status[p] \notin Done

Close ==
  /\ outcome = "running" /\ live = {}
  /\ stopped \/ Exhausted
  /\ status' = [n \in plan.nodes |-> IF n \in plan.spare /\ status[n] = "todo"
                                       THEN "skipped" ELSE status[n]]
  /\ outcome' \in IF stopped THEN {"paused", "cancelled", "failed"}
                  ELSE IF \A n \in plan.nodes : status'[n] \in {"succeeded", "skipped"}
                         THEN {"succeeded"} ELSE {"failed"}
  /\ UNCHANGED <<plan, live, again, stopped>>

Next ==
  \/ \E n \in plan.nodes : Enable(n) \/ Drop(n) \/ Begin(n) \/ End(n)
  \/ Stop \/ Refuse \/ Close

\* The run is driven to its end.
Spec == Init /\ [][Next]_runVars /\ WF_runVars(Next)

=============================================================================
