---------------------------- MODULE MC_Scheduler ----------------------------
(* Small workflows that between them hold every shape the scheduler treats *)
(* on its own: a diamond with conditional edges, a fallback, independent   *)
(* lanes under a budget, a resumed run with mutating tools.                *)
EXTENDS Scheduler, TLC

CONSTANTS a, b, c, d, w1, w2

Pool == {w1, w2}

N == {a, b, c, d}

\* Four plain model nodes under the default policy, no edge, no limit.
Base ==
  [nodes |-> N, edges |-> {}, conditional |-> {},
   policy |-> [n \in N |-> "fail-execution"], fallback |-> [n \in N |-> NoNode],
   kind |-> [n \in N |-> "model"], finished |-> {},
   limit |-> [k \in Dims |-> 0], fresh |-> TRUE, inputsBound |-> TRUE]

Diamond ==
  [Base EXCEPT !.edges = {<<a, b>>, <<a, c>>, <<b, d>>, <<c, d>>},
               !.conditional = {<<a, c>>}, !.policy[b] = "continue"]

\* d stands in for a, beside c; when it fails too, its own policy decides.
Fallback ==
  [Base EXCEPT !.edges = {<<a, b>>, <<c, b>>}, !.conditional = {<<c, b>>},
               !.policy[a] = "fallback-node", !.fallback[a] = d,
               !.policy[d] = "continue", !.policy[b] = "continue"]

\* Two lanes under a cost limit of 3 and a token limit of 2.
Budgeted ==
  [Base EXCEPT !.edges = {<<a, c>>, <<b, d>>},
               !.limit = [cost |-> 3, tokens |-> 2, duration |-> 0],
               !.policy[a] = "continue", !.policy[b] = "continue"]

\* A resumed run: a is finished, b waits for an approval, c was rejected.
Approvals ==
  [Base EXCEPT !.edges = {<<a, b>>, <<a, c>>, <<b, d>>},
               !.kind = [n \in N |-> CASE n = b -> "unapproved" [] n = c -> "rejected"
                                       [] n = d -> "tool" [] OTHER -> "model"],
               !.finished = {a}, !.fresh = FALSE]

Unbound == [Base EXCEPT !.nodes = {a, b}, !.inputsBound = FALSE]

\* The fallback of a is wired into the graph, as validate.Graph requires of
\* every node of a graph with more than one.
Wired == [Fallback EXCEPT !.edges = {<<a, b>>, <<b, d>>}, !.nodes = {a, b, d}, !.conditional = {}]

\* That fallback node is a mutating tool nobody decided on.
WiredApproval ==
  [Wired EXCEPT !.kind[d] = "unapproved", !.edges = {<<a, b>>, <<a, d>>, <<b, d>>}]

\* Every graph on three ordered nodes, every edge conditional or none, every
\* mix of the two policies without a second node.
SmallGraphs ==
  { [Base EXCEPT !.nodes = {a, b, c}, !.edges = es, !.conditional = cs,
                 !.policy = [n \in N |-> IF n \in on THEN "continue" ELSE "fail-execution"]] :
      es \in SUBSET {<<a, b>>, <<a, c>>, <<b, c>>}, cs \in {{}, {<<a, c>>, <<b, c>>}},
      on \in SUBSET {a, b} }

\* The fallback of a has a fallback of its own; that of b does not exist.
Nested ==
  [Fallback EXCEPT !.edges = {<<a, b>>}, !.conditional = {}, !.kind[b] = "tool",
                   !.policy[d] = "fallback-node", !.fallback[d] = c,
                   !.policy[b] = "fallback-node"]

AllWorkflows ==
  {Diamond, Fallback, Nested, Budgeted, Approvals, Unbound, Wired, WiredApproval} \cup SmallGraphs

\* None of them has a cycle, as Scheduler_refines assumes.  That is not enough
\* to resolve: ResolvesEveryNode is about dedicated fallback nodes only.
ASSUME NoCycles == \A w \in AllWorkflows : Acyclic(w)

Spends == {[k \in Dims |-> 0], [cost |-> 2, tokens |-> 1, duration |-> 1]}

=============================================================================
