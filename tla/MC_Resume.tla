------------------------------ MODULE MC_Resume ------------------------------
(* Small submissions: every graph on three nodes through both entries; a   *)
(* chain retried, crashed and backed up; branches; an approval; inputs;    *)
(* fallback nodes, wired into the graph and not.                           *)
EXTENDS Resume

Num(i) == <<"number", i>>
One == <<"object", [k |-> Num(1)]>>
Zero == <<"object", [k |-> Num(0)]>>
Empty == <<"object", [other |-> <<"list", <<Num(1), <<"null", 0>>>>>>]>>
Text == <<"text", 0>>
Big == <<"object", [k |-> <<"string", "x">>]>>
Nothing == <<"none", 0>>
AllDocs == {One, Zero, Empty, Text, Big}
Refused == {Big}

Always == [op |-> "always", path |-> <<>>, value |-> Num(0)]
On(op, path, value) == [op |-> op, path |-> path, value |-> value]
Edge(m, n) == [from |-> m, to |-> n, cond |-> Always]
If(m, n, cond) == [from |-> m, to |-> n, cond |-> cond]

Parent == [mode |-> "", from |-> {}]
Node(n) == [id |-> n, worker |-> TRUE, tool |-> FALSE, asks |-> {}, reads |-> {},
            context |-> Parent, makes |-> "json", policy |-> "fail-execution", fallback |-> "",
            gated |-> FALSE]
Tool(n) == [Node(n) EXCEPT !.worker = FALSE, !.tool = TRUE]

Chain == <<Edge("a", "b"), Edge("b", "c")>>
Base ==
  [nodes |-> <<Node("a"), Node("b"), Node("c")>>, edges |-> Chain, inputs |-> {},
   supplied |-> {}, entry |-> "cli", steady |-> TRUE, retried |-> FALSE,
   docs |-> {One}, lives |-> 0, backups |-> 0]

\* Every set of edges, cycles and loops too, listed in one order.
Pairs == <<<<"a", "a">>, <<"a", "b">>, <<"b", "a">>, <<"b", "c">>, <<"c", "b">>, <<"a", "c">>, <<"c", "a">>>>
Graphs3 ==
  { [Base EXCEPT !.entry = via,
       !.edges = LET picked == SelectSeq(Pairs, LAMBDA p : p \in es)
                 IN  [i \in DOMAIN picked |-> Edge(picked[i][1], picked[i][2])]] :
      es \in SUBSET ToSet(Pairs), via \in {"cli", "api"} }

\* Files with one mistake each.
Mistakes ==
  { [Base EXCEPT !.entry = via, !.nodes[3] = nd] :
      via \in {"cli", "api"},
      nd \in { Node("a"), [Node("c") EXCEPT !.tool = TRUE], [Node("c") EXCEPT !.worker = FALSE],
               [Tool("c") EXCEPT !.asks = {"pr"}],
               [Node("c") EXCEPT !.context = [mode |-> "artifacts", from |-> {"c"}]],
               [Node("c") EXCEPT !.context = [mode |-> "artifacts", from |-> {"a"}]],
               [Node("c") EXCEPT !.context.mode = "summary"] } }
  \cup { [Base EXCEPT !.edges = Append(Chain, Edge("b", "d")), !.entry = via] : via \in {"cli", "api"} }

\* Retries and crashes of a chain whose outputs differ from run to run.
Retried == [Base EXCEPT !.retried = TRUE, !.docs = {One, Zero}, !.lives = 2]
Fragile == [Base EXCEPT !.nodes = <<Node("a"), [Node("b") EXCEPT !.policy = "continue"], Node("c")>>,
                        !.edges = <<Edge("a", "b"), Edge("a", "c")>>,
                        !.docs = {One, Big}, !.steady = FALSE, !.retried = TRUE,
                        !.lives = 1]
Archived == [Base EXCEPT !.nodes = <<Node("a"), Node("b")>>, !.edges = <<Edge("a", "b")>>,
                         !.docs = {One, Zero}, !.lives = 2, !.backups = 1]

\* b and c behind opposite conditions on what a put out, then d behind both.
Conditions ==
  { <<On("eq", <<"k">>, Num(1)), On("ne", <<"k">>, Num(1))>>,
    <<On("gt", <<"k">>, Num(0)), On("lte", <<"k">>, Num(0))>>,
    <<On("gte", <<"k">>, Num(1)), On("lt", <<"k">>, Num(1))>>,
    <<On("eq", <<"other", "0">>, Num(1)), On("ne", <<"other", "0">>, Num(1))>>,
    <<On("exists", <<"other", "2">>, Num(0)), On("truthy", <<"k">>, Num(0))>>,
    <<On("truthy", <<"other">>, Num(0)), On("exists", <<>>, Num(0))>>,
    <<On("gte", <<"other", "1">>, Num(0)), On("like", <<"k">>, Num(0))>> }
Branches ==
  { [Base EXCEPT !.edges = <<If("a", "b", cs[1]), If("a", "c", cs[2])>>,
                 !.docs = {One, Zero, Empty, Text}, !.lives = 1] : cs \in Conditions }

\* A tool that changes things, and waits to be allowed; inputs.
Gated ==
  [Base EXCEPT !.nodes = <<Node("a"), [Tool("b") EXCEPT !.gated = TRUE, !.asks = {"pr"},
                             !.reads = {[from |-> "a", path |-> <<"k">>]}]>>,
               !.edges = <<Edge("a", "b")>>,
               !.docs = {One, Empty}, !.lives = 2,
               !.inputs = {[name |-> "pr", required |-> TRUE, default |-> FALSE]},
               !.supplied = {"pr"}]
Defaulted == [Base EXCEPT !.inputs = {[name |-> "pr", required |-> TRUE, default |-> TRUE]},
                          !.lives = 1]
Regated == [Gated EXCEPT !.inputs = Defaulted.inputs, !.lives = 1]
Unsupplied == [Gated EXCEPT !.supplied = {}]

\* a with a fallback f that is wired into the graph, as the check demands:
\* without a parent, behind a itself, which may be reused, or beside it; and
\* one that is not wired, reads what a was given, and must ask.
Spare(n, f) == [Node(n) EXCEPT !.policy = "fallback-node", !.fallback = f]
Wired ==
  { [Base EXCEPT !.nodes = <<Spare("a", "f"), Node("f"), Node("x")>>,
                 !.edges = <<Edge("a", "x"), Edge("f", "x")>>,
                 !.entry = via, !.steady = steady, !.lives = 1] :
      via \in {"cli", "api"}, steady \in BOOLEAN }
Behind ==
  [Base EXCEPT !.nodes = <<Spare("a", "f"), Node("f"), Node("x")>>,
               !.edges = <<Edge("a", "f"), Edge("f", "x")>>,
               !.steady = FALSE, !.lives = 1]
Beside ==
  [Base EXCEPT !.nodes = <<Node("r"), Spare("a", "f"), Node("f"), Node("x")>>,
               !.edges = <<Edge("r", "a"), Edge("r", "f"), Edge("f", "x")>>,
               !.steady = FALSE]
StandIn ==
  [Base EXCEPT !.nodes = <<Node("r"),
                 [Tool("a") EXCEPT !.policy = "fallback-node", !.fallback = "f",
                    !.reads = {[from |-> "r", path |-> <<"other">>]}],
                 [Tool("f") EXCEPT !.gated = TRUE, !.reads = {[from |-> "r", path |-> <<"k">>]}]>>,
               !.edges = <<Edge("r", "a")>>,
               !.entry = "api", !.docs = {One, Empty}, !.lives = 2]

\* Contexts narrower than the parents.
Contexts ==
  { [Base EXCEPT !.nodes = <<[Node("a") EXCEPT !.makes = "diff"], Node("b"),
                             [Node("c") EXCEPT !.context = ctx]>>,
                 !.edges = <<Edge("a", "c"), Edge("b", "c")>>,
                 !.docs = {One, Zero}, !.lives = 1] :
      ctx \in { [mode |-> "none", from |-> {}], [mode |-> "diff-only", from |-> {}],
                [mode |-> "artifacts", from |-> {"b"}] } }

Submissions ==
  Graphs3 \cup Mistakes \cup Branches \cup Contexts \cup Wired
  \cup {Retried, Fragile, Archived, Gated, Regated, Defaulted, Unsupplied, Behind, Beside, StandIn}

=============================================================================
