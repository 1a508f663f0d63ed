---------------------------- MODULE MC_Workspace ----------------------------
(* Small workspaces, each busy with one part of what is shared.            *)
EXTENDS Workspace

CONSTANTS i1, i2, r1, r2

Rare == [k \in Kinds |-> 0]
Often(n) == [k \in Kinds |-> IF k \in DOMAIN n THEN n[k] ELSE 0]
Beta == [First EXCEPT !.pre = "beta"]

B1 == "write"     \* same contract and model as
B2 == "rewrite"   \* this, with another goal
B3 == "review"
AllBodies == {B1, B2, B3}
Contracts == [b \in AllBodies |-> IF b = B3 THEN "review" ELSE "text"]

Home == "home"
Unpacked == "unpacked"
AllDirs == {Home, Unpacked}

Scenario(v, b, offer, n) ==
  [menu |-> offer, left |-> Often(n), pins |-> [d \in AllDirs |-> v],
   dirs |-> [d \in AllDirs |-> IF d = Home THEN (Plain :> Def(v, b)) ELSE <<>>]]

Outputs == {"small", "second", "third", "huge"}
Sizes == [a \in Outputs |-> CASE a = "small" -> 1 [] a = "huge" -> 3 [] OTHER -> 2]
Swapped == {<<"x", "y">>, <<"y", "x">>}
TwoInputs == {<<"x">>, <<"y">>}
AllInputs == Swapped \cup TwoInputs

Plainly == [bodies |-> {B2}, ins |-> {<<"x">>}, arts |-> {"small"}, asked |-> {"on"}, modes |-> {}]
Files3 == [Plainly EXCEPT !.bodies = AllBodies]
Swaps == [Plainly EXCEPT !.bodies = {B2, B3}, !.ins = Swapped, !.arts = {"small", "second"}]
Keyed == [Plainly EXCEPT !.ins = TwoInputs, !.arts = {"small", "second"}]
Switched == [Keyed EXCEPT !.asked = {"", "on", "readonly"}, !.modes = {"on", "off", "readonly"}]
Full == [Plainly EXCEPT !.arts = Outputs, !.asked = {"off"}]

Workspaces ==
  { \* saves, two of them at once; then a template over the result
    Scenario(First, B1, Files3, [save |-> 3, edit |-> 1]),
    Scenario(First, B1, [Files3 EXCEPT !.bodies = {B2}],
      [save |-> 2, export |-> 1, import |-> 2, edit |-> 1, restart |-> 1]),
    Scenario(Beta, B1, Plainly, [save |-> 2, edit |-> 1, launch |-> 1]),
    \* the directory and the cache together
    Scenario(First, B1, Swaps, [save |-> 1, edit |-> 1, launch |-> 2, node |-> 2]),
    \* a version unpacked twice: the registry refuses, or the cache serves
    Scenario(First, B1, Plainly,
      [save |-> 1, export |-> 1, import |-> 1, launch |-> 2, node |-> 2]),
    \* copies of the index that fall behind
    Scenario(First, B1, Keyed, [launch |-> 2, node |-> 3, clear |-> 2, open |-> 1]),
    Scenario(First, B1, Switched, [launch |-> 2, node |-> 2, settings |-> 1, restart |-> 1]),
    \* the quota
    Scenario(First, B3, Full, [launch |-> 2, node |-> 4]) }

Symmetric == Permutations({i1, i2}) \cup Permutations({r1, r2})

=============================================================================
