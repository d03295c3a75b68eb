---------------------------- MODULE MCBuildSteps -----------------------------
(* Small configurations of custom build steps for BuildSteps. *)
EXTENDS BuildSteps, TLC

Step(n, d) == [name |-> n, dependencies |-> d]

Chain   == <<Step("c", <<"b">>), Step("a", <<>>), Step("b", <<"a">>)>>
Diamond == <<Step("a", <<>>), Step("b", <<"a">>), Step("c", <<"a">>),
             Step("d", <<"b", "c">>)>>
FanIn   == <<Step("a", <<>>), Step("b", <<>>), Step("c", <<"a", "b">>)>>

\* A dependency listed twice, one of an unknown name, a name defined twice.
Repeated == <<Step("a", <<>>), Step("b", <<"a", "a">>), Step("b", <<"d">>),
              Step("c", <<"b", "a">>)>>

Self    == <<Step("a", <<>>), Step("b", <<"b">>)>>
Loop    == <<Step("a", <<"c">>), Step("b", <<"a">>), Step("c", <<"b">>),
             Step("d", <<>>)>>

Shapes == {<<>>, Chain, Diamond, FanIn, Repeated, Self, Loop}

\* All lists of up to three steps named in order, with up to two dependencies
\* each (in one order): the graph, the cycle check and the ends of the steps on
\* every small shape.
NamesInOrder == <<"a", "b", "c">>
DependencyLists ==
  {<<>>} \cup {<<x>> : x \in {"a", "b", "c"}} \cup
  {<<NamesInOrder[i], NamesInOrder[j]>> : i \in 1..2, j \in 2..3}
Lists ==
  UNION {{[i \in 1..n |-> Step(NamesInOrder[i], d[i])] :
            d \in [1..n -> DependencyLists]} : n \in 0..3}

MCPrograms == Shapes \cup Lists
==============================================================================
