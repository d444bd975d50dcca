--------------------------- MODULE MCWorkflowRunner ---------------------------
(* Small graphs, each built for one thing the runner has to get right.       *)
EXTENDS WorkflowRunner

\* An edge a -> b, with a handle.
E(a, b, h) == [source |-> a, target |-> b, handle |-> h]

Graph(ks, es, pins, rs) ==
  [kind |-> ks, edges |-> es, pinned |-> pins,
   retries |-> [n \in DOMAIN ks |-> IF n \in DOMAIN rs THEN rs[n] ELSE 0]]

Plain(ns) == [n \in ns |-> "plain"]

\* Two start nodes whose branches meet in j; a may go either way, b has a retry
\* and an error edge, and one edge leads nowhere.
Diamond ==
  Graph(Plain({"a", "b", "j", "h"}),
        <<E("a", "j", "yes"), E("a", "h", "no"), E("b", "j", ""), E("b", "h", "error"),
          E("j", "gone", "")>>,
        {}, [b |-> 1])

\* A cycle of pinned nodes: only the budget ends it.
PinnedCycle ==
  Graph(Plain({"t", "p", "q"}),
        <<E("t", "p", ""), E("p", "q", ""), E("q", "p", "")>>, {"p", "q"}, <<>>)

\* A loop whose body forks, and an error edge.
LoopBody ==
  Graph(Plain({"x", "y", "z", "h"}) @@ [l |-> "loop"],
        <<E("l", "x", ""), E("x", "y", ""), E("x", "z", ""), E("l", "h", "error")>>,
        {}, <<>>)

\* A body that leads back to its loop: sub-runners down to the depth limit.
LoopInLoop ==
  Graph(Plain({"t"}) @@ [l |-> "loop"],
        <<E("t", "l", ""), E("l", "l", "")>>, {}, <<>>)

\* A crew of maker and checker, which is tried again when it fails.
CrewRounds ==
  Graph(Plain({"m", "c"}) @@ [l |-> "crew"],
        <<E("l", "m", ""), E("m", "c", "")>>, {}, [l |-> 1])

\* A human-input node with an error edge.
Human ==
  Graph(Plain({"t", "h", "u"}) @@ [i |-> "human"],
        <<E("t", "i", ""), E("i", "u", ""), E("i", "h", "error")>>, {}, <<>>)

MCGraphs == {Diamond, PinnedCycle, LoopBody, LoopInLoop, CrewRounds, Human}
CrewOnly == {CrewRounds}
=============================================================================
