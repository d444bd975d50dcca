----------------------------- MODULE MCListenSlots -----------------------------
EXTENDS ListenSlots, TLC

CONSTANTS e1, e2, n1, t1, t2, r1, r2

\* Both executions listen on the same node: a second click on Listen.
OneNode == [e \in {e1, e2} |-> n1]

\* The credential behind a slot for t1 also owns the target of t2.
OneAlias == {<<t2, t1>>}

Symmetry == Permutations({e1, e2}) \cup Permutations({r1, r2})
=============================================================================
