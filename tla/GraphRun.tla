------------------------------- MODULE GraphRun -------------------------------
(***************************************************************************)
(* What a run of a workflow promises of its graph, without calls, loops,   *)
(* budgets and cancel requests: a node runs when an outcome leads to it,   *)
(* and gets its outcome once; the run is completed when all these nodes    *)
(* have run and nothing broke.                                             *)
(***************************************************************************)
VARIABLES
  plan,     \* start: the nodes to begin with; leads[n]: the sets of nodes an
            \* outcome of n may lead to; pinned: the nodes that may run again
  wanted,   \* the nodes an outcome led to
  ran,      \* the nodes that have had an outcome
  broken,   \* an unhandled failure, or an exception
  verdict

vars == <<plan, wanted, ran, broken, verdict>>

Init ==
  /\ plan.start \subseteq DOMAIN plan.leads
  /\ wanted = plan.start
  /\ ran = {}
  /\ broken = FALSE
  /\ verdict = "none"

Ready(n) == verdict # "completed" /\ n \in wanted /\ n \notin ran \ plan.pinned

Run(n) ==
  /\ Ready(n)
  /\ \E next \in plan.leads[n] : wanted' = wanted \cup next
  /\ ran' = ran \cup {n}
  /\ UNCHANGED <<plan, broken, verdict>>

\* A failure that leads nowhere.
Fail(n) ==
  /\ Ready(n)
  /\ ran' = ran \cup {n}
  /\ broken' = TRUE
  /\ UNCHANGED <<plan, wanted, verdict>>

\* Cancelled, out of budget, an exception of the runner.
Break ==
  /\ verdict # "completed"
  /\ broken' = TRUE
  /\ UNCHANGED <<plan, wanted, ran, verdict>>

Complete ==
  /\ verdict = "none" /\ ~broken /\ wanted \subseteq ran
  /\ verdict' = "completed"
  /\ UNCHANGED <<plan, wanted, ran, broken>>

GiveUp ==
  /\ verdict = "none" /\ broken
  /\ verdict' \in {"failed", "cancelled"}
  /\ UNCHANGED <<plan, wanted, ran, broken>>

Next == (\E n \in wanted : Run(n) \/ Fail(n)) \/ Break \/ Complete \/ GiveUp

Spec == Init /\ [][Next]_vars
=============================================================================
