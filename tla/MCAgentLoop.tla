---------------------------- MODULE MCAgentLoop ----------------------------
(* AgentLoop for TLC: two tool calls, answers of up to two of them, two    *)
(* measures, and a system ceiling below the highest choice of iterations.  *)
(* The third usage is what a stream of Anthropic reports: a cost, but no   *)
(* input tokens.                                                           *)
EXTENDS AgentLoop
CONSTANTS c1, c2, tokens, cost

MCBatches == {<<>>, <<c1>>, <<c2>>, <<c1, c1>>, <<c1, c2>>}
MCLimit   == [m \in Measures |-> 2]
MCCallMax == [m \in Measures |-> 1]
MCUsages  == {[m \in Measures |-> 0], [m \in Measures |-> 1],
              [m \in Measures |-> IF m = tokens THEN 0 ELSE 1]}
=============================================================================
