----------------------------- MODULE WorkflowRunner -----------------------------
(***************************************************************************)
(* One execution of a workflow graph by WorkflowRunner.run                 *)
(* (execution_engine/engine/workflow_runner.py) with the node executor and *)
(* the loop nodes it drives.  A frame of `co` is one call of _execute_node *)
(* - one asyncio task, its steps cut at the awaits -, an element of `rns`  *)
(* one WorkflowRunner object: the first is the run itself, the others are  *)
(* the sub-runners run_downstream builds for the rounds of a loop.  What a *)
(* node computes is left out: it succeeds, with a branch, or fails.        *)
(***************************************************************************)
EXTENDS Integers, SequencesExt

CONSTANTS
  Graphs,    \* the graphs a run may be given, see IsGraph
  Budget,    \* _MAX_NODE_EXECUTIONS
  MaxDepth,  \* _MAX_SUBGRAPH_DEPTH
  MaxRounds  \* bound: iterations of a loop node (its items, maxRounds ...)

\* Nodes by what the runner has to know of them.  "loop" is ForEach, For, While,
\* DoWhile and Loop, not set to parallel; "crew" is ai.agent_crew.
Kind == {"plain", "loop", "crew", "human"}
Looping == {"loop", "crew"}

\* edges is the list of the graph; handle "" stands for no sourceHandle.  An edge
\* may lead to an id that is no node.
IsGraph(g) ==
  /\ DOMAIN g = {"edges", "kind", "pinned", "retries"}
  /\ g.edges \in Seq(Range(g.edges))
  /\ \A e \in Range(g.edges) : DOMAIN e = {"source", "target", "handle"}
  /\ IsFiniteSet(DOMAIN g.kind)
  /\ \A n \in DOMAIN g.kind : g.kind[n] \in Kind
  /\ g.pinned \subseteq DOMAIN g.kind
  /\ DOMAIN g.retries = DOMAIN g.kind

ASSUME GraphAssumption == \A g \in Graphs : IsGraph(g)
ASSUME BoundAssumption ==
  /\ Budget \in Nat \ {0}
  /\ MaxDepth \in Nat
  /\ MaxRounds \in Nat \ {0}

VARIABLES
  graph,      \* the graph, read when the task starts
  co,         \* the calls of _execute_node, in the order they were made
  rns,        \* the runners
  remaining,  \* self._budget["remaining"], one for all runners
  cancelKey,  \* the Redis key execution:cancel:<id>
  outcome     \* what run() returned or raised

vars == <<graph, co, rns, remaining, cancelKey, outcome>>

Nodes == DOMAIN graph.kind
\* The edges are named by their places in the list.
Source(e) == graph.edges[e].source
Target(e) == graph.edges[e].target
Handle(e) == graph.edges[e].handle
Out(n) == {e \in DOMAIN graph.edges : Source(e) = n}
ErrorEdges(n) == {e \in Out(n) : Handle(e) = "error"}
\* The edges a success with this branch ("" for none) activates.
ActiveEdges(n, branch) ==
  {e \in Out(n) : Handle(e) # "error" /\ (branch = "" \/ Handle(e) \in {"", branch})}
\* _successor_ids of run_downstream, in the order of the list.
Successors(n) ==
  LET es == SelectSeq(graph.edges, LAMBDA e : e.source = n /\ e.handle # "error")
  IN  [k \in DOMAIN es |-> es[k].target]
StartNodes == Nodes \ {Target(e) : e \in DOMAIN graph.edges}
\* None, one an edge was drawn for, or another one.
Branches(n) ==
  LET drawn == {Handle(e) : e \in Out(n)} \ {"", "error"}
  IN  {""} \cup (IF drawn = {} THEN {} ELSE drawn \cup {"other"})

-----------------------------------------------------------------------------
(* Frames and runners.                                                     *)

\* Where a call stands: it waits for its turn, for Redis, for its node, for its
\* children; it has returned without running the node, or after, or has raised.
PC == {"new", "asking", "executing", "joining", "skipped", "done",
       "cancelled", "errored"}
Raised == {"cancelled", "errored"}
Returned == {"skipped", "done"}
Ran == {"executing", "joining", "done"}

Frame(n, parent, r) ==
  [node |-> n, parent |-> parent, rn |-> r, pc |-> "new", tries |-> 0,
   result |-> "unset", branch |-> "", round |-> 0, todo |-> <<>>, sub |-> 0, last |-> "none"]

\* own is history: the nodes whose output this runner produced itself.
Runner(d, outs) ==
  [depth |-> d, executed |-> <<>>, failed |-> FALSE, outputs |-> outs, own |-> {}]

TypeOK ==
  /\ graph \in Graphs
  /\ \A i \in DOMAIN co :
       /\ co[i].pc \in PC
       /\ co[i].parent \in 0 .. i - 1 /\ co[i].rn \in DOMAIN rns
       /\ co[i].sub = 0 \/ co[i].sub \in i + 1 .. Len(co)
       /\ co[i].round \in 0 .. MaxRounds
       /\ co[i].last \in {"none", "value", "failed"}
  /\ \A r \in DOMAIN rns :
       /\ rns[r].depth \in 0 .. MaxDepth
       /\ rns[r].own \subseteq rns[r].outputs
       /\ rns[r].own \subseteq Range(rns[r].executed) \cap Nodes
  /\ remaining \in Int
  /\ cancelKey \in {"unset", "set", "expired"}
  /\ outcome \in {"none", "completed", "failed", "cancelled"}

Init ==
  /\ graph \in Graphs
  /\ co = LET ns == SetToSeq(StartNodes)
          IN  [k \in DOMAIN ns |-> Frame(ns[k], 0, 1)]
  /\ rns = <<Runner(0, {})>>
  /\ remaining = Budget
  /\ cancelKey = "unset"
  /\ outcome = "none"

\* The calls the gather of a call waits for: those of its own runner, and not
\* the sub-runs of an earlier attempt.  0 is run() itself.
Kids(i) ==
  {k \in DOMAIN co : co[k].parent = i /\ (i = 0 \/ co[k].rn = co[i].rn)}
\* The calls of the run's own runner.
Main == {i \in DOMAIN co : co[i].rn = 1}
Set(i, frame) == co' = [co EXCEPT ![i] = frame]
Goto(i, l) == co' = [co EXCEPT ![i].pc = l]

\* asyncio.gather over the targets of these edges; with no edge the call returns.
Dispatch(i, es, frame) ==
  IF es = {}
    THEN Set(i, [frame EXCEPT !.pc = "done"])
    ELSE LET list == SetToSeq(es) IN
         co' = [co EXCEPT ![i] = [frame EXCEPT !.pc = "joining"]]
                 \o [k \in DOMAIN list |-> Frame(Target(list[k]), i, frame.rn)]

-----------------------------------------------------------------------------
(* _execute_node up to the node's own code.                                *)

\* The task gets its turn: return if the runner has failed, else ask Redis.
Begin(i) ==
  /\ co[i].pc = "new"
  /\ Goto(i, IF rns[co[i].rn].failed THEN "skipped" ELSE "asking")
  /\ UNCHANGED <<graph, rns, remaining, cancelKey, outcome>>

\* A bug: the cancelled call returns instead of raising.
SeeCancelReturns(i) ==
  /\ co[i].pc = "asking" /\ cancelKey = "set"
  /\ Goto(i, "skipped")
  /\ UNCHANGED <<graph, rns, remaining, cancelKey, outcome>>

\* The answer: CancelledException before any claim.
SeeCancel(i) ==
  /\ co[i].pc = "asking" /\ cancelKey = "set"
  /\ Goto(i, "cancelled")
  /\ UNCHANGED <<graph, rns, remaining, cancelKey, outcome>>

\* No await between the dedup test and the placeholder, so they are one step:
\* a node already claimed by this runner is left to its first caller, unless it
\* is pinned; an id that is no node is claimed and skipped; the budget is drawn.
\* Possible with the cancel key set, too: _is_cancelled answers False when Redis
\* fails.
ClaimDuplicate(i) ==
  LET n == co[i].node IN
  /\ co[i].pc = "asking"
  /\ n \in Range(rns[co[i].rn].executed) \ graph.pinned
  /\ Goto(i, "skipped")
  /\ UNCHANGED <<graph, rns, remaining, cancelKey, outcome>>

\* A dict keeps the place of a key that is assigned again.
Record(r, n) ==
  IF n \in Range(rns[r].executed) THEN rns
  ELSE [rns EXCEPT ![r].executed = Append(@, n)]

\* A bug: the dedup is tested before the node runs, and recorded only after it.
ClaimWithoutPlaceholder(i) ==
  LET n == co[i].node IN
  /\ co[i].pc = "asking"
  /\ n \notin Range(rns[co[i].rn].executed) \ graph.pinned
  /\ remaining' = remaining - 1
  /\ Goto(i, IF n \notin Nodes THEN "skipped"
             ELSE IF remaining > 0 THEN "executing" ELSE "errored")
  /\ UNCHANGED <<graph, rns, cancelKey, outcome>>

\* A bug: every sub-runner draws from a budget of its own.
ClaimOwnBudget(i) ==
  LET n == co[i].node IN
  /\ co[i].pc = "asking"
  /\ n \notin Range(rns[co[i].rn].executed) \ graph.pinned
  /\ rns' = Record(co[i].rn, n)
  /\ remaining' = IF co[i].rn = 1 THEN remaining - 1 ELSE remaining
  /\ Goto(i, IF n \notin Nodes THEN "skipped"
             ELSE IF remaining > 0 THEN "executing" ELSE "errored")
  /\ UNCHANGED <<graph, cancelKey, outcome>>

Claim(i) ==
  LET n == co[i].node IN
  /\ co[i].pc = "asking"
  /\ n \notin Range(rns[co[i].rn].executed) \ graph.pinned
  /\ rns' = Record(co[i].rn, n)
  /\ IF n \notin Nodes
       THEN Goto(i, "skipped") /\ UNCHANGED remaining
       ELSE /\ remaining' = remaining - 1
            /\ Goto(i, IF remaining > 0 THEN "executing" ELSE "errored")
  /\ UNCHANGED <<graph, cancelKey, outcome>>

-----------------------------------------------------------------------------
(* The node's result, retries and successors.                              *)

AtWork(i) == co[i].pc = "executing" /\ co[i].sub = 0
KindOf(i) == graph.kind[co[i].node]

Store(r, n) ==
  [Record(r, n) EXCEPT ![r].outputs = @ \cup {n}, ![r].own = @ \cup {n}]

\* A bug: a success follows the error edges, too.
SucceedEverywhere(i, branch) ==
  LET r == co[i].rn
      n == co[i].node
      frame == [co[i] EXCEPT !.result = "success", !.branch = branch]
  IN /\ rns' = Store(r, n)
     /\ Dispatch(i, IF KindOf(i) \in Looping THEN {} ELSE Out(n), frame)

\* success: the output is stored; a node that handled its own successors ends
\* here, any other dispatches the edges of its branch.
Succeed(i, branch) ==
  LET r == co[i].rn
      n == co[i].node
      frame == [co[i] EXCEPT !.result = "success", !.branch = branch]
  IN /\ rns' = Store(r, n)
     /\ Dispatch(i, IF KindOf(i) \in Looping THEN {} ELSE ActiveEdges(n, branch), frame)

\* no success: another attempt while there are retries, else the error edges,
\* else the runner has failed.
Fail(i) ==
  LET r == co[i].rn
      n == co[i].node
      again == [Frame(n, co[i].parent, r) EXCEPT !.pc = "executing", !.tries = co[i].tries + 1]
  IN IF co[i].tries < graph.retries[n]
       THEN Set(i, again) /\ UNCHANGED rns
       ELSE /\ rns' = [Record(r, n) EXCEPT ![r].failed = @ \/ ErrorEdges(n) = {}]
            /\ Dispatch(i, ErrorEdges(n), [co[i] EXCEPT !.result = "fail"])

\* A node of any ordinary type: execute returns or raises, and the executor
\* turns an exception into a failure.
NodeSucceeds(i) ==
  /\ AtWork(i) /\ KindOf(i) = "plain"
  /\ \E b \in Branches(co[i].node) : Succeed(i, b)
  /\ UNCHANGED <<graph, remaining, cancelKey, outcome>>
NodeFails(i) ==
  /\ AtWork(i) /\ KindOf(i) = "plain"
  /\ Fail(i)
  /\ UNCHANGED <<graph, remaining, cancelKey, outcome>>

\* logic.human_input calls context.pause, which raises PauseSignal; the executor's
\* `except Exception` makes it a failed attempt like any other exception.
HumanInput(i) ==
  /\ AtWork(i) /\ KindOf(i) = "human"
  /\ Fail(i)
  /\ UNCHANGED <<graph, remaining, cancelKey, outcome>>

\* The runner's own code raises before, after or between the node's attempts - a
\* log row, an event, an expression -, its output stored or not: nothing between
\* here and the gather catches it.
RunnerRaises(i) ==
  /\ AtWork(i) /\ co[i].todo = <<>>
  /\ Goto(i, "errored")
  /\ rns' \in {rns, Store(co[i].rn, co[i].node)}
  /\ UNCHANGED <<graph, remaining, cancelKey, outcome>>

\* A bug: a raise below is taken for a return.
JoinIgnoringRaise(i) ==
  /\ co[i].pc = "joining"
  /\ \A k \in Kids(i) : co[k].pc \in Returned \cup Raised
  /\ Goto(i, "done")
  /\ UNCHANGED <<graph, rns, remaining, cancelKey, outcome>>

\* A bug: the call returns with its first successor.
JoinFirst(i) ==
  /\ co[i].pc = "joining"
  /\ \E k \in Kids(i) : co[k].pc \in Returned
  /\ Goto(i, "done")
  /\ UNCHANGED <<graph, rns, remaining, cancelKey, outcome>>

\* The gather of the successors is over: all have returned ...
Join(i) ==
  /\ co[i].pc = "joining"
  /\ \A k \in Kids(i) : co[k].pc \in Returned
  /\ Goto(i, "done")
  /\ UNCHANGED <<graph, rns, remaining, cancelKey, outcome>>
\* A bug: only CancelledException is passed on.
PropagateCancelOnly(i) ==
  /\ co[i].pc = "joining"
  /\ \E k \in Kids(i) : co[k].pc = "cancelled" /\ Goto(i, "cancelled")
  /\ UNCHANGED <<graph, rns, remaining, cancelKey, outcome>>

\* ... or one has raised, and the others run on unattended.
Propagate(i) ==
  /\ co[i].pc = "joining"
  /\ \E k \in Kids(i) : co[k].pc \in Raised /\ Goto(i, co[k].pc)
  /\ UNCHANGED <<graph, rns, remaining, cancelKey, outcome>>

-----------------------------------------------------------------------------
(* Loop nodes and run_downstream.                                          *)

\* Between two rounds, or before the first.
Idle(i) == AtWork(i) /\ KindOf(i) \in Looping /\ co[i].todo = <<>>

\* A bug: `depth > max` for `depth + 1 > max`.
BeginRoundDeeper(i) ==
  /\ Idle(i) /\ co[i].round < MaxRounds
  /\ rns[co[i].rn].depth <= MaxDepth
  /\ Set(i, [co[i] EXCEPT !.round = @ + 1, !.todo = Successors(co[i].node), !.last = "none"])
  /\ UNCHANGED <<graph, rns, remaining, cancelKey, outcome>>

\* One more item, iteration or round, where a sub-runner may go one level deeper.
BeginRound(i) ==
  /\ Idle(i) /\ co[i].round < MaxRounds
  /\ rns[co[i].rn].depth < MaxDepth
  /\ Set(i, [co[i] EXCEPT !.round = @ + 1, !.todo = Successors(co[i].node), !.last = "none"])
  /\ UNCHANGED <<graph, rns, remaining, cancelKey, outcome>>

\* "Execution exceeded the maximum sub-workflow depth", raised into the node before
\* anything else, whether it has successors or not.
TooDeep(i) ==
  /\ Idle(i) /\ co[i].round < MaxRounds
  /\ rns[co[i].rn].depth = MaxDepth
  /\ Fail(i)
  /\ UNCHANGED <<graph, remaining, cancelKey, outcome>>

\* The next successor gets a runner of its own, with the parent's outputs.
StartSub(i) ==
  /\ AtWork(i) /\ co[i].todo # <<>>
  /\ rns' = Append(rns, Runner(rns[co[i].rn].depth + 1, rns[co[i].rn].outputs))
  /\ co' = Append([co EXCEPT ![i].sub = Len(co) + 1],
                  Frame(Head(co[i].todo), i, Len(rns) + 1))
  /\ UNCHANGED <<graph, remaining, cancelKey, outcome>>

\* A bug: the output looked for last need not be of this runner's nodes.
SubResultAnyOutput(r) == rns[r].outputs

\* The node whose output _execute_subgraph returns: the last one executed that has
\* an output; none if there is none.
SubResult(r) ==
  LET ex == rns[r].executed
      withOutput == {k \in DOMAIN ex : ex[k] \in rns[r].outputs}
  IN  {ex[k] : k \in {m \in withOutput : \A l \in withOutput : l <= m}}

\* The sub-run is over: its result, or its failure when there is no result, is
\* appended to the round's results, and its outputs are merged into the parent.
\* The crew goes on with the last result of the round (the loops look at none).
TakeSub(i) ==
  LET k == co[i].sub
      r == co[k].rn
  IN /\ co[i].pc = "executing" /\ k # 0 /\ co[k].pc \in Returned
     /\ Set(i, [co[i] EXCEPT
          !.sub = 0,
          !.todo = Tail(@),
          !.last = IF rns[r].failed /\ SubResult(r) = {} THEN "failed" ELSE "value"])
     /\ rns' = [rns EXCEPT ![co[i].rn].outputs = @ \cup rns[r].outputs]
     /\ UNCHANGED <<graph, remaining, cancelKey, outcome>>

\* The sub-run raised - cancelled, budget, log: the loop's execute raises, and
\* the executor makes it a failed attempt.
SubRaises(i) ==
  /\ co[i].pc = "executing" /\ co[i].sub # 0
  /\ co[co[i].sub].pc \in Raised
  /\ Fail(i)
  /\ UNCHANGED <<graph, remaining, cancelKey, outcome>>

\* No further round.  A crew has had one at least, and its last result is no failure
\* unless it had all its rounds.
LoopSucceeds(i) ==
  /\ Idle(i)
  /\ KindOf(i) = "crew" =>
       co[i].round > 0 /\ (co[i].last = "failed" => co[i].round = MaxRounds)
  /\ Succeed(i, "")
  /\ UNCHANGED <<graph, remaining, cancelKey, outcome>>

\* Properties the executor cannot validate, bad items, a condition that cannot be
\* evaluated, a round whose result is a failure or says so: before the first round
\* or after any.
LoopFails(i) ==
  /\ Idle(i)
  /\ Fail(i)
  /\ UNCHANGED <<graph, remaining, cancelKey, outcome>>

-----------------------------------------------------------------------------
(* run().                                                                  *)

\* All start nodes have returned (or there was none).
Finish ==
  /\ outcome = "none"
  /\ \A k \in Kids(0) : co[k].pc \in Returned
  /\ outcome' = IF rns[1].failed THEN "failed" ELSE "completed"
  /\ UNCHANGED <<graph, co, rns, remaining, cancelKey>>

\* One has raised: CancelledException goes to the task, anything else fails the
\* run.  The other calls may run on until the event loop is closed.
Abort ==
  /\ outcome = "none"
  /\ \E k \in Kids(0) :
       \/ /\ co[k].pc = "cancelled"
          /\ outcome' = "cancelled"
          /\ UNCHANGED rns
       \/ /\ co[k].pc = "errored"
          /\ outcome' = "failed"
          /\ rns' = [rns EXCEPT ![1].failed = TRUE]
  /\ UNCHANGED <<graph, co, remaining, cancelKey>>

\* cancel_execution sets the key, once; it lives 300 seconds.
Cancel ==
  /\ cancelKey = "unset" /\ outcome = "none"
  /\ cancelKey' = "set"
  /\ UNCHANGED <<graph, co, rns, remaining, outcome>>
CancelExpires ==
  /\ cancelKey = "set"
  /\ cancelKey' = "expired"
  /\ UNCHANGED <<graph, co, rns, remaining, outcome>>

Step(i) ==
  \/ Begin(i) \/ SeeCancel(i) \/ ClaimDuplicate(i) \/ Claim(i)
  \/ NodeSucceeds(i) \/ NodeFails(i) \/ HumanInput(i) \/ RunnerRaises(i)
  \/ Join(i) \/ Propagate(i)
  \/ BeginRound(i) \/ StartSub(i) \/ TooDeep(i) \/ TakeSub(i) \/ SubRaises(i)
  \/ LoopSucceeds(i) \/ LoopFails(i)

Next ==
  \/ \E i \in DOMAIN co : Step(i)
  \/ Finish \/ Abort
  \/ Cancel \/ CancelExpires

Spec == Init /\ [][Next]_vars

\* A call that waits for the code of an ordinary node: an HTTP request, a model, a
\* query.  Neither the executor nor the worker sets it a time limit.
InNode(i) == AtWork(i) /\ KindOf(i) = "plain"

\* The event loop runs every task that can go on, and run() is one of them; Redis and
\* the database answer or fail.  Nothing is asked of the nodes' own code.
EventLoop ==
  \/ \E i \in DOMAIN co : ~InNode(i) /\ Step(i)
  \/ Finish \/ Abort
Fairness == WF_vars(EventLoop)

FairSpec == Spec /\ Fairness

-----------------------------------------------------------------------------
(* Properties.                                                             *)

\* A runner runs a node once, however many paths lead to it and however they
\* interleave, unless it is pinned ("only one coroutine may execute a given node").
RunsOnce ==
  \A i, j \in DOMAIN co :
    /\ co[i].node = co[j].node /\ co[i].rn = co[j].rn
    /\ co[i].pc \in Ran /\ co[j].pc \in Ran
    /\ co[i].node \notin graph.pinned
    => i = j

\* Rounds, sub-runners and pinned cycles together run no more nodes than the
\* budget ("the whole run draws from one budget").
WithinBudget == Cardinality({i \in DOMAIN co : co[i].pc \in Ran}) <= Budget

\* A run is only reported completed when nothing went wrong in its own runner
\* that no error edge took care of, and no exception was lost on its way up.
CompletedIsClean ==
  outcome = "completed" =>
    \A i \in Main :
      /\ co[i].pc \in Returned
      /\ co[i].result = "fail" => ErrorEdges(co[i].node) # {}

\* The edges the result of a call leads along.
Followed(i) ==
  IF co[i].result = "fail" THEN ErrorEdges(co[i].node)
  ELSE IF KindOf(i) \in Looping THEN {}
  ELSE ActiveEdges(co[i].node, co[i].branch)

\* ... and only when every node an outcome of another one leads to has run: no
\* branch is dropped because its target was claimed, or was seen, too early.
CompletedIsWhole ==
  outcome = "completed" =>
    \A i \in {k \in Main : co[k].pc = "done"} : \A e \in Followed(i) :
      Target(e) \in Nodes =>
        \E j \in Main : co[j].node = Target(e) /\ co[j].pc = "done"

\* The rounds of a loop come one after the other: unless an attempt raised, no
\* two of its sub-runs are alive together.
RoundsInTurn ==
  \A i, k, l \in DOMAIN co :
    /\ k < l /\ co[k].parent = i /\ co[l].parent = i /\ co[i].tries = 0
    /\ co[k].rn # co[i].rn /\ co[l].rn # co[i].rn
    => \A j \in DOMAIN co : co[j].rn = co[k].rn => co[j].pc \in Returned \cup Raised

\* Every run ends, whatever the graph - cycles, nested loops, failures -, unless a
\* node never comes back: nothing but a node's own code can hold a run for ever.
RunEnds == <>(outcome # "none") \/ <>[](\E i \in DOMAIN co : InNode(i))

\* The sub-run the call i waits for has returned.
SubReturned(i) ==
  co[i].pc = "executing" /\ co[i].sub # 0 /\ co[co[i].sub].pc \in Returned

\* "Only nodes run by THIS sub-runner are in it, so parent outputs copied into
\* _outputs don't interfere": the result of a sub-run is one of its own.
SubResultIsOwn ==
  \A i \in DOMAIN co : SubReturned(i) =>
    LET r == co[co[i].sub].rn IN SubResult(r) \subseteq rns[r].own

\* As long as no call of the sub-run has failed, handled or not, that is so, and
\* there is a result if its first id is a node.
CleanSubAnswers ==
  \A i \in DOMAIN co :
    LET k == co[i].sub
        r == co[k].rn
    IN  /\ SubReturned(i)
        /\ \A j \in DOMAIN co : co[j].rn = r => co[j].result # "fail"
        => /\ SubResult(r) \subseteq rns[r].own
           /\ co[k].node \in Nodes => SubResult(r) # {}

\* The sets of edges an outcome of a node may lead along.
Outcomes(n) ==
  ({ErrorEdges(n)} \ {{}})
    \cup (IF graph.kind[n] \in Looping THEN {{}} ELSE {ActiveEdges(n, b) : b \in Branches(n)})
Reached(es) == {Target(e) : e \in es} \cap Nodes

\* The graph as the contract sees it, the nodes called, those with an outcome, and
\* whether something went wrong, all of the run's own runner.
Plan ==
  [start |-> StartNodes, pinned |-> graph.pinned,
   leads |-> [n \in Nodes |-> {Reached(es) : es \in Outcomes(n)}]]
WantedNodes == {co[i].node : i \in Main} \cap Nodes
RanNodes == {co[i].node : i \in {j \in Main : co[j].result # "unset"}}
Broken == rns[1].failed \/ \E i \in Main : co[i].pc \in Raised

Contract ==
  INSTANCE GraphRun WITH plan <- Plan, wanted <- WantedNodes, ran <- RanNodes,
                         broken <- Broken, verdict <- outcome

\* The calls of _execute_node, claimed and gathered in any order, with retries, loops,
\* sub-runners and cancel requests among them, keep the contract of a run: a node runs
\* only because an outcome led to it, has one outcome, and a verdict is given once.
ImplementsGraphRun == Contract!Spec
=============================================================================
