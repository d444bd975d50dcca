-------------------------- MODULE WorkflowRunnerProofs --------------------------
(***************************************************************************)
(* Proofs about the workflow runner, for every finite graph and every      *)
(* budget, depth and number of rounds.  Calls and runners are lists that   *)
(* grow, so a first part says what a step on a list leaves alone; then the *)
(* inductive invariant, one lemma for each kind of step - claiming a node, *)
(* ending one and calling its successors, starting a sub-run, and all the  *)
(* others, which make no call and claim nothing -, and the theorems.       *)
(***************************************************************************)
EXTENDS WorkflowRunner, SequenceTheorems, FiniteSetTheorems, WellFoundedInduction, TLAPS

-----------------------------------------------------------------------------
(* Sequences and records.                                                  *)

Listed(s) == s \in Seq(Range(s))

\* A list has the indices 1 to its length.
LEMMA ListedDomain ==
  ASSUME NEW s, Listed(s)
  PROVE  Len(s) \in Nat /\ DOMAIN s = 1 .. Len(s)
BY LenProperties DEF Listed

\* A list of elements of some set is a list of its own elements.
LEMMA ListedAnyway == ASSUME NEW S, NEW s \in Seq(S) PROVE Listed(s)
BY SeqOfRange DEF Listed

\* Replacing one element of a list touches nothing else.
LEMMA ReplaceOne ==
  \A s, i, x, t :
    Listed(s) /\ i \in DOMAIN s /\ t = [s EXCEPT ![i] = x] =>
      /\ Listed(t) /\ Len(t) = Len(s) /\ DOMAIN t = DOMAIN s
      /\ t[i] = x
      /\ \A j \in DOMAIN s \ {i} : t[j] = s[j]
<1> SUFFICES ASSUME NEW s, NEW i, NEW x, NEW t,
                    Listed(s), i \in DOMAIN s, t = [s EXCEPT ![i] = x]
             PROVE  /\ Listed(t) /\ Len(t) = Len(s) /\ DOMAIN t = DOMAIN s
                    /\ t[i] = x
                    /\ \A j \in DOMAIN s \ {i} : t[j] = s[j]
  OBVIOUS
<1> DEFINE S == Range(s) \cup {x}
<1>1. s \in Seq(S) BY SeqMonotonic DEF Listed
<1>2. i \in 1 .. Len(s) BY ListedDomain
<1>3. t \in Seq(S) /\ Len(t) = Len(s)
  <2> HIDE DEF S
  <2>1. x \in S BY DEF S
  <2> QED BY <1>1, <1>2, <2>1, ExceptSeq
<1>4. Listed(t) BY <1>3, ListedAnyway
<1> QED BY <1>3, <1>4

\* Two lists in a row.
InARow(s, t, u) ==
  /\ Listed(u) /\ Len(u) = Len(s) + Len(t)
  /\ DOMAIN s \subseteq DOMAIN u
  /\ \A j \in DOMAIN s : u[j] = s[j]
  /\ \A j \in DOMAIN t : Len(s) + j \in DOMAIN u \ DOMAIN s /\ u[Len(s) + j] = t[j]
  /\ \A j \in DOMAIN u \ DOMAIN s : j - Len(s) \in DOMAIN t /\ u[j] = t[j - Len(s)]

\* The elements of two lists one after the other keep their places, shifted for the
\* second.
LEMMA Concatenation ==
  \A s, t, u : Listed(s) /\ Listed(t) /\ u = s \o t => InARow(s, t, u)
<1> SUFFICES ASSUME NEW s, NEW t, Listed(s), Listed(t), NEW u, u = s \o t
             PROVE  InARow(s, t, u)
  OBVIOUS
<1> DEFINE S == Range(s) \cup Range(t)
<1>1. s \in Seq(S) /\ t \in Seq(S) BY SeqMonotonic DEF Listed
<1>2. /\ u \in Seq(S) /\ Len(u) = Len(s) + Len(t)
      /\ \A i \in 1 .. Len(s) + Len(t) :
            u[i] = IF i <= Len(s) THEN s[i] ELSE t[i - Len(s)]
  <2> HIDE DEF S
  <2> QED BY <1>1, ConcatProperties
<1>3. Listed(u) BY <1>2, ListedAnyway
<1> QED BY <1>2, <1>3, ListedDomain DEF InARow

\* One more element.
Extended(s, x, u) ==
  /\ Listed(u) /\ Len(u) = Len(s) + 1
  /\ DOMAIN u = DOMAIN s \cup {Len(s) + 1}
  /\ \A j \in DOMAIN s : u[j] = s[j]
  /\ u[Len(s) + 1] = x
  /\ Range(u) = Range(s) \cup {x}

\* Append adds one index, and one element.
LEMMA AppendOne ==
  \A s, x, u : Listed(s) /\ u = Append(s, x) => Extended(s, x, u)
<1> SUFFICES ASSUME NEW s, Listed(s), NEW x, NEW u, u = Append(s, x)
             PROVE  Extended(s, x, u)
  OBVIOUS
<1> DEFINE S == Range(s) \cup {x}
<1>1. s \in Seq(S) BY SeqMonotonic DEF Listed
<1>2. /\ u \in Seq(S) /\ Len(u) = Len(s) + 1
      /\ \A i \in 1 .. Len(s) : u[i] = s[i]
      /\ u[Len(s) + 1] = x
  <2> HIDE DEF S
  <2>1. x \in S BY DEF S
  <2> QED BY <1>1, <2>1, AppendProperties
<1>3. Listed(u) BY <1>2, ListedAnyway
<1>4. DOMAIN u = DOMAIN s \cup {Len(s) + 1} BY <1>2, <1>3, ListedDomain
<1>5. Range(u) = Range(s) \cup {x}
  <2>1. \A y : y \in Range(u) <=> \E j \in DOMAIN u : y = u[j] BY DEF Range
  <2>2. \A y : y \in Range(s) <=> \E j \in DOMAIN s : y = s[j] BY DEF Range
  <2>3. \A j \in DOMAIN s : u[j] = s[j] BY <1>2, ListedDomain
  <2> QED BY <1>2, <1>4, <2>1, <2>2, <2>3
<1> QED BY <1>2, <1>3, <1>4, <1>5, ListedDomain DEF Extended

\* SetToSeq lists every element of a finite set.
LEMMA SetListed ==
  ASSUME NEW S, IsFiniteSet(S), NEW s, s = SetToSeq(S)
  PROVE  Listed(s) /\ Range(s) = S
<1> DEFINE n == Cardinality(S)
<1>1. n \in Nat /\ ExistsBijection(1 .. n, S) BY FS_CardinalityType
<1>2. \E f \in [1 .. n -> S] : IsInjective(f)
  BY <1>1 DEF ExistsBijection, Bijection, Injection
<1>3. s \in [1 .. n -> S] /\ IsInjective(s) BY <1>2 DEF SetToSeq
<1>4. s \in Injection(1 .. n, S) BY <1>3 DEF Injection
<1>5. IsFiniteSet(1 .. n) /\ Cardinality(1 .. n) = n BY <1>1, FS_Interval
<1>6. s \in Surjection(1 .. n, S) BY <1>4, <1>5, FS_Injection
<1>7. Range(s) = S BY <1>3, <1>6 DEF Range, Surjection
<1>8. s \in Seq(S) BY <1>1, <1>3, SeqDef
<1> QED BY <1>7, <1>8, ListedAnyway

\* Calls are numbered, so among some of them there is a first.
LEMMA FirstOf ==
  ASSUME NEW T, T \subseteq Nat, T # {}
  PROVE  \E x \in T : \A y \in T : x <= y
<1> DEFINE R == {p \in Nat \X Nat : p[1] < p[2]}
<1>1. IsWellFoundedOn(R, Nat) BY NatLessThanWellFounded DEF OpToRel
<1>2. \E x \in T : \A y \in T : <<y, x>> \notin R
  <2> HIDE DEF R
  <2> QED BY <1>1, WFMin
<1>3. \A x, y \in Nat : y < x => <<y, x>> \in R OBVIOUS
<1>4. PICK x \in T : \A y \in T : <<y, x>> \notin R BY <1>2
<1>5. \A y \in T : ~(y < x) BY <1>3, <1>4
<1> QED BY <1>5

-----------------------------------------------------------------------------
(* The inductive invariant.                                                *)

FrameFields == {"node", "parent", "rn", "pc", "tries", "result", "branch",
                "round", "todo", "sub", "last"}
RunnerFields == {"depth", "executed", "failed", "outputs", "own"}

Over == Returned \cup Raised

Shape ==
  /\ Listed(co) /\ Listed(rns) /\ 1 \in DOMAIN rns
  /\ \A i \in DOMAIN co : DOMAIN co[i] = FrameFields /\ co[i].tries \in Nat
  /\ \A r \in DOMAIN rns :
       /\ DOMAIN rns[r] = RunnerFields
       /\ Listed(rns[r].executed)
       /\ rns[r].failed \in BOOLEAN

\* The call runs its node, or did before it raised.
Took(i) == co[i].pc \in Ran \/ co[i].result # "unset"

\* Such a call has put its node into executed ...
Claimed ==
  \A i \in DOMAIN co :
    Took(i) => co[i].node \in Nodes \cap Range(rns[co[i].rn].executed)

\* ... where no other call of its runner had put it, unless it is pinned ...
Single ==
  \A i, j \in DOMAIN co :
    /\ co[i].node = co[j].node /\ co[i].rn = co[j].rn
    /\ Took(i) /\ Took(j) /\ co[i].node \notin graph.pinned
    => i = j

\* ... and what is in executed was put there by a call that did not skip it.
Taken ==
  \A r \in DOMAIN rns : \A n \in Range(rns[r].executed) \cap Nodes :
    \E i \in DOMAIN co :
      co[i].rn = r /\ co[i].node = n /\ co[i].pc \in Ran \cup Raised

\* Why a call may return without running its node.
Excused ==
  \A i \in DOMAIN co : co[i].pc = "skipped" =>
    \/ rns[co[i].rn].failed
    \/ co[i].node \notin Nodes
    \/ co[i].node \in Range(rns[co[i].rn].executed)

\* A failure without an error edge has failed its runner.
FailureSeen ==
  \A i \in DOMAIN co :
    co[i].result = "fail" /\ ErrorEdges(co[i].node) = {} => rns[co[i].rn].failed

\* A call calls its successors when its node is done, and returns after them.
Gathered ==
  \A i \in DOMAIN co :
    /\ co[i].pc \in {"new", "asking", "executing", "skipped"} => Kids(i) = {}
    /\ co[i].pc \in {"joining", "done"} =>
         \A e \in Followed(i) : \E k \in Kids(i) : co[k].node = Target(e)
    /\ co[i].pc = "done" => \A k \in Kids(i) : co[k].pc \in Returned

\* The first call of a sub-runner, made by a loop node of another runner.
Root(i) == co[i].parent # 0 /\ co[co[i].parent].rn # co[i].rn

\* Every other call has its parent in its own runner, and no runner has two roots.
Rooted ==
  \A i \in DOMAIN co :
    /\ co[i].parent = 0 => co[i].rn = 1
    /\ Root(i) => co[i].rn # 1
    /\ \A j \in DOMAIN co : Root(i) /\ Root(j) /\ co[i].rn = co[j].rn => i = j

\* The sub-run a loop waits for is its last one, and until an attempt raises all
\* the others are over.
SubLast ==
  \A i, k \in DOMAIN co :
    Root(k) /\ co[k].parent = i =>
      /\ co[i].sub # 0 => k <= co[i].sub
      /\ co[i].tries = 0 /\ k # co[i].sub =>
           \A j \in DOMAIN co : co[j].rn = co[k].rn => co[j].pc \in Over
SubOwn ==
  \A i \in DOMAIN co :
    co[i].sub # 0 => Root(co[i].sub) /\ co[co[i].sub].parent = i

\* What is left of the budget and what was run add up to it.
Active == {i \in DOMAIN co : co[i].pc \in Ran}
Spent ==
  /\ remaining <= Budget
  /\ remaining >= 0 => Cardinality(Active) + remaining <= Budget
  /\ Cardinality(Active) <= Budget

\* A completed run is over and has not failed.
Verdict ==
  outcome = "completed" => ~rns[1].failed /\ \A i \in Main : co[i].pc \in Returned

\* A call has no result until its node is done; then the output is stored, or it
\* has failed.  Outputs are of nodes.
Stored ==
  /\ \A r \in DOMAIN rns : rns[r].outputs \subseteq Nodes
  /\ \A i \in DOMAIN co :
       /\ co[i].pc \in {"new", "asking", "executing"} => co[i].result = "unset"
       /\ co[i].pc \in {"joining", "done"} => co[i].result # "unset"
       /\ co[i].result \in {"unset", "fail"} \/ co[i].node \in rns[co[i].rn].own

\* A sub-runner has failed because a call of it has.
Blamed ==
  \A r \in DOMAIN rns \ {1} : rns[r].failed =>
    \E j \in DOMAIN co : co[j].rn = r /\ co[j].result = "fail"

\* A loop begins a round only where a sub-runner may go one level deeper.
RoomBelow(i) == rns[co[i].rn].depth < MaxDepth
Shallow == \A i \in DOMAIN co : co[i].todo # <<>> \/ co[i].sub # 0 => RoomBelow(i)

IInv ==
  /\ TypeOK /\ Shape /\ Shallow /\ Claimed /\ Single /\ Taken /\ Excused /\ FailureSeen
  /\ Stored /\ Blamed /\ Gathered /\ Rooted /\ SubLast /\ SubOwn /\ Spent /\ Verdict

\* Calls are numbered, and one is made by an earlier one or by run().
LEMMA ParentIsCall ==
  ASSUME TypeOK, Shape
  PROVE  \A j \in DOMAIN co :
           /\ j \in Nat \ {0} /\ co[j].rn \in DOMAIN rns
           /\ co[j].parent \in Nat /\ co[j].parent < j
           /\ co[j].parent # 0 => co[j].parent \in DOMAIN co
BY ListedDomain DEF TypeOK, Shape

\* The sub-run a loop waits for is one of the calls, made by the loop.
LEMMA SubInside ==
  ASSUME IInv
  PROVE  \A j \in DOMAIN co : co[j].sub # 0 =>
           co[j].sub \in DOMAIN co /\ Root(co[j].sub) /\ co[co[j].sub].parent = j
<1>1. DOMAIN co = 1 .. Len(co) BY ListedDomain DEF IInv, Shape
<1>2. \A j \in DOMAIN co : j \in Nat /\ (co[j].sub = 0 \/ co[j].sub \in j + 1 .. Len(co))
  BY <1>1 DEF IInv, TypeOK
<1>3. \A j \in DOMAIN co : co[j].sub # 0 => co[j].sub \in DOMAIN co
  BY <1>1, <1>2
<1> QED BY <1>3 DEF IInv, SubOwn

\* The calls that run a node can be counted.
LEMMA ActiveFinite == ASSUME Shape PROVE IsFiniteSet(Active)
<1>1. Len(co) \in Nat /\ DOMAIN co = 1 .. Len(co) BY ListedDomain DEF Shape
<1>2. IsFiniteSet(1 .. Len(co)) BY <1>1, FS_Interval
<1>3. Active \in SUBSET (1 .. Len(co)) BY <1>1 DEF Active
<1> QED BY <1>2, <1>3, FS_Subset

-----------------------------------------------------------------------------
(* What a step does to the calls and to the runners.                       *)

Became(i, f) ==
  /\ Listed(co') /\ Len(co') = Len(co) /\ DOMAIN co' = DOMAIN co
  /\ co'[i] = f
  /\ \A j \in DOMAIN co \ {i} : co'[j] = co[j]

\* Set changes the one call it names ...
LEMMA SetEffect ==
  ASSUME Listed(co), NEW i \in DOMAIN co, NEW f, Set(i, f)
  PROVE  Became(i, f)
<1>1. co' = [co EXCEPT ![i] = f] BY DEF Set
<1> HIDE DEF Set
<1> DEFINE t == co'
<1>2. t = [co EXCEPT ![i] = f] BY <1>1
<1> HIDE DEF t
<1>3. /\ Listed(t) /\ Len(t) = Len(co) /\ DOMAIN t = DOMAIN co
      /\ t[i] = f
      /\ \A j \in DOMAIN co \ {i} : t[j] = co[j]
  BY <1>2, ReplaceOne
<1> QED BY <1>3 DEF Became, t

\* ... and so does Goto.
LEMMA GotoEffect ==
  ASSUME Listed(co), NEW i \in DOMAIN co, NEW l, Goto(i, l)
  PROVE  Became(i, [co[i] EXCEPT !.pc = l])
<1> DEFINE f == [co[i] EXCEPT !.pc = l]
<1>1. Set(i, f) BY DEF Goto, Set
<1> HIDE DEF f
<1>2. Became(i, f) BY <1>1, SetEffect
<1> QED BY <1>2 DEF f

\* The runner r is changed in anything but what it has executed.
Tended(r) ==
  /\ Listed(rns') /\ DOMAIN rns' = DOMAIN rns
  /\ \A q \in DOMAIN rns \ {r} : rns'[q] = rns[q]
  /\ DOMAIN rns'[r] = RunnerFields
  /\ rns'[r].depth = rns[r].depth /\ rns'[r].executed = rns[r].executed
  /\ rns'[r].failed \in BOOLEAN /\ (rns[r].failed => rns'[r].failed)
  /\ rns'[r].own \subseteq rns'[r].outputs /\ rns'[r].outputs \subseteq Nodes
  /\ rns'[r].own \subseteq Range(rns[r].executed) \cap Nodes
  /\ rns[r].own \subseteq rns'[r].own

\* ... or in failed.
Quiet(r) == Tended(r) /\ (rns'[r].failed => rns[r].failed)

\* A step of a call that makes no call and claims no node.
Ordinary(i, f) ==
  /\ DOMAIN f = FrameFields
  /\ f.node = co[i].node /\ f.parent = co[i].parent /\ f.rn = co[i].rn
  /\ f.tries \in Nat /\ (f.tries = 0 => co[i].tries = 0)
  /\ f.round \in 0 .. MaxRounds /\ f.last \in {"none", "value", "failed"}
  /\ f.result = co[i].result
  /\ f.todo # <<>> \/ f.sub # 0 => co[i].todo # <<>> \/ co[i].sub # 0 \/ RoomBelow(i)
  /\ co[i].pc \in {"new", "asking", "executing", "joining"}
  /\ f.pc \in PC \ {"joining"}
  /\ f.pc = "executing" => co[i].pc = "executing"
  /\ f.pc = "done" =>
       /\ co[i].pc = "joining" /\ f.result = co[i].result /\ f.branch = co[i].branch
       /\ \A k \in Kids(i) : co[k].pc \in Returned
  /\ f.pc \in {"new", "asking", "skipped"} => co[i].pc \in {"new", "asking"}
  /\ f.pc = "skipped" =>
       \/ rns[f.rn].failed
       \/ f.node \notin Nodes
       \/ f.node \in Range(rns[f.rn].executed)
  /\ \/ f.sub = co[i].sub
     \/ /\ f.sub = 0
        /\ f.tries = 0 =>
             \A j \in DOMAIN co : co[j].rn = co[co[i].sub].rn => co[j].pc \in Over

\* Most steps make no call and claim no node; a step that settles a node records its
\* result and calls what the result leads to.
OrdinaryStep(i) ==
  \E f : /\ Ordinary(i, f) /\ Became(i, f) /\ Quiet(co[i].rn)
         /\ UNCHANGED <<graph, remaining, cancelKey, outcome>>

Settled(i, f, es) ==
  /\ co[i].pc = "executing"
  /\ DOMAIN f = FrameFields /\ f.result \in {"success", "fail"}
  /\ \A x \in FrameFields \ {"pc", "result", "branch"} : f[x] = co[i][x]
  /\ es = IF f.result = "fail" THEN ErrorEdges(f.node)
          ELSE IF KindOf(i) \in Looping THEN {}
          ELSE ActiveEdges(f.node, f.branch)
  /\ es \in Outcomes(f.node) \/ (f.result = "fail" /\ es = {})
  /\ Dispatch(i, es, f)
  /\ Tended(co[i].rn)
  /\ f.result = "fail" /\ ErrorEdges(f.node) = {} => rns'[f.rn].failed
  /\ rns'[f.rn].failed =>
       rns[f.rn].failed \/ (f.result = "fail" /\ ErrorEdges(f.node) = {})
  /\ f.result = "fail" \/ f.node \in rns'[f.rn].own
  /\ UNCHANGED <<graph, remaining, cancelKey, outcome>>
SettleStep(i) == \E f, es : Settled(i, f, es)

\* An ordinary step keeps the invariant: what was claimed, gathered, started and spent
\* stays as it was, and the call ends only for a reason the invariant knows.
LEMMA OrdinaryKeeps ==
  ASSUME IInv, NEW i \in DOMAIN co, NEW f, Ordinary(i, f), Became(i, f), Quiet(co[i].rn),
         UNCHANGED <<graph, remaining, cancelKey, outcome>>
  PROVE  IInv'
<1> USE DEF Returned, Raised, Over, Ran, PC
<1>a. Tended(co[i].rn) /\ (rns'[co[i].rn].failed => rns[co[i].rn].failed) BY DEF Quiet
<1>0. /\ i \in Nat \ {0} /\ \A j \in DOMAIN co : j \in Nat \ {0}
      /\ \A j \in DOMAIN co : co[j].rn \in DOMAIN rns
  BY ListedDomain DEF IInv, Shape, TypeOK
<1>1. /\ DOMAIN co' = DOMAIN co /\ DOMAIN rns' = DOMAIN rns
      /\ \A j \in DOMAIN co :
           /\ co'[j].node = co[j].node /\ co'[j].parent = co[j].parent
           /\ co'[j].rn = co[j].rn /\ co'[j].result = co[j].result
           /\ co[j].pc \in Over => co'[j] = co[j]
           /\ co'[j].pc \in Ran => co[j].pc \in Ran
           /\ co[j].pc \in Ran \cup Raised => co'[j].pc \in Ran \cup Raised
      /\ \A r \in DOMAIN rns :
           /\ rns'[r].executed = rns[r].executed
           /\ rns[r].failed => rns'[r].failed
  BY <1>a DEF Ordinary, Became, Tended
<1>2. \A j \in DOMAIN co : Kids(j)' = Kids(j)
  BY <1>0, <1>1 DEF Kids
<1>3. Nodes' = Nodes /\ \A n : ErrorEdges(n)' = ErrorEdges(n) /\ Target(n)' = Target(n)
  BY DEF Nodes, ErrorEdges, Out, Source, Target, Handle
<1>4. \A j \in DOMAIN co : co'[j].result = co[j].result /\ co'[j].branch = co[j].branch
                           => Followed(j)' = Followed(j)
  <2>1. \A n, b : ActiveEdges(n, b)' = ActiveEdges(n, b)
    BY DEF ActiveEdges, Out, Source, Handle
  <2>2. \A j \in DOMAIN co : KindOf(j)' = KindOf(j)
    BY <1>1 DEF KindOf
  <2> QED BY <1>1, <1>3, <2>1, <2>2 DEF Followed
<1>5. \A j \in DOMAIN co : Root(j)' = Root(j)
  <2>1. \A j \in DOMAIN co : co[j].parent # 0 => co[j].parent \in DOMAIN co
    BY ParentIsCall DEF IInv
  <2> QED BY <1>1, <2>1 DEF Root
<1>6. TypeOK'
  <2>1. \A j \in DOMAIN co :
          /\ co[j].pc \in PC
          /\ co[j].parent \in 0 .. j - 1 /\ co[j].rn \in DOMAIN rns
          /\ co[j].sub = 0 \/ co[j].sub \in j + 1 .. Len(co)
          /\ co[j].round \in 0 .. MaxRounds
          /\ co[j].last \in {"none", "value", "failed"}
    BY DEF IInv, TypeOK
  <2>2. /\ co'[i].pc \in PC
        /\ co'[i].parent \in 0 .. i - 1 /\ co'[i].rn \in DOMAIN rns
        /\ co'[i].sub = 0 \/ co'[i].sub \in i + 1 .. Len(co)
        /\ co'[i].round \in 0 .. MaxRounds
        /\ co'[i].last \in {"none", "value", "failed"}
    BY <2>1 DEF Ordinary, Became
  <2>3. \A j \in DOMAIN co' :
          /\ co'[j].pc \in PC
          /\ co'[j].parent \in 0 .. j - 1 /\ co'[j].rn \in DOMAIN rns'
          /\ co'[j].sub = 0 \/ co'[j].sub \in j + 1 .. Len(co')
          /\ co'[j].round \in 0 .. MaxRounds
          /\ co'[j].last \in {"none", "value", "failed"}
    BY <1>1, <2>1, <2>2 DEF Became
  <2>4. \A r \in DOMAIN rns' :
          /\ rns'[r].depth \in 0 .. MaxDepth
          /\ rns'[r].own \subseteq rns'[r].outputs
          /\ rns'[r].own \subseteq Range(rns'[r].executed) \cap Nodes'
    BY <1>0, <1>1, <1>3, <1>a DEF IInv, TypeOK, Tended
  <2> QED BY <2>3, <2>4 DEF IInv, TypeOK
<1>7. Shape'
  BY <1>0, <1>1, <1>a DEF IInv, Shape, Ordinary, Became, Tended
<1>8. Claimed'
  BY <1>0, <1>1, <1>3 DEF IInv, Claimed, Took
<1>9. Taken'
  BY <1>0, <1>1, <1>3 DEF IInv, Taken
<1>10. Single'
  BY <1>0, <1>1 DEF IInv, Single, Took
<1>11. Excused'
  BY <1>0, <1>1, <1>3 DEF IInv, Excused, Ordinary, Became
<1>12. FailureSeen'
  BY <1>0, <1>1, <1>3 DEF IInv, FailureSeen, Ordinary, Became
<1>13. Stored'
  <2>1. \A r \in DOMAIN rns : rns'[r].outputs \subseteq Nodes /\ rns[r].own \subseteq rns'[r].own
    BY <1>a DEF IInv, Stored, Tended
  <2>2. \A j \in DOMAIN co :
          /\ co[j].pc \in {"new", "asking", "executing"} => co[j].result = "unset"
          /\ co[j].pc \in {"joining", "done"} => co[j].result # "unset"
          /\ co[j].result \in {"unset", "fail"} \/ co[j].node \in rns[co[j].rn].own
    BY DEF IInv, Stored
  <2>3. \A j \in DOMAIN co :
          /\ co'[j].pc \in {"new", "asking", "executing"}
               => co[j].pc \in {"new", "asking", "executing"}
          /\ co'[j].pc \in {"joining", "done"} => co[j].pc \in {"joining", "done"}
    BY DEF Ordinary, Became
  <2>4. \A j \in DOMAIN co' :
          /\ co'[j].pc \in {"new", "asking", "executing"} => co'[j].result = "unset"
          /\ co'[j].pc \in {"joining", "done"} => co'[j].result # "unset"
          /\ co'[j].result \in {"unset", "fail"} \/ co'[j].node \in rns'[co'[j].rn].own
    BY <1>0, <1>1, <2>1, <2>2, <2>3
  <2> QED BY <1>1, <1>3, <2>1, <2>4 DEF Stored
<1>14. Blamed'
  <2>1. \A r \in DOMAIN rns : rns'[r].failed => rns[r].failed BY <1>a DEF Tended
  <2>2. \A j \in DOMAIN co : co'[j].result = co[j].result BY DEF Ordinary, Became
  <2> QED BY <1>1, <2>1, <2>2 DEF IInv, Blamed
<1>15. Gathered'
  <2>1. \A j \in DOMAIN co \ {i} : co'[j] = co[j] /\ Followed(j)' = Followed(j)
    BY <1>4 DEF Became
  <2>2. /\ co'[i].pc \in {"new", "asking", "executing", "skipped"}
             => co[i].pc \in {"new", "asking", "executing", "skipped"}
        /\ co'[i].pc # "joining"
        /\ co'[i].pc = "done" => /\ co[i].pc = "joining" /\ Followed(i)' = Followed(i)
                                 /\ \A k \in Kids(i) : co[k].pc \in Returned
    BY <1>4 DEF Ordinary, Became
  <2>3. \A j \in DOMAIN co : \A k \in Kids(j) :
          k \in DOMAIN co /\ (co[k].pc \in Returned => co'[k].pc \in Returned)
    BY <1>1 DEF Kids
  <2> QED BY <1>1, <1>2, <1>3, <2>1, <2>2, <2>3 DEF IInv, Gathered
<1>16. Rooted'
  BY <1>0, <1>1, <1>5 DEF IInv, Rooted
<1>17. SubLast'
  <2> SUFFICES ASSUME NEW j \in DOMAIN co, NEW k \in DOMAIN co, Root(k), co[k].parent = j
               PROVE  /\ co'[j].sub # 0 => k <= co'[j].sub
                      /\ co'[j].tries = 0 /\ k # co'[j].sub =>
                           \A m \in DOMAIN co : co[m].rn = co[k].rn => co'[m].pc \in Over
    BY <1>1, <1>5 DEF SubLast
  <2>1. /\ co[j].sub # 0 => k <= co[j].sub
        /\ co[j].tries = 0 /\ k # co[j].sub =>
             \A m \in DOMAIN co : co[m].rn = co[k].rn => co[m].pc \in Over
    BY DEF IInv, SubLast
  <2>2. CASE j # i
    BY <2>1, <2>2, <1>1 DEF Became
  <2>3. CASE j = i
    BY <2>1, <2>3, <1>1 DEF Became, Ordinary
  <2> QED BY <2>2, <2>3
<1>18. SubOwn'
  <2>1. \A j \in DOMAIN co : co'[j].sub \in {co[j].sub, 0}
    BY DEF Became, Ordinary
  <2>2. \A j \in DOMAIN co : co[j].sub # 0 =>
          co[j].sub \in DOMAIN co /\ Root(co[j].sub) /\ co[co[j].sub].parent = j
    BY SubInside
  <2> QED BY <1>1, <1>5, <2>1, <2>2 DEF SubOwn
<1>19. Spent'
  <2>1. Active' \subseteq Active BY <1>1 DEF Active
  <2>2. IsFiniteSet(Active)
    BY ActiveFinite DEF IInv
  <2>3. Cardinality(Active') <= Cardinality(Active)
        /\ Cardinality(Active') \in Nat /\ Cardinality(Active) \in Nat
    BY <2>1, <2>2, FS_Subset, FS_CardinalityType
  <2> QED BY <2>3, BoundAssumption DEF IInv, Spent, TypeOK
<1>20. Verdict'
  <2>1. outcome = "completed" => ~rns[1].failed /\ i \notin Main
    BY DEF IInv, Verdict, Main, Ordinary
  <2>2. outcome = "completed" => rns'[1].failed = rns[1].failed
    BY <1>a, <2>1 DEF Tended, Main, IInv, Shape
  <2>3. Main' = Main BY <1>1 DEF Main
  <2>4. \A j \in Main : j # i => co'[j] = co[j] BY DEF Became, Main
  <2> QED BY <2>1, <2>2, <2>3, <2>4 DEF IInv, Verdict
<1>21. Shallow'
  <2>1. \A r \in DOMAIN rns : rns'[r].depth = rns[r].depth BY <1>a DEF Tended
  <2>2. \A j \in DOMAIN co \ {i} : co'[j] = co[j] BY DEF Became
  <2>3. co'[i].todo # <<>> \/ co'[i].sub # 0 => RoomBelow(i)
    BY DEF IInv, Shallow, Ordinary, Became
  <2> QED BY <1>0, <1>1, <2>1, <2>2, <2>3 DEF IInv, Shallow, RoomBelow
<1> QED
  BY <1>6, <1>7, <1>8, <1>9, <1>10, <1>11, <1>12, <1>13, <1>14, <1>15, <1>16, <1>17, <1>18,
     <1>19, <1>20, <1>21
  DEF IInv

-----------------------------------------------------------------------------
(* Claiming a node.                                                        *)

\* Recording a node adds it to executed, where it may already be.
LEMMA RecordEffect ==
  ASSUME Shape, NEW r \in DOMAIN rns, NEW n, NEW t, t = Record(r, n)
  PROVE  /\ Listed(t) /\ DOMAIN t = DOMAIN rns
         /\ \A q \in DOMAIN rns \ {r} : t[q] = rns[q]
         /\ DOMAIN t[r] = RunnerFields
         /\ Listed(t[r].executed)
         /\ Range(t[r].executed) = Range(rns[r].executed) \cup {n}
         /\ t[r].depth = rns[r].depth /\ t[r].failed = rns[r].failed
         /\ t[r].outputs = rns[r].outputs /\ t[r].own = rns[r].own
<1>1. CASE n \in Range(rns[r].executed)
  <2>1. t = rns BY <1>1 DEF Record
  <2> QED BY <1>1, <2>1 DEF Shape
<1>2. CASE n \notin Range(rns[r].executed)
  <2> DEFINE ex == Append(rns[r].executed, n)
             x == [rns[r] EXCEPT !.executed = ex]
  <2>1. t = [rns EXCEPT ![r] = x] BY <1>2 DEF Record
  <2>2. Listed(ex) /\ Range(ex) = Range(rns[r].executed) \cup {n}
    <3> DEFINE e == rns[r].executed
    <3>1. Listed(e) BY DEF Shape
    <3>2. ex = Append(e, n) OBVIOUS
    <3> HIDE DEF e, ex, x
    <3>3. Listed(ex) /\ Range(ex) = Range(e) \cup {n} 
      BY <3>1, <3>2, AppendOne DEF Extended
    <3> QED BY <3>3 DEF e
  <2> HIDE DEF ex
  <2>3. /\ DOMAIN x = RunnerFields
        /\ x.executed = ex /\ x.depth = rns[r].depth /\ x.failed = rns[r].failed
        /\ x.outputs = rns[r].outputs /\ x.own = rns[r].own
    BY DEF Shape, RunnerFields
  <2> HIDE DEF x
  <2>4. /\ Listed(t) /\ DOMAIN t = DOMAIN rns /\ t[r] = x
        /\ \A q \in DOMAIN rns \ {r} : t[q] = rns[q]
    BY <2>1, ReplaceOne DEF Shape
  <2> QED BY <2>2, <2>3, <2>4
<1> QED BY <1>1, <1>2

\* The test and the placeholder are one step, so the node is in executed for every
\* later caller, and the budget drops by one for the call that now runs it.
LEMMA ClaimKeeps ==
  ASSUME IInv, NEW i \in DOMAIN co, Claim(i)
  PROVE  IInv'
<1> USE DEF Returned, Raised, Over, Ran, PC
<1> DEFINE r == co[i].rn
           n == co[i].node
           l == IF n \notin Nodes THEN "skipped"
                ELSE IF remaining > 0 THEN "executing" ELSE "errored"
           f == [co[i] EXCEPT !.pc = l]
<1>0. /\ i \in Nat \ {0} /\ \A j \in DOMAIN co : j \in Nat \ {0}
      /\ \A j \in DOMAIN co : co[j].rn \in DOMAIN rns
      /\ r \in DOMAIN rns
  BY ListedDomain DEF IInv, Shape, TypeOK
<1>1. /\ co[i].pc = "asking"
      /\ n \in Range(rns[r].executed) => n \in graph.pinned
      /\ UNCHANGED <<graph, cancelKey, outcome>>
      /\ rns' = Record(r, n)
      /\ Goto(i, l)
      /\ remaining' = IF n \notin Nodes THEN remaining ELSE remaining - 1
  BY DEF Claim
<1>2. Became(i, f) BY <1>1, GotoEffect DEF IInv, Shape
<1>3. /\ DOMAIN f = FrameFields
      /\ f.pc = l /\ f.node = n /\ f.rn = r
      /\ f.parent = co[i].parent /\ f.tries = co[i].tries /\ f.result = co[i].result
      /\ f.branch = co[i].branch /\ f.round = co[i].round /\ f.sub = co[i].sub
      /\ f.last = co[i].last /\ f.todo = co[i].todo
  BY DEF IInv, Shape, FrameFields
<1>4. /\ Listed(rns') /\ DOMAIN rns' = DOMAIN rns
      /\ \A q \in DOMAIN rns \ {r} : rns'[q] = rns[q]
      /\ DOMAIN rns'[r] = RunnerFields
      /\ Listed(rns'[r].executed)
      /\ Range(rns'[r].executed) = Range(rns[r].executed) \cup {n}
      /\ rns'[r].depth = rns[r].depth /\ rns'[r].failed = rns[r].failed
      /\ rns'[r].outputs = rns[r].outputs /\ rns'[r].own = rns[r].own
  <2> DEFINE t == rns'
  <2>1. t = Record(r, n) BY <1>1
  <2> HIDE DEF t, r, n
  <2>2. Shape /\ r \in DOMAIN rns BY <1>0 DEF IInv
  <2>3. /\ Listed(t) /\ DOMAIN t = DOMAIN rns
        /\ \A q \in DOMAIN rns \ {r} : t[q] = rns[q]
        /\ DOMAIN t[r] = RunnerFields
        /\ Listed(t[r].executed)
        /\ Range(t[r].executed) = Range(rns[r].executed) \cup {n}
        /\ t[r].depth = rns[r].depth /\ t[r].failed = rns[r].failed
        /\ t[r].outputs = rns[r].outputs /\ t[r].own = rns[r].own
    BY <2>1, <2>2, RecordEffect
  <2> QED BY <2>3 DEF t
<1> HIDE DEF f
<1>5. /\ DOMAIN co' = DOMAIN co /\ co'[i] = f
      /\ \A j \in DOMAIN co \ {i} : co'[j] = co[j]
      /\ \A j \in DOMAIN co :
           /\ co'[j].node = co[j].node /\ co'[j].parent = co[j].parent
           /\ co'[j].rn = co[j].rn /\ co'[j].result = co[j].result
           /\ co'[j].branch = co[j].branch /\ co'[j].sub = co[j].sub
           /\ co'[j].tries = co[j].tries /\ co'[j].todo = co[j].todo
      /\ \A q \in DOMAIN rns :
           /\ Range(rns[q].executed) \subseteq Range(rns'[q].executed)
           /\ rns'[q].failed = rns[q].failed
  BY <1>2, <1>3, <1>4 DEF Became
<1>6. \A j \in DOMAIN co : Kids(j)' = Kids(j) BY <1>0, <1>5 DEF Kids
<1>7. Nodes' = Nodes /\ \A m : ErrorEdges(m)' = ErrorEdges(m) /\ Target(m)' = Target(m)
  BY <1>1 DEF Nodes, ErrorEdges, Out, Source, Target, Handle
<1>8. \A j \in DOMAIN co : Followed(j)' = Followed(j)
  <2>1. \A m, b : ActiveEdges(m, b)' = ActiveEdges(m, b)
    BY <1>1 DEF ActiveEdges, Out, Source, Handle
  <2>2. \A j \in DOMAIN co : KindOf(j)' = KindOf(j) BY <1>1, <1>5 DEF KindOf
  <2> QED BY <1>5, <1>7, <2>1, <2>2 DEF Followed
<1>9. \A j \in DOMAIN co : Root(j)' = Root(j)
  BY <1>5, ParentIsCall DEF Root, IInv
<1>10. TypeOK'
  <2>1. \A j \in DOMAIN co' :
          /\ co'[j].pc \in PC
          /\ co'[j].parent \in 0 .. j - 1 /\ co'[j].rn \in DOMAIN rns'
          /\ co'[j].sub = 0 \/ co'[j].sub \in j + 1 .. Len(co')
          /\ co'[j].round \in 0 .. MaxRounds
          /\ co'[j].last \in {"none", "value", "failed"}
    <3>1. \A j \in DOMAIN co :
            /\ co[j].pc \in PC
            /\ co[j].parent \in 0 .. j - 1 /\ co[j].rn \in DOMAIN rns
            /\ co[j].sub = 0 \/ co[j].sub \in j + 1 .. Len(co)
            /\ co[j].round \in 0 .. MaxRounds
            /\ co[j].last \in {"none", "value", "failed"}
      BY DEF IInv, TypeOK
    <3>2. /\ Len(co') = Len(co) BY <1>2 DEF Became
    <3> QED BY <1>3, <1>4, <1>5, <3>1, <3>2
  <2>2. \A q \in DOMAIN rns' :
          /\ rns'[q].depth \in 0 .. MaxDepth
          /\ rns'[q].own \subseteq rns'[q].outputs
          /\ rns'[q].own \subseteq Range(rns'[q].executed) \cap Nodes'
    BY <1>4, <1>7 DEF IInv, TypeOK
  <2> QED BY <1>1, <2>1, <2>2 DEF IInv, TypeOK
<1>11. Shape'
  BY <1>2, <1>3, <1>4, <1>5 DEF IInv, Shape, Became
<1>12. Claimed'
  BY <1>0, <1>3, <1>4, <1>5, <1>7 DEF IInv, Claimed, Took
<1>13. Taken'
  <2> SUFFICES ASSUME NEW q \in DOMAIN rns, NEW m \in Range(rns'[q].executed) \cap Nodes
               PROVE  \E j \in DOMAIN co :
                        co'[j].rn = q /\ co'[j].node = m /\ co'[j].pc \in Ran \cup Raised
    BY <1>4, <1>5, <1>7 DEF Taken
  <2>1. CASE m \in Range(rns[q].executed)
    <3>1. PICK j \in DOMAIN co : co[j].rn = q /\ co[j].node = m /\ co[j].pc \in Ran \cup Raised
      BY <2>1 DEF IInv, Taken
    <3> QED BY <1>1, <1>5, <3>1
  <2>2. CASE m \notin Range(rns[q].executed)
    <3>1. q = r /\ m = n BY <1>4, <2>2
    <3> QED BY <1>3, <1>5, <3>1
  <2> QED BY <2>1, <2>2
<1>14. Single'
  <2> SUFFICES ASSUME NEW j \in DOMAIN co, NEW k \in DOMAIN co, j # k,
                      co[j].node = co[k].node, co[j].rn = co[k].rn,
                      Took(j)', Took(k)', co[j].node \notin graph.pinned
               PROVE  FALSE
    BY <1>1, <1>5 DEF Single
  <2>1. \A m \in DOMAIN co \ {i} : Took(m)' => Took(m) BY <1>5 DEF Took
  <2>2. \A m \in DOMAIN co \ {i} : Took(m)' => co[m].node \in Range(rns[co[m].rn].executed)
    BY <2>1 DEF IInv, Claimed
  <2>3. j # i /\ k # i => FALSE BY <2>1 DEF IInv, Single
  <2> QED BY <1>1, <1>5, <2>2, <2>3
<1>15. Excused'
  BY <1>0, <1>3, <1>4, <1>5, <1>7 DEF IInv, Excused
<1>16. FailureSeen'
  BY <1>0, <1>5, <1>7 DEF IInv, FailureSeen
<1>17. Stored'
  <2>1. \A q \in DOMAIN rns : rns'[q].outputs = rns[q].outputs /\ rns'[q].own = rns[q].own
    BY <1>4
  <2>2. l \in {"skipped", "executing", "errored"} OBVIOUS
  <2>3. \A q \in DOMAIN rns : rns'[q].outputs \subseteq Nodes BY <2>1 DEF IInv, Stored
  <2>4. \A j \in DOMAIN co :
          /\ co[j].pc \in {"new", "asking", "executing"} => co[j].result = "unset"
          /\ co[j].pc \in {"joining", "done"} => co[j].result # "unset"
          /\ co[j].result \in {"unset", "fail"} \/ co[j].node \in rns[co[j].rn].own
    BY DEF IInv, Stored
  <2>5. co'[i].result = "unset" /\ co'[i].pc \notin {"joining", "done"}
    BY <1>1, <1>3, <1>5, <2>2, <2>4
  <2>6. \A j \in DOMAIN co \ {i} :
          /\ co'[j].pc \in {"new", "asking", "executing"} => co'[j].result = "unset"
          /\ co'[j].pc \in {"joining", "done"} => co'[j].result # "unset"
          /\ co'[j].result \in {"unset", "fail"} \/ co'[j].node \in rns'[co'[j].rn].own
    BY <1>0, <1>5, <2>1, <2>4
  <2> QED BY <1>4, <1>5, <1>7, <2>3, <2>5, <2>6 DEF Stored
<1>18. Blamed' BY <1>4, <1>5 DEF IInv, Blamed
<1>19. Gathered'
  <2>1. \A j \in DOMAIN co : \A k \in Kids(j) :
          k \in DOMAIN co /\ (co[k].pc \in Returned => co'[k].pc \in Returned)
    BY <1>1, <1>5 DEF Kids
  <2>2. /\ co'[i].pc \notin {"joining", "done"} /\ Kids(i) = {}
    BY <1>1, <1>3, <1>5 DEF IInv, Gathered
  <2> QED BY <1>5, <1>6, <1>7, <1>8, <2>1, <2>2 DEF IInv, Gathered
<1>20. Rooted'
  BY <1>0, <1>5, <1>9 DEF IInv, Rooted
<1>21. SubLast'
  <2>1. \A m \in DOMAIN co : co[m].pc \in Over => co'[m].pc \in Over
    BY <1>1, <1>5
  <2> QED BY <1>0, <1>5, <1>9, <2>1 DEF IInv, SubLast
<1>22. SubOwn'
  <2>1. \A j \in DOMAIN co : co[j].sub # 0 =>
          co[j].sub \in DOMAIN co /\ Root(co[j].sub) /\ co[co[j].sub].parent = j
    BY SubInside
  <2> QED BY <1>5, <1>9, <2>1 DEF SubOwn
<1>23. Spent'
  <2>1. IsFiniteSet(Active) /\ i \notin Active BY <1>1, ActiveFinite DEF IInv, Active
  <2>2. Cardinality(Active) \in Nat /\ Cardinality(Active \cup {i}) = Cardinality(Active) + 1
    BY <2>1, FS_AddElement, FS_CardinalityType
  <2>3. CASE l = "executing"
    <3>1. Active' = Active \cup {i} BY <1>3, <1>5, <2>3 DEF Active
    <3>2. remaining' = remaining - 1 /\ remaining > 0 BY <1>1, <2>3
    <3> QED BY <2>2, <3>1, <3>2, BoundAssumption DEF IInv, Spent, TypeOK
  <2>4. CASE l # "executing"
    <3>1. Active' = Active BY <1>1, <1>3, <1>5, <2>4 DEF Active
    <3>2. remaining' = remaining \/ remaining' = remaining - 1 BY <1>1
    <3> QED BY <2>2, <3>1, <3>2, BoundAssumption DEF IInv, Spent, TypeOK
  <2> QED BY <2>3, <2>4
<1>24. Verdict'
  BY <1>0, <1>1, <1>4, <1>5 DEF IInv, Verdict, Main, Shape
<1>25. Shallow'
  <2>1. \A q \in DOMAIN rns : rns'[q].depth = rns[q].depth BY <1>4
  <2> QED BY <1>0, <1>5, <2>1 DEF IInv, Shallow, RoomBelow
<1> QED
  BY <1>10, <1>11, <1>12, <1>13, <1>14, <1>15, <1>16, <1>17, <1>18, <1>19, <1>20, <1>21,
     <1>22, <1>23, <1>24, <1>25
  DEF IInv

-----------------------------------------------------------------------------
(* The node is done: calling the successors.                               *)

\* Call i becomes f and calls the target of every edge of es, and nothing else.
Called(i, f, es) ==
  /\ Listed(co') /\ DOMAIN co \subseteq DOMAIN co' /\ Len(co) <= Len(co')
  /\ co'[i] = f
  /\ \A j \in DOMAIN co \ {i} : co'[j] = co[j]
  /\ \A k \in DOMAIN co' \ DOMAIN co : \E e \in es : co'[k] = Frame(Target(e), i, f.rn)
  /\ \A e \in es : \E k \in DOMAIN co' \ DOMAIN co : co'[k] = Frame(Target(e), i, f.rn)

\* A graph is a list of edges.
LEMMA EdgesFinite ==
  ASSUME graph \in Graphs, NEW es, es \subseteq DOMAIN graph.edges
  PROVE  IsFiniteSet(es)
<1>1. Listed(graph.edges) BY GraphAssumption DEF IsGraph, Listed
<1> DEFINE ge == graph.edges
<1>2. Listed(ge) BY <1>1
<1> HIDE DEF ge
<1>3. Len(ge) \in Nat /\ DOMAIN ge = 1 .. Len(ge) BY <1>2, ListedDomain
<1>4. IsFiniteSet(DOMAIN ge) BY <1>3, FS_Interval
<1>5. es \in SUBSET DOMAIN ge BY DEF ge
<1> QED BY <1>4, <1>5, FS_Subset

\* Dispatch ends the call without edges, and calls every target otherwise.
LEMMA DispatchEffect ==
  ASSUME Shape, graph \in Graphs, NEW i \in DOMAIN co, NEW f, DOMAIN f = FrameFields,
         NEW es, es \subseteq DOMAIN graph.edges, Dispatch(i, es, f)
  PROVE  \E g : /\ Called(i, g, es)
                /\ DOMAIN g = FrameFields
                /\ g.pc = IF es = {} THEN "done" ELSE "joining"
                /\ \A x \in FrameFields \ {"pc"} : g[x] = f[x]
<1>1. CASE es = {}
  <2> DEFINE g == [f EXCEPT !.pc = "done"]
  <2>1. Set(i, g) BY <1>1 DEF Dispatch
  <2>2. /\ DOMAIN g = FrameFields /\ g.pc = "done"
        /\ \A x \in FrameFields \ {"pc"} : g[x] = f[x]
    BY DEF FrameFields
  <2> HIDE DEF g
  <2>3. Became(i, g) BY <2>1, SetEffect DEF Shape
  <2>4. Len(co) \in Nat BY ListedDomain DEF Shape
  <2>5. Called(i, g, es) BY <1>1, <2>3, <2>4 DEF Became, Called
  <2> QED BY <1>1, <2>2, <2>5
<1>2. CASE es # {}
  <2> DEFINE g == [f EXCEPT !.pc = "joining"]
             list == SetToSeq(es)
             s == [co EXCEPT ![i] = g]
             t == [k \in DOMAIN list |-> Frame(Target(list[k]), i, f.rn)]
             u == co'
  <2>1. u = s \o t BY <1>2 DEF Dispatch
  <2>2. /\ DOMAIN g = FrameFields /\ g.pc = "joining" /\ g.rn = f.rn
        /\ \A x \in FrameFields \ {"pc"} : g[x] = f[x]
    BY DEF FrameFields
  <2>3. Listed(list) /\ Range(list) = es BY EdgesFinite, SetListed
  <2>4. /\ DOMAIN t = DOMAIN list
        /\ \A k \in DOMAIN list : t[k] = Frame(Target(list[k]), i, f.rn)
    OBVIOUS
  <2>5. s = [co EXCEPT ![i] = g] OBVIOUS
  <2>6. Listed(t)
    <3>1. Len(list) \in Nat /\ DOMAIN list = 1 .. Len(list) BY <2>3, ListedDomain
    <3>2. t \in [1 .. Len(list) -> Range(t)] BY <3>1 DEF Range
    <3> HIDE DEF t, list
    <3> QED BY <3>1, <3>2, SeqDef DEF Listed
  <2> HIDE DEF g, list, s, t, u
  <2>7. /\ Listed(s) /\ Len(s) = Len(co) /\ DOMAIN s = DOMAIN co
        /\ s[i] = g
        /\ \A j \in DOMAIN co \ {i} : s[j] = co[j]
    <3>1. Listed(co) BY DEF Shape
    <3> QED BY <2>5, <3>1, ReplaceOne
  <2>8. InARow(s, t, u)
    <3>1. Listed(s) BY <2>7
    <3> QED BY <2>1, <2>6, <3>1, Concatenation
  <2>9. Len(t) \in Nat /\ Len(co) \in Nat BY <2>6, ListedDomain DEF Shape
  <2>10. \A k \in DOMAIN u \ DOMAIN co : \E e \in es : u[k] = Frame(Target(e), i, g.rn)
    <3> TAKE k \in DOMAIN u \ DOMAIN co
    <3>1. k - Len(s) \in DOMAIN list /\ u[k] = Frame(Target(list[k - Len(s)]), i, g.rn)
      BY <2>2, <2>4, <2>7, <2>8 DEF InARow
    <3>2. list[k - Len(s)] \in es BY <2>3, <3>1 DEF Range
    <3> QED BY <3>1, <3>2
  <2>11. \A e \in es : \E k \in DOMAIN u \ DOMAIN co : u[k] = Frame(Target(e), i, g.rn)
    <3> TAKE e \in es
    <3>1. PICK j \in DOMAIN list : list[j] = e BY <2>3 DEF Range
    <3>2. Len(s) + j \in DOMAIN u \ DOMAIN co /\ u[Len(s) + j] = Frame(Target(e), i, g.rn)
      BY <2>2, <2>4, <2>7, <2>8, <3>1 DEF InARow
    <3> QED BY <3>2
  <2>12. Called(i, g, es)
    <3>1. Len(co) <= Len(u) BY <2>7, <2>8, <2>9 DEF InARow
    <3>2. u[i] = g /\ \A j \in DOMAIN co \ {i} : u[j] = co[j] BY <2>7, <2>8 DEF InARow
    <3> QED BY <2>7, <2>8, <2>10, <2>11, <3>1, <3>2 DEF InARow, Called, u
  <2> QED BY <1>2, <2>2, <2>12
<1> QED BY <1>1, <1>2

\* A node that is done keeps the invariant when its result is recorded - an output,
\* or a failure that is handled or fails the runner - and the calls it makes are those
\* the result leads to.
LEMMA SettleKeeps ==
  ASSUME IInv, NEW i \in DOMAIN co, NEW f, NEW es, Settled(i, f, es)
  PROVE  IInv'
<1> USE DEF Settled
<1> USE DEF Returned, Raised, Over, Ran, PC
<1> DEFINE r == co[i].rn
           n == co[i].node
           New == DOMAIN co' \ DOMAIN co
<1>1. es \subseteq DOMAIN graph.edges BY DEF ErrorEdges, ActiveEdges, Out
<1>2. PICK g : /\ Called(i, g, es)
               /\ DOMAIN g = FrameFields
               /\ g.pc = IF es = {} THEN "done" ELSE "joining"
               /\ \A x \in FrameFields \ {"pc"} : g[x] = f[x]
  <2>1. Shape /\ graph \in Graphs BY DEF IInv, TypeOK
  <2> QED BY <1>1, <2>1, DispatchEffect
<1>3. /\ g.node = n /\ g.parent = co[i].parent /\ g.rn = r /\ g.tries = co[i].tries
      /\ g.round = co[i].round /\ g.sub = co[i].sub /\ g.last = co[i].last
      /\ g.result = f.result /\ g.branch = f.branch /\ g.todo = co[i].todo
      /\ f.node = n /\ f.rn = r
  BY <1>2 DEF FrameFields
<1>4. /\ \A j \in DOMAIN co :
           /\ j \in Nat \ {0} /\ co[j].rn \in DOMAIN rns
           /\ co[j].parent \in Nat /\ co[j].parent < j
           /\ co[j].parent # 0 => co[j].parent \in DOMAIN co
      /\ r \in DOMAIN rns /\ n \in Nodes
  BY ParentIsCall DEF IInv, Claimed, Took
<1>5. /\ DOMAIN co \subseteq DOMAIN co' /\ co'[i] = g
      /\ \A j \in DOMAIN co \ {i} : co'[j] = co[j]
      /\ \A j \in DOMAIN co :
           /\ co'[j].node = co[j].node /\ co'[j].parent = co[j].parent
           /\ co'[j].rn = co[j].rn /\ co'[j].sub = co[j].sub /\ co'[j].tries = co[j].tries
           /\ co[j].pc \in Over => co'[j].pc = co[j].pc
           /\ co'[j].pc \in Ran <=> co[j].pc \in Ran
           /\ co[j].pc \in Raised => co'[j].pc \in Raised
  BY <1>2, <1>3 DEF Called
<1>6. \A k \in New :
        /\ co'[k].parent = i /\ co'[k].rn = r /\ co'[k].pc = "new" /\ co'[k].sub = 0
        /\ co'[k].tries = 0 /\ co'[k].round = 0 /\ co'[k].last = "none"
        /\ co'[k].result = "unset" /\ co'[k].todo = <<>> /\ DOMAIN co'[k] = FrameFields
        /\ i < k /\ k \in Nat \ {0}
  <2>1. \A x, m : /\ Frame(x, i, m).parent = i /\ Frame(x, i, m).rn = m
                  /\ Frame(x, i, m).pc = "new" /\ Frame(x, i, m).sub = 0
                  /\ Frame(x, i, m).tries = 0 /\ Frame(x, i, m).round = 0
                  /\ Frame(x, i, m).last = "none" /\ Frame(x, i, m).result = "unset"
                  /\ Frame(x, i, m).todo = <<>>
                  /\ DOMAIN Frame(x, i, m) = FrameFields
    BY DEF Frame, FrameFields
  <2>2. \A k \in New : i < k /\ k \in Nat \ {0}
    BY <1>2, ListedDomain DEF Called, IInv, Shape
  <2> QED BY <1>2, <1>3, <2>1, <2>2 DEF Called
<1>7. \A e \in es : \E k \in New : co'[k].node = Target(e) /\ co'[k].parent = i /\ co'[k].rn = r
  <2>1. \A x, m : /\ Frame(x, i, m).parent = i /\ Frame(x, i, m).rn = m
                  /\ Frame(x, i, m).node = x
    BY DEF Frame
  <2> QED BY <1>2, <1>3, <2>1 DEF Called
<1>8. /\ DOMAIN rns' = DOMAIN rns
      /\ \A q \in DOMAIN rns :
           /\ rns'[q].executed = rns[q].executed
           /\ rns[q].failed => rns'[q].failed
           /\ q # r => rns'[q] = rns[q]
  BY DEF Tended
<1> HIDE DEF New
<1>9. DOMAIN co' = DOMAIN co \cup New BY <1>5 DEF New
<1>10. New \cap DOMAIN co = {} BY DEF New
<1>11. Nodes' = Nodes /\ \A m : ErrorEdges(m)' = ErrorEdges(m) /\ Target(m)' = Target(m)
  BY DEF Nodes, ErrorEdges, Out, Source, Target, Handle
<1>12. \A m, b : ActiveEdges(m, b)' = ActiveEdges(m, b)
  BY DEF ActiveEdges, Out, Source, Handle
<1>13. \A j \in DOMAIN co : KindOf(j)' = KindOf(j) BY <1>5 DEF KindOf
<1>14. /\ \A j \in DOMAIN co \ {i} : Followed(j)' = Followed(j)
       /\ Followed(i)' = es
  BY <1>3, <1>5, <1>11, <1>12, <1>13 DEF Followed
<1>15. /\ \A j \in DOMAIN co \ {i} : Kids(j)' = Kids(j)
       /\ Kids(i) = {}
       /\ Kids(i)' = New
       /\ \A k \in New : Kids(k)' = {}
  <2>1. Kids(i) = {} BY DEF IInv, Gathered
  <2>2. \A j \in DOMAIN co \ {i} : Kids(j)' = Kids(j)
    BY <1>4, <1>5, <1>6, <1>9 DEF Kids
  <2>3. Kids(i)' = New
    BY <1>4, <1>5, <1>6, <1>9, <1>10, <2>1 DEF Kids
  <2>4. \A k \in New : Kids(k)' = {}
    BY <1>4, <1>5, <1>6, <1>9, <1>10 DEF Kids
  <2> QED BY <2>1, <2>2, <2>3, <2>4
<1>16. /\ \A j \in DOMAIN co : Root(j)' = Root(j)
       /\ \A k \in New : ~Root(k)'
  BY <1>4, <1>5, <1>6 DEF Root
<1>17. TypeOK'
  <2>1. \A j \in DOMAIN co' :
          /\ co'[j].pc \in PC
          /\ co'[j].parent \in 0 .. j - 1 /\ co'[j].rn \in DOMAIN rns'
          /\ co'[j].sub = 0 \/ co'[j].sub \in j + 1 .. Len(co')
          /\ co'[j].round \in 0 .. MaxRounds
          /\ co'[j].last \in {"none", "value", "failed"}
    <3>1. \A j \in DOMAIN co :
            /\ co[j].pc \in PC
            /\ co[j].parent \in 0 .. j - 1 /\ co[j].rn \in DOMAIN rns
            /\ co[j].sub = 0 \/ co[j].sub \in j + 1 .. Len(co)
            /\ co[j].round \in 0 .. MaxRounds
            /\ co[j].last \in {"none", "value", "failed"}
      BY DEF IInv, TypeOK
    <3>2. Len(co) <= Len(co') /\ Len(co) \in Nat /\ Len(co') \in Nat
      BY <1>2, ListedDomain DEF Called, IInv, Shape
    <3>3. \A j \in DOMAIN co : co[j].sub \in j + 1 .. Len(co) => co[j].sub \in j + 1 .. Len(co')
      BY <3>2, <1>4
    <3> SUFFICES ASSUME NEW j \in DOMAIN co'
                 PROVE  /\ co'[j].pc \in PC
                        /\ co'[j].parent \in 0 .. j - 1 /\ co'[j].rn \in DOMAIN rns'
                        /\ co'[j].sub = 0 \/ co'[j].sub \in j + 1 .. Len(co')
                        /\ co'[j].round \in 0 .. MaxRounds
                        /\ co'[j].last \in {"none", "value", "failed"}
      OBVIOUS
    <3>4. CASE j \in New
      BY <3>4, <1>4, <1>6, <1>8, BoundAssumption
    <3>5. CASE j = i
      BY <3>5, <1>2, <1>3, <1>5, <1>8, <3>1, <3>3
    <3>6. CASE j \in DOMAIN co \ {i}
      BY <3>6, <1>5, <1>8, <3>1, <3>3
    <3> QED BY <3>4, <3>5, <3>6, <1>9
  <2>2. \A q \in DOMAIN rns' :
          /\ rns'[q].depth \in 0 .. MaxDepth
          /\ rns'[q].own \subseteq rns'[q].outputs
          /\ rns'[q].own \subseteq Range(rns'[q].executed) \cap Nodes'
    BY <1>4, <1>8, <1>11 DEF IInv, TypeOK, Tended
  <2> QED BY <2>1, <2>2 DEF IInv, TypeOK
<1>18. Shape'
  <2>1. \A j \in DOMAIN co' : DOMAIN co'[j] = FrameFields /\ co'[j].tries \in Nat
    BY <1>2, <1>3, <1>5, <1>6, <1>9 DEF IInv, Shape
  <2>2. \A q \in DOMAIN rns' :
          /\ DOMAIN rns'[q] = RunnerFields
          /\ Listed(rns'[q].executed)
          /\ rns'[q].failed \in BOOLEAN
    BY <1>4, <1>8 DEF IInv, Shape, Tended
  <2> QED BY <1>2, <1>8, <2>1, <2>2 DEF Called, Tended, IInv, Shape
<1>19. Claimed'
  BY <1>4, <1>5, <1>6, <1>8, <1>9, <1>11 DEF IInv, Claimed, Took
<1>20. Taken'
  BY <1>4, <1>5, <1>8, <1>9, <1>11 DEF IInv, Taken
<1>21. Single'
  <2>1. \A j \in DOMAIN co' : Took(j)' => j \in DOMAIN co /\ Took(j)
    BY <1>5, <1>6, <1>9 DEF Took
  <2> QED BY <1>5, <2>1 DEF IInv, Single
<1>22. Excused'
  <2>1. \A j \in DOMAIN co' : co'[j].pc = "skipped" => j \in DOMAIN co \ {i} /\ co[j].pc = "skipped"
    BY <1>2, <1>5, <1>6, <1>9
  <2> QED BY <1>4, <1>5, <1>8, <1>11, <2>1 DEF IInv, Excused
<1>23. FailureSeen'
  BY <1>3, <1>4, <1>5, <1>6, <1>8, <1>9, <1>11 DEF IInv, FailureSeen
<1>24. Stored'
  <2>1. \A q \in DOMAIN rns : rns'[q].outputs \subseteq Nodes /\ rns[q].own \subseteq rns'[q].own
    BY DEF IInv, Stored, Tended
  <2>2. co'[i].pc \in {"joining", "done"} BY <1>2, <1>5
  <2>3. \A k \in DOMAIN co \ {i} :
          /\ co'[k].pc \in {"new", "asking", "executing"} => co'[k].result = "unset"
          /\ co'[k].pc \in {"joining", "done"} => co'[k].result # "unset"
          /\ co'[k].result \in {"unset", "fail"} \/ co'[k].node \in rns'[co'[k].rn].own
    BY <1>4, <1>5, <2>1 DEF IInv, Stored
  <2>4. /\ co'[i].result # "unset"
        /\ co'[i].result = "fail" \/ co'[i].node \in rns'[co'[i].rn].own
    BY <1>3, <1>5
  <2> QED BY <1>6, <1>8, <1>9, <1>11, <2>1, <2>2, <2>3, <2>4 DEF Stored
<1>25. Blamed'
  <2>1. \A j \in DOMAIN co : co[j].result = "fail" => co'[j].result = "fail"
    BY <1>5 DEF IInv, Stored
  <2>2. rns'[r].failed => rns[r].failed \/ (co'[i].result = "fail" /\ co'[i].rn = r)
    BY <1>3, <1>5
  <2> QED BY <1>5, <1>8, <1>9, <2>1, <2>2 DEF IInv, Blamed
<1>26. Gathered'
  <2>1. \A j \in DOMAIN co \ {i} : \A k \in Kids(j) :
          k \in DOMAIN co /\ (co[k].pc \in Returned => co'[k].pc \in Returned)
    BY <1>5 DEF Kids
  <2>2. \A j \in DOMAIN co \ {i} :
          /\ co'[j].pc \in {"new", "asking", "executing", "skipped"} => Kids(j)' = {}
          /\ co'[j].pc \in {"joining", "done"} =>
               \A e \in Followed(j)' : \E k \in Kids(j)' : co'[k].node = Target(e)'
          /\ co'[j].pc = "done" => \A k \in Kids(j)' : co'[k].pc \in Returned
    BY <1>5, <1>11, <1>14, <1>15, <2>1 DEF IInv, Gathered
  <2>3. /\ co'[i].pc \notin {"new", "asking", "executing", "skipped"}
        /\ \A e \in Followed(i)' : \E k \in Kids(i)' : co'[k].node = Target(e)'
    BY <1>2, <1>5, <1>7, <1>11, <1>14, <1>15
  <2>4. co'[i].pc = "done" => Kids(i)' = {}
    <3>1. co'[i].pc = "done" => es = {} BY <1>2, <1>5
    <3>2. es = {} => New = {} BY <1>2 DEF Called, New
    <3> QED BY <1>15, <3>1, <3>2
  <2>5. \A k \in New : co'[k].pc = "new" /\ Kids(k)' = {} BY <1>6, <1>15
  <2> QED BY <1>9, <2>2, <2>3, <2>4, <2>5 DEF Gathered
<1>27. Rooted'
  BY <1>4, <1>5, <1>6, <1>9, <1>16 DEF IInv, Rooted
<1>28. SubLast'
  <2> SUFFICES ASSUME NEW j \in DOMAIN co, NEW k \in DOMAIN co, Root(k), co[k].parent = j
               PROVE  /\ co[j].sub # 0 => k <= co[j].sub
                      /\ co[j].tries = 0 /\ k # co[j].sub =>
                           \A m \in DOMAIN co' : co'[m].rn = co[k].rn => co'[m].pc \in Over
    BY <1>4, <1>5, <1>6, <1>9, <1>10, <1>16 DEF SubLast
  <2>1. /\ co[j].sub # 0 => k <= co[j].sub
        /\ co[j].tries = 0 /\ k # co[j].sub =>
             \A m \in DOMAIN co : co[m].rn = co[k].rn => co[m].pc \in Over
    BY DEF IInv, SubLast
  <2> QED BY <1>5, <1>6, <1>9, <2>1
<1>29. SubOwn'
  <2>1. \A j \in DOMAIN co : co[j].sub # 0 =>
          co[j].sub \in DOMAIN co /\ Root(co[j].sub) /\ co[co[j].sub].parent = j
    BY SubInside
  <2> QED BY <1>5, <1>6, <1>9, <1>16, <2>1 DEF SubOwn
<1>30. Spent'
  <2>1. Active' = Active BY <1>5, <1>6, <1>9, <1>10 DEF Active
  <2> QED BY <2>1 DEF IInv, Spent
<1>31. Verdict'
  <2>1. outcome = "completed" => r # 1 BY DEF IInv, Verdict, Main
  <2> QED BY <1>5, <1>6, <1>8, <1>9, <2>1 DEF IInv, Verdict, Main, Shape
<1>32. Shallow'
  <2>1. \A q \in DOMAIN rns : rns'[q].depth = rns[q].depth BY DEF Tended
  <2>2. \A j \in DOMAIN co : co'[j].todo = co[j].todo BY <1>3, <1>5
  <2> QED BY <1>4, <1>5, <1>6, <1>9, <2>1, <2>2 DEF IInv, Shallow, RoomBelow
<1> QED
  BY <1>17, <1>18, <1>19, <1>20, <1>21, <1>22, <1>23, <1>24, <1>25, <1>26, <1>27, <1>28,
     <1>29, <1>30, <1>31, <1>32
  DEF IInv

-----------------------------------------------------------------------------
(* Starting the sub-run of a round.                                        *)

\* A sub-runner is new and has one call, its root; its loop had no sub-run under way,
\* so the earlier ones are over.
LEMMA StartSubKeeps ==
  ASSUME IInv, NEW i \in DOMAIN co, StartSub(i)
  PROVE  IInv'
<1> USE DEF Returned, Raised, Over, Ran, PC
<1>k. PICK k : k = Len(co) + 1 OBVIOUS
<1>q. PICK q : q = Len(rns) + 1 OBVIOUS
<1> DEFINE r == co[i].rn
           d == rns[r].depth + 1
           f == [co[i] EXCEPT !.sub = k]
           x == Frame(Head(co[i].todo), i, q)
           y == Runner(d, rns[r].outputs)
           s == [co EXCEPT ![i] = f]
           u == co'
           v == rns'
<1>1. /\ co[i].pc = "executing" /\ co[i].sub = 0 /\ RoomBelow(i)
      /\ u = Append(s, x) /\ v = Append(rns, y)
      /\ UNCHANGED <<graph, remaining, cancelKey, outcome>>
  BY <1>k, <1>q DEF StartSub, AtWork, IInv, Shallow
<1>2. /\ DOMAIN f = FrameFields /\ f.sub = k
      /\ f.pc = "executing" /\ f.node = co[i].node /\ f.parent = co[i].parent /\ f.rn = r
      /\ f.tries = co[i].tries /\ f.result = co[i].result /\ f.branch = co[i].branch
      /\ f.round = co[i].round /\ f.last = co[i].last
  BY <1>1 DEF FrameFields, IInv, Shape
<1>3. /\ DOMAIN x = FrameFields
      /\ x.parent = i /\ x.rn = q /\ x.pc = "new" /\ x.sub = 0 /\ x.tries = 0
      /\ x.round = 0 /\ x.last = "none" /\ x.result = "unset" /\ x.todo = <<>>
  BY DEF Frame, FrameFields
<1>4. /\ DOMAIN y = RunnerFields /\ y.depth = d /\ y.executed = <<>>
      /\ y.failed = FALSE /\ y.own = {}
      /\ y.outputs = rns[r].outputs
  BY DEF Runner, RunnerFields
<1>5. s = [co EXCEPT ![i] = f] OBVIOUS
<1>6. /\ Len(co) \in Nat /\ DOMAIN co = 1 .. Len(co)
      /\ Len(rns) \in Nat /\ DOMAIN rns = 1 .. Len(rns)
      /\ \A j \in DOMAIN co :
           /\ j \in Nat \ {0} /\ co[j].rn \in DOMAIN rns
           /\ co[j].parent \in Nat /\ co[j].parent < j
           /\ co[j].parent # 0 => co[j].parent \in DOMAIN co
      /\ r \in DOMAIN rns
  BY ListedDomain, ParentIsCall DEF IInv, Shape
<1> HIDE DEF f, x, y, s, u, v
<1>7. /\ Listed(s) /\ Len(s) = Len(co) /\ DOMAIN s = DOMAIN co
      /\ s[i] = f
      /\ \A j \in DOMAIN co \ {i} : s[j] = co[j]
  <2>1. Listed(co) BY DEF IInv, Shape
  <2> QED BY <1>5, <2>1, ReplaceOne
<1>8. /\ Listed(u) /\ Len(u) = Len(co) + 1 /\ DOMAIN u = DOMAIN co \cup {k}
      /\ u[i] = f /\ u[k] = x
      /\ \A j \in DOMAIN co \ {i} : u[j] = co[j]
  <2>1. Listed(s) /\ u = Append(s, x) BY <1>1, <1>7
  <2>2. Extended(s, x, u) BY <2>1, AppendOne
  <2> QED BY <1>k, <1>7, <2>2 DEF Extended
<1>9. /\ Listed(v) /\ DOMAIN v = DOMAIN rns \cup {q} /\ v[q] = y
      /\ \A p \in DOMAIN rns : v[p] = rns[p]
  <2>1. Listed(rns) /\ v = Append(rns, y) BY <1>1 DEF IInv, Shape
  <2>2. Extended(rns, y, v) BY <2>1, AppendOne
  <2> QED BY <1>q, <2>2 DEF Extended
<1>10. k \notin DOMAIN co /\ k \in Nat \ {0} /\ q \notin DOMAIN rns /\ q # 1 /\ i < k
  BY <1>k, <1>q, <1>6 DEF IInv, Shape
<1>11. /\ DOMAIN co' = DOMAIN co \cup {k} /\ co'[i] = f /\ co'[k] = x
       /\ \A j \in DOMAIN co \ {i} : co'[j] = co[j]
       /\ \A j \in DOMAIN co :
            /\ co'[j].node = co[j].node /\ co'[j].parent = co[j].parent
            /\ co'[j].rn = co[j].rn /\ co'[j].tries = co[j].tries /\ co'[j].pc = co[j].pc
            /\ co'[j].result = co[j].result /\ co'[j].branch = co[j].branch
            /\ j # i => co'[j].sub = co[j].sub /\ co'[j].todo = co[j].todo
       /\ co'[i].sub = k
       /\ DOMAIN rns' = DOMAIN rns \cup {q}
       /\ \A p \in DOMAIN rns : rns'[p] = rns[p]
  BY <1>1, <1>2, <1>8, <1>9 DEF u, v
<1>12. Nodes' = Nodes /\ \A m : ErrorEdges(m)' = ErrorEdges(m) /\ Target(m)' = Target(m)
  BY <1>1 DEF Nodes, ErrorEdges, Out, Source, Target, Handle
<1>13. \A m, b : ActiveEdges(m, b)' = ActiveEdges(m, b)
  BY <1>1 DEF ActiveEdges, Out, Source, Handle
<1>14. \A j \in DOMAIN co : KindOf(j)' = KindOf(j) BY <1>1, <1>11 DEF KindOf
<1>15. \A j \in DOMAIN co : Followed(j)' = Followed(j)
  BY <1>11, <1>12, <1>13, <1>14 DEF Followed
<1>16. /\ \A j \in DOMAIN co : Kids(j)' = Kids(j)
       /\ Kids(k)' = {}
  <2>1. \A j \in DOMAIN co : co'[k].parent = j => co'[k].rn # co'[j].rn
    BY <1>3, <1>6, <1>10, <1>11
  <2>2. \A j \in DOMAIN co : j # 0 BY <1>6
  <2>3. \A j \in DOMAIN co : Kids(j)' = Kids(j)
    BY <1>10, <1>11, <2>1, <2>2 DEF Kids
  <2>4. \A m \in DOMAIN co' : co'[m].parent # k
    BY <1>3, <1>6, <1>10, <1>11
  <2> QED BY <2>3, <2>4 DEF Kids
<1>17. /\ \A j \in DOMAIN co : Root(j)' = Root(j)
       /\ Root(k)'
  <2>1. \A j \in DOMAIN co : Root(j)' = Root(j)
    BY <1>6, <1>11 DEF Root
  <2>2. co'[k].parent = i /\ i # 0 /\ co'[i].rn # co'[k].rn
    BY <1>3, <1>6, <1>10, <1>11
  <2>3. Root(k)' BY <2>2 DEF Root
  <2> QED BY <2>1, <2>3
<1>18. TypeOK'
  <2>1. \A j \in DOMAIN co :
          /\ co[j].pc \in PC
          /\ co[j].parent \in 0 .. j - 1 /\ co[j].rn \in DOMAIN rns
          /\ co[j].sub = 0 \/ co[j].sub \in j + 1 .. Len(co)
          /\ co[j].round \in 0 .. MaxRounds
          /\ co[j].last \in {"none", "value", "failed"}
    BY DEF IInv, TypeOK
  <2>2. \A j \in DOMAIN co' :
          /\ co'[j].pc \in PC
          /\ co'[j].parent \in 0 .. j - 1 /\ co'[j].rn \in DOMAIN rns'
          /\ co'[j].sub = 0 \/ co'[j].sub \in j + 1 .. Len(co')
          /\ co'[j].round \in 0 .. MaxRounds
          /\ co'[j].last \in {"none", "value", "failed"}
    <3> SUFFICES ASSUME NEW j \in DOMAIN co'
                 PROVE  /\ co'[j].pc \in PC
                        /\ co'[j].parent \in 0 .. j - 1 /\ co'[j].rn \in DOMAIN rns'
                        /\ co'[j].sub = 0 \/ co'[j].sub \in j + 1 .. Len(co')
                        /\ co'[j].round \in 0 .. MaxRounds
                        /\ co'[j].last \in {"none", "value", "failed"}
      OBVIOUS
    <3>1. Len(co') = Len(co) + 1 BY <1>8 DEF u
    <3>2. CASE j = k
      BY <3>2, <1>3, <1>6, <1>10, <1>11, BoundAssumption
    <3>3. CASE j = i
      BY <1>k, <3>1, <3>3, <1>2, <1>6, <1>10, <1>11, <2>1
    <3>4. CASE j \in DOMAIN co \ {i}
      BY <3>1, <3>4, <1>6, <1>11, <2>1
    <3> QED BY <3>2, <3>3, <3>4, <1>11
  <2>3. \A p \in DOMAIN rns' :
          /\ rns'[p].depth \in 0 .. MaxDepth
          /\ rns'[p].own \subseteq rns'[p].outputs
          /\ rns'[p].own \subseteq Range(rns'[p].executed) \cap Nodes'
    <3>1. d \in 0 .. MaxDepth BY <1>1, <1>6, BoundAssumption DEF IInv, TypeOK, RoomBelow
    <3> QED BY <1>4, <1>9, <1>11, <1>12, <3>1 DEF IInv, TypeOK, v
  <2> QED BY <1>1, <2>2, <2>3 DEF IInv, TypeOK
<1>19. Shape'
  <2>1. Listed(<<>>) BY EmptySeq, ListedAnyway
  <2>2. \A j \in DOMAIN co' : DOMAIN co'[j] = FrameFields /\ co'[j].tries \in Nat
    BY <1>2, <1>3, <1>11 DEF IInv, Shape
  <2>3. \A p \in DOMAIN rns' :
          /\ DOMAIN rns'[p] = RunnerFields
          /\ Listed(rns'[p].executed)
          /\ rns'[p].failed \in BOOLEAN
    BY <1>4, <1>9, <1>11, <2>1 DEF IInv, Shape, v
  <2> QED BY <1>8, <1>9, <1>11, <2>2, <2>3 DEF IInv, Shape, u, v
<1>20. Claimed'
  BY <1>3, <1>6, <1>11, <1>12 DEF IInv, Claimed, Took
<1>21. Taken'
  <2>1. Range(rns'[q].executed) = {}
    <3>1. rns'[q].executed = <<>> BY <1>4, <1>9 DEF v
    <3> QED BY <3>1 DEF Range
  <2> QED BY <1>11, <1>12, <2>1 DEF IInv, Taken
<1>22. Single'
  BY <1>1, <1>3, <1>11 DEF IInv, Single, Took
<1>23. Excused'
  BY <1>3, <1>6, <1>11, <1>12 DEF IInv, Excused
<1>24. FailureSeen'
  BY <1>3, <1>6, <1>11, <1>12 DEF IInv, FailureSeen
<1>25. Stored'
  <2>1. \A p \in DOMAIN rns' : rns'[p].outputs \subseteq Nodes
    BY <1>4, <1>6, <1>9, <1>11 DEF IInv, Stored, v
  <2> QED BY <1>3, <1>6, <1>11, <1>12, <2>1 DEF IInv, Stored
<1>26. Blamed'
  <2>1. ~rns'[q].failed BY <1>4, <1>9 DEF v
  <2> QED BY <1>11, <2>1 DEF IInv, Blamed
<1>27. Gathered'
  <2>1. \A j \in DOMAIN co : \A m \in Kids(j) : m \in DOMAIN co BY DEF Kids
  <2>2. \A j \in DOMAIN co :
          /\ co'[j].pc \in {"new", "asking", "executing", "skipped"} => Kids(j)' = {}
          /\ co'[j].pc \in {"joining", "done"} =>
               \A e \in Followed(j)' : \E m \in Kids(j)' : co'[m].node = Target(e)'
          /\ co'[j].pc = "done" => \A m \in Kids(j)' : co'[m].pc \in Returned
    BY <1>11, <1>12, <1>15, <1>16, <2>1 DEF IInv, Gathered
  <2> QED BY <1>3, <1>11, <1>16, <2>2 DEF Gathered
<1>28. Rooted'
  <2>1. \A j \in DOMAIN co : co'[j].rn # co'[k].rn BY <1>3, <1>6, <1>10, <1>11
  <2> QED BY <1>3, <1>6, <1>10, <1>11, <1>17, <2>1 DEF IInv, Rooted
<1>29. SubLast'
  <2> SUFFICES ASSUME NEW j \in DOMAIN co, NEW m \in DOMAIN co',
                      Root(m)', co'[m].parent = j
               PROVE  /\ co'[j].sub # 0 => m <= co'[j].sub
                      /\ co'[j].tries = 0 /\ m # co'[j].sub =>
                           \A p \in DOMAIN co' : co'[p].rn = co'[m].rn => co'[p].pc \in Over
    BY <1>3, <1>6, <1>10, <1>11 DEF SubLast
  <2>1. CASE m = k
    <3>1. j = i BY <1>3, <1>11, <2>1
    <3> QED BY <1>10, <1>11, <2>1, <3>1
  <2>2. CASE m # k
    <3>1. m \in DOMAIN co /\ Root(m) /\ co[m].parent = j BY <1>11, <1>17, <2>2
    <3>2. /\ co[j].sub # 0 => m <= co[j].sub
          /\ co[j].tries = 0 /\ m # co[j].sub =>
               \A p \in DOMAIN co : co[p].rn = co[m].rn => co[p].pc \in Over
      BY <3>1 DEF IInv, SubLast
    <3>3. \A p \in DOMAIN co' : co'[p].rn = co'[m].rn => p \in DOMAIN co /\ co[p].rn = co[m].rn
      BY <1>3, <1>6, <1>10, <1>11, <3>1
    <3>4. CASE j = i
      <4>1. m # 0 /\ m <= k BY <1>k, <1>6, <3>1
      <4> QED BY <1>1, <1>11, <3>2, <3>3, <3>4, <4>1
    <3>5. CASE j # i
      BY <1>11, <3>2, <3>3, <3>5
    <3> QED BY <3>4, <3>5
  <2> QED BY <2>1, <2>2
<1>30. SubOwn'
  <2>1. \A j \in DOMAIN co : co[j].sub # 0 =>
          co[j].sub \in DOMAIN co /\ Root(co[j].sub) /\ co[co[j].sub].parent = j
    BY SubInside
  <2> SUFFICES ASSUME NEW j \in DOMAIN co', NEW m, m = co'[j].sub, m # 0
               PROVE  Root(m)' /\ co'[m].parent = j
    BY DEF SubOwn
  <2>2. CASE j = i
    BY <1>3, <1>11, <1>17, <2>2
  <2>3. CASE j \in DOMAIN co \ {i}
    <3>1. m = co[j].sub BY <1>11, <2>3
    <3>2. m \in DOMAIN co /\ Root(m) /\ co[m].parent = j BY <2>1, <2>3, <3>1
    <3> QED BY <1>11, <1>17, <3>2
  <2> QED BY <1>3, <1>11, <2>2, <2>3
<1>31. Spent'
  <2>1. Active' = Active BY <1>3, <1>10, <1>11 DEF Active
  <2> QED BY <1>1, <2>1 DEF IInv, Spent
<1>32. Verdict'
  BY <1>1, <1>3, <1>6, <1>10, <1>11 DEF IInv, Verdict, Main, Shape
<1>33. Shallow'
  <2>1. \A j \in DOMAIN co : RoomBelow(j) => RoomBelow(j)' BY <1>6, <1>11 DEF RoomBelow
  <2>2. \A j \in DOMAIN co \ {i} : co'[j].todo # <<>> \/ co'[j].sub # 0 => RoomBelow(j)
    BY <1>11 DEF IInv, Shallow
  <2> QED BY <1>1, <1>3, <1>11, <2>1, <2>2 DEF Shallow
<1> QED
  BY <1>18, <1>19, <1>20, <1>21, <1>22, <1>23, <1>24, <1>25, <1>26, <1>27, <1>28, <1>29,
     <1>30, <1>31, <1>32, <1>33
  DEF IInv

-----------------------------------------------------------------------------
(* The steps of a call.                                                    *)

\* What a step needs that leaves every runner alone, or stores an output of a
\* node that was claimed.
LEMMA IdleTended ==
  ASSUME IInv, NEW r \in DOMAIN rns, UNCHANGED rns
  PROVE  Quiet(r)
BY DEF IInv, TypeOK, Shape, Stored, Tended, Quiet

\* An output is stored in the runner that claimed its node.
LEMMA StoreTended ==
  ASSUME IInv, NEW i \in DOMAIN co, co[i].pc = "executing",
         rns' = Store(co[i].rn, co[i].node)
  PROVE  Quiet(co[i].rn) /\ co[i].node \in rns'[co[i].rn].own
<1> DEFINE r == co[i].rn
           n == co[i].node
           x == [rns[r] EXCEPT !.outputs = @ \cup {n}, !.own = @ \cup {n}]
           t == rns'
<1>1. r \in DOMAIN rns BY DEF IInv, TypeOK
<1>2. n \in Nodes \cap Range(rns[r].executed) BY DEF IInv, Claimed, Took, Ran
<1>3. t = [rns EXCEPT ![r] = x] BY <1>2 DEF Store, Record
<1>4. /\ DOMAIN x = RunnerFields /\ x.depth = rns[r].depth /\ x.executed = rns[r].executed
      /\ x.failed = rns[r].failed
      /\ x.outputs = rns[r].outputs \cup {n} /\ x.own = rns[r].own \cup {n}
  BY <1>1 DEF IInv, Shape, RunnerFields
<1>5. Listed(rns) BY DEF IInv, Shape
<1> HIDE DEF x, t
<1>6. /\ Listed(t) /\ DOMAIN t = DOMAIN rns /\ t[r] = x
      /\ \A q \in DOMAIN rns \ {r} : t[q] = rns[q]
  <2> HIDE DEF r
  <2> QED BY <1>1, <1>3, <1>5, ReplaceOne
<1>7. rns[r].failed \in BOOLEAN /\ rns[r].own \subseteq rns[r].outputs
      /\ rns[r].own \subseteq Range(rns[r].executed) \cap Nodes /\ rns[r].outputs \subseteq Nodes
  BY <1>1 DEF IInv, Shape, TypeOK, Stored
<1> QED BY <1>2, <1>4, <1>6, <1>7 DEF Tended, Quiet, t

\* A call goes on without calling others or running its node.
LEMMA GotoOrdinary ==
  ASSUME IInv, NEW i \in DOMAIN co, NEW l \in PC \ {"new", "executing", "joining"}, Goto(i, l),
         Quiet(co[i].rn), UNCHANGED <<graph, remaining, cancelKey, outcome>>,
         co[i].pc \in {"new", "asking", "executing", "joining"},
         l = "done" => co[i].pc = "joining" /\ \A k \in Kids(i) : co[k].pc \in Returned,
         l \in {"asking", "skipped"} => co[i].pc \in {"new", "asking"},
         l = "skipped" => \/ rns[co[i].rn].failed
                          \/ co[i].node \notin Nodes
                          \/ co[i].node \in Range(rns[co[i].rn].executed)
  PROVE  OrdinaryStep(i)
<1> DEFINE f == [co[i] EXCEPT !.pc = l]
<1>1. /\ DOMAIN f = FrameFields /\ f.pc = l
      /\ \A x \in FrameFields \ {"pc"} : f[x] = co[i][x]
  BY DEF IInv, Shape, FrameFields
<1>2. Became(i, f) BY GotoEffect DEF IInv, Shape
<1> HIDE DEF f
<1>3. /\ f.node = co[i].node /\ f.parent = co[i].parent /\ f.rn = co[i].rn
      /\ f.tries = co[i].tries /\ f.round = co[i].round /\ f.last = co[i].last
      /\ f.result = co[i].result /\ f.branch = co[i].branch /\ f.sub = co[i].sub
      /\ f.todo = co[i].todo
  BY <1>1 DEF FrameFields
<1>4. /\ co[i].tries \in Nat /\ co[i].round \in 0 .. MaxRounds
      /\ co[i].last \in {"none", "value", "failed"}
  BY DEF IInv, Shape, TypeOK
<1>5. Ordinary(i, f) BY <1>1, <1>3, <1>4 DEF Ordinary
<1> QED BY <1>2, <1>5 DEF OrdinaryStep

\* A call that sees the failure returns; one that does not asks Redis.
LEMMA BeginOrdinary ==
  ASSUME IInv, NEW i \in DOMAIN co, Begin(i) PROVE OrdinaryStep(i)
<1>1. Quiet(co[i].rn) BY IdleTended DEF Begin, IInv, TypeOK
<1>2. CASE rns[co[i].rn].failed
  BY <1>1, <1>2, GotoOrdinary DEF Begin, PC
<1>3. CASE ~rns[co[i].rn].failed
  BY <1>1, <1>3, GotoOrdinary DEF Begin, PC
<1> QED BY <1>2, <1>3

\* A cancelled call raises before it claims anything.
LEMMA SeeCancelOrdinary ==
  ASSUME IInv, NEW i \in DOMAIN co, SeeCancel(i) PROVE OrdinaryStep(i)
<1>1. Quiet(co[i].rn) BY IdleTended DEF SeeCancel, IInv, TypeOK
<1> QED BY <1>1, GotoOrdinary DEF SeeCancel, PC

\* A duplicate is excused by the entry in executed.
LEMMA ClaimDuplicateOrdinary ==
  ASSUME IInv, NEW i \in DOMAIN co, ClaimDuplicate(i) PROVE OrdinaryStep(i)
<1>1. Quiet(co[i].rn) BY IdleTended DEF ClaimDuplicate, IInv, TypeOK
<1> QED BY <1>1, GotoOrdinary DEF ClaimDuplicate, PC

\* A gather that is over had only calls that returned.
LEMMA JoinOrdinary ==
  ASSUME IInv, NEW i \in DOMAIN co, Join(i) PROVE OrdinaryStep(i)
<1>1. Quiet(co[i].rn) BY IdleTended DEF Join, IInv, TypeOK
<1> QED BY <1>1, GotoOrdinary DEF Join, PC

\* A gather that raises ends its call the way the one below it ended.
LEMMA PropagateOrdinary ==
  ASSUME IInv, NEW i \in DOMAIN co, Propagate(i) PROVE OrdinaryStep(i)
<1>1. Quiet(co[i].rn) BY IdleTended DEF Propagate, IInv, TypeOK
<1>2. PICK k \in Kids(i) : co[k].pc \in Raised /\ Goto(i, co[k].pc) BY DEF Propagate
<1> QED BY <1>1, <1>2, GotoOrdinary DEF Propagate, PC, Raised

\* The runner's own exception ends the call, its output stored or not.
LEMMA RunnerRaisesOrdinary ==
  ASSUME IInv, NEW i \in DOMAIN co, RunnerRaises(i) PROVE OrdinaryStep(i)
<1>1. Quiet(co[i].rn)
  <2>1. CASE UNCHANGED rns BY <2>1, IdleTended DEF IInv, TypeOK
  <2>2. CASE rns' = Store(co[i].rn, co[i].node)
    BY <2>2, StoreTended DEF RunnerRaises, AtWork
  <2> QED BY <2>1, <2>2 DEF RunnerRaises
<1> QED BY <1>1, GotoOrdinary DEF RunnerRaises, AtWork, PC

\* A success stores an output and follows the edges of its branch.
LEMMA SucceedSettles ==
  ASSUME IInv, NEW i \in DOMAIN co, co[i].pc = "executing", NEW b \in Branches(co[i].node), Succeed(i, b),
         UNCHANGED <<graph, remaining, cancelKey, outcome>>
  PROVE  SettleStep(i)
<1> DEFINE f == [co[i] EXCEPT !.result = "success", !.branch = b]
           es == IF KindOf(i) \in Looping THEN {} ELSE ActiveEdges(co[i].node, b)
<1>1. /\ DOMAIN f = FrameFields /\ f.result = "success" /\ f.branch = b /\ f.node = co[i].node
      /\ f.rn = co[i].rn
      /\ \A x \in FrameFields \ {"pc", "result", "branch"} : f[x] = co[i][x]
  BY DEF IInv, Shape, FrameFields
<1>2. Dispatch(i, es, f) /\ rns' = Store(co[i].rn, co[i].node) BY DEF Succeed
<1>3. /\ Tended(co[i].rn) /\ co[i].node \in rns'[co[i].rn].own
      /\ rns'[co[i].rn].failed => rns[co[i].rn].failed
  BY <1>2, StoreTended DEF Quiet
<1>4. es = IF f.result = "fail" THEN ErrorEdges(f.node)
           ELSE IF KindOf(i) \in Looping THEN {} ELSE ActiveEdges(f.node, f.branch)
  BY <1>1
<1>5. es \in Outcomes(co[i].node) BY DEF Outcomes, KindOf
<1> HIDE DEF f, es
<1>6. Settled(i, f, es) BY <1>1, <1>2, <1>3, <1>4, <1>5 DEF Settled
<1> QED BY <1>6 DEF SettleStep

\* A failure is another attempt, or follows the error edges, or fails the runner.
LEMMA FailEnds ==
  ASSUME IInv, NEW i \in DOMAIN co, co[i].pc = "executing", Fail(i),
         UNCHANGED <<graph, remaining, cancelKey, outcome>>
  PROVE  OrdinaryStep(i) \/ SettleStep(i)
<1> DEFINE r == co[i].rn
           n == co[i].node
<1>1. CASE co[i].tries < graph.retries[n]
  <2> DEFINE f == [Frame(n, co[i].parent, r)
                     EXCEPT !.pc = "executing", !.tries = co[i].tries + 1]
  <2>1. /\ DOMAIN f = FrameFields /\ f.pc = "executing" /\ f.tries = co[i].tries + 1
        /\ f.node = n /\ f.parent = co[i].parent /\ f.rn = r
        /\ f.result = "unset" /\ f.round = 0 /\ f.sub = 0 /\ f.last = "none" /\ f.todo = <<>>
    BY DEF Frame, FrameFields
  <2>2. Set(i, f) /\ UNCHANGED rns BY <1>1 DEF Fail
  <2>3. Became(i, f) BY <2>2, SetEffect DEF IInv, Shape
  <2>4. Quiet(r) BY <2>2, IdleTended DEF IInv, TypeOK
  <2> HIDE DEF f
  <2>5. co[i].tries \in Nat /\ co[i].result = "unset" BY DEF IInv, Shape, Stored
  <2>6. Ordinary(i, f) BY <2>1, <2>5, BoundAssumption DEF Ordinary, PC
  <2> QED BY <2>2, <2>3, <2>4, <2>6 DEF OrdinaryStep
<1>2. CASE ~(co[i].tries < graph.retries[n])
  <2> DEFINE f == [co[i] EXCEPT !.result = "fail"]
             x == [rns[r] EXCEPT !.failed = @ \/ ErrorEdges(n) = {}]
             t == rns'
  <2>1. /\ DOMAIN f = FrameFields /\ f.result = "fail" /\ f.node = n /\ f.rn = r
        /\ \A y \in FrameFields \ {"pc", "result", "branch"} : f[y] = co[i][y]
    BY DEF IInv, Shape, FrameFields
  <2>2. r \in DOMAIN rns BY DEF IInv, TypeOK
  <2>3. n \in Nodes \cap Range(rns[r].executed) BY DEF IInv, Claimed, Took, Ran
  <2>4. t = [rns EXCEPT ![r] = x] /\ Dispatch(i, ErrorEdges(n), f)
    BY <1>2, <2>3 DEF Fail, Record
  <2>5. /\ DOMAIN x = RunnerFields /\ x.depth = rns[r].depth /\ x.executed = rns[r].executed
        /\ x.outputs = rns[r].outputs /\ x.own = rns[r].own
        /\ x.failed = (rns[r].failed \/ ErrorEdges(n) = {})
    BY <2>2 DEF IInv, Shape, RunnerFields
  <2>6. Listed(rns) BY DEF IInv, Shape
  <2> HIDE DEF f, x, t
  <2>7. /\ Listed(t) /\ DOMAIN t = DOMAIN rns /\ t[r] = x
        /\ \A q \in DOMAIN rns \ {r} : t[q] = rns[q]
    <3> HIDE DEF r
    <3> QED BY <2>2, <2>4, <2>6, ReplaceOne
  <2>8. rns[r].failed \in BOOLEAN /\ rns[r].own \subseteq rns[r].outputs
        /\ rns[r].own \subseteq Range(rns[r].executed) \cap Nodes /\ rns[r].outputs \subseteq Nodes
    BY <2>2 DEF IInv, Shape, TypeOK, Stored
  <2>9. Tended(r) BY <2>5, <2>7, <2>8 DEF Tended, t
  <2>10. /\ ErrorEdges(n) = {} => rns'[r].failed
         /\ rns'[r].failed => rns[r].failed \/ ErrorEdges(n) = {}
    BY <2>5, <2>7 DEF t
  <2>11. ErrorEdges(n) \in Outcomes(n) \/ ErrorEdges(n) = {} BY DEF Outcomes
  <2>12. Settled(i, f, ErrorEdges(n)) BY <2>1, <2>4, <2>9, <2>10, <2>11 DEF Settled
  <2> QED BY <2>12 DEF SettleStep
<1> QED BY <1>1, <1>2

\* When the first calls of a runner have returned, so have all its calls: the
\* first one that has not would have a parent that returned before it.
LEMMA AllReturned ==
  ASSUME IInv, NEW r,
         \A j \in DOMAIN co : co[j].rn = r /\ (co[j].parent = 0 \/ Root(j)) => co[j].pc \in Returned
  PROVE  \A j \in DOMAIN co : co[j].rn = r => co[j].pc \in Returned
<1> DEFINE T == {j \in DOMAIN co : co[j].rn = r /\ co[j].pc \notin Returned}
<1>1. \A j \in DOMAIN co :
        /\ j \in Nat \ {0} /\ co[j].parent \in Nat /\ co[j].parent < j
        /\ co[j].parent # 0 => co[j].parent \in DOMAIN co
  BY ParentIsCall DEF IInv
<1>2. SUFFICES ASSUME T # {} PROVE FALSE OBVIOUS
<1>3. PICK j \in T : \A m \in T : j <= m
  <2>1. T \subseteq Nat BY <1>1
  <2> HIDE DEF T
  <2> QED BY <1>2, <2>1, FirstOf
<1>4. co[j].parent # 0 /\ ~Root(j) BY <1>3
<1>5. PICK p \in DOMAIN co : p = co[j].parent BY <1>1, <1>3, <1>4
<1>6. co[p].rn = r /\ p < j BY <1>1, <1>3, <1>4, <1>5 DEF Root
<1>7. co[p].pc \in Returned
  <2>1. p \notin T BY <1>1, <1>3, <1>5, <1>6
  <2> QED BY <1>6, <2>1
<1>8. j \in Kids(p) BY <1>3, <1>5, <1>6 DEF Kids
<1>9. co[j].pc \in Returned
  BY <1>7, <1>8 DEF IInv, Gathered, Returned
<1> QED BY <1>3, <1>9

\* Another round only counts.
LEMMA BeginRoundOrdinary ==
  ASSUME IInv, NEW i \in DOMAIN co, BeginRound(i) PROVE OrdinaryStep(i)
<1> DEFINE f == [co[i] EXCEPT !.round = @ + 1, !.todo = Successors(co[i].node), !.last = "none"]
<1>1. /\ co[i].pc = "executing" /\ co[i].round < MaxRounds /\ RoomBelow(i) /\ Set(i, f)
      /\ UNCHANGED <<graph, rns, remaining, cancelKey, outcome>>
  BY DEF BeginRound, Idle, AtWork, RoomBelow
<1>2. /\ DOMAIN f = FrameFields /\ f.round = co[i].round + 1 /\ f.last = "none"
      /\ f.node = co[i].node /\ f.parent = co[i].parent /\ f.rn = co[i].rn
      /\ f.pc = co[i].pc /\ f.tries = co[i].tries /\ f.result = co[i].result /\ f.sub = co[i].sub
  BY DEF IInv, Shape, FrameFields
<1> HIDE DEF f
<1>3. co[i].tries \in Nat /\ co[i].round \in 0 .. MaxRounds BY DEF IInv, Shape, TypeOK
<1>4. Ordinary(i, f) BY <1>1, <1>2, <1>3, BoundAssumption DEF Ordinary, PC
<1>5. Became(i, f) BY <1>1, SetEffect DEF IInv, Shape
<1>6. Quiet(co[i].rn) BY <1>1, IdleTended DEF IInv, TypeOK
<1> QED BY <1>1, <1>4, <1>5, <1>6 DEF OrdinaryStep

\* The sub-run that is taken is over as a whole, because its root has returned.
LEMMA TakeSubOrdinary ==
  ASSUME IInv, NEW i \in DOMAIN co, TakeSub(i) PROVE OrdinaryStep(i)
<1>k. PICK k : k = co[i].sub OBVIOUS
<1>q. PICK q : q = co[k].rn OBVIOUS
<1> DEFINE r == co[i].rn
           l == IF rns[q].failed /\ SubResult(q) = {} THEN "failed" ELSE "value"
           f == [co[i] EXCEPT !.sub = 0, !.todo = Tail(@), !.last = l]
           x == [rns[r] EXCEPT !.outputs = @ \cup rns[q].outputs]
           t == rns'
<1>1. /\ co[i].pc = "executing" /\ k # 0 /\ co[k].pc \in Returned
      /\ Set(i, f) /\ t = [rns EXCEPT ![r] = x]
      /\ UNCHANGED <<graph, remaining, cancelKey, outcome>>
  BY <1>k, <1>q DEF TakeSub
<1>2. /\ DOMAIN f = FrameFields /\ f.sub = 0 /\ f.last = l /\ f.pc = co[i].pc
      /\ f.node = co[i].node /\ f.parent = co[i].parent /\ f.rn = co[i].rn
      /\ f.tries = co[i].tries /\ f.result = co[i].result /\ f.round = co[i].round
  BY DEF IInv, Shape, FrameFields
<1>3. co[i].tries \in Nat /\ co[i].round \in 0 .. MaxRounds /\ r \in DOMAIN rns
  BY DEF IInv, Shape, TypeOK
<1>4. k \in DOMAIN co /\ Root(k)
  BY <1>k, <1>1, SubInside
<1>5. \A j \in DOMAIN co : co[j].rn = q => co[j].pc \in Returned
  <2>1. \A j \in DOMAIN co : co[j].rn = q /\ (co[j].parent = 0 \/ Root(j)) => j = k
    BY <1>q, <1>4 DEF IInv, Rooted
  <2> QED BY <1>1, <2>1, AllReturned
<1>6. l \in {"none", "value", "failed"} OBVIOUS
<1>7. Became(i, f) BY <1>1, SetEffect DEF IInv, Shape
<1>8. /\ DOMAIN x = RunnerFields /\ x.depth = rns[r].depth /\ x.executed = rns[r].executed
      /\ x.failed = rns[r].failed /\ x.own = rns[r].own
      /\ x.outputs = rns[r].outputs \cup rns[q].outputs
  BY <1>3 DEF IInv, Shape, RunnerFields
<1> HIDE DEF f, l, x, t
<1>9. Ordinary(i, f)
  BY <1>k, <1>q, <1>1, <1>2, <1>3, <1>5, <1>6 DEF Ordinary, PC, Over
<1>10. /\ Listed(t) /\ DOMAIN t = DOMAIN rns /\ t[r] = x
       /\ \A p \in DOMAIN rns \ {r} : t[p] = rns[p]
  <2>1. Listed(rns) BY DEF IInv, Shape
  <2> HIDE DEF r
  <2> QED BY <1>1, <1>3, <2>1, ReplaceOne
<1>11. /\ rns[r].failed \in BOOLEAN /\ rns[r].own \subseteq rns[r].outputs
       /\ rns[r].own \subseteq Range(rns[r].executed) \cap Nodes
       /\ rns[r].outputs \subseteq Nodes /\ rns[q].outputs \subseteq Nodes
  <2>1. q \in DOMAIN rns BY <1>q, <1>4 DEF IInv, TypeOK
  <2> QED BY <1>3, <2>1 DEF IInv, Shape, TypeOK, Stored
<1>12. Quiet(r) BY <1>8, <1>10, <1>11 DEF Tended, Quiet, t
<1> QED BY <1>1, <1>7, <1>9, <1>12 DEF OrdinaryStep

\* A step of a call is ordinary, settles a node, claims one or starts a sub-run.
LEMMA StepKinds ==
  ASSUME IInv, NEW i \in DOMAIN co, Step(i)
  PROVE  OrdinaryStep(i) \/ SettleStep(i) \/ Claim(i) \/ StartSub(i)
<1>1. CASE Begin(i) BY <1>1, BeginOrdinary
<1>2. CASE SeeCancel(i) BY <1>2, SeeCancelOrdinary
<1>3. CASE ClaimDuplicate(i) BY <1>3, ClaimDuplicateOrdinary
<1>4. CASE NodeSucceeds(i)
  <2>1. PICK b \in Branches(co[i].node) : Succeed(i, b) BY <1>4 DEF NodeSucceeds
  <2> QED BY <1>4, <2>1, SucceedSettles DEF NodeSucceeds, AtWork
<1>5. CASE NodeFails(i) BY <1>5, FailEnds DEF NodeFails, AtWork
<1>6. CASE HumanInput(i) BY <1>6, FailEnds DEF HumanInput, AtWork
<1>7. CASE RunnerRaises(i) BY <1>7, RunnerRaisesOrdinary
<1>8. CASE Join(i) BY <1>8, JoinOrdinary
<1>9. CASE Propagate(i) BY <1>9, PropagateOrdinary
<1>10. CASE BeginRound(i) BY <1>10, BeginRoundOrdinary
<1>11. CASE TooDeep(i) BY <1>11, FailEnds DEF TooDeep, Idle, AtWork
<1>12. CASE TakeSub(i) BY <1>12, TakeSubOrdinary
<1>13. CASE SubRaises(i) BY <1>13, FailEnds DEF SubRaises
<1>14. CASE LoopSucceeds(i)
  <2>1. "" \in Branches(co[i].node) BY DEF Branches
  <2> QED BY <1>14, <2>1, SucceedSettles DEF LoopSucceeds, Idle, AtWork
<1>15. CASE LoopFails(i) BY <1>15, FailEnds DEF LoopFails, Idle, AtWork
<1> QED
  BY <1>1, <1>2, <1>3, <1>4, <1>5, <1>6, <1>7, <1>8, <1>9, <1>10, <1>11, <1>12, <1>13,
     <1>14, <1>15
  DEF Step

\* Every step of a call keeps the invariant.
LEMMA StepKeeps == ASSUME IInv, NEW i \in DOMAIN co, Step(i) PROVE IInv'
<1>1. CASE OrdinaryStep(i)
  <2>1. PICK f : /\ Ordinary(i, f) /\ Became(i, f) /\ Quiet(co[i].rn)
                 /\ UNCHANGED <<graph, remaining, cancelKey, outcome>>
    BY <1>1 DEF OrdinaryStep
  <2> QED BY <2>1, OrdinaryKeeps
<1>2. CASE SettleStep(i)
  <2>1. PICK f, es : Settled(i, f, es) BY <1>2 DEF SettleStep
  <2> QED BY <2>1, SettleKeeps
<1>3. CASE Claim(i) BY <1>3, ClaimKeeps
<1>4. CASE StartSub(i) BY <1>4, StartSubKeeps
<1> QED BY <1>1, <1>2, <1>3, <1>4, StepKinds

-----------------------------------------------------------------------------
(* The steps of run() and of the user.                                     *)

\* run() returns when its start nodes have: by then every call of its runner has.
LEMMA FinishKeeps == ASSUME IInv, Finish PROVE IInv'
<1>1. /\ UNCHANGED <<graph, co, rns, remaining, cancelKey>>
      /\ \A k \in Kids(0) : co[k].pc \in Returned
      /\ outcome' = IF rns[1].failed THEN "failed" ELSE "completed"
  BY DEF Finish
<1>2. \A j \in DOMAIN co : co[j].rn = 1 => co[j].pc \in Returned
  <2>1. \A j \in DOMAIN co : co[j].rn = 1 /\ (co[j].parent = 0 \/ Root(j)) => j \in Kids(0)
    BY DEF IInv, Rooted, Kids
  <2> QED BY <1>1, <2>1, AllReturned
<1>3. Verdict' BY <1>1, <1>2 DEF Verdict, Main
<1>4. TypeOK' BY <1>1 DEF IInv, TypeOK, Nodes
<1>5. /\ Nodes' = Nodes /\ Active' = Active
      /\ \A n : ErrorEdges(n)' = ErrorEdges(n) /\ Target(n)' = Target(n)
      /\ \A n, b : ActiveEdges(n, b)' = ActiveEdges(n, b)
  BY <1>1 DEF Nodes, Active, ErrorEdges, ActiveEdges, Out, Source, Target, Handle
<1>6. Shape' /\ Claimed' /\ Single' /\ Taken'
  BY <1>1, <1>5 DEF IInv, Shape, Claimed, Took, Single, Taken
<1>7. Excused' /\ FailureSeen' /\ Stored' /\ Blamed'
  BY <1>1, <1>5 DEF IInv, Excused, FailureSeen, Stored, Blamed
<1>8. Gathered'
  BY <1>1, <1>5 DEF IInv, Gathered, Followed, KindOf, Kids
<1>9. Rooted' /\ SubLast' /\ SubOwn' BY <1>1 DEF IInv, Rooted, SubLast, SubOwn, Root
<1>10. Spent' BY <1>1, <1>5 DEF IInv, Spent
<1>11. Shallow' BY <1>1 DEF IInv, Shallow, RoomBelow
<1> QED BY <1>3, <1>4, <1>6, <1>7, <1>8, <1>9, <1>10, <1>11 DEF IInv

\* An abort gives no verdict of completed, and at most fails the run's own runner.
LEMMA AbortKeeps == ASSUME IInv, Abort PROVE IInv'
<1> DEFINE x == [rns[1] EXCEPT !.failed = TRUE]
           t == rns'
<1>1. /\ UNCHANGED <<graph, co, remaining, cancelKey>>
      /\ outcome' \in {"cancelled", "failed"}
      /\ t = rns \/ t = [rns EXCEPT ![1] = x]
  BY DEF Abort
<1>2. /\ DOMAIN x = RunnerFields /\ x.depth = rns[1].depth /\ x.executed = rns[1].executed
      /\ x.failed = TRUE /\ x.own = rns[1].own /\ x.outputs = rns[1].outputs
  BY DEF IInv, Shape, RunnerFields
<1>3. Listed(rns) /\ 1 \in DOMAIN rns BY DEF IInv, Shape
<1> HIDE DEF x, t
<1>4. /\ Listed(t) /\ DOMAIN t = DOMAIN rns
      /\ t[1] \in {rns[1], x}
      /\ \A p \in DOMAIN rns \ {1} : t[p] = rns[p]
  <2>1. CASE t = rns BY <1>3, <2>1
  <2>2. CASE t = [rns EXCEPT ![1] = x] BY <1>3, <2>2, ReplaceOne
  <2> QED BY <1>1, <2>1, <2>2
<1>5. /\ Listed(rns') /\ DOMAIN rns' = DOMAIN rns
      /\ \A p \in DOMAIN rns :
           /\ DOMAIN rns'[p] = RunnerFields
           /\ rns'[p].depth = rns[p].depth /\ rns'[p].executed = rns[p].executed
           /\ rns'[p].own = rns[p].own /\ rns'[p].outputs = rns[p].outputs
           /\ rns'[p].failed \in {rns[p].failed, TRUE}
  BY <1>2, <1>4 DEF t, IInv, Shape
<1>6. /\ Nodes' = Nodes /\ Active' = Active
      /\ \A n : ErrorEdges(n)' = ErrorEdges(n) /\ Target(n)' = Target(n)
      /\ \A n, b : ActiveEdges(n, b)' = ActiveEdges(n, b)
  BY <1>1 DEF Nodes, Active, ErrorEdges, ActiveEdges, Out, Source, Target, Handle
<1>7. \A j \in DOMAIN co : co[j].rn \in DOMAIN rns BY DEF IInv, TypeOK
<1>8. TypeOK' BY <1>1, <1>5, <1>6 DEF IInv, TypeOK
<1>9. Shape' BY <1>1, <1>5 DEF IInv, Shape
<1>10. Claimed' BY <1>1, <1>5, <1>6, <1>7 DEF IInv, Claimed, Took
<1>11. Taken'
  <2>1. \A p \in DOMAIN rns : Range(rns'[p].executed) = Range(rns[p].executed) BY <1>5
  <2> QED BY <1>1, <1>5, <1>6, <2>1 DEF IInv, Taken
<1>12. Single' BY <1>1 DEF IInv, Single, Took
<1>13. Excused' BY <1>1, <1>5, <1>6, <1>7 DEF IInv, Excused
<1>14. FailureSeen' BY <1>1, <1>5, <1>6, <1>7 DEF IInv, FailureSeen
<1>15. Gathered' BY <1>1, <1>6 DEF IInv, Gathered, Followed, KindOf, Kids
<1>16. Rooted' /\ SubLast' /\ SubOwn' BY <1>1 DEF IInv, Rooted, SubLast, SubOwn, Root
<1>17. Spent' BY <1>1, <1>6 DEF IInv, Spent
<1>18. Verdict' BY <1>1 DEF Verdict
<1>19. Stored' BY <1>1, <1>5, <1>6, <1>7 DEF IInv, Stored
<1>20. Blamed'
  <2>1. \A p \in DOMAIN rns \ {1} : rns'[p].failed = rns[p].failed BY <1>4 DEF t
  <2> QED BY <1>1, <1>5, <2>1 DEF IInv, Blamed
<1>21. Shallow' BY <1>1, <1>5, <1>7 DEF IInv, Shallow, RoomBelow
<1> QED
  BY <1>8, <1>9, <1>10, <1>11, <1>12, <1>13, <1>14, <1>15, <1>16, <1>17, <1>18, <1>19, <1>20,
     <1>21
  DEF IInv

\* The cancel request and its end, and a stuttering step, touch nothing the
\* invariant is about.
LEMMA IdleKeeps ==
  ASSUME IInv, UNCHANGED <<graph, co, rns, remaining, outcome>>,
         cancelKey' \in {"unset", "set", "expired"}
  PROVE  IInv'
<1>1. TypeOK' BY DEF IInv, TypeOK, Nodes
<1>2. /\ Nodes' = Nodes /\ Active' = Active
      /\ \A n : ErrorEdges(n)' = ErrorEdges(n) /\ Target(n)' = Target(n)
      /\ \A n, b : ActiveEdges(n, b)' = ActiveEdges(n, b)
  BY DEF Nodes, Active, ErrorEdges, ActiveEdges, Out, Source, Target, Handle
<1>3. Shape' /\ Claimed' /\ Single' /\ Taken'
  BY <1>2 DEF IInv, Shape, Claimed, Took, Single, Taken
<1>4. Excused' /\ FailureSeen' /\ Stored' /\ Blamed'
  BY <1>2 DEF IInv, Excused, FailureSeen, Stored, Blamed
<1>5. Gathered' BY <1>2 DEF IInv, Gathered, Followed, KindOf, Kids
<1>6. Rooted' /\ SubLast' /\ SubOwn' BY DEF IInv, Rooted, SubLast, SubOwn, Root
<1>7. Spent' /\ Verdict' BY <1>2 DEF IInv, Spent, Verdict, Main
<1>8. Shallow' BY DEF IInv, Shallow, RoomBelow
<1> QED BY <1>1, <1>3, <1>4, <1>5, <1>6, <1>7, <1>8 DEF IInv

-----------------------------------------------------------------------------
(* The theorems.                                                           *)

\* A run starts with one call for each start node and nothing else.
LEMMA InitIInv == ASSUME Init PROVE IInv
<1> DEFINE ns == SetToSeq(StartNodes)
<1>1. /\ graph \in Graphs /\ co = [k \in DOMAIN ns |-> Frame(ns[k], 0, 1)]
      /\ rns = <<Runner(0, {})>> /\ remaining = Budget
      /\ cancelKey = "unset" /\ outcome = "none"
  BY DEF Init
<1>2. Listed(ns) /\ Range(ns) = StartNodes
  <2>1. IsFiniteSet(Nodes) BY <1>1, GraphAssumption DEF IsGraph, Nodes
  <2>2. IsFiniteSet(StartNodes) BY <2>1, FS_Subset DEF StartNodes
  <2> QED BY <2>2, SetListed
<1> HIDE DEF ns
<1>3. Len(ns) \in Nat /\ DOMAIN ns = 1 .. Len(ns) BY <1>2, ListedDomain
<1>4. DOMAIN co = 1 .. Len(ns) BY <1>1, <1>3
<1>5. Listed(co)
  <2>1. co \in [1 .. Len(ns) -> Range(co)] BY <1>1, <1>4 DEF Range
  <2> QED BY <1>3, <2>1, SeqDef DEF Listed
<1>6. \A i \in DOMAIN co :
        /\ DOMAIN co[i] = FrameFields /\ co[i].parent = 0 /\ co[i].rn = 1
        /\ co[i].pc = "new" /\ co[i].tries = 0 /\ co[i].result = "unset"
        /\ co[i].round = 0 /\ co[i].sub = 0 /\ co[i].last = "none" /\ co[i].todo = <<>>
        /\ i \in Nat \ {0}
  <2>1. \A n : /\ DOMAIN Frame(n, 0, 1) = FrameFields /\ Frame(n, 0, 1).parent = 0
               /\ Frame(n, 0, 1).rn = 1 /\ Frame(n, 0, 1).pc = "new"
               /\ Frame(n, 0, 1).tries = 0 /\ Frame(n, 0, 1).result = "unset"
               /\ Frame(n, 0, 1).round = 0 /\ Frame(n, 0, 1).sub = 0
               /\ Frame(n, 0, 1).last = "none" /\ Frame(n, 0, 1).todo = <<>>
    BY DEF Frame, FrameFields
  <2> QED BY <1>1, <1>3, <1>4, <2>1
<1>7. /\ DOMAIN rns = {1} /\ Listed(rns)
      /\ DOMAIN rns[1] = RunnerFields /\ rns[1].depth = 0 /\ rns[1].executed = <<>>
      /\ rns[1].failed = FALSE /\ rns[1].own = {} /\ rns[1].outputs = {}
  <2> DEFINE x == Runner(0, {})
  <2>1. /\ DOMAIN x = RunnerFields /\ x.depth = 0 /\ x.executed = <<>>
        /\ x.failed = FALSE /\ x.own = {} /\ x.outputs = {}
    BY DEF Runner, RunnerFields
  <2> HIDE DEF x
  <2>2. rns = <<x>> BY <1>1 DEF x
  <2>3. rns \in Seq({x}) BY <2>2
  <2>4. Listed(rns) BY <2>3, ListedAnyway
  <2>5. DOMAIN rns = {1} /\ rns[1] = x BY <2>2
  <2> QED BY <2>1, <2>4, <2>5
<1>8. Listed(<<>>) /\ Range(<<>>) = {}
  <2>1. Listed(<<>>) BY EmptySeq, ListedAnyway
  <2> QED BY <2>1 DEF Range
<1>9. TypeOK BY <1>1, <1>6, <1>7, <1>8, BoundAssumption DEF TypeOK, PC
<1>10. Shape
  <2>1. Listed(rns[1].executed) BY <1>7, <1>8
  <2>2. \A r \in DOMAIN rns :
          DOMAIN rns[r] = RunnerFields /\ Listed(rns[r].executed) /\ rns[r].failed \in BOOLEAN
    BY <1>7, <2>1
  <2>3. \A i \in DOMAIN co : DOMAIN co[i] = FrameFields /\ co[i].tries \in Nat BY <1>6
  <2>4. 1 \in DOMAIN rns /\ Listed(rns) BY <1>7
  <2> QED BY <1>5, <2>2, <2>3, <2>4 DEF Shape
<1>11. Claimed /\ Single /\ Excused /\ FailureSeen
  BY <1>6 DEF Claimed, Took, Single, Excused, FailureSeen, Ran
<1>12. Stored /\ Blamed BY <1>6, <1>7 DEF Stored, Blamed
<1>13. Taken BY <1>7, <1>8 DEF Taken
<1>14. Gathered BY <1>6 DEF Gathered, Kids
<1>15. Rooted /\ SubLast /\ SubOwn BY <1>6 DEF Rooted, SubLast, SubOwn, Root
<1>16. Spent
  <2>1. Active = {} BY <1>6 DEF Active, Ran
  <2> QED BY <1>1, <2>1, FS_EmptySet, BoundAssumption DEF Spent
<1>17. Verdict BY <1>1 DEF Verdict
<1>18. Shallow BY <1>6 DEF Shallow
<1> QED BY <1>9, <1>10, <1>11, <1>12, <1>13, <1>14, <1>15, <1>16, <1>17, <1>18 DEF IInv

\* The invariant holds in every run, of whatever graph.
THEOREM InvariantHolds == Spec => []IInv
<1>1. Init => IInv BY InitIInv
<1>2. IInv /\ [Next]_vars => IInv'
  <2> SUFFICES ASSUME IInv, [Next]_vars PROVE IInv' OBVIOUS
  <2>1. CASE \E i \in DOMAIN co : Step(i) BY <2>1, StepKeeps
  <2>2. CASE Finish BY <2>2, FinishKeeps
  <2>3. CASE Abort BY <2>3, AbortKeeps
  <2>4. CASE Cancel BY <2>4, IdleKeeps DEF Cancel
  <2>5. CASE CancelExpires BY <2>5, IdleKeeps DEF CancelExpires
  <2>6. CASE UNCHANGED vars BY <2>6, IdleKeeps DEF vars, IInv, TypeOK
  <2> QED BY <2>1, <2>2, <2>3, <2>4, <2>5, <2>6 DEF Next
<1> QED BY <1>1, <1>2, PTL DEF Spec

\* The calls, the runners and the variables have the types declared for them.
THEOREM TypeCorrect == Spec => []TypeOK
<1>1. IInv => TypeOK BY DEF IInv
<1> QED BY <1>1, InvariantHolds, PTL

\* A runner runs a node that is not pinned once, however many paths lead to it
\* and however its calls interleave: the claim and the test are one step.
THEOREM NodesRunOnce == Spec => []RunsOnce
<1>1. IInv => RunsOnce BY DEF IInv, Single, Took, RunsOnce
<1> QED BY <1>1, InvariantHolds, PTL

\* All the runners of a run together run no more nodes than its budget.
THEOREM BudgetKept == Spec => []WithinBudget
<1>1. IInv => WithinBudget BY DEF IInv, Spent, Active, WithinBudget
<1> QED BY <1>1, InvariantHolds, PTL

\* A run reported completed lost no exception and no failure that had no error
\* edge.
THEOREM CompletionClean == Spec => []CompletedIsClean
<1>1. IInv => CompletedIsClean
  BY DEF IInv, Verdict, FailureSeen, Main, CompletedIsClean
<1> QED BY <1>1, InvariantHolds, PTL

\* A run reported completed has run every node that an outcome leads to.
THEOREM CompletionWhole == Spec => []CompletedIsWhole
<1>1. IInv => CompletedIsWhole
  <2> SUFFICES ASSUME IInv, outcome = "completed",
                      NEW i \in Main, co[i].pc = "done",
                      NEW e \in Followed(i), Target(e) \in Nodes
               PROVE  \E j \in Main : co[j].node = Target(e) /\ co[j].pc = "done"
    BY DEF CompletedIsWhole
  <2>1. ~rns[1].failed /\ \A j \in Main : co[j].pc \in Returned BY DEF IInv, Verdict
  <2>2. PICK k \in Kids(i) : co[k].node = Target(e) BY DEF IInv, Gathered, Main
  <2>3. k \in Main /\ i # 0 BY ParentIsCall DEF IInv, Kids, Main
  <2>4. CASE co[k].pc = "done" BY <2>2, <2>3, <2>4
  <2>5. CASE co[k].pc = "skipped"
    <3>1. co[k].node \in Range(rns[1].executed)
      BY <2>1, <2>2, <2>3, <2>5 DEF IInv, Excused, Main
    <3>2. PICK j \in DOMAIN co :
            co[j].rn = 1 /\ co[j].node = Target(e) /\ co[j].pc \in Ran \cup Raised
      BY <2>2, <3>1 DEF IInv, Taken, Shape
    <3> QED BY <2>1, <3>2 DEF Main, Ran, Raised, Returned
  <2> QED BY <2>1, <2>3, <2>4, <2>5 DEF Returned
<1> QED BY <1>1, InvariantHolds, PTL

\* The rounds of a loop, and the successors within a round, run one after the
\* other until an attempt raises.
THEOREM RoundsOneByOne == Spec => []RoundsInTurn
<1>1. IInv => RoundsInTurn
  <2> SUFFICES ASSUME IInv, NEW i \in DOMAIN co, NEW k \in DOMAIN co, NEW l \in DOMAIN co,
                      k < l, co[k].parent = i, co[l].parent = i, co[i].tries = 0,
                      co[k].rn # co[i].rn, co[l].rn # co[i].rn,
                      NEW j \in DOMAIN co, co[j].rn = co[k].rn
               PROVE  co[j].pc \in Over
    BY DEF RoundsInTurn, Over
  <2>1. \A m \in DOMAIN co : m \in Nat \ {0} BY ParentIsCall DEF IInv
  <2>2. Root(k) /\ Root(l) BY <2>1 DEF Root
  <2>3. k # co[i].sub
    <3>1. co[i].sub # 0 => l <= co[i].sub BY <2>2 DEF IInv, SubLast
    <3>2. i \in Nat /\ co[i].sub \in {0} \cup i + 1 .. Len(co) BY <2>1 DEF IInv, TypeOK
    <3> QED BY <2>1, <3>1, <3>2
  <2> QED BY <2>2, <2>3 DEF IInv, SubLast
<1> QED BY <1>1, InvariantHolds, PTL

\* A sub-run in which no call failed answers with an output of one of its own
\* nodes: only after a failure can an earlier round's output be taken for it.
THEOREM CleanSubRunAnswers == Spec => []CleanSubAnswers
<1>1. IInv => CleanSubAnswers
  <2> SUFFICES ASSUME IInv, NEW i \in DOMAIN co, SubReturned(i),
                      NEW k, k = co[i].sub, NEW r, r = co[k].rn,
                      \A j \in DOMAIN co : co[j].rn = r => co[j].result # "fail"
               PROVE  /\ SubResult(r) \subseteq rns[r].own
                      /\ co[k].node \in Nodes => SubResult(r) # {}
    BY DEF CleanSubAnswers
  <2> DEFINE ex == rns[r].executed
             withOutput == {m \in DOMAIN ex : ex[m] \in rns[r].outputs}
  <2>1. k \in DOMAIN co /\ Root(k) /\ co[k].pc \in Returned
    BY SubInside DEF SubReturned
  <2>2. r \in DOMAIN rns /\ r # 1 BY <2>1 DEF IInv, TypeOK, Rooted
  <2>3. \A j \in DOMAIN co : co[j].rn = r => co[j].pc \in Returned
    <3>1. \A j \in DOMAIN co : co[j].rn = r /\ (co[j].parent = 0 \/ Root(j)) => j = k
      BY <2>1 DEF IInv, Rooted
    <3> QED BY <2>1, <3>1, AllReturned
  <2>4. \A n \in Range(ex) \cap Nodes : n \in rns[r].own
    <3> TAKE n \in Range(ex) \cap Nodes
    <3>1. PICK j \in DOMAIN co : co[j].rn = r /\ co[j].node = n /\ co[j].pc \in Ran \cup Raised
      BY <2>2 DEF IInv, Taken
    <3>2. co[j].pc = "done" BY <2>3, <3>1 DEF Ran, Raised, Returned
    <3> QED BY <3>1, <3>2 DEF IInv, Stored
  <2>5. rns[r].outputs \subseteq Nodes /\ rns[r].own \subseteq rns[r].outputs
    BY <2>2 DEF IInv, Stored, TypeOK
  <2>6. SubResult(r) = {ex[m] : m \in {x \in withOutput : \A l \in withOutput : l <= x}}
    BY DEF SubResult
  <2>7. \A m \in withOutput : ex[m] \in Range(ex) \cap Nodes BY <2>5 DEF Range
  <2>8. SubResult(r) \subseteq rns[r].own
    <3> HIDE DEF ex, withOutput
    <3> QED BY <2>4, <2>6, <2>7
  <2>9. ASSUME co[k].node \in Nodes PROVE co[k].node \in Range(ex)
    <3>1. CASE co[k].pc = "done" BY <3>1, <2>1 DEF IInv, Claimed, Took, Ran
    <3>2. CASE co[k].pc = "skipped"
      <4>1. ~rns[r].failed BY <2>2 DEF IInv, Blamed
      <4> QED BY <2>1, <2>9, <3>2, <4>1 DEF IInv, Excused
    <3> QED BY <2>1, <3>1, <3>2 DEF Returned
  <2>10. ASSUME co[k].node \in Nodes PROVE SubResult(r) # {}
    <3>1. co[k].node \in Range(ex) /\ co[k].node \in rns[r].outputs
      BY <2>4, <2>5, <2>9, <2>10
    <3>2. withOutput # {} BY <3>1 DEF Range
    <3>3. Len(ex) \in Nat /\ DOMAIN ex = 1 .. Len(ex)
      <4>1. Listed(ex) BY <2>2 DEF IInv, Shape
      <4> HIDE DEF ex
      <4> QED BY <4>1, ListedDomain
    <3> HIDE DEF ex
    <3>4. PICK x \in withOutput : \A l \in withOutput : l <= x
      <4> HIDE DEF withOutput
      <4> DEFINE T == {Len(ex) - l : l \in withOutput}
      <4>1. withOutput \subseteq 1 .. Len(ex) BY <3>3 DEF withOutput
      <4>2. T \subseteq Nat /\ T # {}
        <5>1. \A l \in withOutput : Len(ex) - l \in Nat BY <3>3, <4>1
        <5> QED BY <3>2, <5>1
      <4>3. PICK t \in T : \A y \in T : t <= y
        <5> HIDE DEF T
        <5> QED BY <4>2, FirstOf
      <4>4. PICK x \in withOutput : t = Len(ex) - x OBVIOUS
      <4>5. \A l \in withOutput : Len(ex) - x <= Len(ex) - l BY <4>3, <4>4
      <4> QED BY <3>3, <4>1, <4>5
    <3> QED BY <2>6, <3>4
  <2> QED BY <2>8, <2>10
<1> QED BY <1>1, InvariantHolds, PTL
-----------------------------------------------------------------------------
(* The contract.  Seen through Plan, WantedNodes, RanNodes and Broken, the *)
(* end of a node in the run's own runner is Run or Fail, a call of it that *)
(* raises is Break, run() ends with Complete or GiveUp, and whatever else  *)
(* the calls, the loops and the sub-runners do is not seen at all.         *)

\* What a run is to do is read off its graph.
LEMMA PlanFixed ==
  ASSUME graph' = graph
  PROVE  /\ Plan' = Plan /\ Nodes' = Nodes
         /\ \A es : Reached(es)' = Reached(es)
<1>1. Nodes' = Nodes /\ StartNodes' = StartNodes BY DEF Nodes, StartNodes, Target
<1>2. \A es : Reached(es)' = Reached(es) BY <1>1 DEF Reached, Target
<1>3. \A n : Outcomes(n)' = Outcomes(n)
  BY DEF Outcomes, ErrorEdges, ActiveEdges, Branches, Out, Source, Handle
<1>4. Plan' = Plan BY <1>1, <1>2, <1>3 DEF Plan
<1> QED BY <1>1, <1>2, <1>4

\* A step that leaves the nodes and the results of the run's own calls, and whether
\* the runner has failed, is not seen, unless one of these calls raises.
LEMMA MainKept ==
  ASSUME UNCHANGED <<graph, outcome>>,
         Main' = Main, rns'[1].failed = rns[1].failed,
         \A j \in Main :
           /\ co'[j].node = co[j].node /\ co'[j].result = co[j].result
           /\ co[j].pc \in Raised => co'[j].pc \in Raised
           /\ co'[j].pc \in Raised => co[j].pc \in Raised \/ outcome # "completed"
  PROVE  Contract!Break \/ UNCHANGED Contract!vars
<1>1. Plan' = Plan /\ Nodes' = Nodes BY PlanFixed
<1>2. WantedNodes' = WantedNodes /\ RanNodes' = RanNodes
  BY <1>1 DEF WantedNodes, RanNodes
<1>3. CASE \E j \in Main : co'[j].pc \in Raised /\ co[j].pc \notin Raised
  <2>1. Broken' = TRUE BY <1>3 DEF Broken
  <2>2. outcome # "completed" BY <1>3
  <2> QED BY <1>1, <1>2, <2>1, <2>2 DEF Contract!Break
<1>4. CASE \A j \in Main : co'[j].pc \in Raised => co[j].pc \in Raised
  <2>1. Broken' = Broken BY <1>4 DEF Broken
  <2> QED BY <1>1, <1>2, <2>1 DEF Contract!vars
<1> QED BY <1>3, <1>4

\* So it is with a step that changes one call, whatever its runner.
LEMMA OneCallUnseen ==
  ASSUME IInv, UNCHANGED <<graph, outcome>>,
         NEW i \in DOMAIN co, NEW f, Became(i, f), co[i].pc \notin Returned \cup Raised,
         f.node = co[i].node, f.rn = co[i].rn, f.result = co[i].result,
         rns'[1].failed = rns[1].failed
  PROVE  Contract!Break \/ UNCHANGED Contract!vars
<1>1. Main' = Main BY DEF Main, Became
<1>2. \A j \in Main :
        /\ co'[j].node = co[j].node /\ co'[j].result = co[j].result
        /\ co[j].pc \in Raised => co'[j].pc \in Raised
        /\ co'[j].pc \in Raised => co[j].pc \in Raised \/ outcome # "completed"
  BY DEF Main, Became, IInv, Verdict
<1> QED BY <1>1, <1>2, MainKept

LEMMA OrdinaryUnseen ==
  ASSUME IInv, NEW i \in DOMAIN co, OrdinaryStep(i)
  PROVE  Contract!Break \/ UNCHANGED Contract!vars
<1>1. PICK f : /\ Ordinary(i, f) /\ Became(i, f) /\ Quiet(co[i].rn)
               /\ UNCHANGED <<graph, remaining, cancelKey, outcome>>
  BY DEF OrdinaryStep
<1>2. rns'[1].failed = rns[1].failed
  <2>1. 1 \in DOMAIN rns /\ rns[1].failed \in BOOLEAN BY DEF IInv, Shape
  <2>2. CASE co[i].rn # 1 BY <1>1, <2>1, <2>2 DEF Quiet, Tended
  <2>3. CASE co[i].rn = 1
    <3>1. rns'[1].failed \in BOOLEAN /\ (rns'[1].failed <=> rns[1].failed)
      BY <1>1, <2>3 DEF Quiet, Tended
    <3> QED BY <2>1, <3>1
  <2> QED BY <2>2, <2>3
<1>3. /\ f.node = co[i].node /\ f.rn = co[i].rn /\ f.result = co[i].result
      /\ co[i].pc \notin Returned \cup Raised
  BY <1>1 DEF Ordinary, Returned, Raised
<1> QED BY <1>1, <1>2, <1>3, OneCallUnseen

\* A claim is not seen; a claim over the budget is Break.
LEMMA ClaimUnseen ==
  ASSUME IInv, NEW i \in DOMAIN co, Claim(i)
  PROVE  Contract!Break \/ UNCHANGED Contract!vars
<1> DEFINE r == co[i].rn
           n == co[i].node
           l == IF n \notin Nodes THEN "skipped"
                ELSE IF remaining > 0 THEN "executing" ELSE "errored"
           f == [co[i] EXCEPT !.pc = l]
           t == rns'
<1>1. /\ co[i].pc = "asking" /\ UNCHANGED <<graph, outcome>>
      /\ t = Record(r, n) /\ Goto(i, l)
  BY DEF Claim
<1>2. Became(i, f) BY <1>1, GotoEffect DEF IInv, Shape
<1>3. f.node = n /\ f.rn = r /\ f.result = co[i].result
  BY DEF IInv, Shape, FrameFields
<1>4. 1 \in DOMAIN rns /\ r \in DOMAIN rns BY DEF IInv, Shape, TypeOK
<1>5. t[1].failed = rns[1].failed
  <2>1. Shape BY DEF IInv
  <2> HIDE DEF t, r, n
  <2>2. t[r].failed = rns[r].failed /\ \A q \in DOMAIN rns \ {r} : t[q] = rns[q]
    BY <1>1, <1>4, <2>1, RecordEffect
  <2> QED BY <1>4, <2>2
<1>6. co[i].pc \notin Returned \cup Raised BY <1>1 DEF Returned, Raised
<1> HIDE DEF f, l
<1> QED BY <1>1, <1>2, <1>3, <1>5, <1>6, OneCallUnseen

\* The root of a sub-run is a call of another runner.
LEMMA StartSubUnseen ==
  ASSUME IInv, NEW i \in DOMAIN co, StartSub(i)
  PROVE  Contract!Break \/ UNCHANGED Contract!vars
<1>k. PICK k : k = Len(co) + 1 OBVIOUS
<1>q. PICK q : q = Len(rns) + 1 OBVIOUS
<1> DEFINE f == [co[i] EXCEPT !.sub = k]
           x == Frame(Head(co[i].todo), i, q)
           y == Runner(rns[co[i].rn].depth + 1, rns[co[i].rn].outputs)
           s == [co EXCEPT ![i] = f]
           u == co'
           v == rns'
<1>1. u = Append(s, x) /\ v = Append(rns, y) /\ UNCHANGED <<graph, outcome>>
  BY <1>k, <1>q DEF StartSub
<1>2. f.node = co[i].node /\ f.rn = co[i].rn /\ f.result = co[i].result /\ f.pc = co[i].pc
  BY DEF FrameFields, IInv, Shape
<1>3. x.rn = q BY DEF Frame
<1>4. s = [co EXCEPT ![i] = f] OBVIOUS
<1>5. /\ Listed(co) /\ Len(co) \in Nat /\ DOMAIN co = 1 .. Len(co)
      /\ Listed(rns) /\ Len(rns) \in Nat /\ DOMAIN rns = 1 .. Len(rns) /\ 1 \in DOMAIN rns
  BY ListedDomain DEF IInv, Shape
<1> HIDE DEF f, x, y, s, u, v
<1>6. /\ Listed(s) /\ Len(s) = Len(co) /\ DOMAIN s = DOMAIN co /\ s[i] = f
      /\ \A j \in DOMAIN co \ {i} : s[j] = co[j]
  BY <1>4, <1>5, ReplaceOne
<1>7. Extended(s, x, u) BY <1>1, <1>6, AppendOne
<1>8. Extended(rns, y, v) BY <1>1, <1>5, AppendOne
<1>9. /\ DOMAIN u = DOMAIN co \cup {k} /\ u[k] = x /\ u[i] = f
      /\ \A j \in DOMAIN co \ {i} : u[j] = co[j]
  BY <1>k, <1>6, <1>7 DEF Extended
<1>10. v[1] = rns[1] /\ q # 1 /\ k \notin DOMAIN co
  BY <1>k, <1>q, <1>5, <1>8 DEF Extended
<1>11. Main' = Main BY <1>2, <1>3, <1>9, <1>10 DEF Main, u
<1>12. \A j \in Main :
         co'[j].node = co[j].node /\ co'[j].result = co[j].result /\ co'[j].pc = co[j].pc
  BY <1>2, <1>9 DEF Main, u
<1> QED BY <1>1, <1>10, <1>11, <1>12, MainKept DEF v

\* The end of a node of the run's own runner is Run, or Fail when the failure leads
\* nowhere: the node is wanted, since it was called, and its outcome is the first one,
\* since no other call has claimed it.
LEMMA SettleSeen ==
  ASSUME IInv, NEW i \in DOMAIN co, SettleStep(i)
  PROVE  Contract!Next \/ UNCHANGED Contract!vars
<1>1. PICK f, es : Settled(i, f, es) BY DEF SettleStep
<1> DEFINE r == co[i].rn
           n == co[i].node
           New == DOMAIN co' \ DOMAIN co
           lost == f.result = "fail" /\ ErrorEdges(n) = {}
<1>2. PICK g : /\ Called(i, g, es)
               /\ DOMAIN g = FrameFields
               /\ g.pc = IF es = {} THEN "done" ELSE "joining"
               /\ \A x \in FrameFields \ {"pc"} : g[x] = f[x]
  <2>1. Shape /\ graph \in Graphs BY DEF IInv, TypeOK
  <2>2. es \subseteq DOMAIN graph.edges BY <1>1 DEF Settled, ErrorEdges, ActiveEdges, Out
  <2>3. DOMAIN f = FrameFields /\ Dispatch(i, es, f) BY <1>1 DEF Settled
  <2> QED BY <2>1, <2>2, <2>3, DispatchEffect
<1>3. /\ g.node = n /\ g.rn = r /\ g.result = f.result /\ f.node = n /\ f.rn = r
      /\ f.result \in {"success", "fail"} /\ co[i].pc = "executing"
      /\ UNCHANGED <<graph, outcome>> /\ Tended(r)
      /\ lost => rns'[r].failed
      /\ rns'[r].failed => rns[r].failed \/ lost
      /\ es \in Outcomes(n) \/ (f.result = "fail" /\ es = {})
      /\ f.result = "fail" => es = ErrorEdges(n)
  BY <1>1, <1>2 DEF Settled, FrameFields
<1>4. /\ 1 \in DOMAIN rns /\ rns[1].failed \in BOOLEAN /\ n \in Nodes
      /\ co[i].result = "unset"
  BY <1>3 DEF IInv, Shape, Stored, Claimed, Took, Ran
<1>5. /\ DOMAIN co \subseteq DOMAIN co' /\ co'[i] = g
      /\ \A j \in DOMAIN co \ {i} : co'[j] = co[j]
      /\ \A k \in New : \E e \in es :
           co'[k].node = Target(e) /\ co'[k].rn = r /\ co'[k].result = "unset"
           /\ co'[k].pc = "new"
      /\ \A e \in es : \E k \in New : co'[k].node = Target(e)
  <2>1. \A e : LET x == Frame(Target(e), i, g.rn)
               IN  /\ x.node = Target(e) /\ x.rn = r /\ x.result = "unset" /\ x.pc = "new"
    BY <1>3 DEF Frame
  <2>2. /\ \A k \in New : \E e \in es : co'[k] = Frame(Target(e), i, g.rn)
        /\ \A e \in es : \E k \in New : co'[k] = Frame(Target(e), i, g.rn)
    BY <1>2 DEF Called
  <2>3. /\ DOMAIN co \subseteq DOMAIN co' /\ co'[i] = g
        /\ \A j \in DOMAIN co \ {i} : co'[j] = co[j]
    BY <1>2 DEF Called
  <2> QED BY <2>1, <2>2, <2>3
<1>6. CASE r # 1
  <2>1. Main' = Main BY <1>3, <1>5, <1>6 DEF Main
  <2>2. rns'[1] = rns[1] BY <1>3, <1>4, <1>6 DEF Tended
  <2>3. \A j \in Main : co'[j] = co[j] BY <1>5, <1>6 DEF Main
  <2>4. Contract!Break \/ UNCHANGED Contract!vars BY <1>3, <2>1, <2>2, <2>3, MainKept
  <2> QED BY <2>4 DEF Contract!Next
<1>7. CASE r = 1
  <2>1. Main' = Main \cup New /\ i \in Main /\ New \cap Main = {}
    BY <1>3, <1>5, <1>7 DEF Main
  <2>2. \A j \in Main \ {i} : co'[j] = co[j] BY <1>5 DEF Main
  <2>3. Plan' = Plan /\ Nodes' = Nodes BY <1>3, PlanFixed
  <2>4. WantedNodes' = WantedNodes \cup Reached(es)
    BY <1>3, <1>5, <2>1, <2>2, <2>3 DEF WantedNodes, Reached
  <2>5. RanNodes' = RanNodes \cup {n}
    BY <1>3, <1>5, <2>1, <2>2 DEF RanNodes
  <2>6. outcome # "completed" BY <1>3, <2>1 DEF IInv, Verdict, Returned
  <2>7. n \in WantedNodes BY <1>4, <2>1 DEF WantedNodes
  <2>8. n \notin RanNodes \ graph.pinned
    <3> SUFFICES ASSUME n \in RanNodes, n \notin graph.pinned PROVE FALSE OBVIOUS
    <3>1. PICK j \in Main : co[j].result # "unset" /\ co[j].node = n BY DEF RanNodes
    <3>2. Took(i) /\ Took(j) BY <1>3, <3>1 DEF Took, Ran
    <3>3. i = j BY <1>7, <3>1, <3>2 DEF IInv, Single, Main
    <3> QED BY <1>4, <3>1, <3>3
  <2>9. Contract!Ready(n)
    <3>1. Plan.pinned = graph.pinned BY DEF Plan
    <3> QED BY <2>6, <2>7, <2>8, <3>1 DEF Contract!Ready
  <2>10. rns'[1].failed \in BOOLEAN /\ (rns[1].failed => rns'[1].failed)
    BY <1>3, <1>7 DEF Tended
  <2>11. CASE lost
    <3>1. Broken' = TRUE BY <1>3, <1>7, <2>11 DEF Broken
    <3>2. WantedNodes' = WantedNodes BY <1>3, <2>4, <2>11 DEF Reached
    <3>3. Contract!Fail(n)
      BY <1>3, <2>3, <2>5, <2>9, <3>1, <3>2 DEF Contract!Fail
    <3> QED BY <2>7, <3>3 DEF Contract!Next
  <2>12. CASE ~lost
    <3>1. rns'[1].failed <=> rns[1].failed BY <1>3, <1>7, <2>10, <2>12
    <3>2. \A j \in Main : co'[j].pc \in Raised <=> co[j].pc \in Raised
      BY <1>2, <1>3, <1>5, <2>2 DEF Raised
    <3>3. \A j \in New : co'[j].pc \notin Raised BY <1>5 DEF Raised
    <3>4. (\E j \in Main' : co'[j].pc \in Raised) <=> \E j \in Main : co[j].pc \in Raised
      BY <2>1, <3>2, <3>3
    <3>5. Broken' = Broken BY <3>1, <3>4 DEF Broken
    <3>6. es \in Outcomes(n) BY <1>3, <2>12
    <3>7. Reached(es) \in Plan.leads[n] BY <1>4, <3>6 DEF Plan
    <3>8. Contract!Run(n)
      BY <1>3, <2>3, <2>4, <2>5, <2>9, <3>5, <3>7 DEF Contract!Run
    <3> QED BY <2>7, <3>8 DEF Contract!Next
  <2> QED BY <2>11, <2>12
<1> QED BY <1>6, <1>7

\* run() completes when all that was wanted has run and nothing broke: a call that
\* skipped its node left it to another one, which has returned by then.
LEMMA FinishSeen == ASSUME IInv, Finish PROVE Contract!Next
<1>1. /\ UNCHANGED <<graph, co, rns>> /\ outcome = "none"
      /\ \A k \in Kids(0) : co[k].pc \in Returned
      /\ outcome' = IF rns[1].failed THEN "failed" ELSE "completed"
  BY DEF Finish
<1>2. Plan' = Plan /\ Nodes' = Nodes BY <1>1, PlanFixed
<1>3. Main' = Main BY <1>1 DEF Main
<1>4. WantedNodes' = WantedNodes /\ RanNodes' = RanNodes /\ Broken' = Broken
  BY <1>1, <1>2, <1>3 DEF WantedNodes, RanNodes, Broken
<1>5. \A j \in Main : co[j].pc \in Returned
  <2>1. \A j \in DOMAIN co : co[j].rn = 1 /\ (co[j].parent = 0 \/ Root(j)) => j \in Kids(0)
    BY DEF IInv, Rooted, Kids
  <2>2. \A j \in DOMAIN co : co[j].rn = 1 => co[j].pc \in Returned
    BY <1>1, <2>1, AllReturned
  <2> QED BY <2>2 DEF Main
<1>6. CASE rns[1].failed
  <2>1. Broken BY <1>6 DEF Broken
  <2>2. Contract!GiveUp BY <1>1, <1>2, <1>4, <1>6, <2>1 DEF Contract!GiveUp
  <2> QED BY <2>2 DEF Contract!Next
<1>7. CASE ~rns[1].failed
  <2>1. ~Broken BY <1>5, <1>7 DEF Broken, Returned, Raised
  <2>2. \A j \in Main : co[j].pc = "done" => co[j].node \in RanNodes
    BY DEF IInv, Stored, Main, RanNodes
  <2>3. WantedNodes \subseteq RanNodes
    <3> SUFFICES ASSUME NEW i \in Main, co[i].node \in Nodes
                 PROVE  co[i].node \in RanNodes
      BY DEF WantedNodes
    <3>1. CASE co[i].pc = "done" BY <2>2, <3>1
    <3>2. CASE co[i].pc = "skipped"
      <4>1. co[i].node \in Range(rns[1].executed)
        BY <1>7, <3>2 DEF IInv, Excused, Main
      <4>2. PICK j \in DOMAIN co :
              co[j].rn = 1 /\ co[j].node = co[i].node /\ co[j].pc \in Ran \cup Raised
        BY <4>1 DEF IInv, Taken, Shape
      <4>3. j \in Main /\ co[j].pc = "done"
        BY <1>5, <4>2 DEF Main, Ran, Raised, Returned
      <4> QED BY <2>2, <4>2, <4>3
    <3> QED BY <1>5, <3>1, <3>2 DEF Returned
  <2>4. Contract!Complete
    BY <1>1, <1>2, <1>4, <1>7, <2>1, <2>3 DEF Contract!Complete
  <2> QED BY <2>4 DEF Contract!Next
<1> QED BY <1>6, <1>7

\* run() gives up when a start node's call has raised.
LEMMA AbortSeen == ASSUME IInv, Abort PROVE Contract!Next
<1>1. /\ UNCHANGED <<graph, co>> /\ outcome = "none"
      /\ outcome' \in {"failed", "cancelled"}
  BY DEF Abort
<1>2. PICK k \in Kids(0) : co[k].pc \in Raised BY DEF Abort, Raised
<1>3. k \in Main BY <1>2 DEF Kids, Main, IInv, Rooted
<1>4. Plan' = Plan /\ Nodes' = Nodes BY <1>1, PlanFixed
<1>5. Main' = Main BY <1>1 DEF Main
<1>6. WantedNodes' = WantedNodes /\ RanNodes' = RanNodes
  BY <1>1, <1>4, <1>5 DEF WantedNodes, RanNodes
<1>7. Broken = TRUE /\ Broken' = TRUE BY <1>1, <1>2, <1>3, <1>5 DEF Broken
<1>8. Contract!GiveUp BY <1>1, <1>4, <1>6, <1>7 DEF Contract!GiveUp
<1> QED BY <1>8 DEF Contract!Next

\* A run begins with its start nodes wanted and nothing run.
LEMMA InitSeen == ASSUME Init PROVE Contract!Init
<1> DEFINE ns == SetToSeq(StartNodes)
<1>1. /\ graph \in Graphs /\ co = [k \in DOMAIN ns |-> Frame(ns[k], 0, 1)]
      /\ rns = <<Runner(0, {})>> /\ outcome = "none"
  BY DEF Init
<1>2. StartNodes \subseteq Nodes BY DEF StartNodes
<1>3. Range(ns) = StartNodes
  <2>1. IsFiniteSet(Nodes) BY <1>1, GraphAssumption DEF IsGraph, Nodes
  <2>2. IsFiniteSet(StartNodes) BY <1>2, <2>1, FS_Subset
  <2> QED BY <2>2, SetListed
<1> HIDE DEF ns
<1>4. DOMAIN co = DOMAIN ns
      /\ \A k \in DOMAIN ns : /\ co[k].node = ns[k] /\ co[k].rn = 1
                              /\ co[k].result = "unset" /\ co[k].pc = "new"
  BY <1>1 DEF Frame
<1>5. Main = DOMAIN ns BY <1>4 DEF Main
<1>6. WantedNodes = StartNodes BY <1>2, <1>3, <1>4, <1>5 DEF WantedNodes, Range
<1>7. RanNodes = {} BY <1>4, <1>5 DEF RanNodes
<1>8. Broken = FALSE
  <2>1. rns[1].failed = FALSE BY <1>1 DEF Runner
  <2>2. \A j \in Main : co[j].pc \notin Raised BY <1>4, <1>5 DEF Raised
  <2> QED BY <2>1, <2>2 DEF Broken
<1>9. Plan.start = StartNodes /\ DOMAIN Plan.leads = Nodes BY DEF Plan
<1> QED BY <1>1, <1>2, <1>6, <1>7, <1>8, <1>9 DEF Contract!Init

\* Every run of the runner, seen from its graph, is a run of the contract.
THEOREM Refines == Spec => ImplementsGraphRun
<1>1. Init => Contract!Init BY InitSeen
<1>2. IInv /\ [Next]_vars => [Contract!Next]_(Contract!vars)
  <2> SUFFICES ASSUME IInv, [Next]_vars
               PROVE  Contract!Next \/ UNCHANGED Contract!vars
    OBVIOUS
  <2>1. CASE \E i \in DOMAIN co : Step(i)
    <3>1. PICK i \in DOMAIN co : Step(i) BY <2>1
    <3>2. OrdinaryStep(i) \/ SettleStep(i) \/ Claim(i) \/ StartSub(i) BY <3>1, StepKinds
    <3>3. (Contract!Next \/ Contract!Break) \/ UNCHANGED Contract!vars
      BY <3>2, OrdinaryUnseen, SettleSeen, ClaimUnseen, StartSubUnseen
    <3> QED BY <3>3 DEF Contract!Next
  <2>2. CASE Finish BY <2>2, FinishSeen
  <2>3. CASE Abort BY <2>3, AbortSeen
  <2>4. CASE UNCHANGED <<graph, co, rns, outcome>>
    <3>1. Plan' = Plan /\ Nodes' = Nodes BY <2>4, PlanFixed
    <3>2. Main' = Main BY <2>4 DEF Main
    <3> QED BY <2>4, <3>1, <3>2 DEF Contract!vars, WantedNodes, RanNodes, Broken
  <2> QED BY <2>1, <2>2, <2>3, <2>4 DEF Next, Cancel, CancelExpires, vars
<1> QED BY <1>1, <1>2, InvariantHolds, PTL DEF Spec, ImplementsGraphRun, Contract!Spec
=============================================================================
