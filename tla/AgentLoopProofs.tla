--------------------------- MODULE AgentLoopProofs ---------------------------
(***************************************************************************)
(* Proofs about AgentLoop for any tool calls, any budget and any choice of *)
(* iterations: type correctness and the four safety properties.  IInv says *)
(* how the history relates to what the code counts at each place: the      *)
(* budget holds before a call of the model, and lags by one call after it; *)
(* without streaming it has been told of all that was spent.               *)
(***************************************************************************)
EXTENDS AgentLoop, TLAPS

USE BatchesAssumption, BudgetAssumption, IterationsAssumption, AttemptsAssumption

Ceiling == IF Rounds < SystemMax THEN Rounds ELSE SystemMax

\* Where the answer to the last call of the model is being dealt with
Answering == pc \in {"calling", "judge", "tools"}

\* Without streaming, the budget was told what was spent while the loop runs:
\* a call that fails ends it, and the summary comes after it.
Accounted ==
    (~streaming /\ ~summarised /\ pc # "done") => spent = used

\* A call is made within the limit, so after it the excess is below one call.
\* While it is out, the limit still holds.
Overshoot ==
    \A m \in Measures :
        /\ used[m] < Limit[m] + CallMax[m]
        /\ pc = "calling" => used[m] < Limit[m]

SpentOvershoot ==
    ~streaming => \A m \in Measures :
        spent[m] < Limit[m] + (IF summarised THEN 2 * CallMax[m] ELSE CallMax[m])

\* One call of the model for each iteration that is over, one for the current
\* one, which is within the ceiling, and one for the summary.
Counted ==
    /\ iteration <= Ceiling
    /\ Answering => iteration < Ceiling
    /\ pc \in {"start", "gate"} => llmCalls <= iteration
    /\ ~summarised => llmCalls <= Ceiling
    /\ Answering => llmCalls <= iteration + 1
    /\ llmCalls <= Ceiling + 1

\* The summary comes last.
Phases ==
    /\ pc \in {"start", "gate", "calling", "judge", "tools", "after"} => ~summarised
    /\ pc = "summary" => summarised

\* Outside of the summary a call was tried as often as its retries allow if it
\* is remembered, and otherwise not at all; a call that raised ends the run.
Remembered ==
    ~summarised => \A c \in Calls :
        /\ runs[c] <= MaxAttempts
        /\ (pc # "done" /\ c \notin seen) => runs[c] = 0

\* At the report there is a text if tools were called.
Told == (pc = "report" \/ result = "success") => (content \/ ~called)

Results == (result = "none") <=> (pc # "done")

\* The streak ends the loop at two.
Streak == pc \in {"start", "gate", "calling", "judge", "tools"} => streak < 2

IInv ==
    /\ TypeOK /\ Accounted /\ Overshoot /\ SpentOvershoot /\ Counted /\ Phases
    /\ Remembered /\ Told /\ Results /\ Streak

-----------------------------------------------------------------------------

\* Adding usages gives usages, measure by measure.
LEMMA PlusType ==
  ASSUME NEW f \in [Measures -> Nat], NEW u \in Usages
  PROVE  /\ Plus(f, u) \in [Measures -> Nat]
         /\ \A m \in Measures : Plus(f, u)[m] = f[m] + u[m]
         /\ \A m \in Measures : u[m] \in Nat /\ u[m] <= CallMax[m]
BY DEF Plus

\* The head and the tail of a list of calls that is not empty.
LEMMA BatchHead ==
  ASSUME NEW b \in Seq(Calls), b # <<>>
  PROVE  Head(b) \in Calls /\ Tail(b) \in Seq(Calls)
OBVIOUS

\* The ceiling is a number of iterations the gate lets through.
LEMMA CeilingType ==
  ASSUME TypeOK
  PROVE  /\ Rounds \in Nat \ {0} /\ Ceiling \in Nat \ {0}
         /\ iteration < Rounds /\ ~Exhausted => iteration < Ceiling
         /\ Ceiling <= SystemMax
BY DEF TypeOK, Rounds, Ceiling, Exhausted

\* One more call is paid for, at most at the price of the dearest.
LEMMA PlusBounded ==
  ASSUME NEW f \in [Measures -> Nat], NEW u \in Usages
  PROVE  \A m \in Measures : Plus(f, u)[m] <= f[m] + CallMax[m]
<1> SUFFICES ASSUME NEW m \in Measures PROVE Plus(f, u)[m] <= f[m] + CallMax[m]
  OBVIOUS
<1>1. Plus(f, u)[m] = f[m] + u[m] /\ u[m] \in Nat /\ u[m] <= CallMax[m]
  BY PlusType
<1>2. f[m] \in Nat /\ CallMax[m] \in Nat
  OBVIOUS
<1> QED BY <1>1, <1>2

\* What the budget is told of a usage is a usage, and no more than it.
LEMMA ReportedType ==
  ASSUME NEW u \in Usages, NEW w \in Reported(u)
  PROVE  /\ w \in Usages /\ \A m \in Measures : w[m] <= u[m]
         /\ ~streaming => w = u
BY DEF Reported

\* Attempts at a call are counted for that call, up to the registry's limit.
LEMMA ExecuteType ==
  ASSUME TypeOK, NEW c \in Calls, Execute(c)
  PROVE  /\ runs' \in [Calls -> Nat]
         /\ \A d \in Calls : d # c => runs'[d] = runs[d]
         /\ runs[c] = 0 => runs'[c] <= MaxAttempts
BY DEF Execute, TypeOK

LEMMA InitHolds == Init => IInv
<1> SUFFICES ASSUME Init PROVE IInv
  OBVIOUS
<1>1. TypeOK
  <2>1. <<>> \in Seq(Calls)
    OBVIOUS
  <2>2. /\ used \in [Measures -> Nat] /\ spent \in [Measures -> Nat]
        /\ runs \in [Calls -> Nat]
    BY DEF Init
  <2>3. {streaming, late, unblocked, content, called, reason, summarised} \subseteq BOOLEAN
    BY DEF Init
  <2>4. iteration \in 0..SystemMax
    BY DEF Init
  <2> QED BY <2>1, <2>2, <2>3, <2>4 DEF Init, TypeOK
<1>2. Overshoot
  BY DEF Init, Overshoot
<1>3. Counted
  BY <1>1, CeilingType DEF Init, Counted, Answering
<1>4. SpentOvershoot
  BY DEF Init, SpentOvershoot
<1> QED
  BY <1>1, <1>2, <1>3, <1>4 DEF Init, IInv, Accounted, Phases, Remembered,
     Told, Results, Streak

\* Every step keeps the invariant.
LEMMA StepKeeps == IInv /\ [Next]_vars => IInv'
<1> SUFFICES ASSUME IInv, [Next]_vars PROVE IInv'
  OBVIOUS
<1> USE DEF IInv, conf, loop, answer, history, Fail
<1>0. Rounds' = Rounds /\ Ceiling' = Ceiling /\ streaming' = streaming
  BY DEF Next, LocalStep, RemoteCall, vars, Rounds, Ceiling,
         StartFails, Start, RunOut, BudgetStops, Ask, CallModel, ModelFails, Judge,
         BlockCall, RunCall, CallRaises, EndRound, Summarise, SummaryFails, SummaryCall,
         SummaryCallRaises, SummaryEnds, NoSummary, Report, ReportFails, TimePasses
<1>1. /\ Rounds \in Nat \ {0} /\ Ceiling \in Nat \ {0}
      /\ iteration < Rounds /\ ~Exhausted => iteration < Ceiling
      /\ Ceiling <= SystemMax
  BY CeilingType
<1>2. \A m \in Measures : /\ used[m] \in Nat /\ spent[m] \in Nat
                          /\ Limit[m] \in Nat /\ CallMax[m] \in Nat
  BY DEF TypeOK
<1> USE <1>0, <1>1
    DEF TypeOK, Accounted, Overshoot, SpentOvershoot, Counted, Answering, Phases,
        Remembered, Told, Results, Streak
<1>3. CASE StartFails
  BY <1>3 DEF StartFails
<1>4. CASE Start
  BY <1>4 DEF Start
<1>5. CASE RunOut
  BY <1>5 DEF RunOut
<1>6. CASE BudgetStops
  BY <1>6 DEF BudgetStops
<1>7. CASE Ask
  <2>1. \A m \in Measures : used[m] < Limit[m]
    BY <1>2, <1>7 DEF Ask, Exhausted
  <2> QED BY <1>7, <2>1 DEF Ask
<1>8. CASE CallModel
  <2>1. PICK u \in Usages : \E w \in Reported(u) :
          spent' = Plus(spent, u) /\ used' = Plus(used, w)
    BY <1>8 DEF CallModel
  <2>2. PICK w \in Reported(u) : spent' = Plus(spent, u) /\ used' = Plus(used, w)
    BY <2>1
  <2>3. w \in Usages /\ (~streaming => w = u)
    BY ReportedType
  <2>4. used' \in [Measures -> Nat] /\ spent' \in [Measures -> Nat] /\ batch' \in Seq(Calls)
    BY <1>8, <2>2, <2>3, PlusType DEF CallModel
  <2>5. Overshoot' /\ Accounted' /\ SpentOvershoot'
    <3>1. \A m \in Measures : used[m] < Limit[m]
      BY <1>8 DEF CallModel
    <3>2. \A m \in Measures : used'[m] = used[m] + w[m] /\ spent'[m] = spent[m] + u[m]
      BY <2>2 DEF Plus
    <3>3. \A m \in Measures : /\ u[m] \in Nat /\ u[m] <= CallMax[m]
                               /\ w[m] \in Nat /\ w[m] <= CallMax[m]
      BY <2>3
    <3>4. pc' \in {"judge", "tools"} /\ ~summarised'
      BY <1>8 DEF CallModel
    <3>5. \A m \in Measures : used'[m] < Limit[m] + CallMax[m]
      BY <1>2, <3>1, <3>2, <3>3
    <3>6. ~streaming => spent' = used'
      BY <1>8, <2>2, <2>3 DEF CallModel
    <3> QED BY <3>4, <3>5, <3>6
  <2>6. TypeOK'
    <3>1. pc' \in {"judge", "tools"}
      BY <1>8 DEF CallModel
    <3>2. {streaming, late, unblocked, content, called, reason, summarised}' \subseteq BOOLEAN
      BY <1>8 DEF CallModel
    <3> QED BY <1>8, <2>4, <3>1, <3>2 DEF CallModel
  <2>7. Counted'
    BY <1>8 DEF CallModel
  <2> QED BY <1>8, <2>5, <2>6, <2>7 DEF CallModel
<1>9. CASE ModelFails
  <2>1. PICK u \in Usages : spent' = Plus(spent, u)
    BY <1>9 DEF ModelFails
  <2>2. spent' \in [Measures -> Nat] /\ \A m \in Measures : spent'[m] <= spent[m] + CallMax[m]
    BY <2>1, PlusType, PlusBounded
  <2>3. SpentOvershoot'
    BY <1>2, <1>9, <2>2 DEF ModelFails
  <2> QED BY <1>9, <2>2, <2>3 DEF ModelFails
<1>10. CASE Judge
  BY <1>10 DEF Judge
<1>11. CASE BlockCall
  BY <1>11, BatchHead DEF BlockCall
<1>12. CASE RunCall
  <2>1. Head(batch) \in Calls /\ Tail(batch) \in Seq(Calls)
    BY <1>12, BatchHead DEF RunCall
  <2>2. /\ runs' \in [Calls -> Nat]
        /\ \A d \in Calls : d # Head(batch) => runs'[d] = runs[d]
        /\ runs[Head(batch)] = 0 => runs'[Head(batch)] <= MaxAttempts
    BY <1>12, <2>1, ExecuteType DEF RunCall
  <2>3. Remembered'
    BY <1>12, <2>1, <2>2 DEF RunCall
  <2> QED BY <1>12, <2>1, <2>2, <2>3 DEF RunCall
<1>13. CASE CallRaises
  <2>1. Head(batch) \in Calls
    BY <1>13, BatchHead DEF CallRaises
  <2>2. /\ runs' \in [Calls -> Nat]
        /\ \A d \in Calls : d # Head(batch) => runs'[d] = runs[d]
        /\ runs[Head(batch)] = 0 => runs'[Head(batch)] <= MaxAttempts
    BY <1>13, <2>1, ExecuteType DEF CallRaises
  <2>3. Remembered'
    BY <1>13, <2>1, <2>2 DEF CallRaises
  <2> QED BY <1>13, <2>2, <2>3 DEF CallRaises
<1>14. CASE EndRound
  BY <1>14 DEF EndRound
<1>15. CASE Summarise
  <2>1. PICK u \in Usages : spent' = Plus(spent, u)
    BY <1>15 DEF Summarise
  <2>2. spent' \in [Measures -> Nat] /\ batch' \in Seq(Calls)
    BY <1>15, <2>1, PlusType DEF Summarise
  <2>3. \A m \in Measures : spent'[m] <= spent[m] + CallMax[m]
    BY <2>1, PlusType, PlusBounded
  <2>4. SpentOvershoot'
    BY <1>2, <1>15, <2>2, <2>3 DEF Summarise
  <2> QED BY <1>15, <2>2, <2>4 DEF Summarise
<1>16. CASE SummaryFails
  <2>1. PICK u \in Usages : spent' = Plus(spent, u)
    BY <1>16 DEF SummaryFails
  <2>2. spent' \in [Measures -> Nat] /\ \A m \in Measures : spent'[m] <= spent[m] + CallMax[m]
    BY <2>1, PlusType, PlusBounded
  <2>3. SpentOvershoot'
    BY <1>2, <1>16, <2>2 DEF SummaryFails
  <2> QED BY <1>16, <2>2, <2>3 DEF SummaryFails
<1>17. CASE SummaryCall
  BY <1>17, BatchHead, ExecuteType DEF SummaryCall
<1>18. CASE SummaryCallRaises
  BY <1>18, BatchHead, ExecuteType DEF SummaryCallRaises
<1>19. CASE SummaryEnds
  BY <1>19 DEF SummaryEnds
<1>20. CASE NoSummary
  BY <1>20 DEF NoSummary
<1>21. CASE Report
  BY <1>21 DEF Report
<1>22. CASE ReportFails
  BY <1>22 DEF ReportFails
<1>23. CASE TimePasses
  BY <1>23 DEF TimePasses
<1>24. CASE UNCHANGED vars
  BY <1>24 DEF vars
<1> QED
  BY <1>3, <1>4, <1>5, <1>6, <1>7, <1>8, <1>9, <1>10, <1>11, <1>12, <1>13, <1>14,
     <1>15, <1>16, <1>17, <1>18, <1>19, <1>20, <1>21, <1>22, <1>23, <1>24
     DEF Next, LocalStep, RemoteCall

-----------------------------------------------------------------------------

\* The invariant holds in every execution of the node.
THEOREM InvariantHolds == Spec => []IInv
BY InitHolds, StepKeeps, PTL DEF Spec

\* The loop is type correct, and its iterations stay within the ceiling.
THEOREM TypeCorrect == Spec => []TypeOK
<1>1. IInv => TypeOK
  BY DEF IInv
<1> QED BY <1>1, InvariantHolds, PTL

\* What the budget is told overshoots it by less than one call of the model;
\* without streaming this is what was spent, up to one call for the summary.
THEOREM SpendIsBounded == Spec => []SpendBounded
<1>1. IInv => SpendBounded
  BY DEF IInv, Overshoot, SpentOvershoot, SpendBounded
<1> QED BY <1>1, InvariantHolds, PTL

\* No run of the agent calls the model more often than its iterations allow.
THEOREM CallsAreBounded == Spec => []CallsBounded
<1>1. IInv => CallsBounded
  BY CeilingType DEF IInv, Counted, CallsBounded, Ceiling, TypeOK
<1> QED BY <1>1, InvariantHolds, PTL

\* The executor of a tool call runs no oftener than the retries of one call,
\* unless the summary repeats it.
THEOREM CallsRunOnce == Spec => []NoRepeat
<1>1. IInv => NoRepeat
  BY DEF IInv, Remembered, NoRepeat
<1> QED BY <1>1, InvariantHolds, PTL

\* An agent that called tools reports a text.
THEOREM AnswersHaveText == Spec => []AlwaysContent
<1>1. IInv => AlwaysContent
  BY DEF IInv, Told, AlwaysContent
<1> QED BY <1>1, InvariantHolds, PTL
=============================================================================
