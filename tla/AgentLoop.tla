------------------------------ MODULE AgentLoop ------------------------------
(***************************************************************************)
(* The loop of an AI agent node (nodes/ai/agent/agent.py, execute) under   *)
(* its budget (budget.py): a gate before every call of the language model, *)
(* the judgement of an answer by minIterations and successWhen, tool calls *)
(* with the block on duplicates, the closing summary, and the report.      *)
(*                                                                         *)
(* The model's answers are free: any list of tool calls, with or without   *)
(* text, at any cost.  So tool_choice, which only asks the provider for a  *)
(* tool, is left out.  A tool call is its signature, a tool with its       *)
(* arguments (774).  The refusal by a crew's cost cap (463-478) is left    *)
(* out: the spend it looks at is never raised (README, "Not modelled").    *)
(* What a call costs is its tokens as the provider has them, at the prices *)
(* of the code's table; a plain answer is assumed to carry its usage.      *)
(***************************************************************************)
EXTENDS Integers, Sequences

CONSTANTS
    Calls,            \* signatures of tool calls
    Batches,          \* the lists of tool calls an answer may carry
    Measures,         \* what the budget counts: input tokens, cost
    Limit,            \* max_input_tokens, max_cost_usd
    CallMax,          \* the most that one call of the model uses
    Usages,           \* what one call may use
    MaxAttempts,      \* max_retries + 1: how often the registry tries one call
    SystemMax,        \* SYSTEM_MAX_ITERATIONS
    IterationChoices, \* values of the property maxIterations
    MinChoices        \* values of the property minIterations

ASSUME BatchesAssumption == Batches \subseteq Seq(Calls)
ASSUME BudgetAssumption ==
    /\ Limit \in [Measures -> Nat \ {0}]
    /\ CallMax \in [Measures -> Nat]
    /\ Usages \subseteq [Measures -> Nat]
    /\ \A u \in Usages, m \in Measures : u[m] <= CallMax[m]
ASSUME IterationsAssumption ==
    /\ SystemMax \in Nat \ {0}
    /\ IterationChoices \subseteq Nat
    /\ MinChoices \subseteq Nat
ASSUME AttemptsAssumption == MaxAttempts \in Nat \ {0}

VARIABLES
    pc,           \* where execute is
    maxIterations,
    minIterations,
    streaming,    \* props.streaming, and there is an emitter
    iteration,    \* _iteration
    used,         \* budget.used_input_tokens, budget.used_cost_usd
    late,         \* the wall clock has passed max_seconds
    batch,        \* the calls of the last answer still to be executed
    seen,         \* seen_tool_calls
    unblocked,    \* a call of this batch was executed
    streak,       \* consecutive_blocked
    content,      \* final_content is not empty
    called,       \* all_tool_calls is not empty
    reason,       \* budget_exhausted_reason is set
    result,       \* the NodeResult
    spent,        \* history: what all calls of the model used
    llmCalls,     \* history: how many there were
    runs,         \* history: how often the executor of each tool call ran
    summarised    \* history: the closing summary was asked for

conf    == <<maxIterations, minIterations, streaming>>
loop    == <<iteration, used, late, seen, streak>>
answer  == <<batch, unblocked, content, called>>
history == <<spent, llmCalls, runs, summarised>>
vars == <<pc, conf, loop, answer, reason, result, history>>

TypeOK ==
    /\ pc \in {"start", "gate", "calling", "judge", "tools", "after", "summary",
               "report", "done"}
    /\ maxIterations \in IterationChoices /\ minIterations \in MinChoices
    /\ iteration \in 0..SystemMax /\ llmCalls \in Nat
    /\ used \in [Measures -> Nat] /\ spent \in [Measures -> Nat]
    /\ runs \in [Calls -> Nat]
    /\ batch \in Seq(Calls) /\ seen \subseteq Calls
    /\ streak \in 0..2
    /\ {streaming, late, unblocked, content, called, reason, summarised} \subseteq BOOLEAN
    /\ result \in {"none", "success", "failed"}

Init ==
    /\ pc = "start" /\ result = "none"
    /\ maxIterations \in IterationChoices /\ minIterations \in MinChoices
    /\ streaming \in BOOLEAN
    /\ iteration = 0 /\ streak = 0 /\ llmCalls = 0
    /\ used = [m \in Measures |-> 0] /\ spent = [m \in Measures |-> 0]
    /\ runs = [c \in Calls |-> 0] /\ seen = {} /\ batch = <<>>
    /\ late = FALSE /\ unblocked = FALSE /\ content = FALSE /\ called = FALSE
    /\ reason = FALSE /\ summarised = FALSE

\* range(max(maxIterations, 1))
Rounds == IF maxIterations < 1 THEN 1 ELSE maxIterations

\* Bugs: the gate is one call late, or has no ceiling of the system.
ExhaustedLate ==
    \/ iteration >= Rounds \/ iteration >= SystemMax
    \/ late
    \/ \E m \in Measures : used[m] > Limit[m]

ExhaustedUnclamped ==
    iteration >= Rounds \/ late \/ \E m \in Measures : used[m] >= Limit[m]

\* Budget.any_exhausted; max_iterations is clamped to the system's ceiling.
Exhausted ==
    \/ iteration >= Rounds \/ iteration >= SystemMax
    \/ late
    \/ \E m \in Measures : used[m] >= Limit[m]

\* add_llm_usage, and the sum of the history
Plus(f, u) == [m \in Measures |-> f[m] + u[m]]

\* What the budget may be told of a call.  A stream need not report: the one
\* of OpenAI is not asked to, the one of Anthropic loses the input tokens.
Reported(u) ==
    IF streaming THEN {w \in Usages : \A m \in Measures : w[m] <= u[m]} ELSE {u}

Fail ==
    /\ pc' = "done" /\ result' = "failed"
    /\ UNCHANGED <<conf, loop, answer, reason>>

-----------------------------------------------------------------------------
(* Before the loop: no key, no message, an unknown provider, or ready.     *)

StartFails == pc = "start" /\ Fail /\ UNCHANGED history

Start ==
    /\ pc = "start" /\ pc' = "gate"
    /\ UNCHANGED <<conf, loop, answer, reason, result, history>>

(* The loop.  Its for statement ends first, then the gate speaks.          *)

RunOut ==
    /\ pc = "gate" /\ iteration >= Rounds
    /\ pc' = "after"
    /\ UNCHANGED <<conf, loop, answer, reason, result, history>>

BudgetStops ==
    /\ pc = "gate" /\ iteration < Rounds /\ Exhausted
    /\ pc' = "after" /\ reason' = TRUE
    /\ UNCHANGED <<conf, loop, answer, result, history>>

Ask ==
    /\ pc = "gate" /\ iteration < Rounds /\ ~Exhausted
    /\ pc' = "calling" /\ llmCalls' = llmCalls + 1
    /\ UNCHANGED <<conf, loop, answer, reason, result, spent, runs, summarised>>

CallModel ==
    /\ pc = "calling"
    /\ \E u \in Usages : \E w \in Reported(u) :
        spent' = Plus(spent, u) /\ used' = Plus(used, w)
    /\ \E b \in Batches : batch' = b /\ pc' = IF b = <<>> THEN "judge" ELSE "tools"
    /\ content' \in BOOLEAN /\ unblocked' = FALSE
    /\ UNCHANGED <<conf, iteration, late, seen, streak, called, reason, result,
                   llmCalls, runs, summarised>>

\* The call raises, a stream perhaps in the middle of its answer.
ModelFails ==
    /\ pc = "calling" /\ Fail
    /\ \E u \in Usages : spent' = Plus(spent, u)
    /\ UNCHANGED <<llmCalls, runs, summarised>>

\* minIterations, then successWhen: it passes or not.
Judge ==
    /\ pc = "judge"
    /\ \/ iteration + 1 >= minIterations /\ pc' = "after" /\ UNCHANGED iteration
       \/ pc' = "gate" /\ iteration' = iteration + 1
    /\ UNCHANGED <<conf, used, late, seen, streak, answer, reason, result, history>>

\* A bug: a blocked call stays in the list.
BlockForGood ==
    /\ pc = "tools" /\ batch # <<>> /\ Head(batch) \in seen
    /\ called' = TRUE
    /\ UNCHANGED <<pc, conf, loop, batch, unblocked, content, reason, result, history>>

BlockCall ==
    /\ pc = "tools" /\ batch # <<>> /\ Head(batch) \in seen
    /\ batch' = Tail(batch) /\ called' = TRUE
    /\ UNCHANGED <<pc, conf, loop, unblocked, content, reason, result, history>>

\* tool_registry.execute: no attempt for an unknown, throttled or unconnected
\* tool, otherwise one, and after a failure the next, though it may have acted.
Execute(c) == \E n \in 0..MaxAttempts : runs' = [runs EXCEPT ![c] = @ + n]

\* A bug: a call that was executed is not remembered.
RunForgotten ==
    /\ pc = "tools" /\ batch # <<>> /\ Head(batch) \notin seen
    /\ Execute(Head(batch))
    /\ batch' = Tail(batch) /\ called' = TRUE /\ unblocked' = TRUE
    /\ UNCHANGED <<pc, conf, loop, content, reason, result, spent, llmCalls, summarised>>

RunCall ==
    /\ pc = "tools" /\ batch # <<>> /\ Head(batch) \notin seen
    /\ Execute(Head(batch))
    /\ seen' = seen \cup {Head(batch)}
    /\ batch' = Tail(batch) /\ called' = TRUE /\ unblocked' = TRUE
    /\ UNCHANGED <<pc, conf, iteration, used, late, streak, content, reason, result,
                   spent, llmCalls, summarised>>

CallRaises ==
    /\ pc = "tools" /\ batch # <<>> /\ Head(batch) \notin seen
    /\ Execute(Head(batch)) /\ Fail
    /\ UNCHANGED <<spent, llmCalls, summarised>>

\* Two answers in a row that only repeat calls end the loop.
EndRound ==
    /\ pc = "tools" /\ batch = <<>>
    /\ streak' = IF unblocked THEN 0 ELSE streak + 1
    /\ IF streak' >= 2
         THEN pc' = "after" /\ UNCHANGED iteration
         ELSE pc' = "gate" /\ iteration' = iteration + 1
    /\ UNCHANGED <<conf, used, late, seen, answer, reason, result, history>>

(* After the loop: tools were called and the last answer had no text, so   *)
(* one more call, outside the budget and without the duplicate block.      *)

Summarise ==
    /\ pc = "after" /\ ~content /\ called
    /\ \E u \in Usages : spent' = Plus(spent, u)
    /\ content' \in BOOLEAN /\ batch' \in Batches
    /\ llmCalls' = llmCalls + 1 /\ summarised' = TRUE
    /\ pc' = "summary"
    /\ UNCHANGED <<conf, loop, unblocked, called, reason, result, runs>>

\* A bug: there is no fallback.
SummaryFailsSilently ==
    /\ pc = "after" /\ ~content /\ called
    /\ llmCalls' = llmCalls + 1 /\ summarised' = TRUE
    /\ pc' = "report"
    /\ UNCHANGED <<conf, loop, answer, reason, result, spent, runs>>

\* The exception is logged; the hard fallback supplies a text.
SummaryFails ==
    /\ pc = "after" /\ ~content /\ called
    /\ \E u \in Usages : spent' = Plus(spent, u)
    /\ content' = TRUE /\ llmCalls' = llmCalls + 1 /\ summarised' = TRUE
    /\ pc' = "report"
    /\ UNCHANGED <<conf, loop, batch, unblocked, called, reason, result, runs>>

SummaryCall ==
    /\ pc = "summary" /\ batch # <<>>
    /\ Execute(Head(batch)) /\ batch' = Tail(batch)
    /\ UNCHANGED <<pc, conf, loop, unblocked, content, called, reason, result,
                   spent, llmCalls, summarised>>

SummaryCallRaises ==
    /\ pc = "summary" /\ batch # <<>>
    /\ Execute(Head(batch)) /\ content' = TRUE /\ pc' = "report"
    /\ UNCHANGED <<conf, loop, batch, unblocked, called, reason, result,
                   spent, llmCalls, summarised>>

SummaryEnds ==
    /\ pc = "summary" /\ batch = <<>>
    /\ content' = TRUE /\ pc' = "report"
    /\ UNCHANGED <<conf, loop, batch, unblocked, called, reason, result, history>>

NoSummary ==
    /\ pc = "after" /\ (content \/ ~called)
    /\ pc' = "report"
    /\ UNCHANGED <<conf, loop, answer, reason, result, history>>

Report ==
    /\ pc = "report" /\ pc' = "done" /\ result' = "success"
    /\ UNCHANGED <<conf, loop, answer, reason, history>>

\* Writing the memory raises.
ReportFails == pc = "report" /\ Fail /\ UNCHANGED history

\* The wall clock passes max_seconds.
TimePasses ==
    /\ pc # "done" /\ ~late /\ late' = TRUE
    /\ UNCHANGED <<pc, conf, iteration, used, seen, streak, answer, reason, result, history>>

\* The steps of execute between its calls of models and tools, and those calls.
LocalStep ==
    \/ StartFails \/ Start \/ RunOut \/ BudgetStops \/ Ask \/ Judge \/ BlockCall
    \/ EndRound \/ SummaryEnds \/ NoSummary \/ Report \/ ReportFails

RemoteCall ==
    \/ CallModel \/ ModelFails \/ RunCall \/ CallRaises
    \/ Summarise \/ SummaryFails \/ SummaryCall \/ SummaryCallRaises

Next == LocalStep \/ RemoteCall \/ TimePasses

\* Calls of models have timeout=None, tools need not have one, and max_seconds
\* is looked at between calls only: nothing says that a remote call returns.
Spec == Init /\ [][Next]_vars /\ WF_vars(LocalStep)

-----------------------------------------------------------------------------
\* However the budget of a loop that does not stream is overshot, it is by less
\* than one call of the model, and by one more for the summary, which the
\* budget never sees.  For a loop that streams the same holds of what the
\* budget is told; what it spends is bounded by CallsBounded alone.
SpendBounded ==
    \A m \in Measures :
        /\ used[m] < Limit[m] + CallMax[m]
        /\ ~streaming =>
            spent[m] < Limit[m] + (IF summarised THEN 2 * CallMax[m] ELSE CallMax[m])

\* The model is called at most once per iteration, never beyond the system's
\* ceiling whatever the user sets, and once more for the summary.
CallsBounded ==
    LET ceiling == IF Rounds < SystemMax THEN Rounds ELSE SystemMax
    IN  llmCalls <= ceiling + (IF summarised THEN 1 ELSE 0)

\* A tool call is handed to the registry once in a run of the agent, whatever
\* the model repeats, so its executor runs no oftener than the retries of one
\* call allow; only the summary, which skips the block, can repeat it.
NoRepeat == \A c \in Calls : runs[c] <= MaxAttempts \/ summarised

\* An agent that called tools reports a text, whichever way its loop and its
\* summary end.
AlwaysContent == (result = "success" /\ called) => content

\* A remote call is out: of the model for an answer, of the model for the
\* summary, or of a tool.
Waiting ==
    \/ pc = "calling"
    \/ pc = "after" /\ ~content /\ called
    \/ pc = "tools" /\ batch # <<>> /\ Head(batch) \notin seen
    \/ pc = "summary" /\ batch # <<>>

\* Every execution of the node ends, whatever the model answers, unless one
\* call of the model or of a tool never returns: no limit of the budget ends it.
AgentEnds == <>(pc = "done") \/ <>[]Waiting
=============================================================================
