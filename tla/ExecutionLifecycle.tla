--------------------------- MODULE ExecutionLifecycle ---------------------------
(***************************************************************************)
(* The life of an Execution row, and of the CrewExecution row of a crew's  *)
(* run: the API that creates, enqueues and cancels it                      *)
(* (execution_engine/engine/__init__.py, features/executions/service.py),  *)
(* the Celery task that runs it (apps/worker/app/jobs/tasks.py), the crash *)
(* net of that task and the beat reaper (features/executions/repository.py)*)
(* A row can also wait for an event first ("listen"): a delivery that finds*)
(* its listen slot dispatches it, while cancel_listen, the poll loop and   *)
(* the sweeper (features/triggers) may each write an end over it.          *)
(* Every database write and every Redis command is a step of its own; what *)
(* the workflow does between them is the module WorkflowRunner.            *)
(***************************************************************************)
EXTENDS Integers

CONSTANTS
  Exec,          \* execution ids, of workflows and of crews
  Worker,        \* worker processes; each runs one task at a time
  NoExec,        \* a worker that runs no task
  MaxDeliveries, \* bound: how often the broker hands out one message
  MaxClaims      \* bound: how many deliveries hold one listen slot at a time

ASSUME NoExecAssumption == NoExec \notin Exec
ASSUME DeliveriesAssumption == MaxDeliveries \in Nat \ {0}
ASSUME ClaimsAssumption == MaxClaims \in Nat

VARIABLES
  status,     \* status of the row, "none" while it does not exist
  crew,       \* ids whose row is in crew_executions, not in executions
  stale,      \* rows of executions whose started_at is older than _STALE_EXECUTION_SECONDS
  submitting, \* commits of each row whose .delay() has not been called yet
  queue,      \* copies of the task message waiting in the broker
  at,         \* the execution each worker runs
  wpc,        \* where each worker is in execute_workflow
  cancelKey,  \* executions whose execution:cancel:<id> key exists
  cancelPc,   \* the cancel request in flight for each execution
  slot,       \* executions whose listen slot is in Redis
  held,       \* how many deliveries have read that slot and may dispatch the row
  owed,       \* the end that cancel_listen, poll loop or sweeper is about to write
  reaping,    \* ids the reaper has selected and not updated yet
  deliveries, \* history: how often the message was handed to a worker
  reaped,     \* history: executions the reaper has failed
  logFailed,  \* history: executions whose log write after `completed` raised
  overtaken,  \* history: listens ended by such a write after their dispatch
  abandoned   \* history: executions a worker left without a verdict

listenVars == <<slot, held, owed, overtaken>>
apiVars == <<submitting, cancelPc, crew, listenVars>>
workerVars == <<at, wpc>>
historyVars == <<deliveries, reaped, logFailed, abandoned>>
vars == <<status, stale, queue, cancelKey, reaping,
          apiVars, workerVars, historyVars>>

Status == {"none", "waiting", "pending", "running", "cancelling",
           "completed", "failed", "cancelled", "timeout"}
\* The statuses mark_terminal_if_not takes for final.
Finished == {"completed", "failed", "cancelled"}
WPC == {"idle", "setup", "started", "body", "returned", "notify",
        "sawCancel", "notifyCancel", "raised", "escaped", "net"}

TypeOK ==
  /\ status \in [Exec -> Status]
  /\ crew \in SUBSET Exec
  /\ stale \in SUBSET Exec
  /\ submitting \in [Exec -> Nat]
  /\ queue \in [Exec -> Nat]
  /\ at \in [Worker -> Exec \cup {NoExec}]
  /\ wpc \in [Worker -> WPC]
  /\ \A w \in Worker : at[w] = NoExec <=> wpc[w] = "idle"
  /\ cancelKey \in SUBSET Exec
  /\ cancelPc \in [Exec -> {"idle", "checked", "flagged"}]
  /\ slot \in SUBSET Exec
  /\ held \in [Exec -> Nat]
  /\ owed \in [Exec -> {"none", "cancel", "expire"}]
  /\ overtaken \in SUBSET Exec
  /\ reaping \in SUBSET Exec
  /\ deliveries \in [Exec -> Nat]
  /\ reaped \in SUBSET Exec
  /\ logFailed \in SUBSET Exec
  /\ abandoned \in SUBSET Exec

Init ==
  /\ status = [e \in Exec |-> "none"]
  /\ crew = {}
  /\ stale = {}
  /\ submitting = [e \in Exec |-> 0]
  /\ queue = [e \in Exec |-> 0]
  /\ at = [w \in Worker |-> NoExec]
  /\ wpc = [w \in Worker |-> "idle"]
  /\ cancelKey = {}
  /\ cancelPc = [e \in Exec |-> "idle"]
  /\ slot = {} /\ overtaken = {}
  /\ held = [e \in Exec |-> 0]
  /\ owed = [e \in Exec |-> "none"]
  /\ reaping = {}
  /\ deliveries = [e \in Exec |-> 0]
  /\ reaped = {}
  /\ logFailed = {}
  /\ abandoned = {}

-----------------------------------------------------------------------------
(* ExecutionRepository.                                                    *)

\* update_status: an unconditional write; `running` also sets started_at.
UpdateStatus(e, s) ==
  /\ status' = [status EXCEPT ![e] = s]
  /\ stale' = IF s = "running" THEN stale \ {e} ELSE stale

RowUnchanged == UNCHANGED <<status, stale>>

-----------------------------------------------------------------------------
(* The API process.                                                        *)

\* trigger_workflow, rerun_execution: the row is created and committed.
Trigger(e) ==
  /\ status[e] = "none"
  /\ status' = [status EXCEPT ![e] = "pending"]
  /\ submitting' = [submitting EXCEPT ![e] = @ + 1]
  /\ UNCHANGED <<crew, stale, queue, cancelKey, cancelPc, listenVars, reaping, workerVars, historyVars>>

\* trigger_crew: the same, in the table of the crews.
TriggerCrew(e) ==
  /\ status[e] = "none"
  /\ status' = [status EXCEPT ![e] = "pending"]
  /\ crew' = crew \cup {e}
  /\ submitting' = [submitting EXCEPT ![e] = @ + 1]
  /\ UNCHANGED <<stale, queue, cancelKey, cancelPc, listenVars, reaping, workerVars, historyVars>>

\* execute_workflow.delay or execute_crew.delay, after the commit.
Enqueue(e) ==
  /\ submitting[e] > 0
  /\ submitting' = [submitting EXCEPT ![e] = @ - 1]
  /\ queue' = [queue EXCEPT ![e] = @ + 1]
  /\ UNCHANGED <<status, crew, stale, cancelKey, cancelPc, listenVars, reaping,
                 workerVars, historyVars>>

\* The API process dies, or the broker refuses, between commit and delay.
SubmitLost(e) ==
  /\ submitting[e] > 0
  /\ submitting' = [submitting EXCEPT ![e] = @ - 1]
  /\ UNCHANGED <<status, crew, stale, queue, cancelKey, cancelPc, listenVars, reaping,
                 workerVars, historyVars>>

\* cancel_execution reads the row and refuses any other status; it does not know
\* the runs of crews.  a2a_cancel (features/a2a/router.py) goes the same way.
CancelCheck(e) ==
  /\ e \notin crew
  /\ cancelPc[e] = "idle" /\ status[e] \in {"pending", "running"}
  /\ cancelPc' = [cancelPc EXCEPT ![e] = "checked"]
  /\ UNCHANGED <<status, crew, stale, queue, cancelKey, submitting, listenVars, reaping,
                 workerVars, historyVars>>

\* It sets the Redis key the runner looks for (ex=300).
CancelFlag(e) ==
  /\ cancelPc[e] = "checked"
  /\ cancelPc' = [cancelPc EXCEPT ![e] = "flagged"]
  /\ cancelKey' = cancelKey \cup {e}
  /\ UNCHANGED <<status, crew, stale, queue, submitting, listenVars, reaping,
                 workerVars, historyVars>>

\* It writes `cancelling`, whatever the row has become since the check.
CancelWrite(e) ==
  /\ cancelPc[e] = "flagged"
  /\ cancelPc' = [cancelPc EXCEPT ![e] = "idle"]
  /\ UpdateStatus(e, "cancelling")
  /\ UNCHANGED <<crew, queue, cancelKey, submitting, listenVars, reaping,
                 workerVars, historyVars>>

\* The request dies half way (API restart, Redis or database error).
CancelLost(e) ==
  /\ cancelPc[e] # "idle"
  /\ cancelPc' = [cancelPc EXCEPT ![e] = "idle"]
  /\ UNCHANGED <<status, crew, stale, queue, cancelKey, submitting, listenVars, reaping,
                 workerVars, historyVars>>

\* The 300 seconds of the key are up.
CancelKeyExpires(e) ==
  /\ e \in cancelKey
  /\ cancelKey' = cancelKey \ {e}
  /\ UNCHANGED <<status, stale, queue, apiVars, reaping, workerVars, historyVars>>

-----------------------------------------------------------------------------
(* A listen.  Its slot, and how deliveries race for it, is ListenSlots; here *)
(* it matters who has read the slot, and writes the row later.             *)

OtherThanListen == UNCHANGED <<crew, queue, cancelKey, cancelPc, reaping, workerVars, historyVars>>

\* listen_workflow: the row is committed, then the slot is opened (or the
\* request dies before it).
Listen(e) ==
  /\ status[e] = "none"
  /\ status' = [status EXCEPT ![e] = "waiting"]
  /\ slot' \in {slot, slot \cup {e}}
  /\ UNCHANGED <<stale, submitting, held, owed, overtaken>>
  /\ OtherThanListen

\* A delivery reads the slot, in the webhook or in the poll loop.
ReadSlot(e) ==
  /\ e \in slot /\ held[e] < MaxClaims
  /\ held' = [held EXCEPT ![e] = @ + 1]
  /\ RowUnchanged
  /\ UNCHANGED <<submitting, slot, owed, overtaken>>
  /\ OtherThanListen

\* The slot is deleted, by a claim or a cancel, expires or is replaced.
SlotGone(e) ==
  /\ e \in slot
  /\ slot' = slot \ {e}
  /\ RowUnchanged
  /\ UNCHANGED <<submitting, held, owed, overtaken>>
  /\ OtherThanListen

\* dispatch_existing, behind the deletion of the slot: whatever the row has
\* become meanwhile, it is `pending` again.
DispatchExisting(e) ==
  /\ held[e] > 0 /\ e \notin slot
  /\ held' = [held EXCEPT ![e] = @ - 1]
  /\ UpdateStatus(e, "pending")
  /\ submitting' = [submitting EXCEPT ![e] = @ + 1]
  /\ UNCHANGED <<slot, owed, overtaken>>
  /\ OtherThanListen

\* The delivery loses the claim, finds no workflow, or dies.
ClaimLost(e) ==
  /\ held[e] > 0
  /\ held' = [held EXCEPT ![e] = @ - 1]
  /\ RowUnchanged
  /\ UNCHANGED <<submitting, slot, owed, overtaken>>
  /\ OtherThanListen

\* cancel_listen gets the execution from the slot it closes; sweeper and poll
\* loop look at the row, which the loop created as `waiting`.
DecideEnd(e) ==
  /\ owed[e] = "none"
  /\ \/ e \in slot /\ owed' = [owed EXCEPT ![e] = "cancel"]
     \/ status[e] = "waiting" /\ owed' = [owed EXCEPT ![e] = "expire"]
  /\ RowUnchanged
  /\ UNCHANGED <<submitting, slot, held, overtaken>>
  /\ OtherThanListen

\* They write the end with update_status, whatever the row is by now.
WriteEnd(e, s) ==
  /\ owed[e] = (IF s = "cancelled" THEN "cancel" ELSE "expire")
  /\ owed' = [owed EXCEPT ![e] = "none"]
  /\ UpdateStatus(e, s)
  /\ overtaken' = IF status[e] = "waiting" THEN overtaken ELSE overtaken \cup {e}
  /\ UNCHANGED <<submitting, slot, held>>
  /\ OtherThanListen

\* The write fails (logged and swallowed), or its process dies.
EndLost(e) ==
  /\ owed[e] # "none"
  /\ owed' = [owed EXCEPT ![e] = "none"]
  /\ RowUnchanged
  /\ UNCHANGED <<submitting, slot, held, overtaken>>
  /\ OtherThanListen

-----------------------------------------------------------------------------
(* The worker: execute_workflow and _run_workflow, execute_crew and        *)
(* _run_crew.  The second pair writes no log rows.                         *)

Step(w, from, to) == wpc[w] = from /\ wpc' = [wpc EXCEPT ![w] = to]

\* The task returns: acks_late acknowledges the message now.
Ack(w) ==
  /\ wpc' = [wpc EXCEPT ![w] = "idle"]
  /\ at' = [at EXCEPT ![w] = NoExec]

\* Steps that touch only the worker's own position.
Silent == UNCHANGED <<status, stale, queue, cancelKey, reaping, apiVars, historyVars>>

Take(w, e) ==
  /\ Step(w, "idle", "setup")
  /\ queue[e] > 0
  /\ queue' = [queue EXCEPT ![e] = @ - 1]
  /\ at' = [at EXCEPT ![w] = e]
  /\ deliveries' = [deliveries EXCEPT ![e] = @ + 1]
  /\ UNCHANGED <<status, stale, cancelKey, reaping, apiVars, reaped, logFailed, abandoned>>

\* Loading the workflow or the credentials raises, before the inner try; so
\* may the log write after `running`.
SetupFails(w) ==
  /\ \/ Step(w, "setup", "escaped")
     \/ Step(w, "started", "escaped") /\ at[w] \notin crew
  /\ UNCHANGED at /\ Silent

\* update_status(running).
WriteRunning(w) ==
  /\ Step(w, "setup", "started")
  /\ UpdateStatus(at[w], "running")
  /\ UNCHANGED <<at, queue, cancelKey, reaping, apiVars, historyVars>>

EnterBody(w) == Step(w, "started", "body") /\ UNCHANGED at /\ Silent

\* The runner returns an output, raises, or finds the cancel key before a node.
BodyReturns(w) == Step(w, "body", "returned") /\ UNCHANGED at /\ Silent
BodyRaises(w) == Step(w, "body", "raised") /\ UNCHANGED at /\ Silent
BodySeesCancel(w) ==
  /\ at[w] \in cancelKey
  /\ Step(w, "body", "sawCancel")
  /\ UNCHANGED at /\ Silent

\* update_status(completed), and the log and event that follow it in the same
\* try: a failure of either goes to `except Exception`.
WriteCompleted(w) ==
  /\ Step(w, "returned", "notify")
  /\ UpdateStatus(at[w], "completed")
  /\ UNCHANGED <<at, queue, cancelKey, reaping, apiVars, historyVars>>
WriteCompletedFails(w) == Step(w, "returned", "raised") /\ UNCHANGED at /\ Silent
LogCompletedFails(w) ==
  /\ at[w] \notin crew
  /\ Step(w, "notify", "raised")
  /\ logFailed' = logFailed \cup {at[w]}
  /\ UNCHANGED <<at, status, stale, queue, cancelKey, reaping, apiVars,
                 deliveries, reaped, abandoned>>

\* A bug: the handler misspells the status, in a column that takes any string.
WriteCanceled(w) ==
  /\ Step(w, "sawCancel", "notifyCancel")
  /\ UpdateStatus(at[w], "canceled")
  /\ UNCHANGED <<at, queue, cancelKey, reaping, apiVars, historyVars>>

\* except CancelledException: update_status(cancelled), log, event; a failure
\* here leaves _run_workflow.
WriteCancelled(w) ==
  /\ Step(w, "sawCancel", "notifyCancel")
  /\ UpdateStatus(at[w], "cancelled")
  /\ UNCHANGED <<at, queue, cancelKey, reaping, apiVars, historyVars>>
CancelHandlerFails(w) ==
  /\ Step(w, "sawCancel", "escaped") \/ Step(w, "notifyCancel", "escaped")
  /\ UNCHANGED at /\ Silent

Done(w) ==
  /\ wpc[w] \in {"notify", "notifyCancel"}
  /\ Ack(w)
  /\ Silent

\* except Exception: update_status(failed), then `raise` to the crash net.
WriteFailed(w) ==
  /\ Step(w, "raised", "escaped")
  /\ UpdateStatus(at[w], "failed")
  /\ UNCHANGED <<at, queue, cancelKey, reaping, apiVars, historyVars>>
WriteFailedFails(w) == Step(w, "raised", "escaped") /\ UNCHANGED at /\ Silent

\* A bug: the crash net fails the row without looking at its status.
NetReadBlindly(w) == Step(w, "escaped", "net") /\ UNCHANGED at /\ Silent

\* A bug: no crash net, the task just returns.
NetMissing(w) ==
  /\ wpc[w] = "escaped"
  /\ Ack(w)
  /\ Silent

\* mark_terminal_if_not reads the row: nothing to do when it is finished ...
NetRead(w) ==
  /\ wpc[w] = "escaped" /\ at[w] \notin crew
  /\ IF status[at[w]] \in Finished
       THEN Ack(w)
       ELSE Step(w, "escaped", "net") /\ UNCHANGED at
  /\ Silent

\* ... otherwise it writes failed, in a later statement.
NetWrite(w) ==
  /\ wpc[w] = "net"
  /\ Ack(w)
  /\ UpdateStatus(at[w], "failed")
  /\ UNCHANGED <<queue, cancelKey, reaping, apiVars, historyVars>>

\* For the run of a crew it finds no row in executions: nothing is written.
NetMissesCrew(w) ==
  /\ wpc[w] = "escaped" /\ at[w] \in crew
  /\ Ack(w)
  /\ abandoned' = IF status[at[w]] \in Finished THEN abandoned ELSE abandoned \cup {at[w]}
  /\ UNCHANGED <<status, stale, queue, cancelKey, reaping, apiVars,
                 deliveries, reaped, logFailed>>

\* The crash net itself fails: logged, and the message is acknowledged.
NetFails(w) ==
  /\ wpc[w] \in {"escaped", "net"}
  /\ Ack(w)
  /\ abandoned' = abandoned \cup {at[w]}
  /\ UNCHANGED <<status, stale, queue, cancelKey, reaping, apiVars,
                 deliveries, reaped, logFailed>>

-----------------------------------------------------------------------------
(* The broker and the operating system.                                    *)

CanRedeliver(e) == deliveries[e] + queue[e] < MaxDeliveries

\* SIGKILL.  The message is acknowledged (the pool child died) or comes back
\* (the whole worker died and the broker restores what it had not acked).
Kill(w) ==
  /\ wpc[w] # "idle"
  /\ Ack(w)
  /\ abandoned' = abandoned \cup {at[w]}
  /\ \/ UNCHANGED queue
     \/ /\ CanRedeliver(at[w])
        /\ queue' = [queue EXCEPT ![at[w]] = @ + 1]
  /\ UNCHANGED <<status, stale, cancelKey, reaping, apiVars,
                 deliveries, reaped, logFailed>>

\* acks_late and a task longer than the broker's visibility timeout: the
\* message is handed out again while the first delivery still runs.
VisibilityTimeout(w) ==
  /\ wpc[w] # "idle" /\ CanRedeliver(at[w])
  /\ queue' = [queue EXCEPT ![at[w]] = @ + 1]
  /\ UNCHANGED <<status, stale, cancelKey, reaping, apiVars, workerVars, historyVars>>

-----------------------------------------------------------------------------
(* The beat task reap_stale_executions.                                    *)

\* Thirty minutes have passed since started_at, worker alive or not.
BecomeStale(e) ==
  /\ e \notin crew
  /\ status[e] = "running" /\ e \notin stale
  /\ stale' = stale \cup {e}
  /\ UNCHANGED <<status, queue, cancelKey, reaping, apiVars, workerVars, historyVars>>

\* A bug: the wrong status in the WHERE clause.
ReapReadCancelling ==
  /\ reaping = {}
  /\ reaping' = {e \in stale : status[e] = "cancelling"}
  /\ reaping' # {}
  /\ UNCHANGED <<status, stale, queue, cancelKey, apiVars, workerVars, historyVars>>

\* SELECT id WHERE status = 'running' AND started_at < cutoff.
ReapRead ==
  /\ reaping = {}
  /\ reaping' = {e \in stale : status[e] = "running"}
  /\ reaping' # {}
  /\ UNCHANGED <<status, stale, queue, cancelKey, apiVars, workerVars, historyVars>>

\* UPDATE ... SET status = 'failed' WHERE id IN (those ids).
ReapWrite ==
  /\ reaping # {}
  /\ status' = [e \in Exec |-> IF e \in reaping THEN "failed" ELSE status[e]]
  /\ reaped' = reaped \cup reaping
  /\ reaping' = {}
  /\ UNCHANGED <<stale, queue, cancelKey, apiVars, workerVars,
                 deliveries, logFailed, abandoned>>

\* The task dies between the two statements.
ReapLost ==
  /\ reaping # {}
  /\ reaping' = {}
  /\ UNCHANGED <<status, stale, queue, cancelKey, apiVars, workerVars, historyVars>>

-----------------------------------------------------------------------------
ApiStep(e) ==
  \/ Trigger(e) \/ TriggerCrew(e) \/ Enqueue(e) \/ SubmitLost(e)
  \/ CancelCheck(e) \/ CancelFlag(e) \/ CancelWrite(e) \/ CancelLost(e)
  \/ CancelKeyExpires(e)
  \/ Listen(e) \/ ReadSlot(e) \/ SlotGone(e) \/ DispatchExisting(e) \/ ClaimLost(e)
  \/ DecideEnd(e) \/ EndLost(e)
  \/ \E s \in {"cancelled", "timeout"} : WriteEnd(e, s)

\* What a live worker does on its own.
WorkerStep(w) ==
  \/ \E e \in Exec : Take(w, e)
  \/ SetupFails(w) \/ WriteRunning(w) \/ EnterBody(w)
  \/ BodyReturns(w) \/ BodyRaises(w) \/ BodySeesCancel(w)
  \/ WriteCompleted(w) \/ WriteCompletedFails(w) \/ LogCompletedFails(w)
  \/ WriteCancelled(w) \/ CancelHandlerFails(w) \/ Done(w)
  \/ WriteFailed(w) \/ WriteFailedFails(w)
  \/ NetRead(w) \/ NetWrite(w) \/ NetMissesCrew(w) \/ NetFails(w)

Next ==
  \/ \E e \in Exec : ApiStep(e) \/ WriteEnd(e, "failed") \/ BecomeStale(e)
  \/ \E w \in Worker : WorkerStep(w) \/ Kill(w) \/ VisibilityTimeout(w)
  \/ ReapRead \/ ReapWrite \/ ReapLost

Spec == Init /\ [][Next]_vars

InBody(w) == wpc[w] = "body"

\* A worker that is not killed goes on, except from the body: no time limit ends
\* that (the model calls of agents and crews have none, nor has the task), so it
\* may hang.  Beat runs the reaper every two minutes for ever, and a reaper that
\* keeps being tried gets through; time passes.
Fairness ==
  /\ \A w \in Worker : WF_vars(~InBody(w) /\ WorkerStep(w))
  /\ \A e \in Exec : WF_vars(BecomeStale(e))
  /\ WF_vars(ReapRead)
  /\ SF_vars(ReapWrite)

FairSpec == Spec /\ Fairness

-----------------------------------------------------------------------------
(* Properties.                                                             *)

\* The known ways a finished execution can change status again: the reaper
\* holds its id, or has failed it under a live worker; a cancel request passed
\* its check before the run finished; the message was delivered twice; or the
\* log write behind `completed` raised.  And for a listen: a delivery has read its
\* slot and will dispatch it; cancel_listen, poll loop or sweeper is about to end
\* it, or has ended it behind the back of a worker.
MayBeOverwritten(e) ==
  \/ e \in reaping \cup reaped
  \/ cancelPc[e] = "flagged"
  \/ deliveries[e] > 1
  \/ e \in logFailed
  \/ held[e] > 0 \/ owed[e] # "none" \/ e \in overtaken

\* In every other case a verdict stands: neither the crash net nor a handler
\* nor a late step changes it (mark_terminal_if_not, _run_workflow).
VerdictStands ==
  [][\A e \in Exec :
       status[e] \in Finished /\ ~MayBeOverwritten(e) => status'[e] = status[e]]_vars

\* The invariant behind VerdictStands: with one delivery there is one worker,
\* and while it still has a status to write the row is not finished.
OneDelivery(e) ==
  \A v, w \in Worker : deliveries[e] < 2 /\ at[v] = e /\ at[w] = e => v = w
Undelivered(e) ==
  deliveries[e] = 0 =>
    /\ \A w \in Worker : at[w] # e
    /\ status[e] # "running"
    /\ e \notin reaping
\* Before its dispatch a row has no message, and while its first message has not
\* been taken it has no verdict.
Unsent(e) ==
  /\ status[e] \in {"none", "waiting"} =>
       submitting[e] = 0 /\ queue[e] = 0 /\ deliveries[e] = 0
  /\ deliveries[e] = 0 /\ submitting[e] + queue[e] > 0 =>
       status[e] \notin Finished \/ e \in overtaken
Unfinished == {"setup", "started", "body", "returned", "sawCancel", "raised", "net"}
WorkerOwes(w) ==
  wpc[w] \in Unfinished =>
    status[at[w]] \notin Finished \/ deliveries[at[w]] > 1
      \/ at[w] \in reaped \cup logFailed \cup overtaken
VerdictInv ==
  /\ TypeOK
  /\ \A e \in Exec : OneDelivery(e) /\ Undelivered(e) /\ Unsent(e)
  /\ \A w \in Worker : WorkerOwes(w)

\* A row never stays `running`: its worker finishes it, or the reaper does
\* after a SIGKILL ("Executions never get stuck running") and when the body
\* hangs.  The reaper does not know the rows of crews: one stays when its worker
\* left it without a verdict, or hangs in it for ever.
RunningEnds ==
  \A e \in Exec :
    \/ (status[e] = "running") ~> (status[e] # "running" \/ e \in crew \cap abandoned)
    \/ \E w \in Worker : <>[](InBody(w) /\ at[w] = e /\ e \in crew)

\* An enqueued execution reaches a verdict, whatever is cancelled meanwhile,
\* unless a worker died or its crash net failed on the way, or a worker hangs in
\* a body for ever.
QueuedReachesVerdict ==
  \/ \A e \in Exec : (queue[e] > 0) ~> (status[e] \in Finished \/ e \in abandoned)
  \/ \E w \in Worker : <>[]InBody(w)

\* The reaper "must never clobber a run that actually finished"
\* (test_execution_crash_safety.py).
ReaperSparesFinished ==
  [][ReapWrite => \A e \in reaping : status[e] \notin Finished]_vars
=============================================================================
