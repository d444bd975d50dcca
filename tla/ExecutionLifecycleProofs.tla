------------------------ MODULE ExecutionLifecycleProofs ------------------------
(***************************************************************************)
(* Proofs about ExecutionLifecycle for any number of executions, workers   *)
(* and deliveries: type correctness, and that a verdict stands outside the *)
(* known ways to overwrite it.                                             *)
(***************************************************************************)
EXTENDS ExecutionLifecycle, TLAPS

USE NoExecAssumption, DeliveriesAssumption, ClaimsAssumption DEF listenVars

\* A busy worker runs some execution, never the placeholder.
LEMMA BusyRuns ==
  ASSUME TypeOK, NEW w \in Worker, wpc[w] # "idle"
  PROVE  at[w] \in Exec
  BY DEF TypeOK

\* Moving a worker to another busy label keeps the worker part of TypeOK.
LEMMA StepType ==
  ASSUME TypeOK, NEW w \in Worker, NEW from \in WPC, NEW to \in WPC \ {"idle"},
         from # "idle", Step(w, from, to), UNCHANGED at
  PROVE  /\ at' \in [Worker -> Exec \cup {NoExec}]
         /\ wpc' \in [Worker -> WPC]
         /\ \A v \in Worker : at'[v] = NoExec <=> wpc'[v] = "idle"
         /\ at[w] \in Exec /\ wpc[w] = from /\ wpc' = [wpc EXCEPT ![w] = to]
<1>1. wpc[w] = from /\ wpc' = [wpc EXCEPT ![w] = to] /\ at' = at
  BY DEF Step
<1>2. at[w] \in Exec
  BY <1>1, BusyRuns
<1>3. wpc' \in [Worker -> WPC]
  BY <1>1 DEF TypeOK
<1>4. \A v \in Worker : at'[v] = NoExec <=> wpc'[v] = "idle"
  BY <1>1, <1>2 DEF TypeOK
<1> QED BY <1>1, <1>2, <1>3, <1>4 DEF TypeOK

\* Acknowledging keeps the worker part of TypeOK.
LEMMA AckType ==
  ASSUME TypeOK, NEW w \in Worker, wpc[w] # "idle", Ack(w)
  PROVE  /\ at' \in [Worker -> Exec \cup {NoExec}]
         /\ wpc' \in [Worker -> WPC]
         /\ \A v \in Worker : at'[v] = NoExec <=> wpc'[v] = "idle"
         /\ at[w] \in Exec
         /\ wpc' = [wpc EXCEPT ![w] = "idle"] /\ at' = [at EXCEPT ![w] = NoExec]
<1>1. wpc' = [wpc EXCEPT ![w] = "idle"] /\ at' = [at EXCEPT ![w] = NoExec]
  BY DEF Ack
<1>2. at' \in [Worker -> Exec \cup {NoExec}] /\ wpc' \in [Worker -> WPC]
  BY <1>1 DEF TypeOK, WPC
<1>3. \A v \in Worker : at'[v] = NoExec <=> wpc'[v] = "idle"
  BY <1>1 DEF TypeOK
<1> QED BY <1>1, <1>2, <1>3, BusyRuns

\* update_status writes a status, for an execution that exists in Exec.
LEMMA UpdateType ==
  ASSUME TypeOK, NEW e \in Exec, NEW s \in Status, UpdateStatus(e, s)
  PROVE  /\ status' \in [Exec -> Status] /\ stale' \in SUBSET Exec
         /\ status' = [status EXCEPT ![e] = s]
<1>1. status' = [status EXCEPT ![e] = s] /\ (stale' = stale \/ stale' = stale \ {e})
  BY DEF UpdateStatus
<1> QED BY <1>1 DEF TypeOK

\* A step in which a worker moves between busy labels and at most writes one
\* status or one history set.
LEMMA MoveType ==
  ASSUME TypeOK, NEW w \in Worker, NEW from \in WPC, NEW to \in WPC \ {"idle"},
         from # "idle", Step(w, from, to), UNCHANGED at,
         RowUnchanged \/ (\E s \in Status : UpdateStatus(at[w], s)),
         UNCHANGED <<queue, cancelKey, reaping, apiVars, deliveries, reaped, abandoned>>,
         logFailed' \in {logFailed, logFailed \cup {at[w]}}
  PROVE  TypeOK'
<1>1. at' \in [Worker -> Exec \cup {NoExec}] /\ wpc' \in [Worker -> WPC]
      /\ (\A v \in Worker : at'[v] = NoExec <=> wpc'[v] = "idle") /\ at[w] \in Exec
  BY StepType
<1>2. status' \in [Exec -> Status] /\ stale' \in SUBSET Exec
  BY <1>1, UpdateType DEF RowUnchanged, TypeOK
<1> QED BY <1>1, <1>2 DEF TypeOK, apiVars

\* A step in which a worker returns from its task.
LEMMA ReturnType ==
  ASSUME TypeOK, NEW w \in Worker, wpc[w] # "idle", Ack(w),
         RowUnchanged \/ (\E s \in Status : UpdateStatus(at[w], s)),
         queue' \in [Exec -> Nat],
         UNCHANGED <<cancelKey, reaping, apiVars, deliveries, reaped, logFailed>>,
         abandoned' \in {abandoned, abandoned \cup {at[w]}}
  PROVE  TypeOK'
<1>1. at' \in [Worker -> Exec \cup {NoExec}] /\ wpc' \in [Worker -> WPC]
      /\ (\A v \in Worker : at'[v] = NoExec <=> wpc'[v] = "idle") /\ at[w] \in Exec
  BY AckType
<1>2. status' \in [Exec -> Status] /\ stale' \in SUBSET Exec
  BY <1>1, UpdateType DEF RowUnchanged, TypeOK
<1> QED BY <1>1, <1>2 DEF TypeOK, apiVars

\* Steps of a listen keep the types.
LEMMA ListenType ==
  ASSUME TypeOK, NEW e \in Exec,
         \/ Listen(e) \/ ReadSlot(e) \/ SlotGone(e) \/ DispatchExisting(e) \/ ClaimLost(e)
         \/ DecideEnd(e) \/ EndLost(e)
         \/ \E s \in {"cancelled", "timeout", "failed"} : WriteEnd(e, s)
  PROVE  TypeOK'
<1> USE DEF OtherThanListen, workerVars, historyVars, RowUnchanged
<1>1. CASE Listen(e)
  BY <1>1 DEF Listen, TypeOK, Status
<1>2. CASE ReadSlot(e) \/ ClaimLost(e)
  <2>1. held' \in [Exec -> Nat]
    BY <1>2 DEF ReadSlot, ClaimLost, TypeOK
  <2> QED BY <1>2, <2>1 DEF ReadSlot, ClaimLost, TypeOK
<1>3. CASE SlotGone(e)
  BY <1>3 DEF SlotGone, TypeOK
<1>4. CASE DispatchExisting(e)
  <2>1. status' \in [Exec -> Status] /\ stale' \in SUBSET Exec
    BY <1>4, UpdateType DEF DispatchExisting, Status
  <2>2. held' \in [Exec -> Nat] /\ submitting' \in [Exec -> Nat]
    BY <1>4 DEF DispatchExisting, TypeOK
  <2> QED BY <1>4, <2>1, <2>2 DEF DispatchExisting, TypeOK
<1>5. CASE DecideEnd(e) \/ EndLost(e)
  BY <1>5 DEF DecideEnd, EndLost, TypeOK
<1>6. ASSUME NEW s \in {"cancelled", "timeout", "failed"}, WriteEnd(e, s) PROVE TypeOK'
  <2>1. status' \in [Exec -> Status] /\ stale' \in SUBSET Exec
    BY <1>6, UpdateType DEF WriteEnd, Status
  <2> QED BY <1>6, <2>1 DEF WriteEnd, TypeOK
<1> QED BY <1>1, <1>2, <1>3, <1>4, <1>5, <1>6

\* Steps of the API keep the types.
LEMMA ApiType == ASSUME TypeOK, NEW e \in Exec, ApiStep(e) PROVE TypeOK'
<1> USE DEF workerVars, historyVars
<1>1. CASE Trigger(e)
  BY <1>1 DEF Trigger, TypeOK, Status
<1>2. CASE Enqueue(e)
  BY <1>2 DEF Enqueue, TypeOK
<1>3. CASE SubmitLost(e)
  BY <1>3 DEF SubmitLost, TypeOK
<1>4. CASE CancelCheck(e)
  BY <1>4 DEF CancelCheck, TypeOK
<1>5. CASE CancelFlag(e)
  BY <1>5 DEF CancelFlag, TypeOK
<1>6. CASE CancelWrite(e)
  <2>1. status' \in [Exec -> Status] /\ stale' \in SUBSET Exec
    BY <1>6, UpdateType DEF CancelWrite, Status
  <2> QED BY <1>6, <2>1 DEF CancelWrite, TypeOK
<1>7. CASE CancelLost(e)
  BY <1>7 DEF CancelLost, TypeOK
<1>8. CASE CancelKeyExpires(e)
  BY <1>8 DEF CancelKeyExpires, TypeOK, apiVars
<1>9. CASE TriggerCrew(e)
  BY <1>9 DEF TriggerCrew, TypeOK, Status
<1> QED BY <1>1, <1>2, <1>3, <1>4, <1>5, <1>6, <1>7, <1>8, <1>9, ListenType DEF ApiStep

\* Taking a message keeps the types.
LEMMA TakeType == ASSUME TypeOK, NEW w \in Worker, NEW e \in Exec, Take(w, e) PROVE TypeOK'
<1>1. queue' \in [Exec -> Nat] /\ deliveries' \in [Exec -> Nat]
  BY DEF Take, TypeOK
<1>2. wpc' = [wpc EXCEPT ![w] = "setup"] /\ at' = [at EXCEPT ![w] = e]
  BY DEF Take, Step
<1>3. at' \in [Worker -> Exec \cup {NoExec}] /\ wpc' \in [Worker -> WPC]
  BY <1>2 DEF TypeOK, WPC
<1>4. \A v \in Worker : at'[v] = NoExec <=> wpc'[v] = "idle"
  BY <1>2 DEF TypeOK
<1> QED BY <1>1, <1>3, <1>4 DEF Take, TypeOK, apiVars

\* The labels of the worker, and the statuses it writes.
LEMMA Labels ==
  /\ {"setup", "started", "body", "returned", "notify", "sawCancel",
      "notifyCancel", "raised", "escaped", "net"} \subseteq WPC \ {"idle"}
  /\ {"running", "completed", "failed", "cancelled"} \subseteq Status
  BY DEF WPC, Status

\* Steps of a worker keep the types.
LEMMA WorkerType == ASSUME TypeOK, NEW w \in Worker, WorkerStep(w) PROVE TypeOK'
<1> USE Labels DEF Silent, RowUnchanged, apiVars, historyVars
<1>1. ASSUME NEW e \in Exec, Take(w, e) PROVE TypeOK'
  BY <1>1, TakeType
<1>2. CASE SetupFails(w)
  BY <1>2, MoveType DEF SetupFails
<1>3. CASE WriteRunning(w)
  BY <1>3, MoveType DEF WriteRunning
<1>4. CASE EnterBody(w)
  BY <1>4, MoveType DEF EnterBody
<1>5. CASE BodyReturns(w)
  BY <1>5, MoveType DEF BodyReturns
<1>6. CASE BodyRaises(w)
  BY <1>6, MoveType DEF BodyRaises
<1>7. CASE BodySeesCancel(w)
  BY <1>7, MoveType DEF BodySeesCancel
<1>8. CASE WriteCompleted(w)
  BY <1>8, MoveType DEF WriteCompleted
<1>9. CASE WriteCompletedFails(w)
  BY <1>9, MoveType DEF WriteCompletedFails
<1>10. CASE LogCompletedFails(w)
  BY <1>10, MoveType DEF LogCompletedFails
<1>11. CASE WriteCancelled(w)
  BY <1>11, MoveType DEF WriteCancelled
<1>12. CASE CancelHandlerFails(w)
  BY <1>12, MoveType DEF CancelHandlerFails
<1>13. CASE Done(w)
  BY <1>13, ReturnType DEF Done, TypeOK
<1>14. CASE WriteFailed(w)
  BY <1>14, MoveType DEF WriteFailed
<1>15. CASE WriteFailedFails(w)
  BY <1>15, MoveType DEF WriteFailedFails
<1>16. CASE NetRead(w)
  <2>1. CASE Ack(w)
    BY <1>16, <2>1, ReturnType DEF NetRead, TypeOK
  <2>2. CASE Step(w, "escaped", "net") /\ UNCHANGED at
    BY <1>16, <2>2, MoveType DEF NetRead
  <2> QED BY <1>16, <2>1, <2>2 DEF NetRead
<1>17. CASE NetWrite(w)
  BY <1>17, ReturnType DEF NetWrite, TypeOK
<1>18. CASE NetFails(w)
  BY <1>18, ReturnType DEF NetFails, TypeOK
<1>19. CASE NetMissesCrew(w)
  BY <1>19, ReturnType DEF NetMissesCrew, TypeOK
<1> QED
  BY <1>1, <1>2, <1>3, <1>4, <1>5, <1>6, <1>7, <1>8, <1>9, <1>10, <1>11, <1>12,
     <1>13, <1>14, <1>15, <1>16, <1>17, <1>18, <1>19 DEF WorkerStep

\* Every step keeps the types.
LEMMA NextType == TypeOK /\ [Next]_vars => TypeOK'
<1> SUFFICES ASSUME TypeOK, [Next]_vars PROVE TypeOK'
  OBVIOUS
<1>1. ASSUME NEW e \in Exec, ApiStep(e) PROVE TypeOK'
  BY <1>1, ApiType
<1>2. ASSUME NEW e \in Exec, BecomeStale(e) \/ WriteEnd(e, "failed") PROVE TypeOK'
  BY <1>2, ListenType DEF BecomeStale, TypeOK, apiVars, workerVars, historyVars
<1>3. ASSUME NEW w \in Worker, WorkerStep(w) PROVE TypeOK'
  BY <1>3, WorkerType
<1>4. ASSUME NEW w \in Worker, Kill(w) PROVE TypeOK'
  <2>1. queue' \in [Exec -> Nat]
    BY <1>4, BusyRuns DEF Kill, TypeOK
  <2> QED BY <1>4, <2>1, ReturnType DEF Kill, RowUnchanged
<1>5. ASSUME NEW w \in Worker, VisibilityTimeout(w) PROVE TypeOK'
  <2>1. queue' \in [Exec -> Nat]
    BY <1>5, BusyRuns DEF VisibilityTimeout, TypeOK
  <2> QED BY <1>5, <2>1 DEF VisibilityTimeout, TypeOK, apiVars, workerVars, historyVars
<1>6. CASE ReapRead
  BY <1>6 DEF ReapRead, TypeOK, apiVars, workerVars, historyVars
<1>7. CASE ReapWrite
  <2>1. status' \in [Exec -> Status]
    BY <1>7 DEF ReapWrite, TypeOK, Status
  <2> QED BY <1>7, <2>1 DEF ReapWrite, TypeOK, apiVars, workerVars
<1>8. CASE ReapLost
  BY <1>8 DEF ReapLost, TypeOK, apiVars, workerVars, historyVars
<1>9. CASE UNCHANGED vars
  BY <1>9 DEF vars, TypeOK, apiVars, workerVars, historyVars
<1> QED BY <1>1, <1>2, <1>3, <1>4, <1>5, <1>6, <1>7, <1>8, <1>9 DEF Next

\* Type correctness of the execution lifecycle.
THEOREM TypeCorrect == Spec => []TypeOK
<1>1. Init => TypeOK
  BY DEF Init, TypeOK, Status, WPC
<1> QED BY <1>1, NextType, PTL DEF Spec

-----------------------------------------------------------------------------
(* VerdictInv is inductive.                                                *)

\* A step of one busy worker, which may write the status of its own execution
\* only, keeps VerdictInv when that worker's own claim survives.
LEMMA WorkerMove ==
  ASSUME VerdictInv, TypeOK', NEW w \in Worker, wpc[w] # "idle",
         at' = at \/ at' = [at EXCEPT ![w] = NoExec],
         NEW l \in WPC, wpc' = [wpc EXCEPT ![w] = l],
         \A e \in Exec : e # at[w] => status'[e] = status[e] /\ queue'[e] = queue[e],
         status'[at[w]] = status[at[w]] \/ status'[at[w]] \notin {"none", "waiting"},
         UNCHANGED <<submitting, overtaken, deliveries, reaping, reaped>>,
         logFailed \subseteq logFailed', WorkerOwes(w)'
  PROVE  VerdictInv'
<1> USE DEF VerdictInv
<1>1. at[w] \in Exec
  BY BusyRuns
<1>2. \A v \in Worker : at'[v] \in {at[v], NoExec} /\ (v # w => at'[v] = at[v])
  BY DEF TypeOK
<1>3. ASSUME NEW e \in Exec PROVE OneDelivery(e)'
  BY <1>2 DEF OneDelivery
<1>4. ASSUME NEW e \in Exec PROVE Undelivered(e)'
  BY <1>1, <1>2 DEF Undelivered
<1>5. ASSUME NEW v \in Worker, v # w PROVE WorkerOwes(v)'
  <2>1. wpc'[v] = wpc[v] /\ at'[v] = at[v]
    BY <1>2, <1>5 DEF TypeOK
  <2>2. SUFFICES ASSUME wpc[v] \in Unfinished
                 PROVE  \/ status'[at[v]] \notin Finished \/ deliveries[at[v]] > 1
                        \/ at[v] \in reaped \cup logFailed' \cup overtaken
    BY <2>1 DEF WorkerOwes
  <2>3. at[v] \in Exec
    BY <2>2, BusyRuns DEF Unfinished
  <2>4. CASE at[v] = at[w]
    <3>1. deliveries[at[v]] \in Nat /\ ~(deliveries[at[v]] < 2)
      BY <1>5, <2>3, <2>4 DEF OneDelivery, TypeOK
    <3> QED BY <3>1
  <2>5. CASE at[v] # at[w]
    BY <2>2, <2>3, <2>5 DEF WorkerOwes
  <2> QED BY <2>4, <2>5
<1>6. ASSUME NEW e \in Exec PROVE Unsent(e)'
  <2>1. CASE e = at[w]
    <3>1. deliveries[e] # 0 /\ deliveries' = deliveries
      BY <2>1 DEF Undelivered
    <3>2. status'[e] \notin {"none", "waiting"}
      BY <2>1, <3>1 DEF Unsent
    <3> QED BY <3>1, <3>2 DEF Unsent
  <2>2. CASE e # at[w]
    BY <2>2 DEF Unsent
  <2> QED BY <2>1, <2>2
<1> QED BY <1>3, <1>4, <1>5, <1>6

\* The same for a step that only moves the worker to a label: from one label
\* at which it owes a verdict to another, or to one at which it owes none.
LEMMA QuietMove ==
  ASSUME VerdictInv, TypeOK', NEW w \in Worker, wpc[w] # "idle",
         at' = at \/ at' = [at EXCEPT ![w] = NoExec],
         NEW l \in WPC, wpc' = [wpc EXCEPT ![w] = l],
         UNCHANGED <<status, submitting, overtaken, deliveries, reaping, reaped>>,
         \A e \in Exec : e # at[w] => queue'[e] = queue[e], logFailed \subseteq logFailed',
         \/ l \notin Unfinished
         \/ wpc[w] \in Unfinished /\ UNCHANGED at
         \/ at[w] \in logFailed' /\ UNCHANGED at
         \/ status[at[w]] \notin Finished /\ UNCHANGED at
  PROVE  VerdictInv'
<1>1. wpc'[w] = l
  BY DEF VerdictInv, TypeOK
<1>2. WorkerOwes(w)
  BY DEF VerdictInv
<1>3. WorkerOwes(w)'
  <2>1. CASE l \notin Unfinished
    BY <1>1, <2>1 DEF WorkerOwes
  <2>2. CASE wpc[w] \in Unfinished /\ UNCHANGED at
    BY <1>2, <2>2 DEF WorkerOwes
  <2>3. CASE at[w] \in logFailed' /\ UNCHANGED at
    BY <2>3 DEF WorkerOwes
  <2>4. CASE status[at[w]] \notin Finished /\ UNCHANGED at
    BY <2>4 DEF WorkerOwes
  <2> QED BY <2>1, <2>2, <2>3, <2>4
<1> QED BY <1>3, WorkerMove

\* The same for a step that writes a status and leaves the worker owing none,
\* or leaves the row unfinished.
LEMMA WritingMove ==
  ASSUME VerdictInv, TypeOK', NEW w \in Worker, wpc[w] # "idle",
         at' = at \/ at' = [at EXCEPT ![w] = NoExec],
         NEW l \in WPC, wpc' = [wpc EXCEPT ![w] = l],
         NEW s \in Status \ {"none", "waiting"}, UpdateStatus(at[w], s),
         UNCHANGED <<queue, submitting, overtaken, deliveries, reaping, reaped, logFailed>>,
         l \notin Unfinished \/ (s \notin Finished /\ UNCHANGED at)
  PROVE  VerdictInv'
<1>1. wpc'[w] = l /\ at[w] \in Exec
  BY BusyRuns DEF VerdictInv, TypeOK
<1>2. status' = [status EXCEPT ![at[w]] = s]
  BY DEF UpdateStatus
<1>3. status'[at[w]] = s /\ \A e \in Exec : e # at[w] => status'[e] = status[e]
  BY <1>1, <1>2 DEF VerdictInv, TypeOK
<1>4. WorkerOwes(w)'
  BY <1>1, <1>3 DEF WorkerOwes
<1> QED BY <1>3, <1>4, WorkerMove

\* A step that moves no worker, takes no message, and writes only statuses that
\* are not final, rows the reaper holds, and ends of listens.
LEMMA ForeignMove ==
  ASSUME VerdictInv, TypeOK', UNCHANGED <<at, wpc, deliveries, logFailed>>,
         \A e \in reaping' : deliveries[e] # 0,
         reaped \subseteq reaped', overtaken \subseteq overtaken',
         \A e \in Exec : \/ status'[e] \in {status[e], "waiting", "pending", "cancelling"}
                        \/ /\ e \in reaped' \cup overtaken' \/ status[e] = "waiting"
                           /\ status'[e] # "running",
         \A e \in Exec : Unsent(e)'
  PROVE  VerdictInv'
<1> USE DEF VerdictInv
<1>1. ASSUME NEW e \in Exec PROVE OneDelivery(e)' /\ Undelivered(e)'
  BY DEF OneDelivery, Undelivered
<1>2. ASSUME NEW w \in Worker PROVE WorkerOwes(w)'
  <2>1. SUFFICES ASSUME wpc[w] \in Unfinished PROVE WorkerOwes(w)'
    BY DEF WorkerOwes
  <2>2. at[w] \in Exec
    BY <2>1, BusyRuns DEF Unfinished
  <2>3. status[at[w]] # "waiting"
    BY <2>2 DEF Undelivered, Unsent
  <2> QED BY <2>2, <2>3 DEF WorkerOwes, Finished
<1> QED BY <1>1, <1>2

\* The same for a step that changes none of what the invariant speaks of but
\* the messages still to come, and may let only the reaper forget or select.
LEMMA SilentMove ==
  ASSUME VerdictInv, TypeOK',
         UNCHANGED <<status, submitting, overtaken, at, wpc, deliveries, logFailed, reaped>>,
         \A e \in Exec : queue'[e] = queue[e] \/ deliveries[e] # 0,
         \A e \in reaping' : deliveries[e] # 0
  PROVE  VerdictInv'
<1>1. ASSUME NEW e \in Exec PROVE Unsent(e)'
  BY DEF VerdictInv, Unsent
<1> QED BY <1>1, ForeignMove

\* Taking a message: the first delivery finds no verdict, a later one is counted.
LEMMA TakeMove ==
  ASSUME VerdictInv, TypeOK', NEW w \in Worker, NEW e \in Exec, Take(w, e)
  PROVE  VerdictInv'
<1> USE DEF VerdictInv
<1>1. /\ wpc[w] = "idle" /\ wpc' = [wpc EXCEPT ![w] = "setup"]
      /\ at' = [at EXCEPT ![w] = e] /\ deliveries' = [deliveries EXCEPT ![e] = @ + 1]
      /\ UNCHANGED <<status, reaping, reaped, logFailed>>
  BY DEF Take, Step
<1>2. deliveries'[e] = deliveries[e] + 1 /\ deliveries[e] \in Nat
      /\ \A f \in Exec : f # e => deliveries'[f] = deliveries[f]
  BY <1>1 DEF TypeOK
<1>3. at'[w] = e /\ \A v \in Worker : v # w => at'[v] = at[v] /\ wpc'[v] = wpc[v]
  BY <1>1 DEF TypeOK
<1>4. deliveries[e] = 0 => \A v \in Worker : at[v] # e
  BY DEF Undelivered
<1>5. ASSUME NEW f \in Exec PROVE OneDelivery(f)'
  <2>1. CASE f = e
    BY <1>2, <1>3, <1>4, <2>1 DEF OneDelivery
  <2>2. CASE f # e
    BY <1>2, <1>3, <2>2 DEF OneDelivery
  <2> QED BY <2>1, <2>2
<1>6. ASSUME NEW f \in Exec PROVE Undelivered(f)'
  BY <1>1, <1>2, <1>3 DEF Undelivered
<1>7. queue[e] > 0 /\ UNCHANGED <<submitting, overtaken>>
      /\ \A f \in Exec : f # e => queue'[f] = queue[f]
  BY DEF Take, TypeOK, apiVars
<1>8. ASSUME NEW f \in Exec PROVE Unsent(f)'
  <2>1. CASE f = e
    <3>1. status'[e] \notin {"none", "waiting"}
      BY <1>1, <1>7 DEF Unsent
    <3> QED BY <2>1, <3>1, <1>2 DEF Unsent
  <2>2. CASE f # e
    BY <2>2, <1>1, <1>2, <1>7 DEF Unsent
  <2> QED BY <2>1, <2>2
<1>9. deliveries[e] = 0 => status[e] \notin Finished \/ e \in overtaken
  <2>1. submitting[e] + queue[e] > 0
    BY <1>7 DEF TypeOK
  <2> QED BY <2>1 DEF Unsent
<1>10. ASSUME NEW v \in Worker PROVE WorkerOwes(v)'
  <2>1. CASE v = w
    BY <1>1, <1>2, <1>3, <1>7, <1>9, <2>1 DEF WorkerOwes
  <2>2. CASE v # w
    <3>1. wpc[v] \in Unfinished => at[v] \in Exec
      BY BusyRuns DEF Unfinished
    <3> QED BY <1>1, <1>2, <1>3, <1>7, <2>2, <3>1 DEF WorkerOwes
  <2> QED BY <2>1, <2>2
<1> QED BY <1>5, <1>6, <1>10, <1>8

\* The end of a listen: the row was waiting, and has no message; or it is
\* counted as overtaken.
LEMMA WriteEndMove ==
  ASSUME VerdictInv, TypeOK', NEW e \in Exec,
         NEW s \in {"cancelled", "timeout", "failed"}, WriteEnd(e, s)
  PROVE  VerdictInv'
<1> USE DEF VerdictInv
<1>1. /\ status' = [status EXCEPT ![e] = s]
      /\ overtaken' = IF status[e] = "waiting" THEN overtaken ELSE overtaken \cup {e}
      /\ UNCHANGED <<at, wpc, deliveries, logFailed, reaping, reaped, queue, submitting>>
  BY DEF WriteEnd, UpdateStatus, OtherThanListen, workerVars, historyVars
<1>2. status'[e] = s /\ \A f \in Exec : f # e => status'[f] = status[f]
  BY <1>1 DEF TypeOK
<1>3. ASSUME NEW f \in Exec PROVE Unsent(f)'
  BY <1>1, <1>2 DEF Unsent
<1>4. \A f \in reaping : deliveries[f] # 0
  BY DEF TypeOK, Undelivered
<1> QED BY <1>1, <1>2, <1>3, <1>4, ForeignMove

\* Steps of the API, which write a final status only as the end of a listen.
LEMMA ApiMove ==
  ASSUME VerdictInv, TypeOK', NEW e \in Exec, ApiStep(e)
  PROVE  VerdictInv'
<1> USE DEF OtherThanListen, workerVars, historyVars, apiVars
<1>0. /\ \A f \in reaping : deliveries[f] # 0
      /\ TypeOK /\ \A f \in Exec : Unsent(f)
  BY DEF VerdictInv, TypeOK, Undelivered
<1>1. CASE Trigger(e) \/ TriggerCrew(e)
  <2>1. /\ status' = [status EXCEPT ![e] = "pending"]
        /\ submitting' = [submitting EXCEPT ![e] = @ + 1]
        /\ UNCHANGED <<at, wpc, deliveries, logFailed, reaping, reaped, queue, overtaken>>
    BY <1>1 DEF Trigger, TriggerCrew
  <2>2. ASSUME NEW f \in Exec PROVE Unsent(f)'
    BY <1>0, <2>1 DEF Unsent, TypeOK, Finished
  <2> QED BY <1>0, <2>1, <2>2, ForeignMove DEF TypeOK
<1>2. CASE Enqueue(e) \/ SubmitLost(e)
  <2>1. /\ submitting[e] > 0 /\ submitting' = [submitting EXCEPT ![e] = @ - 1]
        /\ queue' \in {queue, [queue EXCEPT ![e] = @ + 1]}
        /\ UNCHANGED <<status, at, wpc, deliveries, logFailed, reaping, reaped, overtaken>>
    BY <1>2 DEF Enqueue, SubmitLost
  <2>2. ASSUME NEW f \in Exec PROVE Unsent(f)'
    <3>1. CASE f = e
      <4>1. submitting[e] \in Nat /\ queue[e] \in Nat
        BY <1>0 DEF TypeOK
      <4>2. status[e] \notin {"none", "waiting"}
        BY <1>0, <2>1 DEF Unsent
      <4>3. deliveries[e] = 0 => status[e] \notin Finished \/ e \in overtaken
        <5>1. submitting[e] + queue[e] > 0
          BY <2>1, <4>1
        <5> QED BY <1>0, <5>1 DEF Unsent
      <4> QED BY <2>1, <3>1, <4>2, <4>3 DEF Unsent
    <3>2. CASE f # e
      <4>1. submitting'[f] = submitting[f] /\ queue'[f] = queue[f]
        BY <1>0, <2>1, <3>2 DEF TypeOK
      <4> QED BY <1>0, <2>1, <4>1 DEF Unsent
    <3> QED BY <3>1, <3>2
  <2> QED BY <1>0, <2>1, <2>2, ForeignMove
<1>3. CASE CancelWrite(e)
  <2>1. /\ status' = [status EXCEPT ![e] = "cancelling"]
        /\ UNCHANGED <<at, wpc, deliveries, logFailed, reaping, reaped, queue, submitting, overtaken>>
    BY <1>3 DEF CancelWrite, UpdateStatus
  <2>2. ASSUME NEW f \in Exec PROVE Unsent(f)'
    BY <1>0, <2>1 DEF Unsent, TypeOK, Finished
  <2> QED BY <1>0, <2>1, <2>2, ForeignMove DEF TypeOK
<1>4. CASE \/ CancelCheck(e) \/ CancelFlag(e) \/ CancelLost(e) \/ CancelKeyExpires(e)
           \/ ReadSlot(e) \/ SlotGone(e) \/ ClaimLost(e) \/ DecideEnd(e) \/ EndLost(e)
  <2>1. UNCHANGED <<status, submitting, queue, overtaken, at, wpc, deliveries, logFailed,
                    reaping, reaped>>
    BY <1>4 DEF CancelCheck, CancelFlag, CancelLost, CancelKeyExpires, ReadSlot, SlotGone,
                ClaimLost, DecideEnd, EndLost, RowUnchanged
  <2> QED BY <1>0, <2>1, SilentMove
<1>5. CASE Listen(e)
  <2>1. /\ status[e] = "none" /\ status' = [status EXCEPT ![e] = "waiting"]
        /\ UNCHANGED <<at, wpc, deliveries, logFailed, reaping, reaped, queue, submitting, overtaken>>
    BY <1>5 DEF Listen
  <2>2. ASSUME NEW f \in Exec PROVE Unsent(f)'
    BY <1>0, <2>1 DEF Unsent, TypeOK, Finished
  <2> QED BY <1>0, <2>1, <2>2, ForeignMove DEF TypeOK
<1>6. CASE DispatchExisting(e)
  <2>1. /\ status' = [status EXCEPT ![e] = "pending"]
        /\ submitting' = [submitting EXCEPT ![e] = @ + 1]
        /\ UNCHANGED <<at, wpc, deliveries, logFailed, reaping, reaped, queue, overtaken>>
    BY <1>6 DEF DispatchExisting, UpdateStatus
  <2>2. ASSUME NEW f \in Exec PROVE Unsent(f)'
    BY <1>0, <2>1 DEF Unsent, TypeOK, Finished
  <2> QED BY <1>0, <2>1, <2>2, ForeignMove DEF TypeOK
<1> QED BY <1>1, <1>2, <1>3, <1>4, <1>5, <1>6, WriteEndMove DEF ApiStep

\* Steps of a worker, one per action.
LEMMA WorkerStepMove ==
  ASSUME VerdictInv, TypeOK', NEW w \in Worker, WorkerStep(w)
  PROVE  VerdictInv'
<1> USE Labels DEF Silent, Step, Ack, historyVars, apiVars
<1>1. ASSUME NEW e \in Exec, Take(w, e) PROVE VerdictInv'
  BY <1>1, TakeMove
<1>2. CASE SetupFails(w)
  BY <1>2, QuietMove DEF SetupFails, Unfinished
<1>3. CASE WriteRunning(w)
  BY <1>3, WritingMove DEF WriteRunning, Finished
<1>4. CASE EnterBody(w)
  BY <1>4, QuietMove DEF EnterBody, Unfinished
<1>5. CASE BodyReturns(w)
  BY <1>5, QuietMove DEF BodyReturns, Unfinished
<1>6. CASE BodyRaises(w)
  BY <1>6, QuietMove DEF BodyRaises, Unfinished
<1>7. CASE BodySeesCancel(w)
  BY <1>7, QuietMove DEF BodySeesCancel, Unfinished
<1>8. CASE WriteCompleted(w)
  BY <1>8, WritingMove DEF WriteCompleted, Unfinished
<1>9. CASE WriteCompletedFails(w)
  BY <1>9, QuietMove DEF WriteCompletedFails, Unfinished
<1>10. CASE LogCompletedFails(w)
  BY <1>10, QuietMove DEF LogCompletedFails
<1>11. CASE WriteCancelled(w)
  BY <1>11, WritingMove DEF WriteCancelled, Unfinished
<1>12. CASE CancelHandlerFails(w)
  BY <1>12, QuietMove DEF CancelHandlerFails, Unfinished
<1>13. CASE Done(w)
  <2>1. "idle" \in WPC \ Unfinished
    BY DEF WPC, Unfinished
  <2> QED BY <1>13, <2>1, QuietMove DEF Done
<1>14. CASE WriteFailed(w)
  BY <1>14, WritingMove DEF WriteFailed, Unfinished
<1>15. CASE WriteFailedFails(w)
  BY <1>15, QuietMove DEF WriteFailedFails, Unfinished
<1>16. CASE NetRead(w)
  <2>1. CASE status[at[w]] \in Finished
    <3>1. "idle" \in WPC \ Unfinished
      BY DEF WPC, Unfinished
    <3> QED BY <1>16, <2>1, <3>1, QuietMove DEF NetRead
  <2>2. CASE status[at[w]] \notin Finished
    BY <1>16, <2>2, QuietMove DEF NetRead
  <2> QED BY <2>1, <2>2
<1>17. CASE NetWrite(w)
  <2>1. "idle" \in WPC \ Unfinished
    BY DEF WPC, Unfinished
  <2> QED BY <1>17, <2>1, WritingMove DEF NetWrite
<1>18. CASE NetFails(w)
  <2>1. "idle" \in WPC \ Unfinished
    BY DEF WPC, Unfinished
  <2> QED BY <1>18, <2>1, QuietMove DEF NetFails
<1>19. CASE NetMissesCrew(w)
  <2>1. "idle" \in WPC \ Unfinished
    BY DEF WPC, Unfinished
  <2> QED BY <1>19, <2>1, QuietMove DEF NetMissesCrew
<1> QED
  BY <1>1, <1>2, <1>3, <1>4, <1>5, <1>6, <1>7, <1>8, <1>9, <1>10, <1>11, <1>12,
     <1>13, <1>14, <1>15, <1>16, <1>17, <1>18, <1>19 DEF WorkerStep

\* Every step preserves VerdictInv.
LEMMA NextVerdictInv == VerdictInv /\ [Next]_vars => VerdictInv'
<1> SUFFICES ASSUME VerdictInv, [Next]_vars PROVE VerdictInv'
  OBVIOUS
<1>0. TypeOK /\ TypeOK'
  BY NextType DEF VerdictInv
<1>1. ASSUME NEW e \in Exec, ApiStep(e) PROVE VerdictInv'
  BY <1>0, <1>1, ApiMove
<1>2. ASSUME NEW w \in Worker, WorkerStep(w) PROVE VerdictInv'
  BY <1>0, <1>2, WorkerStepMove
<1>3. ASSUME NEW w \in Worker, Kill(w) PROVE VerdictInv'
  <2>1. "idle" \in WPC \ Unfinished
    BY DEF WPC, Unfinished
  <2>2. /\ wpc[w] # "idle" /\ wpc' = [wpc EXCEPT ![w] = "idle"] /\ at' = [at EXCEPT ![w] = NoExec]
        /\ queue' \in {queue, [queue EXCEPT ![at[w]] = @ + 1]}
        /\ UNCHANGED <<status, submitting, overtaken, deliveries, reaping, reaped, logFailed>>
    BY <1>3 DEF Kill, Ack, apiVars
  <2>3. \A e \in Exec : e # at[w] => queue'[e] = queue[e]
    BY <1>0, <2>2 DEF TypeOK
  <2> QED BY <1>0, <2>1, <2>2, <2>3, QuietMove
<1>4. \A f \in reaping : deliveries[f] # 0
  BY <1>0 DEF VerdictInv, TypeOK, Undelivered
<1>5. ASSUME UNCHANGED <<status, submitting, overtaken, at, wpc, deliveries, logFailed, reaped>>,
             \A f \in Exec : queue'[f] = queue[f] \/ deliveries[f] # 0,
             \A f \in reaping' : deliveries[f] # 0
      PROVE  VerdictInv'
  BY <1>0, <1>5, SilentMove
<1>6. ASSUME NEW e \in Exec, BecomeStale(e) PROVE VerdictInv'
  BY <1>4, <1>5, <1>6 DEF BecomeStale, workerVars, historyVars, apiVars
<1>7. ASSUME NEW e \in Exec, WriteEnd(e, "failed") PROVE VerdictInv'
  BY <1>0, <1>7, WriteEndMove
<1>8. ASSUME NEW w \in Worker, VisibilityTimeout(w) PROVE VerdictInv'
  <2>1. at[w] \in Exec /\ deliveries[at[w]] # 0
    BY <1>0, <1>8, BusyRuns DEF VisibilityTimeout, VerdictInv, Undelivered
  <2>2. \A f \in Exec : queue'[f] = queue[f] \/ deliveries[f] # 0
    BY <1>0, <1>8, <2>1 DEF VisibilityTimeout, TypeOK
  <2> QED BY <1>4, <1>5, <1>8, <2>2 DEF VisibilityTimeout, workerVars, historyVars, apiVars
<1>9. CASE ReapRead
  <2>1. \A f \in reaping' : f \in Exec /\ status[f] = "running"
    BY <1>0, <1>9 DEF ReapRead, TypeOK
  <2>2. \A f \in reaping' : deliveries[f] # 0
    BY <2>1 DEF VerdictInv, Undelivered
  <2> QED BY <1>5, <1>9, <2>2 DEF ReapRead, workerVars, historyVars, apiVars
<1>10. CASE ReapWrite
  <2>1. \A f \in Exec : status'[f] = status[f]
                        \/ (f \in reaped' /\ deliveries[f] # 0 /\ status'[f] = "failed")
    BY <1>0, <1>4, <1>10 DEF ReapWrite
  <2>2. reaping' = {} /\ reaped \subseteq reaped'
        /\ UNCHANGED <<at, wpc, deliveries, logFailed, queue, submitting, overtaken>>
    BY <1>10 DEF ReapWrite, workerVars, apiVars
  <2>3. ASSUME NEW f \in Exec PROVE Unsent(f)'
    BY <2>1, <2>2 DEF VerdictInv, Unsent
  <2> QED BY <1>0, <2>1, <2>2, <2>3, ForeignMove
<1>11. CASE ReapLost
  BY <1>5, <1>11 DEF ReapLost, workerVars, historyVars, apiVars
<1>12. CASE UNCHANGED vars
  BY <1>4, <1>5, <1>12 DEF vars, workerVars, historyVars, apiVars
<1> QED BY <1>1, <1>2, <1>3, <1>6, <1>8, <1>9, <1>10, <1>11, <1>12, <1>7 DEF Next

\* With one delivery there is one worker, and while it still has a status to
\* write its row has no verdict.
THEOREM VerdictInvHolds == Spec => []VerdictInv
<1>1. Init => VerdictInv
  BY DEF Init, VerdictInv, TypeOK, Status, WPC, OneDelivery, Undelivered, Unsent,
     WorkerOwes, Unfinished
<1> QED BY <1>1, NextVerdictInv, PTL DEF Spec

\* What one step does to the status of a row that has a verdict and no known
\* reason to lose it: nothing.
LEMMA StepKeepsVerdict ==
  ASSUME VerdictInv, [Next]_vars, NEW e \in Exec,
         status[e] \in Finished, ~MayBeOverwritten(e)
  PROVE  status'[e] = status[e]
<1> USE DEF VerdictInv, MayBeOverwritten
<1>1. ASSUME NEW w \in Worker, at[w] = e PROVE wpc[w] \notin Unfinished
  BY <1>1 DEF WorkerOwes
<1>2. ASSUME NEW w \in Worker, wpc[w] \in Unfinished, NEW s \in Status,
             UpdateStatus(at[w], s)
      PROVE  status'[e] = status[e]
  BY <1>1, <1>2, UpdateType DEF UpdateStatus, TypeOK
<1>3. ASSUME NEW f \in Exec, NEW s \in {"cancelled", "timeout", "failed"}, WriteEnd(f, s)
      PROVE  status'[e] = status[e]
  <2>1. f # e
    BY <1>3 DEF WriteEnd
  <2> QED BY <1>3, <2>1 DEF WriteEnd, UpdateStatus, TypeOK
<1>4. ASSUME NEW f \in Exec, ApiStep(f) PROVE status'[e] = status[e]
  <2>1. CASE DispatchExisting(f)
    <3>1. f # e
      BY <2>1 DEF DispatchExisting
    <3> QED BY <2>1, <3>1 DEF DispatchExisting, UpdateStatus, TypeOK
  <2>2. CASE Trigger(f) \/ TriggerCrew(f) \/ Listen(f)
    BY <2>2 DEF Trigger, TriggerCrew, Listen, TypeOK, Finished
  <2>3. CASE CancelWrite(f)
    BY <2>3 DEF CancelWrite, UpdateStatus, TypeOK
  <2>4. CASE \/ Enqueue(f) \/ SubmitLost(f) \/ CancelCheck(f) \/ CancelFlag(f) \/ CancelLost(f)
             \/ CancelKeyExpires(f) \/ ReadSlot(f) \/ SlotGone(f) \/ ClaimLost(f)
             \/ DecideEnd(f) \/ EndLost(f)
    BY <2>4 DEF Enqueue, SubmitLost, CancelCheck, CancelFlag, CancelLost, CancelKeyExpires,
                ReadSlot, SlotGone, ClaimLost, DecideEnd, EndLost, RowUnchanged
  <2> QED BY <1>4, <1>3, <2>1, <2>2, <2>3, <2>4 DEF ApiStep
<1>5. ASSUME NEW w \in Worker, WorkerStep(w) PROVE status'[e] = status[e]
  BY <1>2, <1>5, Labels
  DEF WorkerStep, Take, SetupFails, WriteRunning, EnterBody, BodyReturns, BodyRaises,
      BodySeesCancel, WriteCompleted, WriteCompletedFails, LogCompletedFails,
      WriteCancelled, CancelHandlerFails, Done, WriteFailed, WriteFailedFails, NetRead,
      NetWrite, NetMissesCrew, NetFails, Silent, Step, Unfinished
<1>6. CASE ReapWrite
  BY <1>6 DEF ReapWrite
<1>7. ASSUME \/ \E f \in Exec : BecomeStale(f)
             \/ \E w \in Worker : Kill(w) \/ VisibilityTimeout(w)
             \/ ReapRead \/ ReapLost \/ UNCHANGED vars
      PROVE  status'[e] = status[e]
  BY <1>7 DEF BecomeStale, Kill, VisibilityTimeout, ReapRead, ReapLost, vars
<1>8. CASE \E f \in Exec : ApiStep(f) \/ WriteEnd(f, "failed")
  BY <1>4, <1>3, <1>8
<1>9. CASE \E w \in Worker : WorkerStep(w)
  BY <1>5, <1>9
<1> QED BY <1>6, <1>7, <1>8, <1>9 DEF Next

\* Outside the known ways to overwrite it a verdict is final.
THEOREM VerdictsAreFinal == Spec => VerdictStands
<1>1. VerdictInv /\ [Next]_vars =>
        [\A e \in Exec :
           status[e] \in Finished /\ ~MayBeOverwritten(e) => status'[e] = status[e]]_vars
  BY StepKeepsVerdict
<1> QED BY <1>1, VerdictInvHolds, PTL DEF Spec, VerdictStands
=============================================================================
