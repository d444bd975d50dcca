------------------------- MODULE ExecutionStreamProofs -------------------------
(***************************************************************************)
(* Proofs about ExecutionStream, for any number of executions and workers: *)
(* the composition keeps to the life cycle, so whatever is proved of that  *)
(* holds of it, and no viewer falls into the gap between the catch-up and  *)
(* the stream.                                                             *)
(***************************************************************************)
EXTENDS ExecutionStream, ExecutionLifecycleProofs

Stop == {"completed", "failed"}

\* Who may have streamed past the end is told, will be told, or has missed it.
Told(e) ==
  \/ e \in inbox \cup beatDue \cup missed
  \/ \E w \in Worker : due[w] = e

GapInv == StreamTypeOK /\ NoTerminalGap

-----------------------------------------------------------------------------
(* Every step of the composition is a step of the life cycle, or none.     *)

LEMMA StreamStepIsStep == StreamNext => [Next]_vars
<1> SUFFICES ASSUME StreamNext PROVE [Next]_vars
  OBVIOUS
<1>1. ASSUME NEW w \in Worker, WriteVerdict(w) \/ OtherStep(w) \/ LogRaises(w)
      PROVE  Next
  <2>1. WorkerStep(w)
    BY <1>1 DEF WriteVerdict, OtherStep, LogRaises, WorkerStep
  <2> QED BY <2>1 DEF Next
<1>2. ASSUME NEW w \in Worker, Publish(w) \/ PublishFails(w) PROVE UNCHANGED vars
  BY <1>2 DEF Publish, PublishFails
<1>3. ASSUME NEW w \in Worker, KillStream(w) PROVE Next
  BY <1>3 DEF KillStream, Next
<1>4. ASSUME NEW e \in Exec, Beat(e) \/ Socket(e) PROVE UNCHANGED vars
  BY <1>4 DEF Beat, BeatPublish, BeatPublishFails, Socket, Subscribe, CatchUp, Deliver, Disconnect
<1>5. CASE ReapWriteStream
  BY <1>5 DEF ReapWriteStream, Next
<1>6. CASE OtherLife
  BY <1>6 DEF OtherLife, Next
<1>7. ASSUME NEW e \in Exec, FailListen(e) PROVE Next
  BY <1>7 DEF FailListen, Next
<1> QED
  BY <1>1, <1>2, <1>3, <1>4, <1>5, <1>6, <1>7 DEF StreamNext, Emit

\* The composition implements the life cycle: publishing and watching change
\* nothing of it, and hold nothing up that it would let happen.
THEOREM StreamKeepsLifecycle == StreamSpec => Spec
<1>1. StreamInit => Init
  BY DEF StreamInit
<1>2. [StreamNext]_allVars => [Next]_vars
  BY StreamStepIsStep DEF allVars
<1> QED BY <1>1, <1>2, PTL DEF StreamSpec, Spec

\* So the invariant of the verdicts holds in the composition, too.
THEOREM StreamVerdicts == StreamSpec => []VerdictInv
BY StreamKeepsLifecycle, VerdictInvHolds, PTL

-----------------------------------------------------------------------------
(* The gap.  What matters of a step of the life cycle: whether it finishes *)
(* a row; and a crew's row stays in its table.                             *)

Quiet ==
  /\ crew \subseteq crew'
  /\ \A e \in Exec : status'[e] \in Stop => status[e] \in Stop

\* A quiet step that leaves the events alone opens no gap.
LEMMA QuietKeepsGap ==
  ASSUME NoTerminalGap, Quiet, UNCHANGED streamVars
  PROVE  NoTerminalGap'
BY DEF NoTerminalGap, Quiet, streamVars, Stop

\* The steps that owe no event.
LEMMA OtherStepQuiet ==
  ASSUME TypeOK, NEW w \in Worker, OtherStep(w)
  PROVE  Quiet /\ UNCHANGED <<streamVars, reaping>>
<1>1. CASE WriteRunning(w) \/ WriteCancelled(w)
  <2>1. PICK s \in {"running", "cancelled"} : status' = [status EXCEPT ![at[w]] = s]
    BY <1>1 DEF WriteRunning, WriteCancelled, UpdateStatus
  <2>2. UNCHANGED <<crew, reaping>>
    BY <1>1 DEF WriteRunning, WriteCancelled, apiVars
  <2> QED BY <2>1, <2>2 DEF Quiet, Stop, OtherStep, TypeOK
<1>2. CASE ~(WriteRunning(w) \/ WriteCancelled(w))
  <2>1. UNCHANGED <<status, crew, reaping, streamVars>>
    BY <1>2 DEF OtherStep, Take, SetupFails, EnterBody, BodyReturns, BodyRaises, BodySeesCancel,
        WriteCompletedFails, CancelHandlerFails, Done, WriteFailedFails, NetRead,
        NetMissesCrew, NetFails, Silent, apiVars
  <2> QED BY <2>1 DEF Quiet
<1> QED BY <1>1, <1>2

LEMMA ApiQuiet ==
  ASSUME TypeOK, NEW e \in Exec, ApiStep(e)
  PROVE  Quiet
<1> USE DEF OtherThanListen
<1>1. CASE Trigger(e) \/ TriggerCrew(e) \/ Listen(e)
  BY <1>1 DEF Trigger, TriggerCrew, Listen, Quiet, Stop, TypeOK
<1>2. CASE CancelWrite(e) \/ DispatchExisting(e)
  BY <1>2 DEF CancelWrite, DispatchExisting, UpdateStatus, Quiet, Stop, TypeOK
<1>3. CASE \/ Enqueue(e) \/ SubmitLost(e) \/ CancelCheck(e) \/ CancelFlag(e) \/ CancelLost(e)
           \/ CancelKeyExpires(e) \/ ReadSlot(e) \/ SlotGone(e) \/ ClaimLost(e)
           \/ DecideEnd(e) \/ EndLost(e)
  BY <1>3 DEF Enqueue, SubmitLost, CancelCheck, CancelFlag, CancelLost, CancelKeyExpires,
      ReadSlot, SlotGone, ClaimLost, DecideEnd, EndLost, RowUnchanged, Quiet, apiVars
<1>4. ASSUME NEW s \in {"cancelled", "timeout"}, WriteEnd(e, s) PROVE Quiet
  BY <1>4 DEF WriteEnd, UpdateStatus, Quiet, Stop, TypeOK
<1> QED BY <1>1, <1>2, <1>3, <1>4 DEF ApiStep

LEMMA OtherLifeKeepsGap ==
  ASSUME TypeOK, GapInv, OtherLife
  PROVE  GapInv'
<1>1. UNCHANGED streamVars
  BY DEF OtherLife
<1>2. Quiet
  <2>1. CASE \E e \in Exec : ApiStep(e)
    BY <2>1, <1>1, ApiQuiet DEF GapInv, streamVars
  <2>2. CASE \E e \in Exec : BecomeStale(e)
    BY <2>2, <1>1 DEF BecomeStale, apiVars, Quiet, GapInv, streamVars
  <2>3. CASE \E w \in Worker : VisibilityTimeout(w)
    BY <2>3, <1>1 DEF VisibilityTimeout, apiVars, Quiet, GapInv, streamVars
  <2>4. CASE ReapRead
    BY <2>4, <1>1 DEF ReapRead, apiVars, Quiet, streamVars
  <2>5. CASE ReapLost
    BY <2>5, <1>1 DEF ReapLost, apiVars, Quiet
  <2> QED BY <2>1, <2>2, <2>3, <2>4, <2>5 DEF OtherLife
<1>3. StreamTypeOK'
  BY <1>1 DEF GapInv, StreamTypeOK, streamVars
<1> QED BY <1>1, <1>2, <1>3, QuietKeepsGap DEF GapInv

-----------------------------------------------------------------------------
(* The worker's steps.                                                     *)

LEMMA WriteVerdictKeepsGap ==
  ASSUME TypeOK, GapInv, NEW w \in Worker, WriteVerdict(w)
  PROVE  GapInv'
<1>1. PICK s \in {"completed", "failed"} : status' = [status EXCEPT ![at[w]] = s]
  BY DEF WriteVerdict, WriteCompleted, WriteFailed, NetWrite, UpdateStatus
<1>2. UNCHANGED <<crew, reaping>> /\ wpc[w] # "idle"
  BY DEF WriteVerdict, WriteCompleted, WriteFailed, NetWrite, Step, apiVars
<1>3. /\ due[w] = NoExec /\ due' = [due EXCEPT ![w] = at[w]]
      /\ UNCHANGED <<view, inbox, beatDue, missed>>
  BY DEF WriteVerdict, socketVars
<1>4. at[w] \in Exec
  BY <1>2, BusyRuns
<1>5. StreamTypeOK'
  BY <1>2, <1>3, <1>4 DEF GapInv, StreamTypeOK
<1>6. ASSUME NEW e \in Exec \ crew, view[e] = "streaming", status'[e] \in Stop
      PROVE  Told(e)'
  <2>1. CASE e = at[w]
    BY <2>1, <1>3 DEF Told, GapInv, StreamTypeOK
  <2>2. CASE e # at[w]
    <3>1. Told(e)
      BY <2>2, <1>1, <1>6 DEF GapInv, NoTerminalGap, Told, Stop, TypeOK
    <3> QED BY <3>1, <1>3, NoExecAssumption DEF Told, GapInv, StreamTypeOK
  <2> QED BY <2>1, <2>2
<1> QED BY <1>2, <1>3, <1>5, <1>6 DEF GapInv, NoTerminalGap, Told, Stop

\* A worker that stops owing its event has told the viewer, or failed to.
LEMMA SettleKeepsGap ==
  ASSUME GapInv, NEW w \in Worker, due' = [due EXCEPT ![w] = NoExec],
         UNCHANGED <<status, crew, reaping, view, beatDue>>,
         \/ UNCHANGED inbox /\ Lose({due[w]} \ {NoExec})
         \/ UNCHANGED missed /\ Reach({due[w]} \ {NoExec})
  PROVE  GapInv'
<1>1. StreamTypeOK'
  BY DEF GapInv, StreamTypeOK, Lose, Reach
<1>2. /\ inbox \subseteq inbox' /\ missed \subseteq missed'
      /\ \A e \in Exec : view[e] = "streaming" /\ e = due[w] => e \in inbox' \cup missed'
  BY NoExecAssumption DEF Lose, Reach
<1>3. ASSUME NEW e \in Exec, view[e] = "streaming", Told(e) PROVE Told(e)'
  <2>1. CASE e = due[w]
    BY <2>1, <1>2, <1>3 DEF Told
  <2>2. CASE e # due[w]
    BY <2>2, <1>2, <1>3 DEF Told, GapInv, StreamTypeOK
  <2> QED BY <2>1, <2>2
<1> QED BY <1>1, <1>3 DEF GapInv, NoTerminalGap, Told

LEMMA EmitKeepsGap ==
  ASSUME TypeOK, GapInv, NEW w \in Worker, Emit(w) \/ KillStream(w)
  PROVE  GapInv'
<1>1. CASE WriteVerdict(w)
  BY <1>1, WriteVerdictKeepsGap
<1>2. CASE OtherStep(w)
  BY <1>2, OtherStepQuiet, QuietKeepsGap DEF GapInv, StreamTypeOK, streamVars
<1>3. CASE LogRaises(w)
  <2>1. UNCHANGED <<status, crew, reaping>>
    BY <1>3 DEF LogRaises, LogCompletedFails, apiVars
  <2>2. Lose({due[w]} \ {NoExec})
    BY <1>3 DEF LogRaises, Lose
  <2> QED BY <2>1, <2>2, <1>3, SettleKeepsGap DEF LogRaises, socketVars
<1>4. CASE Publish(w)
  <2>1. Reach({due[w]} \ {NoExec})
    BY <1>4 DEF Publish, Reach
  <2> QED BY <2>1, <1>4, SettleKeepsGap DEF Publish, vars, apiVars
<1>5. CASE PublishFails(w)
  <2>1. Lose({due[w]} \ {NoExec})
    BY <1>5 DEF PublishFails, Lose
  <2> QED BY <2>1, <1>5, SettleKeepsGap DEF PublishFails, vars, apiVars, socketVars
<1>6. CASE KillStream(w)
  <2>1. UNCHANGED <<status, crew, reaping>>
    BY <1>6 DEF KillStream, Kill, apiVars
  <2> QED BY <2>1, <1>6, SettleKeepsGap DEF KillStream, socketVars
<1> QED BY <1>1, <1>2, <1>3, <1>4, <1>5, <1>6 DEF Emit

-----------------------------------------------------------------------------
(* The reaper and the socket.                                              *)

LEMMA ReapWriteKeepsGap ==
  ASSUME TypeOK, GapInv, ReapWriteStream
  PROVE  GapInv'
<1>1. /\ status' = [e \in Exec |-> IF e \in reaping THEN "failed" ELSE status[e]]
      /\ UNCHANGED crew
      /\ beatDue' = beatDue \cup reaping
      /\ UNCHANGED <<view, inbox, due, missed>>
  BY DEF ReapWriteStream, ReapWrite, apiVars, socketVars
<1>2. StreamTypeOK'
  BY <1>1 DEF GapInv, StreamTypeOK, TypeOK
<1> QED BY <1>1, <1>2 DEF GapInv, NoTerminalGap

\* The listen loop fails a row, and owes the event for it.
LEMMA FailListenKeepsGap ==
  ASSUME TypeOK, GapInv, NEW e \in Exec, FailListen(e)
  PROVE  GapInv'
<1>1. /\ status' = [status EXCEPT ![e] = "failed"]
      /\ UNCHANGED crew
      /\ beatDue' = beatDue \cup {e}
      /\ UNCHANGED <<view, inbox, due, missed>>
  BY DEF FailListen, WriteEnd, UpdateStatus, OtherThanListen, socketVars
<1>2. StreamTypeOK'
  BY <1>1 DEF GapInv, StreamTypeOK
<1> QED BY <1>1, <1>2 DEF GapInv, NoTerminalGap, TypeOK

LEMMA BeatKeepsGap ==
  ASSUME GapInv, NEW e \in Exec, Beat(e)
  PROVE  GapInv'
<1>1. /\ UNCHANGED <<status, crew, reaping, view, due>> /\ beatDue' = beatDue \ {e}
      /\ inbox \subseteq inbox' /\ missed \subseteq missed'
      /\ inbox' \subseteq inbox \cup {e} /\ missed' \subseteq missed \cup {e}
      /\ view[e] = "streaming" => e \in inbox' \cup missed'
  BY DEF Beat, BeatPublish, BeatPublishFails, Reach, Lose, socketVars, vars, apiVars
<1>2. StreamTypeOK'
  BY <1>1 DEF GapInv, StreamTypeOK
<1> QED BY <1>1, <1>2 DEF GapInv, NoTerminalGap

\* The catch-up lets a viewer through to the stream only from a row that is not
\* finished, or from a crew's; a viewer that goes takes its event along.
LEMMA SocketKeepsGap ==
  ASSUME GapInv, NEW e \in Exec, Socket(e)
  PROVE  GapInv'
<1>1. UNCHANGED <<status, crew, reaping, due, beatDue>>
  BY DEF Socket, Subscribe, CatchUp, Deliver, Disconnect, vars, apiVars
<1>2. PICK to \in View : view' = [view EXCEPT ![e] = to]
  BY DEF Socket, Subscribe, CatchUp, Deliver, Disconnect, Show, View
<1>3. /\ inbox \ {e} \subseteq inbox' /\ missed \ {e} \subseteq missed'
      /\ inbox' \subseteq inbox /\ missed' \subseteq missed
  BY DEF Socket, Subscribe, CatchUp, Deliver, Disconnect
<1>4. view'[e] = "streaming" => e \in crew \/ status[e] \notin Stop
  BY DEF Socket, Subscribe, CatchUp, Deliver, Disconnect, Show, Stop, GapInv, StreamTypeOK
<1>5. StreamTypeOK'
  BY <1>1, <1>2, <1>3 DEF GapInv, StreamTypeOK
<1>6. ASSUME NEW f \in Exec \ crew, view'[f] = "streaming", status[f] \in Stop
      PROVE  Told(f)'
  <2>1. f # e
    BY <1>4, <1>6
  <2>2. Told(f)
    BY <2>1, <1>2, <1>6 DEF GapInv, NoTerminalGap, StreamTypeOK, Told, Stop
  <2> QED BY <2>1, <2>2, <1>1, <1>3 DEF Told
<1> QED BY <1>1, <1>5, <1>6 DEF GapInv, NoTerminalGap, Told, Stop

-----------------------------------------------------------------------------
(* The theorem.                                                            *)

LEMMA GapStep ==
  ASSUME TypeOK, GapInv, [StreamNext]_allVars
  PROVE  GapInv'
<1>1. CASE \E w \in Worker : Emit(w) \/ KillStream(w)
  BY <1>1, EmitKeepsGap
<1>2. CASE \E e \in Exec : Beat(e) \/ Socket(e)
  BY <1>2, BeatKeepsGap, SocketKeepsGap
<1>3. CASE ReapWriteStream
  BY <1>3, ReapWriteKeepsGap
<1>4. CASE OtherLife
  BY <1>4, OtherLifeKeepsGap
<1>5. CASE \E e \in Exec : FailListen(e)
  BY <1>5, FailListenKeepsGap
<1>6. CASE UNCHANGED allVars
  BY <1>6 DEF allVars, streamVars, vars, apiVars, GapInv, StreamTypeOK, NoTerminalGap
<1> QED BY <1>1, <1>2, <1>3, <1>4, <1>6, <1>5 DEF StreamNext

\* Whoever streams from a finished execution has its event, is owed it, or has
\* lost it to a failed publish: the order of subscription and catch-up in
\* websocket.py, against the order of write and publish in tasks.py, leaves no
\* other case.
THEOREM NoGap == StreamSpec => []NoTerminalGap
<1>1. StreamInit => GapInv
  BY DEF StreamInit, Init, GapInv, StreamTypeOK, View, NoTerminalGap
<1>2. TypeOK /\ GapInv /\ [StreamNext]_allVars => GapInv'
  BY GapStep
<1>3. GapInv => NoTerminalGap
  BY DEF GapInv
<1>4. StreamSpec => []TypeOK
  BY StreamKeepsLifecycle, TypeCorrect, PTL
<1> QED BY <1>1, <1>2, <1>3, <1>4, PTL DEF StreamSpec
=============================================================================
