---------------------------- MODULE ExecutionStream ----------------------------
(***************************************************************************)
(* The life cycle of an execution composed with the events that tell its   *)
(* viewers of the end: who writes completed or failed publishes the event  *)
(* afterwards (tasks.py, event_emitter.py), and the WebSocket of a viewer  *)
(* subscribes, reads the row, and streams until an event that ends it      *)
(* (features/executions/websocket.py).  Of the events only those that stop *)
(* the stream are modelled, execution_completed and execution_failed; one  *)
(* socket at a time stands for all viewers, as they do not interact.       *)
(***************************************************************************)
EXTENDS ExecutionLifecycle

VARIABLES
  view,     \* where the socket of each execution is
  inbox,    \* executions whose viewer has a stop event in its subscription
  due,      \* the execution whose stop event each worker has still to publish
  beatDue,  \* those whose stop event reaper or listen loop has still to publish
  missed    \* history: viewers that streamed when their stop event got lost

socketVars == <<view, inbox>>
streamVars == <<view, inbox, due, beatDue, missed>>
allVars == <<vars, streamVars>>

View == {"closed", "subscribed", "streaming"}

StreamTypeOK ==
  /\ view \in [Exec -> View]
  /\ inbox \subseteq Exec
  /\ due \in [Worker -> Exec \cup {NoExec}]
  /\ beatDue \subseteq Exec
  /\ missed \subseteq Exec

StreamInit ==
  /\ Init
  /\ view = [e \in Exec |-> "closed"]
  /\ inbox = {} /\ missed = {} /\ beatDue = {}
  /\ due = [w \in Worker |-> NoExec]

-----------------------------------------------------------------------------
(* The writers.  A worker owes an event from its write until it publishes; *)
(* in between it makes no other step of the task.                          *)

\* A bug: the crash net writes its verdict and tells nobody.
WriteVerdictSilently(w) ==
  /\ due[w] = NoExec
  /\ \/ /\ WriteCompleted(w) \/ WriteFailed(w)
        /\ due' = [due EXCEPT ![w] = at[w]]
     \/ NetWrite(w) /\ UNCHANGED due
  /\ UNCHANGED <<socketVars, beatDue, missed>>

\* update_status(completed), update_status(failed), mark_terminal_if_not.
WriteVerdict(w) ==
  /\ due[w] = NoExec
  /\ WriteCompleted(w) \/ WriteFailed(w) \/ NetWrite(w)
  /\ due' = [due EXCEPT ![w] = at[w]]
  /\ UNCHANGED <<socketVars, beatDue, missed>>

\* Every other step of the task, but for the log behind `completed`.
OtherStep(w) ==
  /\ due[w] = NoExec
  /\ \/ \E e \in Exec : Take(w, e)
     \/ SetupFails(w) \/ WriteRunning(w) \/ EnterBody(w)
     \/ BodyReturns(w) \/ BodyRaises(w) \/ BodySeesCancel(w)
     \/ WriteCompletedFails(w) \/ WriteCancelled(w) \/ CancelHandlerFails(w)
     \/ Done(w) \/ WriteFailedFails(w)
     \/ NetRead(w) \/ NetMissesCrew(w) \/ NetFails(w)
  /\ UNCHANGED streamVars

\* An event that is not published is lost for whoever streams.
Lose(es) == missed' = missed \cup {e \in es : view[e] = "streaming"}

\* That log is written before the event: when it raises there is no event.
LogRaises(w) ==
  /\ due[w] # NoExec /\ LogCompletedFails(w)
  /\ due' = [due EXCEPT ![w] = NoExec]
  /\ Lose({due[w]})
  /\ UNCHANGED <<socketVars, beatDue>>

\* PUBLISH reaches whoever has subscribed.
Reach(es) ==
  inbox' = inbox \cup {e \in es : view[e] \in {"subscribed", "streaming"}}

Publish(w) ==
  /\ due[w] # NoExec
  /\ Reach({due[w]})
  /\ due' = [due EXCEPT ![w] = NoExec]
  /\ UNCHANGED <<vars, view, beatDue, missed>>

\* emit swallows an error of Redis; or the log behind `failed` raises before it.
PublishFails(w) ==
  /\ due[w] # NoExec
  /\ due' = [due EXCEPT ![w] = NoExec]
  /\ Lose({due[w]})
  /\ UNCHANGED <<vars, socketVars, beatDue>>

\* The process dies, with the event it owes.
KillStream(w) ==
  /\ Kill(w)
  /\ due' = [due EXCEPT ![w] = NoExec]
  /\ Lose({due[w]} \ {NoExec})
  /\ UNCHANGED <<socketVars, beatDue>>

\* The reaper publishes after its update, execution by execution.
ReapWriteStream ==
  /\ ReapWrite
  /\ beatDue' = beatDue \cup reaping
  /\ UNCHANGED <<socketVars, due, missed>>

\* The listen loop publishes after it has failed its own row.
FailListen(e) ==
  /\ WriteEnd(e, "failed")
  /\ beatDue' = beatDue \cup {e}
  /\ UNCHANGED <<socketVars, due, missed>>
BeatPublish(e) ==
  /\ e \in beatDue
  /\ Reach({e})
  /\ beatDue' = beatDue \ {e}
  /\ UNCHANGED <<vars, view, due, missed>>
BeatPublishFails(e) ==
  /\ e \in beatDue
  /\ beatDue' = beatDue \ {e}
  /\ Lose({e})
  /\ UNCHANGED <<vars, socketVars, due>>

\* What the life cycle does without an event.
OtherLife ==
  /\ \/ \E e \in Exec : ApiStep(e) \/ BecomeStale(e)
     \/ \E w \in Worker : VisibilityTimeout(w)
     \/ ReapRead \/ ReapLost
  /\ UNCHANGED streamVars

-----------------------------------------------------------------------------
(* The socket.                                                             *)

Show(e, from, to) == view[e] = from /\ view' = [view EXCEPT ![e] = to]

\* A client that was disconnected is a new viewer.
Subscribe(e) ==
  /\ status[e] # "none"
  /\ Show(e, "closed", "subscribed")
  /\ UNCHANGED <<vars, inbox, due, beatDue, missed>>

\* The catch-up reads executions: a finished row closes the socket, and so the
\* viewer of a crew, whose row is elsewhere, always streams.
CatchUp(e) ==
  /\ IF e \notin crew /\ status[e] \in {"completed", "failed"}
       THEN Show(e, "subscribed", "closed") /\ inbox' = inbox \ {e}
       ELSE Show(e, "subscribed", "streaming") /\ UNCHANGED inbox
  /\ UNCHANGED <<vars, due, beatDue, missed>>

\* A bug: the event is forwarded, and the loop goes on.
DeliverOn(e) ==
  /\ e \in inbox /\ view[e] = "streaming"
  /\ inbox' = inbox \ {e}
  /\ UNCHANGED <<vars, view, due, beatDue, missed>>

\* The stop event is forwarded and ends the stream.
Deliver(e) ==
  /\ e \in inbox /\ Show(e, "streaming", "closed")
  /\ inbox' = inbox \ {e} /\ missed' = missed \ {e}
  /\ UNCHANGED <<vars, due, beatDue>>

\* The client goes.
Disconnect(e) ==
  /\ view[e] \in {"subscribed", "streaming"}
  /\ view' = [view EXCEPT ![e] = "closed"]
  /\ inbox' = inbox \ {e} /\ missed' = missed \ {e}
  /\ UNCHANGED <<vars, due, beatDue>>

-----------------------------------------------------------------------------
Emit(w) == WriteVerdict(w) \/ OtherStep(w) \/ LogRaises(w) \/ Publish(w) \/ PublishFails(w)
Beat(e) == BeatPublish(e) \/ BeatPublishFails(e)
Socket(e) == Subscribe(e) \/ CatchUp(e) \/ Deliver(e) \/ Disconnect(e)

StreamNext ==
  \/ \E w \in Worker : Emit(w) \/ KillStream(w)
  \/ \E e \in Exec : Beat(e) \/ FailListen(e) \/ Socket(e)
  \/ ReapWriteStream \/ OtherLife

StreamSpec == StreamInit /\ [][StreamNext]_allVars

\* The fairness of the life cycle, now of the composed steps.  As the deliveries
\* are bounded, every worker and the reaper get their turn when one of them does;
\* sockets come back for ever, so they are scheduled apart.
StreamFairness ==
  /\ WF_allVars((\E w \in Worker : ~InBody(w) /\ Emit(w)) \/ (\E e \in Exec : Beat(e)))
  /\ WF_allVars(\E e \in Exec : CatchUp(e) \/ Deliver(e))
  /\ WF_allVars(\E e \in Exec : BecomeStale(e) /\ UNCHANGED streamVars)
  /\ WF_allVars(ReapRead /\ UNCHANGED streamVars)
  /\ SF_allVars(ReapWriteStream)

FairStreamSpec == StreamSpec /\ StreamFairness

-----------------------------------------------------------------------------
(* Properties.                                                             *)

\* No viewer falls into the gap between the catch-up and the stream ("subscribe
\* to Redis BEFORE the catch-up read"): while one streams from an execution that
\* is completed or failed, the event is in its subscription, or its writer still
\* owes it, or it was never published.
NoTerminalGap ==
  \A e \in Exec \ crew :
    view[e] = "streaming" /\ status[e] \in {"completed", "failed"} =>
      \/ e \in inbox \cup beatDue \cup missed
      \/ \E w \in Worker : due[w] = e

\* So a stream from a finished execution ends, unless its event was lost.
ViewerLearns ==
  \A e \in Exec :
    (view[e] = "streaming" /\ e \notin crew /\ status[e] \in {"completed", "failed"})
      ~> (view[e] # "streaming" \/ status[e] \notin {"completed", "failed"} \/ e \in missed)
=============================================================================
