--------------------------- MODULE IntegrationPolling ---------------------------
(***************************************************************************)
(* The cursor of one polling trigger and everybody who moves it: the beat  *)
(* task that polls due rows (scheduler/integration_polling.py), the save   *)
(* of a workflow (features/workflows/service.py), the Listen request and   *)
(* its poll loop (features/triggers/router.py, polling_listener.py) and    *)
(* manual runs of the node (node_system/scaffolds/polling_node_factory.py).*)
(* The provider's events are numbered.  A poller emits the oldest ones     *)
(* behind the cursor, as many as its cap allows, and moves the cursor to   *)
(* the last one emitted (gforms, gtasks, gchat, Telegram) or past them all *)
(* (the strategies of scaffolds/polling_cursor.py).  A step ends where the *)
(* code awaits something another process can change.                       *)
(***************************************************************************)
EXTENDS Integers

CONSTANTS
  Tick,      \* runs of poll_integration_triggers that may overlap
  Listen,    \* clicks on Listen, one poll loop each
  run,       \* the worker that executes the node in manual runs, one at a time
  NoListen,  \* no polling listen slot
  NoRow,     \* no integration_trigger_state row
  MaxPerPoll,\* max_per_poll: how many matches a poll emits
  MaxEvents  \* bound: how many events the provider produces

ASSUME NoneAssumption == NoListen \notin Listen /\ NoRow \notin Nat
ASSUME RoleAssumption == Tick \cap Listen = {} /\ run \notin Tick \cup Listen
ASSUME EventsAssumption == MaxEvents \in Nat /\ MaxPerPoll \in Nat \ {0}

VARIABLES
  produced,  \* the provider's last event
  row,       \* committed cursor of the trigger's row
  due,       \* next_poll_at of the row has passed
  wf,        \* the workflow: active, active without the node, paused, deleted
  defers,    \* the provider's poller leaves what is over its cap to the next poll
  orphan,    \* sessions holding a row that was deleted since they loaded it
  tpc,       \* where each beat run is with the row
  tcur,      \* the cursor it loaded
  tnew,      \* the cursor the poller returned to it
  ttodo,     \* matches it has not dispatched
  slot,      \* polling:listen:slot of the node
  lpc,       \* where each Listen request, then its poll loop, is
  lcur, lnew,\* the cursor it read, the cursor the poller returned
  npc,       \* where the manual run is
  ncur, nnew,
  handled,   \* history: events dispatched to a run or lost in a failed dispatch,
             \* behind a snapshot, or taken by a poll loop or a manual run
  passed     \* history: events over the cap of a poll that moved past them

world == <<produced, wf, defers>>
state == <<row, due, orphan>>
tickVars == <<tpc, tcur, tnew, ttodo>>
listenVars == <<slot, lpc, lcur, lnew>>
runVars == <<npc, ncur, nnew>>
vars == <<world, state, tickVars, listenVars, runVars, handled, passed>>

Event == 1..MaxEvents
Cursor == 0..MaxEvents
WF == {"active", "without", "paused", "deleted"}
TPC == {"idle", "read", "checked", "loaded", "deleting", "dispatching"}
LPC == {"none", "snapped", "committed", "listening", "read", "polled", "matched",
        "cleanup", "deleting", "done"}

TypeOK ==
  /\ produced \in Cursor /\ wf \in WF /\ defers \in BOOLEAN
  /\ row \in Cursor \cup {NoRow} /\ due \in BOOLEAN
  /\ orphan \in SUBSET (Tick \cup Listen \cup {run})
  /\ tpc \in [Tick -> TPC]
  /\ tcur \in [Tick -> Cursor] /\ tnew \in [Tick -> Cursor]
  /\ ttodo \in [Tick -> SUBSET Event]
  /\ slot \in Listen \cup {NoListen}
  /\ lpc \in [Listen -> LPC]
  /\ lcur \in [Listen -> Cursor \cup {NoRow}] /\ lnew \in [Listen -> Cursor]
  /\ npc \in {"idle", "read", "polled"}
  /\ ncur \in Cursor \cup {NoRow} /\ nnew \in Cursor
  /\ handled \in SUBSET Event /\ passed \in SUBSET Event

Init ==
  /\ produced = 0 /\ wf = "paused" /\ defers \in BOOLEAN
  /\ row = NoRow /\ due = FALSE /\ orphan = {}
  /\ tpc = [k \in Tick |-> "idle"]
  /\ tcur = [k \in Tick |-> 0] /\ tnew = [k \in Tick |-> 0]
  /\ ttodo = [k \in Tick |-> {}]
  /\ slot = NoListen
  /\ lpc = [l \in Listen |-> "none"]
  /\ lcur = [l \in Listen |-> NoRow] /\ lnew = [l \in Listen |-> 0]
  /\ npc = "idle" /\ ncur = NoRow /\ nnew = 0
  /\ handled = {} /\ passed = {}

\* The events between two cursors
Behind(c, d) == {v \in Event : c < v /\ v <= d}

\* The cursor a poller returns for cursor c when the last event is d.  A poller
\* without a cursor takes a snapshot: it returns d and no match.
NewCursor(c, d) ==
  IF c # NoRow /\ defers /\ c + MaxPerPoll < d THEN c + MaxPerPoll ELSE d

\* The matches it emits, the oldest ones.
Matches(c, d) == {v \in Behind(c, d) : v <= c + MaxPerPoll}

\* Sessions that hold the row as they loaded it.
Holder == {k \in Tick : tpc[k] # "idle"} \cup {l \in Listen : lcur[l] # NoRow}
            \cup (IF ncur = NoRow THEN {} ELSE {run})

DeleteRow(by) ==
  /\ row' = NoRow /\ due' = FALSE
  /\ orphan' = (IF row = NoRow THEN orphan ELSE orphan \cup Holder) \ by

\* upsert of a session that loaded cursor c: SQLAlchemy writes the cursor when it
\* differs from the one loaded, a missing row is inserted, and a row put in the
\* place of the loaded one is read afresh.
Upsert(self, c, new) ==
  row' = IF row = NoRow \/ new # c \/ self \in orphan THEN new ELSE row

-----------------------------------------------------------------------------
(* The provider, the clock and the save request.                           *)

ProviderEvent ==
  /\ produced < MaxEvents
  /\ produced' = produced + 1
  /\ UNCHANGED <<wf, defers, state, tickVars, listenVars, runVars, handled, passed>>

BecomeDue ==
  /\ row # NoRow /\ ~due
  /\ due' = TRUE
  /\ UNCHANGED <<world, row, orphan, tickVars, listenVars, runVars, handled, passed>>

\* update_workflow commits is_active and the graph.  _sync_integration_polling
\* then inserts or deletes the row with a flush and no commit: the session of the
\* request is closed next, which rolls it back.
Save ==
  /\ wf # "deleted" /\ wf' \in {"active", "without", "paused"} \ {wf}
  /\ UNCHANGED <<produced, defers, state, tickVars, listenVars, runVars, handled, passed>>

\* delete_workflow; the foreign key takes the row along.
DeleteWorkflow ==
  /\ wf # "deleted" /\ wf' = "deleted"
  /\ DeleteRow({})
  /\ UNCHANGED <<produced, defers, tickVars, listenVars, runVars, handled, passed>>

-----------------------------------------------------------------------------
(* _poll_due_rows: the rows are loaded by list_due and never refreshed.    *)

At(k, from, to) == tpc[k] = from /\ tpc' = [tpc EXCEPT ![k] = to]

\* The task is through with the row.
Leave(k) ==
  /\ tpc' = [tpc EXCEPT ![k] = "idle"]
  /\ tcur' = [tcur EXCEPT ![k] = 0]
  /\ tnew' = [tnew EXCEPT ![k] = 0]
  /\ ttodo' = [ttodo EXCEPT ![k] = {}]

\* An UPDATE of a row that was deleted, and perhaps inserted anew, raises.
PutOff(k) == due' = (due /\ k \in orphan) /\ orphan' = orphan \ {k}

\* A bug: the comparison with now() the wrong way round.
TickReadEarly(k) ==
  /\ ~due /\ row # NoRow
  /\ At(k, "idle", "read")
  /\ tcur' = [tcur EXCEPT ![k] = row]
  /\ UNCHANGED <<world, state, tnew, ttodo, listenVars, runVars, handled, passed>>

TickRead(k) ==
  /\ due /\ row # NoRow
  /\ At(k, "idle", "read")
  /\ tcur' = [tcur EXCEPT ![k] = row]
  /\ UNCHANGED <<world, state, tnew, ttodo, listenVars, runVars, handled, passed>>

\* A listen slot is open: the row is put off for six minutes.
TickSkip(k) ==
  /\ slot # NoListen
  /\ tpc[k] = "read"
  /\ Leave(k) /\ PutOff(k)
  /\ UNCHANGED <<world, row, listenVars, runVars, handled, passed>>

TickCheck(k) ==
  /\ slot = NoListen
  /\ At(k, "read", "checked")
  /\ UNCHANGED <<world, state, tcur, tnew, ttodo, listenVars, runVars, handled, passed>>

\* The workflow is read.  The row goes when it is deleted, paused, or without the
\* node.
TickLoad(k) ==
  /\ At(k, "checked", IF wf = "active" THEN "loaded" ELSE "deleting")
  /\ UNCHANGED <<world, state, tcur, tnew, ttodo, listenVars, runVars, handled, passed>>

\* The lookup raises: the row stays due.
TickLookupFails(k) ==
  /\ tpc[k] = "checked"
  /\ Leave(k) /\ orphan' = orphan \ {k}
  /\ UNCHANGED <<world, row, due, listenVars, runVars, handled, passed>>

TickDelete(k) ==
  /\ tpc[k] = "deleting"
  /\ Leave(k) /\ DeleteRow({k})
  /\ UNCHANGED <<world, listenVars, runVars, handled, passed>>

\* A bug: the cursor is stored before the matches are dispatched.
TickPollStores(k) ==
  /\ At(k, "loaded", "dispatching")
  /\ tnew' = [tnew EXCEPT ![k] = NewCursor(tcur[k], produced)]
  /\ ttodo' = [ttodo EXCEPT ![k] = Matches(tcur[k], produced)]
  /\ row' = IF row = NoRow THEN NoRow ELSE tnew'[k]
  /\ UNCHANGED <<world, due, orphan, tcur, listenVars, runVars, handled, passed>>

\* A bug: the poller answers with an event that is not there yet.
TickPollBeyond(k) ==
  /\ At(k, "loaded", "dispatching")
  /\ tnew' = [tnew EXCEPT ![k] = produced + 1]
  /\ ttodo' = [ttodo EXCEPT ![k] = Matches(tcur[k], produced + 1)]
  /\ UNCHANGED <<world, state, tcur, listenVars, runVars, handled, passed>>

TickPoll(k) ==
  /\ At(k, "loaded", "dispatching")
  /\ tnew' = [tnew EXCEPT ![k] = NewCursor(tcur[k], produced)]
  /\ ttodo' = [ttodo EXCEPT ![k] = Matches(tcur[k], produced)]
  /\ passed' = passed \cup (Behind(tcur[k], tnew'[k]) \ ttodo'[k])
  /\ UNCHANGED <<world, state, tcur, listenVars, runVars, handled>>

\* No poller for the provider, no token, or the poller raises: tried again later.
TickPollFails(k) ==
  /\ tpc[k] \in {"checked", "loaded"}
  /\ Leave(k) /\ PutOff(k)
  /\ UNCHANGED <<world, row, listenVars, runVars, handled, passed>>

\* One trigger_workflow per match, in order; one that raises is only logged.
TickDispatch(k) ==
  /\ tpc[k] = "dispatching"
  /\ \E v \in ttodo[k] :
       /\ \A u \in ttodo[k] : v <= u
       /\ ttodo' = [ttodo EXCEPT ![k] = @ \ {v}]
       /\ handled' = handled \cup {v}
  /\ UNCHANGED <<world, state, tpc, tcur, tnew, listenVars, runVars, passed>>

\* The cursor, written when it differs from the loaded one, and next_poll_at.
TickPersist(k) ==
  /\ tpc[k] = "dispatching" /\ ttodo[k] = {}
  /\ Leave(k) /\ PutOff(k)
  /\ row' = IF k \notin orphan /\ tnew[k] # tcur[k] THEN tnew[k] ELSE row
  /\ UNCHANGED <<world, listenVars, runVars, handled, passed>>

\* The worker dies, or a statement raises.
TickDies(k) ==
  /\ tpc[k] # "idle"
  /\ Leave(k) /\ orphan' = orphan \ {k}
  /\ UNCHANGED <<world, row, due, listenVars, runVars, handled, passed>>

-----------------------------------------------------------------------------
(* _open_polling_listen, and the loop of poll_listen_slot.                 *)

Go(l, from, to) == lpc[l] = from /\ lpc' = [lpc EXCEPT ![l] = to]

\* The session of the request, or of one round of the loop, is closed.
Forget(l) ==
  /\ lcur' = [lcur EXCEPT ![l] = NoRow]
  /\ lnew' = [lnew EXCEPT ![l] = 0]
  /\ orphan' = orphan \ {l}

\* The snapshot: the poller without a cursor.
ListenSnapshot(l) ==
  /\ Go(l, "none", "snapped")
  /\ lnew' = [lnew EXCEPT ![l] = produced]
  /\ UNCHANGED <<world, state, tickVars, slot, lcur, runVars, handled, passed>>

\* The upsert of the snapshot, with next_poll_at beyond the listen, and the
\* waiting execution row, in one transaction.
ListenCommit(l) ==
  /\ wf # "deleted"
  /\ Go(l, "snapped", "committed")
  /\ row' = lnew[l] /\ due' = FALSE
  /\ handled' = handled \cup Behind(0, lnew[l])
  /\ Forget(l)
  /\ UNCHANGED <<world, tickVars, slot, runVars, passed>>

\* The transaction raises: the request ends with an error.
ListenFails(l) ==
  /\ Go(l, "snapped", "done")
  /\ Forget(l)
  /\ UNCHANGED <<world, row, due, tickVars, slot, runVars, handled, passed>>

\* open_polling_slot; the poll loop is enqueued.
ListenOpen(l) ==
  /\ Go(l, "committed", "listening")
  /\ slot' = l
  /\ UNCHANGED <<world, state, tickVars, lcur, lnew, runVars, handled, passed>>

\* A cancel, the sweeper or the expiry takes the slot.
SlotCloses ==
  /\ slot # NoListen
  /\ slot' = NoListen
  /\ UNCHANGED <<world, state, tickVars, lpc, lcur, lnew, runVars, handled, passed>>

\* The slot is still ours: the loop reads the row.
LoopRead(l) ==
  /\ slot = l
  /\ Go(l, "listening", "read")
  /\ lcur' = [lcur EXCEPT ![l] = row]
  /\ UNCHANGED <<world, state, tickVars, slot, lnew, runVars, handled, passed>>

LoopPoll(l) ==
  /\ Go(l, "read", "polled")
  /\ lnew' = [lnew EXCEPT ![l] = NewCursor(lcur[l], produced)]
  /\ UNCHANGED <<world, state, tickVars, slot, lcur, runVars, handled, passed>>

\* The poller or the upsert raises: the loop sleeps.
LoopPollFails(l) ==
  /\ Go(l, "read", "listening") \/ Go(l, "polled", "listening")
  /\ Forget(l)
  /\ UNCHANGED <<world, row, due, tickVars, slot, runVars, handled, passed>>

\* The cursor is advanced over every match, and the first one is kept.  Without a
\* row the poller takes a snapshot and nothing is stored.
LoopCommit(l) ==
  LET c == lcur[l]
  IN  /\ IF c = NoRow
           THEN Go(l, "polled", "listening") /\ UNCHANGED <<row, handled>>
           ELSE /\ wf # "deleted"
                /\ Go(l, "polled", IF c < lnew[l] THEN "matched" ELSE "listening")
                /\ Upsert(l, c, lnew[l])
                /\ handled' = handled \cup Behind(c, lnew[l])
      /\ Forget(l)
      /\ UNCHANGED <<world, due, tickVars, slot, runVars, passed>>

\* The slot is closed, whoever's it is, and the first match is dispatched to the
\* waiting execution.
LoopFire(l) ==
  /\ Go(l, "matched", "done")
  /\ slot' = NoListen
  /\ UNCHANGED <<world, state, tickVars, lcur, lnew, runVars, handled, passed>>

\* The loop ends by its deadline, a lost slot or a row no longer waiting; some of
\* these exits clean up.
LoopEnds(l) ==
  /\ Go(l, "listening", "done") \/ Go(l, "listening", "cleanup")
  /\ UNCHANGED <<world, state, tickVars, slot, lcur, lnew, runVars, handled, passed>>

\* A bug: the row is dropped without a look at is_active.
CleanupBlindly(l) ==
  /\ Go(l, "cleanup", "done")
  /\ DeleteRow({l})
  /\ UNCHANGED <<world, tickVars, slot, lcur, lnew, runVars, handled, passed>>

\* _cleanup_post_listen reads is_active, then deletes the row.
CleanupRead(l) ==
  /\ Go(l, "cleanup", IF wf = "paused" THEN "deleting" ELSE "done")
  /\ UNCHANGED <<world, state, tickVars, slot, lcur, lnew, runVars, handled, passed>>
CleanupDelete(l) ==
  /\ Go(l, "deleting", "done")
  /\ DeleteRow({l})
  /\ UNCHANGED <<world, tickVars, slot, lcur, lnew, runVars, handled, passed>>

-----------------------------------------------------------------------------
(* The trigger node executed by a manual run.                              *)

RunRead ==
  /\ npc = "idle" /\ npc' = "read"
  /\ ncur' = row
  /\ UNCHANGED <<world, state, tickVars, listenVars, nnew, handled, passed>>

RunPoll ==
  /\ npc = "read" /\ npc' = "polled"
  /\ nnew' = NewCursor(ncur, produced)
  /\ UNCHANGED <<world, state, tickVars, listenVars, ncur, handled, passed>>

\* upsert and commit; the run goes on with the first match, if any.
RunCommit ==
  /\ npc = "polled" /\ npc' = "idle" /\ wf # "deleted"
  /\ Upsert(run, ncur, nnew)
  /\ due' = FALSE
  /\ handled' = handled \cup Behind(IF ncur = NoRow THEN 0 ELSE ncur, nnew)
  /\ ncur' = NoRow /\ nnew' = 0 /\ orphan' = orphan \ {run}
  /\ UNCHANGED <<world, tickVars, listenVars, passed>>

\* The poller or the upsert raises: the node fails.
RunFails ==
  /\ npc # "idle" /\ npc' = "idle"
  /\ ncur' = NoRow /\ nnew' = 0 /\ orphan' = orphan \ {run}
  /\ UNCHANGED <<world, row, due, tickVars, listenVars, handled, passed>>

-----------------------------------------------------------------------------
TickStep(k) ==
  \/ TickRead(k) \/ TickSkip(k) \/ TickCheck(k) \/ TickLoad(k) \/ TickLookupFails(k)
  \/ TickDelete(k) \/ TickPoll(k) \/ TickPollFails(k) \/ TickDispatch(k) \/ TickPersist(k)

ListenStep(l) ==
  \/ ListenSnapshot(l) \/ ListenCommit(l) \/ ListenFails(l) \/ ListenOpen(l)
  \/ LoopRead(l) \/ LoopPoll(l) \/ LoopPollFails(l) \/ LoopCommit(l) \/ LoopFire(l)
  \/ LoopEnds(l) \/ CleanupRead(l) \/ CleanupDelete(l)

Next ==
  \/ ProviderEvent \/ BecomeDue \/ Save \/ DeleteWorkflow \/ SlotCloses
  \/ \E k \in Tick : TickStep(k) \/ TickDies(k)
  \/ \E l \in Listen : ListenStep(l)
  \/ RunRead \/ RunPoll \/ RunCommit \/ RunFails

Spec == Init /\ [][Next]_vars

\* Time passes, slots end and beat goes on; a workflow that is looked up, and a
\* provider that is asked, again and again answers in the end; from some time on no
\* run of the task dies.
Fairness ==
  /\ WF_vars(BecomeDue) /\ WF_vars(SlotCloses)
  /\ \A k \in Tick :
       /\ SF_vars(TickRead(k)) /\ SF_vars(TickCheck(k))
       /\ SF_vars(TickLoad(k)) /\ SF_vars(TickPoll(k))
       /\ WF_vars(TickDelete(k)) /\ WF_vars(TickDispatch(k)) /\ WF_vars(TickPersist(k))
  /\ <>[][\A k \in Tick : ~TickDies(k)]_vars

FairSpec == Spec /\ Fairness

-----------------------------------------------------------------------------
(* Properties.                                                             *)

\* "A crash between dispatch and persist re-emits at worst - never skips": an
\* event the stored cursor has passed was dispatched or failed in its dispatch,
\* lay behind a snapshot, or was taken by a poll loop or a manual run.  Only a
\* poller that moves past what is over its cap skips events.
NothingSkipped ==
  \A v \in Event : row # NoRow /\ v <= row => v \in handled \/ (~defers /\ v \in passed)

\* An active workflow with the node in its graph keeps the row: a beat run or a
\* poll loop decides to delete it only while that is not so, and takes it only
\* after such a decision, which may be out of date by then.
Deciding == {k \in Tick : tpc[k] = "deleting"} \cup {l \in Listen : lpc[l] = "deleting"}
ActiveKeepsRow ==
  [][wf = "active" =>
       /\ Deciding' \subseteq Deciding
       /\ row # NoRow /\ Deciding = {} /\ wf' # "deleted" => row' # NoRow]_vars

\* An active trigger that has a row delivers every event of its provider, but for
\* those over the cap of a poller that moves past them.
EventsArrive ==
  \A v \in Event :
    (wf = "active" /\ row # NoRow /\ v <= produced)
      ~> (v \in handled \/ (~defers /\ v \in passed) \/ wf # "active" \/ row = NoRow)
=============================================================================
