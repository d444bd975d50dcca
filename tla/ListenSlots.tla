------------------------------ MODULE ListenSlots ------------------------------
(***************************************************************************)
(* "Listen for the next event" of a Meta trigger: the Redis slot of a      *)
(* waiting execution (features/triggers/router.py, listen_service.py), the *)
(* webhook that claims slots and dispatches their executions               *)
(* (features/meta/service.py) and the cancel request.  Every Redis command *)
(* is a step of its own; a request whose process dies takes no further     *)
(* step.  A list of slots is a bag, the number of times each execution is  *)
(* in it: its order is that of SMEMBERS and SCAN, which is arbitrary.  The *)
(* status of the row, with the writes of dispatch_existing, cancel_listen  *)
(* and the sweeper, is in the module ExecutionLifecycle.                   *)
(***************************************************************************)
EXTENDS Integers

CONSTANTS
  Exec,      \* executions that listen, each once
  Node,      \* trigger nodes; a node has one slot key
  Tuple,     \* routing tuples (object_type, target_id, field)
  node,      \* the trigger node each execution listens on
  Receiver,  \* webhook deliveries, one event each
  Alias,     \* <<t, u>>: the credential of a slot for u owns the target of t
  MaxScans,  \* bound: how many index keys one SCAN returns, repetitions included
  NoExec, NoTuple, NoEntry

Entry == Tuple \X Node  \* a slot key in the index of a tuple
Nothing == [e \in Exec |-> 0]  \* an empty list

ASSUME NoneAssumption == NoExec \notin Exec /\ NoTuple \notin Tuple /\ NoEntry \notin Entry
ASSUME TargetAssumption == node \in [Exec -> Node]
ASSUME AliasAssumption == Alias \subseteq Tuple \X Tuple
ASSUME ScansAssumption == MaxScans \in Nat

VARIABLES
  lpc,      \* where listen_workflow is for each execution
  tuple,    \* the tuple each execution listens for
  seen,     \* the tuple open_slot found in the slot it replaces
  slot,     \* meta:listen:slot:<node>: the execution in the payload
  index,    \* meta:listen:index:<tuple>: the entries, over all tuples
  expiring, \* tuples whose index has a time to live: 360 s from its last EXPIRE
  guarded,  \* nodes whose slot, of 300 s, was SET before an EXPIRE of its index
  rpc,      \* where each webhook delivery is in receive_webhook
  event,    \* the tuple of the event it handles
  scans,    \* index keys its SCAN has returned
  todo,     \* entries of the index it has read and still has to look up
  hold,     \* the payload it has read and not acted on
  srem,     \* the entry its next command removes
  cands,    \* what list_slots_for_event found
  claimed,  \* slots it has claimed and not dispatched
  cpc,      \* where cancel_listen is for each node
  closing,  \* the payload close_slot has read
  fires,    \* history: how often each execution was dispatched
  overlap,  \* history: executions read while a delivery held them already
  unindexed \* history: nodes whose slot lost its entry, to the SREM of another
            \* request or to the lapse of the index before its EXPIRE

listenVars == <<lpc, tuple, seen>>
indexVars == <<index, expiring>>
receiverVars == <<rpc, event, scans, todo, hold, srem, cands, claimed>>
cancelVars == <<cpc, closing>>
historyVars == <<fires, overlap, unindexed>>
vars == <<listenVars, slot, guarded, indexVars, receiverVars, cancelVars,
          historyVars>>

LPC == {"none", "created", "read", "cleared", "set", "added", "open"}
RPC == {"idle", "done", "exact", "delete", "list", "choose", "fire"}

TypeOK ==
  /\ lpc \in [Exec -> LPC]
  /\ tuple \in [Exec -> Tuple \cup {NoTuple}]
  /\ seen \in [Exec -> Tuple \cup {NoTuple}]
  /\ slot \in [Node -> Exec \cup {NoExec}]
  /\ index \in SUBSET Entry /\ expiring \in SUBSET Tuple /\ guarded \in SUBSET Node
  /\ rpc \in [Receiver -> RPC]
  /\ event \in [Receiver -> Tuple \cup {NoTuple}]
  /\ scans \in [Receiver -> Nat]
  /\ todo \in [Receiver -> SUBSET Entry]
  /\ hold \in [Receiver -> Exec \cup {NoExec}]
  /\ srem \in [Receiver -> Entry \cup {NoEntry}]
  /\ cands \in [Receiver -> [Exec -> Nat]]
  /\ claimed \in [Receiver -> [Exec -> Nat]]
  /\ cpc \in [Node -> {"idle", "delete", "srem"}]
  /\ closing \in [Node -> Exec \cup {NoExec}]
  /\ \A n \in Node : cpc[n] # "idle" => closing[n] \in Exec
  /\ fires \in [Exec -> Nat]
  /\ overlap \in SUBSET Exec
  /\ unindexed \in SUBSET Node

Init ==
  /\ lpc = [e \in Exec |-> "none"]
  /\ tuple = [e \in Exec |-> NoTuple]
  /\ seen = [e \in Exec |-> NoTuple]
  /\ slot = [n \in Node |-> NoExec]
  /\ index = {} /\ expiring = {} /\ guarded = {}
  /\ rpc = [r \in Receiver |-> "idle"]
  /\ event = [r \in Receiver |-> NoTuple]
  /\ scans = [r \in Receiver |-> 0]
  /\ todo = [r \in Receiver |-> {}]
  /\ hold = [r \in Receiver |-> NoExec]
  /\ srem = [r \in Receiver |-> NoEntry]
  /\ cands = [r \in Receiver |-> Nothing]
  /\ claimed = [r \in Receiver |-> Nothing]
  /\ cpc = [n \in Node |-> "idle"]
  /\ closing = [n \in Node |-> NoExec]
  /\ fires = [e \in Exec |-> 0]
  /\ overlap = {} /\ unindexed = {}

-----------------------------------------------------------------------------
(* Redis: the slot key of a node and the index sets.                       *)

\* The event is for the target the execution listens on, by one of its ids.
Covers(t, e) == t = tuple[e] \/ <<t, tuple[e]>> \in Alias

EntryOf(e) == <<tuple[e], node[e]>>

\* SREM of one entry: the slot it belonged to may be another one by now.  An
\* index that is empty is gone, with its time to live.
RemoveEntry(i) ==
  /\ index' = index \ {i}
  /\ expiring' = IF \E n \in Node : n # i[2] /\ <<i[1], n>> \in index
                   THEN expiring ELSE expiring \ {i[1]}
  /\ unindexed' = IF slot[i[2]] # NoExec /\ tuple[slot[i[2]]] = i[1]
                    THEN unindexed \cup {i[2]} ELSE unindexed

\* SET of the slot: what was known of its entry is about an older slot.
PutSlot(n, e) ==
  /\ slot' = [slot EXCEPT ![n] = e]
  /\ guarded' = guarded \ {n} /\ unindexed' = unindexed \ {n}

DeleteSlot(n) ==
  /\ slot' = [slot EXCEPT ![n] = NoExec]
  /\ guarded' = guarded \ {n} /\ unindexed' = unindexed \ {n}

\* The open slots of a tuple
SlotsOf(t) == {n \in Node : slot[n] # NoExec /\ tuple[slot[n]] = t}

\* The slot's five minutes are over.
SlotExpires(n) ==
  /\ slot[n] # NoExec
  /\ DeleteSlot(n)
  /\ UNCHANGED <<listenVars, indexVars, receiverVars, cancelVars, fires, overlap>>

\* The index of a tuple lives a minute longer than the slots SET before its last
\* EXPIRE; it can lapse on a slot that is SET and waits for that EXPIRE.
IndexExpires(t) ==
  /\ t \in expiring /\ SlotsOf(t) \cap guarded = {}
  /\ index' = {i \in index : i[1] # t} /\ expiring' = expiring \ {t}
  /\ unindexed' = unindexed \cup {n \in SlotsOf(t) : lpc[slot[n]] # "open"}
  /\ UNCHANGED <<listenVars, slot, guarded, receiverVars, cancelVars, fires, overlap>>

-----------------------------------------------------------------------------
(* listen_workflow and open_slot.                                          *)

Listening(e, from, to) == lpc[e] = from /\ lpc' = [lpc EXCEPT ![e] = to]

\* The row is committed before the slot exists.
Listen(e, t) ==
  /\ Listening(e, "none", "created")
  /\ tuple' = [tuple EXCEPT ![e] = t]
  /\ UNCHANGED <<seen, slot, guarded, indexVars, receiverVars, cancelVars, historyVars>>

\* GET of the slot to be replaced.
OpenRead(e) ==
  LET old == slot[node[e]]
  IN  /\ IF old = NoExec
           THEN Listening(e, "created", "cleared") /\ UNCHANGED seen
           ELSE /\ Listening(e, "created", "read")
                /\ seen' = [seen EXCEPT ![e] = tuple[old]]
      /\ UNCHANGED <<tuple, slot, guarded, indexVars, receiverVars, cancelVars, historyVars>>

\* SREM of its entry.
OpenClear(e) ==
  /\ Listening(e, "read", "cleared")
  /\ RemoveEntry(<<seen[e], node[e]>>)
  /\ seen' = [seen EXCEPT ![e] = NoTuple]
  /\ UNCHANGED <<tuple, slot, guarded, receiverVars, cancelVars, fires, overlap>>

\* A bug: the slot may be kept for an older execution of the node.
OpenSetKeepsOlder(e) ==
  /\ Listening(e, "cleared", "set")
  /\ \E d \in Exec : (lpc[d] = "open" \/ d = e) /\ node[d] = node[e] /\ PutSlot(node[e], d)
  /\ UNCHANGED <<tuple, seen, indexVars, receiverVars, cancelVars, fires, overlap>>

\* SET of the slot.
OpenSet(e) ==
  /\ Listening(e, "cleared", "set")
  /\ PutSlot(node[e], e)
  /\ UNCHANGED <<tuple, seen, indexVars, receiverVars, cancelVars, fires, overlap>>

\* SADD to the index, which keeps the time to live it has, if any.
OpenIndex(e) ==
  /\ Listening(e, "set", "added")
  /\ index' = index \cup {EntryOf(e)}
  /\ unindexed' = IF slot[node[e]] # NoExec /\ EntryOf(slot[node[e]]) = EntryOf(e)
                    THEN unindexed \ {node[e]} ELSE unindexed
  /\ UNCHANGED <<tuple, seen, slot, guarded, expiring, receiverVars, cancelVars,
                 fires, overlap>>

\* A bug: EXPIRE with NX, so that an index keeps the time to live it has.
OpenExpireOnce(e) ==
  /\ Listening(e, "added", "open")
  /\ guarded' = IF tuple[e] \in expiring THEN guarded ELSE guarded \cup SlotsOf(tuple[e])
  /\ expiring' = IF \E n \in Node : <<tuple[e], n>> \in index
                   THEN expiring \cup {tuple[e]} ELSE expiring
  /\ UNCHANGED <<tuple, seen, slot, index, receiverVars, cancelVars, historyVars>>

\* EXPIRE of the index; no effect on an index that is not there.
OpenExpire(e) ==
  /\ Listening(e, "added", "open")
  /\ guarded' = guarded \cup SlotsOf(tuple[e])
  /\ expiring' = IF \E n \in Node : <<tuple[e], n>> \in index
                   THEN expiring \cup {tuple[e]} ELSE expiring
  /\ UNCHANGED <<tuple, seen, slot, index, receiverVars, cancelVars, historyVars>>

-----------------------------------------------------------------------------
(* receive_webhook: one delivery at a time per receiver.                   *)

\* The executions a delivery has read in a slot and may still fire.
Holds(r, e) == e = hold[r] \/ cands[r][e] > 0 \/ claimed[r][e] > 0

\* The GET of a slot whose execution a delivery, maybe this one, holds already
MarkOverlap(e) ==
  overlap' = IF \E q \in Receiver : Holds(q, e) THEN overlap \cup {e} ELSE overlap

Add(list, r, e)  == [list EXCEPT ![r][e] = @ + 1]
Drop(list, r, e) == [list EXCEPT ![r][e] = @ - 1]

\* claim_slots_for_event: SMEMBERS of the event's index.
Receive(r, t) ==
  /\ rpc[r] = "idle"
  /\ rpc' = [rpc EXCEPT ![r] = "exact"]
  /\ event' = [event EXCEPT ![r] = t]
  /\ todo' = [todo EXCEPT ![r] = {i \in index : i[1] = t}]
  /\ UNCHANGED <<listenVars, slot, guarded, indexVars, scans, hold, srem, cands,
                 claimed, cancelVars, historyVars>>

\* GET of one slot.  A dead entry is removed next, a live slot is deleted next.
ExactGet(r, i) ==
  /\ rpc[r] = "exact" /\ srem[r] = NoEntry /\ i \in todo[r]
  /\ todo' = [todo EXCEPT ![r] = @ \ {i}]
  /\ LET e == slot[i[2]]
     IN  \/ /\ e = NoExec
            /\ srem' = [srem EXCEPT ![r] = i]
            /\ UNCHANGED <<rpc, hold, overlap>>
         \/ /\ e # NoExec
            /\ rpc' = [rpc EXCEPT ![r] = "delete"]
            /\ hold' = [hold EXCEPT ![r] = e]
            /\ MarkOverlap(e)
            /\ UNCHANGED srem
  /\ UNCHANGED <<listenVars, slot, guarded, indexVars, event, scans, cands, claimed,
                 cancelVars, fires, unindexed>>

\* A bug: the slot is left for the next event.
ExactDeleteSkipped(r) ==
  /\ rpc[r] = "delete"
  /\ rpc' = [rpc EXCEPT ![r] = "exact"]
  /\ claimed' = Add(claimed, r, hold[r])
  /\ hold' = [hold EXCEPT ![r] = NoExec]
  /\ UNCHANGED <<listenVars, slot, guarded, indexVars, event, scans, todo, srem,
                 cands, cancelVars, historyVars>>

\* DELETE of the key, whatever it holds by now; its reply is not looked at.
ExactDelete(r) ==
  LET n == node[hold[r]]
  IN  /\ rpc[r] = "delete"
      /\ rpc' = [rpc EXCEPT ![r] = "exact"]
      /\ DeleteSlot(n)
      /\ srem' = [srem EXCEPT ![r] = <<event[r], n>>]
      /\ claimed' = Add(claimed, r, hold[r])
      /\ hold' = [hold EXCEPT ![r] = NoExec]
      /\ UNCHANGED <<listenVars, indexVars, event, scans, todo, cands, cancelVars,
                     fires, overlap>>

\* The SREM that follows a dead entry, a deleted slot or a claimed candidate.
Srem(r) ==
  /\ srem[r] # NoEntry
  /\ RemoveEntry(srem[r])
  /\ srem' = [srem EXCEPT ![r] = NoEntry]
  /\ UNCHANGED <<listenVars, slot, guarded, rpc, event, scans, todo, hold, cands,
                 claimed, cancelVars, fires, overlap>>

\* The exact claim is done: dispatch, or list the slots of the object and field.
ExactDone(r) ==
  /\ rpc[r] = "exact" /\ srem[r] = NoEntry /\ todo[r] = {}
  /\ rpc' = [rpc EXCEPT ![r] = IF claimed[r] = Nothing THEN "list" ELSE "fire"]
  /\ UNCHANGED <<listenVars, slot, guarded, indexVars, event, scans, todo, hold, srem,
                 cands, claimed, cancelVars, historyVars>>

\* list_slots_for_event: SCAN returns an index key, perhaps one it has returned
\* before, and SMEMBERS reads it.
ListScan(r, t) ==
  /\ rpc[r] = "list" /\ srem[r] = NoEntry /\ todo[r] = {}
  /\ scans[r] < MaxScans /\ \E n \in Node : <<t, n>> \in index
  /\ scans' = [scans EXCEPT ![r] = @ + 1]
  /\ todo' = [todo EXCEPT ![r] = {i \in index : i[1] = t}]
  /\ UNCHANGED <<listenVars, slot, guarded, indexVars, rpc, event, hold, srem, cands,
                 claimed, cancelVars, historyVars>>

\* GET without claiming.  The same slot is found again under a repeated key, or
\* under a stale entry of another tuple.
ListGet(r, i) ==
  /\ rpc[r] = "list" /\ srem[r] = NoEntry /\ i \in todo[r]
  /\ todo' = [todo EXCEPT ![r] = @ \ {i}]
  /\ LET e == slot[i[2]]
     IN  \/ /\ e = NoExec
            /\ srem' = [srem EXCEPT ![r] = i]
            /\ UNCHANGED <<cands, overlap>>
         \/ /\ e # NoExec
            /\ cands' = Add(cands, r, e)
            /\ MarkOverlap(e)
            /\ UNCHANGED srem
  /\ UNCHANGED <<listenVars, slot, guarded, indexVars, rpc, event, scans, hold, claimed,
                 cancelVars, fires, unindexed>>

\* _claim_slots_with_id_fallback keeps the slots whose credential owns the
\* event's target.  The SCAN may end before or after a key that comes or goes
\* while it runs; when it ends is left open.
ListDone(r) ==
  /\ rpc[r] = "list" /\ srem[r] = NoEntry /\ todo[r] = {}
  /\ rpc' = [rpc EXCEPT ![r] = "choose"]
  /\ scans' = [scans EXCEPT ![r] = 0]
  /\ cands' = [cands EXCEPT ![r] =
                 [e \in Exec |-> IF Covers(event[r], e) THEN cands[r][e] ELSE 0]]
  /\ UNCHANGED <<listenVars, slot, guarded, indexVars, event, todo, hold, srem, claimed,
                 cancelVars, historyVars>>

\* claim_slot: DELETE, and the candidate is claimed when a key was deleted, be it
\* the slot of another execution by now.
ClaimSlot(r, e) ==
  /\ rpc[r] = "choose" /\ srem[r] = NoEntry /\ cands[r][e] > 0
  /\ cands' = Drop(cands, r, e)
  /\ claimed' = IF slot[node[e]] # NoExec THEN Add(claimed, r, e) ELSE claimed
  /\ DeleteSlot(node[e])
  /\ srem' = [srem EXCEPT ![r] = EntryOf(e)]
  /\ UNCHANGED <<listenVars, indexVars, rpc, event, scans, todo, hold, cancelVars,
                 fires, overlap>>

ChooseDone(r) ==
  /\ rpc[r] = "choose" /\ srem[r] = NoEntry /\ cands[r] = Nothing
  /\ rpc' = [rpc EXCEPT ![r] = "fire"]
  /\ UNCHANGED <<listenVars, slot, guarded, indexVars, event, scans, todo, hold, srem,
                 cands, claimed, cancelVars, historyVars>>

\* A Redis command or the lookup of a credential raises: the delivery goes on
\* without slots, and those it has claimed are lost.
ClaimFails(r) ==
  /\ rpc[r] \in {"exact", "delete", "list", "choose"}
  /\ rpc' = [rpc EXCEPT ![r] = "fire"]
  /\ scans' = [scans EXCEPT ![r] = 0]
  /\ todo' = [todo EXCEPT ![r] = {}]
  /\ hold' = [hold EXCEPT ![r] = NoExec]
  /\ srem' = [srem EXCEPT ![r] = NoEntry]
  /\ cands' = [cands EXCEPT ![r] = Nothing]
  /\ claimed' = [claimed EXCEPT ![r] = Nothing]
  /\ UNCHANGED <<listenVars, slot, guarded, indexVars, event, cancelVars, historyVars>>

\* dispatch_existing, which commits `pending` whatever the row's status and
\* enqueues the run.
Dispatch(r, e) ==
  /\ rpc[r] = "fire" /\ claimed[r][e] > 0
  /\ claimed' = Drop(claimed, r, e)
  /\ fires' = [fires EXCEPT ![e] = @ + 1]
  /\ UNCHANGED <<listenVars, slot, guarded, indexVars, rpc, event, scans, todo, hold, srem,
                 cands, cancelVars, overlap, unindexed>>

\* The workflow or the row is gone, or the write raises: the next slot.
DispatchFails(r, e) ==
  /\ rpc[r] = "fire" /\ claimed[r][e] > 0
  /\ claimed' = Drop(claimed, r, e)
  /\ UNCHANGED <<listenVars, slot, guarded, indexVars, rpc, event, scans, todo, hold,
                 srem, cands, cancelVars, historyVars>>

FireDone(r) ==
  /\ rpc[r] = "fire" /\ claimed[r] = Nothing
  /\ rpc' = [rpc EXCEPT ![r] = "done"]
  /\ event' = [event EXCEPT ![r] = NoTuple]
  /\ UNCHANGED <<listenVars, slot, guarded, indexVars, scans, todo, hold, srem, cands,
                 claimed, cancelVars, historyVars>>

-----------------------------------------------------------------------------
(* cancel_listen and close_slot.                                           *)

\* A bug: a request without a slot goes on.
CancelReadBlindly(n) ==
  /\ cpc[n] = "idle"
  /\ cpc' = [cpc EXCEPT ![n] = "delete"]
  /\ closing' = [closing EXCEPT ![n] = slot[n]]
  /\ UNCHANGED <<listenVars, slot, guarded, indexVars, receiverVars, historyVars>>

CancelRead(n) ==
  /\ cpc[n] = "idle" /\ slot[n] # NoExec
  /\ cpc' = [cpc EXCEPT ![n] = "delete"]
  /\ closing' = [closing EXCEPT ![n] = slot[n]]
  /\ UNCHANGED <<listenVars, slot, guarded, indexVars, receiverVars, historyVars>>

CancelDelete(n) ==
  /\ cpc[n] = "delete"
  /\ cpc' = [cpc EXCEPT ![n] = "srem"]
  /\ DeleteSlot(n)
  /\ UNCHANGED <<listenVars, indexVars, receiverVars, closing, fires, overlap>>

\* SREM; the row is marked cancelled after it.
CancelSrem(n) ==
  /\ cpc[n] = "srem"
  /\ cpc' = [cpc EXCEPT ![n] = "idle"]
  /\ closing' = [closing EXCEPT ![n] = NoExec]
  /\ RemoveEntry(EntryOf(closing[n]))
  /\ UNCHANGED <<listenVars, slot, guarded, receiverVars, fires, overlap>>

-----------------------------------------------------------------------------
ListenStep(e) ==
  \/ \E t \in Tuple : Listen(e, t)
  \/ OpenRead(e) \/ OpenClear(e) \/ OpenSet(e) \/ OpenIndex(e) \/ OpenExpire(e)

\* What a delivery does once it has begun.
ReceiverStep(r) ==
  \/ \E i \in Entry : ExactGet(r, i) \/ ListGet(r, i)
  \/ \E t \in Tuple : ListScan(r, t)
  \/ ExactDelete(r) \/ Srem(r) \/ ExactDone(r) \/ ListDone(r)
  \/ \E e \in Exec : ClaimSlot(r, e) \/ Dispatch(r, e) \/ DispatchFails(r, e)
  \/ ChooseDone(r) \/ ClaimFails(r) \/ FireDone(r)

CancelStep(n) ==
  CancelRead(n) \/ CancelDelete(n) \/ CancelSrem(n)

Next ==
  \/ \E n \in Node : SlotExpires(n) \/ CancelStep(n)
  \/ \E t \in Tuple : IndexExpires(t) \/ \E r \in Receiver : Receive(r, t)
  \/ \E e \in Exec : ListenStep(e)
  \/ \E r \in Receiver : ReceiverStep(r)

Spec == Init /\ [][Next]_vars

-----------------------------------------------------------------------------
(* Properties.                                                             *)

\* An open slot can be found by an exact event: its entry is in the index of
\* its tuple and does not lapse before it.  The exceptions are an entry that the
\* SREM of another request took, and an index whose old time to live ended
\* between the SADD and the EXPIRE of open_slot.
SlotIndexed ==
  \A n \in Node :
    slot[n] # NoExec /\ lpc[slot[n]] = "open" /\ n \notin unindexed
      => EntryOf(slot[n]) \in index

\* A listen is single-shot except in one race: its slot was read by a delivery
\* while it was held already, by another delivery or by this one, whose list
\* has it twice.
FiresOnce == \A e \in Exec : e \notin overlap => fires[e] <= 1

\* What listen_service.py:140-143 and router.py:389 say: a slot that was claimed
\* is fired exactly once, and deliveries observe disjoint slots.  Not so: every
\* delivery that has read a slot dispatches it, and only then is it deleted.
FiresAtMostOnce == \A e \in Exec : fires[e] <= 1

\* A listen whose slot is gone and that no delivery holds is over: it is not dispatched again, and nothing can read its slot.
Settled(e) ==
  /\ lpc[e] \in {"set", "added", "open"} /\ slot[node[e]] # e
  /\ \A r \in Receiver : ~Holds(r, e)
SettledIsOver ==
  [][\A e \in Exec : Settled(e) => Settled(e)' /\ fires'[e] = fires[e]]_vars
=============================================================================
