---------------------------- MODULE ListenSlotsProofs ----------------------------
(***************************************************************************)
(* Proofs about ListenSlots for any number of executions, nodes, tuples and*)
(* webhook deliveries: type correctness, that a listen is dispatched once  *)
(* unless its slot was read while it was held, that an open slot is        *)
(* indexed, and that a settled listen stays over.                          *)
(***************************************************************************)
EXTENDS ListenSlots, TLAPS

USE NoneAssumption, TargetAssumption, ScansAssumption

\* What a delivery holds was read from a slot, so it was put there.
Known ==
  \A r \in Receiver, e \in Exec : Holds(r, e) => lpc[e] \in {"set", "added", "open"}

\* A slot is the one of the node its execution listens on.
Placed ==
  \A n \in Node : slot[n] # NoExec =>
    node[slot[n]] = n /\ lpc[slot[n]] \in {"set", "added", "open"}

\* Where a process is tells what it holds.
Phases ==
  /\ \A r \in Receiver :
       /\ hold[r] # NoExec <=> rpc[r] = "delete"
       /\ \A e \in Exec : cands[r][e] > 0 => rpc[r] \in {"list", "choose"}
       /\ rpc[r] \notin {"idle", "done"} => event[r] \in Tuple
  /\ \A e \in Exec : lpc[e] # "none" => tuple[e] \in Tuple

\* A slot that was claimed or dispatched never comes back.
Gone ==
  \A e \in Exec : fires[e] > 0 \/ (\E r \in Receiver : claimed[r][e] > 0)
    => lpc[e] \in {"set", "added", "open"} /\ slot[node[e]] # e

\* Without an overlap one delivery holds an execution, and holds it once.
Alone ==
  \A e \in Exec \ overlap, r \in Receiver :
    /\ \A q \in Receiver : Holds(r, e) /\ Holds(q, e) => r = q
    /\ cands[r][e] + claimed[r][e] <= 1
    /\ hold[r] = e => cands[r][e] + claimed[r][e] = 0

\* Without an overlap what was dispatched was so once, and nobody holds it.
Once ==
  \A e \in Exec \ overlap :
    fires[e] <= 1 /\ (fires[e] = 1 => \A r \in Receiver : ~Holds(r, e))

\* The index of an open slot was given its time to live after the slot was SET.
Guarded == \A n \in Node : slot[n] # NoExec /\ lpc[slot[n]] = "open" => n \in guarded

\* SlotIndexed is not inductive: a slot is indexed before its listen is open.
Indexed ==
  \A n \in Node :
    slot[n] # NoExec /\ lpc[slot[n]] \in {"added", "open"} /\ n \notin unindexed
      => EntryOf(slot[n]) \in index

\* FiresOnce is not inductive: a second dispatch needs a delivery that still holds
\* the execution, and it got it from a slot that the first one has emptied.
IInv ==
  /\ TypeOK /\ Known /\ Placed /\ Phases /\ Gone /\ Alone /\ Once
  /\ Guarded /\ Indexed

-----------------------------------------------------------------------------
(* What the steps on the lists of a delivery do, execution by execution.   *)

Lists == [Receiver -> [Exec -> Nat]]

\* list is before as it was but for one execution more (k = 1) or less (k = -1).
Moved(before, after, r, e, k) ==
  \A q \in Receiver, d \in Exec :
    after[q][d] = IF q = r /\ d = e THEN before[q][d] + k ELSE before[q][d]

\* One more execution in the list of a delivery
LEMMA AddIs ==
  ASSUME NEW list \in Lists, NEW r \in Receiver, NEW e \in Exec
  PROVE  Add(list, r, e) \in Lists /\ Moved(list, Add(list, r, e), r, e, 1)
<1>1. Add(list, r, e) = [list EXCEPT ![r] = [list[r] EXCEPT ![e] = list[r][e] + 1]]
  BY DEF Add
<1>2. list[r] \in [Exec -> Nat] /\ list[r][e] \in Nat
  BY DEF Lists
<1>3. [list[r] EXCEPT ![e] = list[r][e] + 1] \in [Exec -> Nat]
  BY <1>2
<1> QED BY <1>1, <1>2, <1>3 DEF Lists, Moved

\* One less
LEMMA DropIs ==
  ASSUME NEW list \in Lists, NEW r \in Receiver, NEW e \in Exec, list[r][e] > 0
  PROVE  Drop(list, r, e) \in Lists /\ Moved(list, Drop(list, r, e), r, e, -1)
<1>1. Drop(list, r, e) = [list EXCEPT ![r] = [list[r] EXCEPT ![e] = list[r][e] - 1]]
  BY DEF Drop
<1>2. list[r] \in [Exec -> Nat] /\ list[r][e] \in Nat /\ list[r][e] - 1 \in Nat
  BY DEF Lists
<1>3. [list[r] EXCEPT ![e] = list[r][e] - 1] \in [Exec -> Nat]
  BY <1>2
<1> QED BY <1>1, <1>2, <1>3 DEF Lists, Moved

\* An empty list holds nothing.
LEMMA NothingIs == Nothing \in [Exec -> Nat] /\ \A e \in Exec : Nothing[e] = 0
BY DEF Nothing

\* list_slots_for_event finds no slot, or one execution more.
ListGetEffect(r, i) ==
  /\ \/ cands' = cands /\ overlap' = overlap
     \/ /\ slot[i[2]] \in Exec /\ i[2] \in Node
        /\ cands' \in Lists /\ Moved(cands, cands', r, slot[i[2]], 1)
        /\ overlap' = IF \E q \in Receiver : Holds(q, slot[i[2]])
                        THEN overlap \cup {slot[i[2]]} ELSE overlap
  /\ rpc[r] = "list"
  /\ UNCHANGED <<lpc, tuple, slot, rpc, event, hold, claimed, fires>>

\* It is what ListGet does.
LEMMA ListGetIs ==
  ASSUME TypeOK, NEW r \in Receiver, NEW i \in Entry, ListGet(r, i)
  PROVE  ListGetEffect(r, i)
<1>1. i[2] \in Node
  BY DEF Entry
<1>2. CASE slot[i[2]] = NoExec
  BY <1>2 DEF ListGetEffect, ListGet, listenVars
<1>3. CASE slot[i[2]] # NoExec
  <2>1. slot[i[2]] \in Exec
    BY <1>1, <1>3 DEF TypeOK
  <2>2. cands' = Add(cands, r, slot[i[2]])
    BY <1>3 DEF ListGet
  <2>3. cands \in Lists
    BY DEF TypeOK, Lists
  <2>4. cands' \in Lists /\ Moved(cands, cands', r, slot[i[2]], 1)
    BY <2>1, <2>2, <2>3, AddIs
  <2> QED BY <1>1, <1>3, <2>1, <2>4 DEF ListGetEffect, ListGet, MarkOverlap, listenVars
<1> QED BY <1>2, <1>3

\* claim_slots_for_event takes over the execution it has read.
ExactDeleteEffect(r) ==
  /\ hold[r] \in Exec /\ event[r] \in Tuple /\ node[hold[r]] \in Node
  /\ rpc[r] = "delete" /\ rpc' = [rpc EXCEPT ![r] = "exact"]
  /\ claimed' \in Lists /\ Moved(claimed, claimed', r, hold[r], 1)
  /\ hold' \in [Receiver -> Exec \cup {NoExec}]
  /\ \A q \in Receiver : hold'[q] = IF q = r THEN NoExec ELSE hold[q]
  /\ \A n \in Node : slot'[n] = IF n = node[hold[r]] THEN NoExec ELSE slot[n]
  /\ UNCHANGED <<lpc, tuple, event, cands, fires, overlap>>

\* It is what ExactDelete does.
LEMMA ExactDeleteIs ==
  ASSUME TypeOK, Phases, NEW r \in Receiver, ExactDelete(r)
  PROVE  ExactDeleteEffect(r)
<1>1. rpc[r] = "delete" /\ hold[r] \in Exec /\ event[r] \in Tuple
  BY DEF ExactDelete, Phases, TypeOK
<1>2. claimed \in Lists /\ claimed' = Add(claimed, r, hold[r])
  BY DEF ExactDelete, TypeOK, Lists
<1>3. claimed' \in Lists /\ Moved(claimed, claimed', r, hold[r], 1)
  BY <1>1, <1>2, AddIs
<1>4. node[hold[r]] \in Node
  BY <1>1
<1> QED BY <1>1, <1>3, <1>4 DEF ExactDeleteEffect, ExactDelete, DeleteSlot, TypeOK, listenVars

\* claim_slot moves a candidate to the claimed ones, or drops it.
ClaimSlotEffect(r, e) ==
  /\ rpc[r] = "choose" /\ cands[r][e] > 0
  /\ cands' \in Lists /\ Moved(cands, cands', r, e, -1)
  /\ \/ claimed' = claimed
     \/ claimed' \in Lists /\ Moved(claimed, claimed', r, e, 1)
  /\ \A n \in Node : slot'[n] = IF n = node[e] THEN NoExec ELSE slot[n]
  /\ UNCHANGED <<lpc, tuple, rpc, event, hold, fires, overlap>>

\* It is what ClaimSlot does.
LEMMA ClaimSlotIs ==
  ASSUME TypeOK, NEW r \in Receiver, NEW e \in Exec, ClaimSlot(r, e)
  PROVE  ClaimSlotEffect(r, e)
<1>1. cands \in Lists /\ claimed \in Lists
  BY DEF TypeOK, Lists
<1>2. cands' = Drop(cands, r, e) /\ cands[r][e] > 0
  BY DEF ClaimSlot
<1>3. claimed' = claimed \/ claimed' = Add(claimed, r, e)
  BY DEF ClaimSlot
<1>4. cands' \in Lists /\ Moved(cands, cands', r, e, -1)
  BY <1>1, <1>2, DropIs
<1>5. claimed' = claimed \/ (claimed' \in Lists /\ Moved(claimed, claimed', r, e, 1))
  BY <1>1, <1>3, AddIs
<1> QED BY <1>2, <1>4, <1>5 DEF ClaimSlotEffect, ClaimSlot, DeleteSlot, TypeOK, listenVars

\* A claimed execution is dispatched.
DispatchEffect(r, e) ==
  /\ rpc[r] = "fire" /\ claimed[r][e] > 0
  /\ claimed' \in Lists /\ Moved(claimed, claimed', r, e, -1)
  /\ fires' \in [Exec -> Nat]
  /\ \A d \in Exec : fires'[d] = IF d = e THEN fires[d] + 1 ELSE fires[d]
  /\ UNCHANGED <<lpc, tuple, slot, rpc, event, hold, cands, overlap>>

\* It is what Dispatch does.
LEMMA DispatchIs ==
  ASSUME TypeOK, NEW r \in Receiver, NEW e \in Exec, Dispatch(r, e)
  PROVE  DispatchEffect(r, e)
<1>1. claimed \in Lists /\ claimed' = Drop(claimed, r, e) /\ claimed[r][e] > 0
  BY DEF TypeOK, Lists, Dispatch
<1>2. claimed' \in Lists /\ Moved(claimed, claimed', r, e, -1)
  BY <1>1, DropIs
<1> QED BY <1>1, <1>2 DEF DispatchEffect, Dispatch, TypeOK, listenVars

\* A claimed execution is given up.
DispatchFailsEffect(r, e) ==
  /\ rpc[r] = "fire" /\ claimed[r][e] > 0
  /\ claimed' \in Lists /\ Moved(claimed, claimed', r, e, -1)
  /\ UNCHANGED <<lpc, tuple, slot, rpc, event, hold, cands, fires, overlap>>

\* It is what DispatchFails does.
LEMMA DispatchFailsIs ==
  ASSUME TypeOK, NEW r \in Receiver, NEW e \in Exec, DispatchFails(r, e)
  PROVE  DispatchFailsEffect(r, e)
<1>1. claimed \in Lists /\ claimed' = Drop(claimed, r, e) /\ claimed[r][e] > 0
  BY DEF TypeOK, Lists, DispatchFails
<1>2. claimed' \in Lists /\ Moved(claimed, claimed', r, e, -1)
  BY <1>1, DropIs
<1> QED BY <1>1, <1>2 DEF DispatchFailsEffect, DispatchFails, listenVars, historyVars

\* The invariant holds at the start.
LEMMA Initially == Init => IInv
BY NothingIs DEF Init, IInv, TypeOK, LPC, RPC, Known, Holds, Placed, Phases, Gone, Alone, Once,
                 Guarded, Indexed

\* Types are kept; the labels say that what a step uses is not a placeholder.
LEMMA TypeStep ==
  ASSUME TypeOK, Known, Placed, Phases, [Next]_vars
  PROVE  TypeOK'
<1>1. ASSUME NEW n \in Node, SlotExpires(n)
      PROVE  TypeOK'
  BY <1>1 DEF SlotExpires, DeleteSlot, TypeOK, LPC, RPC, Entry, EntryOf, listenVars,
     indexVars, receiverVars, cancelVars, historyVars
<1>2. ASSUME NEW n \in Node, CancelRead(n)
      PROVE  TypeOK'
  BY <1>2 DEF CancelRead, TypeOK, LPC, RPC, Entry, EntryOf, listenVars, indexVars,
     receiverVars, cancelVars, historyVars
<1>3. ASSUME NEW n \in Node, CancelDelete(n)
      PROVE  TypeOK'
  BY <1>3 DEF CancelDelete, DeleteSlot, TypeOK, LPC, RPC, Entry, EntryOf, listenVars,
     indexVars, receiverVars, cancelVars, historyVars
<1>4. ASSUME NEW n \in Node, CancelSrem(n)
      PROVE  TypeOK'
  BY <1>4 DEF CancelSrem, RemoveEntry, TypeOK, LPC, RPC, Entry, EntryOf, listenVars,
     indexVars, receiverVars, cancelVars, historyVars
<1>5. ASSUME NEW t \in Tuple, IndexExpires(t)
      PROVE  TypeOK'
  BY <1>5 DEF IndexExpires, SlotsOf, TypeOK, LPC, RPC, Entry, EntryOf, listenVars,
     indexVars, receiverVars, cancelVars, historyVars
<1>6. ASSUME NEW e \in Exec, NEW t \in Tuple, Listen(e, t)
      PROVE  TypeOK'
  BY <1>6 DEF Listen, Listening, TypeOK, LPC, RPC, Entry, EntryOf, listenVars,
     indexVars, receiverVars, cancelVars, historyVars
<1>7. ASSUME NEW e \in Exec, OpenRead(e)
      PROVE  TypeOK'
  <2>1. /\ slot[node[e]] \in Exec \cup {NoExec}
        /\ slot[node[e]] # NoExec => tuple[slot[node[e]]] \in Tuple \cup {NoTuple}
    BY DEF TypeOK
  <2>2. lpc' \in [Exec -> LPC] /\ seen' \in [Exec -> Tuple \cup {NoTuple}]
    BY <1>7, <2>1 DEF OpenRead, Listening, TypeOK, LPC
  <2> QED BY <1>7, <2>2 DEF OpenRead, TypeOK, indexVars, receiverVars, cancelVars, historyVars
<1>8. ASSUME NEW e \in Exec, OpenClear(e)
      PROVE  TypeOK'
  BY <1>8 DEF OpenClear, Listening, RemoveEntry, TypeOK, LPC, RPC, Entry, EntryOf,
     listenVars, indexVars, receiverVars, cancelVars, historyVars
<1>9. ASSUME NEW e \in Exec, OpenSet(e)
      PROVE  TypeOK'
  BY <1>9 DEF OpenSet, Listening, PutSlot, TypeOK, LPC, RPC, Entry, EntryOf,
     listenVars, indexVars, receiverVars, cancelVars, historyVars
<1>10. ASSUME NEW e \in Exec, OpenIndex(e)
      PROVE  TypeOK'
  <2>1. tuple[e] \in Tuple
    BY <1>10 DEF OpenIndex, Listening, Phases
  <2>2. EntryOf(e) \in Entry
    BY <2>1 DEF EntryOf, Entry
  <2>3. index' \in SUBSET Entry /\ unindexed' \in SUBSET Node /\ lpc' \in [Exec -> LPC]
    BY <1>10, <2>2 DEF OpenIndex, Listening, TypeOK, LPC
  <2> QED BY <1>10, <2>3 DEF OpenIndex, TypeOK, receiverVars, cancelVars
<1>11. ASSUME NEW e \in Exec, OpenExpire(e)
      PROVE  TypeOK'
  BY <1>11 DEF OpenExpire, Listening, SlotsOf, TypeOK, LPC, RPC, Entry, EntryOf,
     listenVars, indexVars, receiverVars, cancelVars, historyVars
<1>12. ASSUME NEW r \in Receiver, NEW t \in Tuple, Receive(r, t) \/ ListScan(r, t)
      PROVE  TypeOK'
  <2>1. {i \in index : i[1] = t} \in SUBSET Entry
    BY DEF TypeOK
  <2>2. CASE Receive(r, t)
    BY <2>1, <2>2 DEF Receive, TypeOK, RPC, listenVars, indexVars, cancelVars, historyVars
  <2>3. CASE ListScan(r, t)
    BY <2>1, <2>3 DEF ListScan, TypeOK, RPC, listenVars, indexVars, cancelVars, historyVars
  <2> QED BY <1>12, <2>2, <2>3
<1>13. ASSUME NEW r \in Receiver, NEW i \in Entry, ExactGet(r, i)
      PROVE  TypeOK'
  <2>1. i[2] \in Node /\ slot[i[2]] \in Exec \cup {NoExec}
    BY DEF Entry, TypeOK
  <2>2. todo' \in [Receiver -> SUBSET Entry]
    BY <1>13 DEF ExactGet, TypeOK
  <2>3. srem' = srem \/ srem' = [srem EXCEPT ![r] = i]
    BY <1>13 DEF ExactGet
  <2>4. srem' \in [Receiver -> Entry \cup {NoEntry}]
    BY <2>3 DEF TypeOK
  <2>5. /\ hold' \in [Receiver -> Exec \cup {NoExec}] /\ rpc' \in [Receiver -> RPC]
        /\ overlap' \in SUBSET Exec
    BY <1>13, <2>1 DEF ExactGet, MarkOverlap, TypeOK, RPC
  <2> QED BY <1>13, <2>2, <2>4, <2>5 DEF ExactGet, TypeOK, listenVars, indexVars, cancelVars
<1>14. ASSUME NEW r \in Receiver, NEW i \in Entry, ListGet(r, i)
      PROVE  TypeOK'
  <2>1. ListGetEffect(r, i)
    BY <1>14, ListGetIs
  <2>2. srem' \in [Receiver -> Entry \cup {NoEntry}] /\ todo' \in [Receiver -> SUBSET Entry]
    BY <1>14 DEF ListGet, TypeOK
  <2>3. cands' \in [Receiver -> [Exec -> Nat]] /\ overlap' \in SUBSET Exec
    BY <2>1 DEF ListGetEffect, TypeOK, Lists
  <2> QED BY <1>14, <2>2, <2>3 DEF ListGet, TypeOK, listenVars, indexVars, cancelVars
<1>15. ASSUME NEW r \in Receiver, ExactDelete(r)
      PROVE  TypeOK'
  <2>1. ExactDeleteEffect(r)
    BY <1>15, ExactDeleteIs
  <2> QED BY <1>15, <2>1 DEF ExactDeleteEffect, Lists, ExactDelete, DeleteSlot,
     TypeOK, LPC, RPC, Entry, EntryOf, listenVars, indexVars, receiverVars,
     cancelVars, historyVars
<1>16. ASSUME NEW r \in Receiver, Srem(r)
      PROVE  TypeOK'
  BY <1>16 DEF Srem, RemoveEntry, TypeOK, LPC, RPC, Entry, EntryOf, listenVars,
     indexVars, receiverVars, cancelVars, historyVars
<1>17. ASSUME NEW r \in Receiver, ExactDone(r)
      PROVE  TypeOK'
  BY <1>17 DEF ExactDone, TypeOK, LPC, RPC, Entry, EntryOf, listenVars, indexVars,
     receiverVars, cancelVars, historyVars
<1>18. ASSUME NEW r \in Receiver, ListDone(r)
      PROVE  TypeOK'
  BY <1>18 DEF ListDone, TypeOK, LPC, RPC, Entry, EntryOf, listenVars, indexVars,
     receiverVars, cancelVars, historyVars
<1>19. ASSUME NEW r \in Receiver, NEW e \in Exec, ClaimSlot(r, e)
      PROVE  TypeOK'
  <2>1. ClaimSlotEffect(r, e)
    BY <1>19, ClaimSlotIs
  <2>2. tuple[e] \in Tuple
    BY <2>1 DEF ClaimSlotEffect, Known, Holds, Phases
  <2>3. EntryOf(e) \in Entry
    BY <2>2 DEF EntryOf, Entry
  <2>4. srem' \in [Receiver -> Entry \cup {NoEntry}] /\ slot' \in [Node -> Exec \cup {NoExec}]
    BY <1>19, <2>3 DEF ClaimSlot, DeleteSlot, TypeOK
  <2>5. cands' \in [Receiver -> [Exec -> Nat]] /\ claimed' \in [Receiver -> [Exec -> Nat]]
    BY <2>1 DEF ClaimSlotEffect, TypeOK, Lists
  <2> QED BY <1>19, <2>4, <2>5
    DEF ClaimSlot, DeleteSlot, TypeOK, listenVars, indexVars, cancelVars
<1>20. ASSUME NEW r \in Receiver, ChooseDone(r)
      PROVE  TypeOK'
  BY <1>20 DEF ChooseDone, TypeOK, LPC, RPC, Entry, EntryOf, listenVars, indexVars,
     receiverVars, cancelVars, historyVars
<1>21. ASSUME NEW r \in Receiver, ClaimFails(r)
      PROVE  TypeOK'
  BY <1>21, NothingIs DEF ClaimFails, TypeOK, LPC, RPC, Entry, EntryOf, listenVars,
     indexVars, receiverVars, cancelVars, historyVars
<1>22. ASSUME NEW r \in Receiver, NEW e \in Exec, Dispatch(r, e)
      PROVE  TypeOK'
  <2>1. DispatchEffect(r, e)
    BY <1>22, DispatchIs
  <2> QED BY <1>22, <2>1 DEF DispatchEffect, Lists, Dispatch, TypeOK, LPC, RPC, Entry,
     EntryOf, listenVars, indexVars, receiverVars, cancelVars, historyVars
<1>23. ASSUME NEW r \in Receiver, NEW e \in Exec, DispatchFails(r, e)
      PROVE  TypeOK'
  <2>1. DispatchFailsEffect(r, e)
    BY <1>23, DispatchFailsIs
  <2> QED BY <1>23, <2>1 DEF DispatchFailsEffect, Lists, DispatchFails, TypeOK, LPC,
     RPC, Entry, EntryOf, listenVars, indexVars, receiverVars, cancelVars, historyVars
<1>24. ASSUME NEW r \in Receiver, FireDone(r)
      PROVE  TypeOK'
  BY <1>24 DEF FireDone, TypeOK, LPC, RPC, Entry, EntryOf, listenVars, indexVars,
     receiverVars, cancelVars, historyVars
<1>25. CASE UNCHANGED vars
  BY <1>25 DEF vars, TypeOK, LPC, RPC, Entry, EntryOf, listenVars, indexVars,
     receiverVars, cancelVars, historyVars
<1> QED BY <1>1, <1>2, <1>3, <1>4, <1>5, <1>6, <1>7, <1>8, <1>9, <1>10, <1>11, <1>12,
   <1>13, <1>14, <1>15, <1>16, <1>17, <1>18, <1>19, <1>20, <1>21, <1>22, <1>23, <1>24,
   <1>25 DEF Next, ListenStep, ReceiverStep, CancelStep

\* A delivery only gets hold of what it reads in a slot.
LEMMA KnownStep ==
  ASSUME TypeOK, Known, Placed, Phases, [Next]_vars
  PROVE  Known'
<1>1. ASSUME NEW n \in Node, SlotExpires(n)
      PROVE  Known'
  BY <1>1 DEF SlotExpires, DeleteSlot, TypeOK, Known, Holds, Placed, Phases, Entry,
     listenVars, indexVars, receiverVars, cancelVars, historyVars
<1>2. ASSUME NEW n \in Node, CancelRead(n)
      PROVE  Known'
  BY <1>2 DEF CancelRead, TypeOK, Known, Holds, Placed, Phases, Entry, listenVars,
     indexVars, receiverVars, cancelVars, historyVars
<1>3. ASSUME NEW n \in Node, CancelDelete(n)
      PROVE  Known'
  BY <1>3 DEF CancelDelete, DeleteSlot, TypeOK, Known, Holds, Placed, Phases, Entry,
     listenVars, indexVars, receiverVars, cancelVars, historyVars
<1>4. ASSUME NEW n \in Node, CancelSrem(n)
      PROVE  Known'
  BY <1>4 DEF CancelSrem, RemoveEntry, TypeOK, Known, Holds, Placed, Phases, Entry,
     listenVars, indexVars, receiverVars, cancelVars, historyVars
<1>5. ASSUME NEW t \in Tuple, IndexExpires(t)
      PROVE  Known'
  BY <1>5 DEF IndexExpires, SlotsOf, TypeOK, Known, Holds, Placed, Phases, Entry,
     listenVars, indexVars, receiverVars, cancelVars, historyVars
<1>6. ASSUME NEW e \in Exec, NEW t \in Tuple, Listen(e, t)
      PROVE  Known'
  BY <1>6 DEF Listen, Listening, TypeOK, Known, Holds, Placed, Phases, Entry,
     listenVars, indexVars, receiverVars, cancelVars, historyVars
<1>7. ASSUME NEW e \in Exec, OpenRead(e)
      PROVE  Known'
  <2>1. /\ lpc[e] = "created" /\ \A d \in Exec : d # e => lpc'[d] = lpc[d]
        /\ UNCHANGED <<tuple, slot, hold, cands, claimed, fires>>
    BY <1>7 DEF OpenRead, Listening, TypeOK, receiverVars, historyVars
  <2> QED BY <2>1 DEF Known, Holds
<1>8. ASSUME NEW e \in Exec, OpenClear(e)
      PROVE  Known'
  BY <1>8 DEF OpenClear, Listening, RemoveEntry, TypeOK, Known, Holds, Placed, Phases,
     Entry, listenVars, indexVars, receiverVars, cancelVars, historyVars
<1>9. ASSUME NEW e \in Exec, OpenSet(e)
      PROVE  Known'
  BY <1>9 DEF OpenSet, Listening, PutSlot, TypeOK, Known, Holds, Placed, Phases,
     Entry, listenVars, indexVars, receiverVars, cancelVars, historyVars
<1>10. ASSUME NEW e \in Exec, OpenIndex(e)
      PROVE  Known'
  BY <1>10 DEF OpenIndex, Listening, TypeOK, Known, Holds, Placed, Phases, Entry,
     listenVars, indexVars, receiverVars, cancelVars, historyVars
<1>11. ASSUME NEW e \in Exec, OpenExpire(e)
      PROVE  Known'
  BY <1>11 DEF OpenExpire, Listening, SlotsOf, TypeOK, Known, Holds, Placed, Phases,
     Entry, listenVars, indexVars, receiverVars, cancelVars, historyVars
<1>12. ASSUME NEW r \in Receiver, NEW t \in Tuple, Receive(r, t) \/ ListScan(r, t)
      PROVE  Known'
  BY <1>12 DEF Receive, ListScan, TypeOK, Known, Holds, Placed, Phases, Entry,
     listenVars, indexVars, receiverVars, cancelVars, historyVars
<1>13. ASSUME NEW r \in Receiver, NEW i \in Entry, ExactGet(r, i)
      PROVE  Known'
  BY <1>13 DEF ExactGet, MarkOverlap, TypeOK, Known, Holds, Placed, Phases, Entry,
     listenVars, indexVars, receiverVars, cancelVars, historyVars
<1>14. ASSUME NEW r \in Receiver, NEW i \in Entry, ListGet(r, i)
      PROVE  Known'
  <2>1. ListGetEffect(r, i)
    BY <1>14, ListGetIs
  <2> QED BY <2>1 DEF ListGetEffect, Lists, Moved, TypeOK, Known, Holds, Placed,
     Phases, Entry
<1>15. ASSUME NEW r \in Receiver, ExactDelete(r)
      PROVE  Known'
  <2>1. ExactDeleteEffect(r)
    BY <1>15, ExactDeleteIs
  <2> QED BY <2>1 DEF ExactDeleteEffect, Lists, Moved, TypeOK, Known, Holds, Placed,
     Phases, Entry
<1>16. ASSUME NEW r \in Receiver, Srem(r)
      PROVE  Known'
  BY <1>16 DEF Srem, RemoveEntry, TypeOK, Known, Holds, Placed, Phases, Entry,
     listenVars, indexVars, receiverVars, cancelVars, historyVars
<1>17. ASSUME NEW r \in Receiver, ExactDone(r)
      PROVE  Known'
  BY <1>17 DEF ExactDone, TypeOK, Known, Holds, Placed, Phases, Entry, listenVars,
     indexVars, receiverVars, cancelVars, historyVars
<1>18. ASSUME NEW r \in Receiver, ListDone(r)
      PROVE  Known'
  BY <1>18 DEF ListDone, TypeOK, Known, Holds, Placed, Phases, Entry, listenVars,
     indexVars, receiverVars, cancelVars, historyVars
<1>19. ASSUME NEW r \in Receiver, NEW e \in Exec, ClaimSlot(r, e)
      PROVE  Known'
  <2>1. ClaimSlotEffect(r, e)
    BY <1>19, ClaimSlotIs
  <2> QED BY <2>1 DEF ClaimSlotEffect, Lists, Moved, TypeOK, Known, Holds, Placed,
     Phases, Entry
<1>20. ASSUME NEW r \in Receiver, ChooseDone(r)
      PROVE  Known'
  BY <1>20 DEF ChooseDone, TypeOK, Known, Holds, Placed, Phases, Entry, listenVars,
     indexVars, receiverVars, cancelVars, historyVars
<1>21. ASSUME NEW r \in Receiver, ClaimFails(r)
      PROVE  Known'
  BY <1>21, NothingIs DEF ClaimFails, TypeOK, Known, Holds, Placed, Phases, Entry,
     listenVars, indexVars, receiverVars, cancelVars, historyVars
<1>22. ASSUME NEW r \in Receiver, NEW e \in Exec, Dispatch(r, e)
      PROVE  Known'
  <2>1. DispatchEffect(r, e)
    BY <1>22, DispatchIs
  <2> QED BY <2>1 DEF DispatchEffect, Lists, Moved, TypeOK, Known, Holds, Placed,
     Phases, Entry
<1>23. ASSUME NEW r \in Receiver, NEW e \in Exec, DispatchFails(r, e)
      PROVE  Known'
  <2>1. DispatchFailsEffect(r, e)
    BY <1>23, DispatchFailsIs
  <2> QED BY <2>1 DEF DispatchFailsEffect, Lists, Moved, TypeOK, Known, Holds, Placed,
     Phases, Entry
<1>24. ASSUME NEW r \in Receiver, FireDone(r)
      PROVE  Known'
  BY <1>24 DEF FireDone, TypeOK, Known, Holds, Placed, Phases, Entry, listenVars,
     indexVars, receiverVars, cancelVars, historyVars
<1>25. CASE UNCHANGED vars
  BY <1>25 DEF vars, TypeOK, Known, Holds, Placed, Phases, Entry, listenVars,
     indexVars, receiverVars, cancelVars, historyVars
<1> QED BY <1>1, <1>2, <1>3, <1>4, <1>5, <1>6, <1>7, <1>8, <1>9, <1>10, <1>11, <1>12,
   <1>13, <1>14, <1>15, <1>16, <1>17, <1>18, <1>19, <1>20, <1>21, <1>22, <1>23, <1>24,
   <1>25 DEF Next, ListenStep, ReceiverStep, CancelStep

\* Only open_slot fills a slot, with the execution that listens on its node.
LEMMA PlacedStep ==
  ASSUME TypeOK, Placed, [Next]_vars
  PROVE  Placed'
<1>1. ASSUME NEW n \in Node, SlotExpires(n)
      PROVE  Placed'
  BY <1>1 DEF SlotExpires, DeleteSlot, TypeOK, Placed, listenVars, indexVars,
     receiverVars, cancelVars, historyVars
<1>2. ASSUME NEW n \in Node, CancelRead(n)
      PROVE  Placed'
  BY <1>2 DEF CancelRead, TypeOK, Placed, listenVars, indexVars, receiverVars,
     cancelVars, historyVars
<1>3. ASSUME NEW n \in Node, CancelDelete(n)
      PROVE  Placed'
  BY <1>3 DEF CancelDelete, DeleteSlot, TypeOK, Placed, listenVars, indexVars,
     receiverVars, cancelVars, historyVars
<1>4. ASSUME NEW n \in Node, CancelSrem(n)
      PROVE  Placed'
  BY <1>4 DEF CancelSrem, RemoveEntry, TypeOK, Placed, listenVars, indexVars,
     receiverVars, cancelVars, historyVars
<1>5. ASSUME NEW t \in Tuple, IndexExpires(t)
      PROVE  Placed'
  BY <1>5 DEF IndexExpires, SlotsOf, TypeOK, Placed, listenVars, indexVars,
     receiverVars, cancelVars, historyVars
<1>6. ASSUME NEW e \in Exec, NEW t \in Tuple, Listen(e, t)
      PROVE  Placed'
  BY <1>6 DEF Listen, Listening, TypeOK, Placed, listenVars, indexVars, receiverVars,
     cancelVars, historyVars
<1>7. ASSUME NEW e \in Exec, OpenRead(e)
      PROVE  Placed'
  BY <1>7 DEF OpenRead, Listening, TypeOK, Placed, listenVars, indexVars,
     receiverVars, cancelVars, historyVars
<1>8. ASSUME NEW e \in Exec, OpenClear(e)
      PROVE  Placed'
  BY <1>8 DEF OpenClear, Listening, RemoveEntry, TypeOK, Placed, listenVars,
     indexVars, receiverVars, cancelVars, historyVars
<1>9. ASSUME NEW e \in Exec, OpenSet(e)
      PROVE  Placed'
  BY <1>9 DEF OpenSet, Listening, PutSlot, TypeOK, Placed, listenVars, indexVars,
     receiverVars, cancelVars, historyVars
<1>10. ASSUME NEW e \in Exec, OpenIndex(e)
      PROVE  Placed'
  BY <1>10 DEF OpenIndex, Listening, TypeOK, Placed, listenVars, indexVars,
     receiverVars, cancelVars, historyVars
<1>11. ASSUME NEW e \in Exec, OpenExpire(e)
      PROVE  Placed'
  BY <1>11 DEF OpenExpire, Listening, SlotsOf, TypeOK, Placed, listenVars, indexVars,
     receiverVars, cancelVars, historyVars
<1>12. ASSUME NEW r \in Receiver, NEW t \in Tuple, Receive(r, t) \/ ListScan(r, t)
      PROVE  Placed'
  BY <1>12 DEF Receive, ListScan, TypeOK, Placed, listenVars, indexVars, receiverVars,
     cancelVars, historyVars
<1>13. ASSUME NEW r \in Receiver, NEW i \in Entry, ExactGet(r, i)
      PROVE  Placed'
  BY <1>13 DEF ExactGet, MarkOverlap, TypeOK, Placed, listenVars, indexVars,
     receiverVars, cancelVars, historyVars
<1>14. ASSUME NEW r \in Receiver, NEW i \in Entry, ListGet(r, i)
      PROVE  Placed'
  BY <1>14 DEF ListGet, MarkOverlap, TypeOK, Placed, listenVars, indexVars,
     receiverVars, cancelVars, historyVars
<1>15. ASSUME NEW r \in Receiver, ExactDelete(r)
      PROVE  Placed'
  BY <1>15 DEF ExactDelete, DeleteSlot, TypeOK, Placed, listenVars, indexVars,
     receiverVars, cancelVars, historyVars
<1>16. ASSUME NEW r \in Receiver, Srem(r)
      PROVE  Placed'
  BY <1>16 DEF Srem, RemoveEntry, TypeOK, Placed, listenVars, indexVars, receiverVars,
     cancelVars, historyVars
<1>17. ASSUME NEW r \in Receiver, ExactDone(r)
      PROVE  Placed'
  BY <1>17 DEF ExactDone, TypeOK, Placed, listenVars, indexVars, receiverVars,
     cancelVars, historyVars
<1>18. ASSUME NEW r \in Receiver, ListDone(r)
      PROVE  Placed'
  BY <1>18 DEF ListDone, TypeOK, Placed, listenVars, indexVars, receiverVars,
     cancelVars, historyVars
<1>19. ASSUME NEW r \in Receiver, NEW e \in Exec, ClaimSlot(r, e)
      PROVE  Placed'
  BY <1>19 DEF ClaimSlot, DeleteSlot, TypeOK, Placed, listenVars, indexVars,
     receiverVars, cancelVars, historyVars
<1>20. ASSUME NEW r \in Receiver, ChooseDone(r)
      PROVE  Placed'
  BY <1>20 DEF ChooseDone, TypeOK, Placed, listenVars, indexVars, receiverVars,
     cancelVars, historyVars
<1>21. ASSUME NEW r \in Receiver, ClaimFails(r)
      PROVE  Placed'
  BY <1>21, NothingIs DEF ClaimFails, TypeOK, Placed, listenVars, indexVars,
     receiverVars, cancelVars, historyVars
<1>22. ASSUME NEW r \in Receiver, NEW e \in Exec, Dispatch(r, e)
      PROVE  Placed'
  BY <1>22 DEF Dispatch, TypeOK, Placed, listenVars, indexVars, receiverVars,
     cancelVars, historyVars
<1>23. ASSUME NEW r \in Receiver, NEW e \in Exec, DispatchFails(r, e)
      PROVE  Placed'
  BY <1>23 DEF DispatchFails, TypeOK, Placed, listenVars, indexVars, receiverVars,
     cancelVars, historyVars
<1>24. ASSUME NEW r \in Receiver, FireDone(r)
      PROVE  Placed'
  BY <1>24 DEF FireDone, TypeOK, Placed, listenVars, indexVars, receiverVars,
     cancelVars, historyVars
<1>25. CASE UNCHANGED vars
  BY <1>25 DEF vars, TypeOK, Placed, listenVars, indexVars, receiverVars, cancelVars,
     historyVars
<1> QED BY <1>1, <1>2, <1>3, <1>4, <1>5, <1>6, <1>7, <1>8, <1>9, <1>10, <1>11, <1>12,
   <1>13, <1>14, <1>15, <1>16, <1>17, <1>18, <1>19, <1>20, <1>21, <1>22, <1>23, <1>24,
   <1>25 DEF Next, ListenStep, ReceiverStep, CancelStep

\* The labels go with what each process holds.
LEMMA PhasesStep ==
  ASSUME TypeOK, Phases, [Next]_vars
  PROVE  Phases'
<1>1. ASSUME NEW n \in Node, SlotExpires(n)
      PROVE  Phases'
  BY <1>1 DEF SlotExpires, DeleteSlot, TypeOK, Phases, Entry, listenVars, indexVars,
     receiverVars, cancelVars, historyVars
<1>2. ASSUME NEW n \in Node, CancelRead(n)
      PROVE  Phases'
  BY <1>2 DEF CancelRead, TypeOK, Phases, Entry, listenVars, indexVars, receiverVars,
     cancelVars, historyVars
<1>3. ASSUME NEW n \in Node, CancelDelete(n)
      PROVE  Phases'
  BY <1>3 DEF CancelDelete, DeleteSlot, TypeOK, Phases, Entry, listenVars, indexVars,
     receiverVars, cancelVars, historyVars
<1>4. ASSUME NEW n \in Node, CancelSrem(n)
      PROVE  Phases'
  BY <1>4 DEF CancelSrem, RemoveEntry, TypeOK, Phases, Entry, listenVars, indexVars,
     receiverVars, cancelVars, historyVars
<1>5. ASSUME NEW t \in Tuple, IndexExpires(t)
      PROVE  Phases'
  BY <1>5 DEF IndexExpires, SlotsOf, TypeOK, Phases, Entry, listenVars, indexVars,
     receiverVars, cancelVars, historyVars
<1>6. ASSUME NEW e \in Exec, NEW t \in Tuple, Listen(e, t)
      PROVE  Phases'
  BY <1>6 DEF Listen, Listening, TypeOK, Phases, Entry, listenVars, indexVars,
     receiverVars, cancelVars, historyVars
<1>7. ASSUME NEW e \in Exec, OpenRead(e)
      PROVE  Phases'
  BY <1>7 DEF OpenRead, Listening, TypeOK, Phases, Entry, listenVars, indexVars,
     receiverVars, cancelVars, historyVars
<1>8. ASSUME NEW e \in Exec, OpenClear(e)
      PROVE  Phases'
  BY <1>8 DEF OpenClear, Listening, RemoveEntry, TypeOK, Phases, Entry, listenVars,
     indexVars, receiverVars, cancelVars, historyVars
<1>9. ASSUME NEW e \in Exec, OpenSet(e)
      PROVE  Phases'
  BY <1>9 DEF OpenSet, Listening, PutSlot, TypeOK, Phases, Entry, listenVars,
     indexVars, receiverVars, cancelVars, historyVars
<1>10. ASSUME NEW e \in Exec, OpenIndex(e)
      PROVE  Phases'
  BY <1>10 DEF OpenIndex, Listening, TypeOK, Phases, Entry, listenVars, indexVars,
     receiverVars, cancelVars, historyVars
<1>11. ASSUME NEW e \in Exec, OpenExpire(e)
      PROVE  Phases'
  BY <1>11 DEF OpenExpire, Listening, SlotsOf, TypeOK, Phases, Entry, listenVars,
     indexVars, receiverVars, cancelVars, historyVars
<1>12. ASSUME NEW r \in Receiver, NEW t \in Tuple, Receive(r, t) \/ ListScan(r, t)
      PROVE  Phases'
  BY <1>12 DEF Receive, ListScan, TypeOK, Phases, Entry, listenVars, indexVars,
     receiverVars, cancelVars, historyVars
<1>13. ASSUME NEW r \in Receiver, NEW i \in Entry, ExactGet(r, i)
      PROVE  Phases'
  BY <1>13 DEF ExactGet, MarkOverlap, TypeOK, Phases, Entry, listenVars, indexVars,
     receiverVars, cancelVars, historyVars
<1>14. ASSUME NEW r \in Receiver, NEW i \in Entry, ListGet(r, i)
      PROVE  Phases'
  <2>1. ListGetEffect(r, i)
    BY <1>14, ListGetIs
  <2> QED BY <2>1 DEF ListGetEffect, Lists, Moved, TypeOK, Phases, Entry
<1>15. ASSUME NEW r \in Receiver, ExactDelete(r)
      PROVE  Phases'
  <2>1. ExactDeleteEffect(r)
    BY <1>15, ExactDeleteIs
  <2> QED BY <2>1 DEF ExactDeleteEffect, Lists, Moved, TypeOK, Phases, Entry
<1>16. ASSUME NEW r \in Receiver, Srem(r)
      PROVE  Phases'
  BY <1>16 DEF Srem, RemoveEntry, TypeOK, Phases, Entry, listenVars, indexVars,
     receiverVars, cancelVars, historyVars
<1>17. ASSUME NEW r \in Receiver, ExactDone(r)
      PROVE  Phases'
  BY <1>17 DEF ExactDone, TypeOK, Phases, Entry, listenVars, indexVars, receiverVars,
     cancelVars, historyVars
<1>18. ASSUME NEW r \in Receiver, ListDone(r)
      PROVE  Phases'
  BY <1>18 DEF ListDone, TypeOK, Phases, Entry, listenVars, indexVars, receiverVars,
     cancelVars, historyVars
<1>19. ASSUME NEW r \in Receiver, NEW e \in Exec, ClaimSlot(r, e)
      PROVE  Phases'
  <2>1. ClaimSlotEffect(r, e)
    BY <1>19, ClaimSlotIs
  <2>2. \A q \in Receiver, d \in Exec : cands'[q][d] > 0 => cands[q][d] > 0
    BY <2>1 DEF ClaimSlotEffect, Moved
  <2> QED BY <2>1, <2>2 DEF ClaimSlotEffect, Phases
<1>20. ASSUME NEW r \in Receiver, ChooseDone(r)
      PROVE  Phases'
  <2>1. \A d \in Exec : ~(cands[r][d] > 0)
    BY <1>20, NothingIs DEF ChooseDone
  <2>2. /\ rpc[r] = "choose" /\ rpc' = [rpc EXCEPT ![r] = "fire"]
        /\ UNCHANGED <<lpc, tuple, event, hold, cands>>
    BY <1>20 DEF ChooseDone, listenVars
  <2> QED BY <2>1, <2>2 DEF TypeOK, Phases
<1>21. ASSUME NEW r \in Receiver, ClaimFails(r)
      PROVE  Phases'
  BY <1>21, NothingIs DEF ClaimFails, TypeOK, Phases, Entry, listenVars, indexVars,
     receiverVars, cancelVars, historyVars
<1>22. ASSUME NEW r \in Receiver, NEW e \in Exec, Dispatch(r, e)
      PROVE  Phases'
  <2>1. DispatchEffect(r, e)
    BY <1>22, DispatchIs
  <2> QED BY <2>1 DEF DispatchEffect, Lists, Moved, TypeOK, Phases, Entry
<1>23. ASSUME NEW r \in Receiver, NEW e \in Exec, DispatchFails(r, e)
      PROVE  Phases'
  <2>1. DispatchFailsEffect(r, e)
    BY <1>23, DispatchFailsIs
  <2> QED BY <2>1 DEF DispatchFailsEffect, Lists, Moved, TypeOK, Phases, Entry
<1>24. ASSUME NEW r \in Receiver, FireDone(r)
      PROVE  Phases'
  BY <1>24 DEF FireDone, TypeOK, Phases, Entry, listenVars, indexVars, receiverVars,
     cancelVars, historyVars
<1>25. CASE UNCHANGED vars
  BY <1>25 DEF vars, TypeOK, Phases, Entry, listenVars, indexVars, receiverVars,
     cancelVars, historyVars
<1> QED BY <1>1, <1>2, <1>3, <1>4, <1>5, <1>6, <1>7, <1>8, <1>9, <1>10, <1>11, <1>12,
   <1>13, <1>14, <1>15, <1>16, <1>17, <1>18, <1>19, <1>20, <1>21, <1>22, <1>23, <1>24,
   <1>25 DEF Next, ListenStep, ReceiverStep, CancelStep

\* A claim deletes the slot, and open_slot runs once for an execution.
LEMMA GoneStep ==
  ASSUME TypeOK, Gone, Known, Phases, Placed, [Next]_vars
  PROVE  Gone'
<1>1. ASSUME NEW n \in Node, SlotExpires(n)
      PROVE  Gone'
  BY <1>1 DEF SlotExpires, DeleteSlot, TypeOK, Gone, Known, Holds, Phases, Placed,
     listenVars, indexVars, receiverVars, cancelVars, historyVars
<1>2. ASSUME NEW n \in Node, CancelRead(n)
      PROVE  Gone'
  BY <1>2 DEF CancelRead, TypeOK, Gone, Known, Holds, Phases, Placed, listenVars,
     indexVars, receiverVars, cancelVars, historyVars
<1>3. ASSUME NEW n \in Node, CancelDelete(n)
      PROVE  Gone'
  BY <1>3 DEF CancelDelete, DeleteSlot, TypeOK, Gone, Known, Holds, Phases, Placed,
     listenVars, indexVars, receiverVars, cancelVars, historyVars
<1>4. ASSUME NEW n \in Node, CancelSrem(n)
      PROVE  Gone'
  BY <1>4 DEF CancelSrem, RemoveEntry, TypeOK, Gone, Known, Holds, Phases, Placed,
     listenVars, indexVars, receiverVars, cancelVars, historyVars
<1>5. ASSUME NEW t \in Tuple, IndexExpires(t)
      PROVE  Gone'
  BY <1>5 DEF IndexExpires, SlotsOf, TypeOK, Gone, Known, Holds, Phases, Placed,
     listenVars, indexVars, receiverVars, cancelVars, historyVars
<1>6. ASSUME NEW e \in Exec, NEW t \in Tuple, Listen(e, t)
      PROVE  Gone'
  BY <1>6 DEF Listen, Listening, TypeOK, Gone, Known, Holds, Phases, Placed,
     listenVars, indexVars, receiverVars, cancelVars, historyVars
<1>7. ASSUME NEW e \in Exec, OpenRead(e)
      PROVE  Gone'
  <2>1. /\ lpc[e] = "created" /\ \A d \in Exec : d # e => lpc'[d] = lpc[d]
        /\ UNCHANGED <<tuple, slot, hold, cands, claimed, fires>>
    BY <1>7 DEF OpenRead, Listening, TypeOK, receiverVars, historyVars
  <2> QED BY <2>1 DEF Gone
<1>8. ASSUME NEW e \in Exec, OpenClear(e)
      PROVE  Gone'
  BY <1>8 DEF OpenClear, Listening, RemoveEntry, TypeOK, Gone, Known, Holds, Phases,
     Placed, listenVars, indexVars, receiverVars, cancelVars, historyVars
<1>9. ASSUME NEW e \in Exec, OpenSet(e)
      PROVE  Gone'
  BY <1>9 DEF OpenSet, Listening, PutSlot, TypeOK, Gone, Known, Holds, Phases, Placed,
     listenVars, indexVars, receiverVars, cancelVars, historyVars
<1>10. ASSUME NEW e \in Exec, OpenIndex(e)
      PROVE  Gone'
  BY <1>10 DEF OpenIndex, Listening, TypeOK, Gone, Known, Holds, Phases, Placed,
     listenVars, indexVars, receiverVars, cancelVars, historyVars
<1>11. ASSUME NEW e \in Exec, OpenExpire(e)
      PROVE  Gone'
  BY <1>11 DEF OpenExpire, Listening, SlotsOf, TypeOK, Gone, Known, Holds, Phases,
     Placed, listenVars, indexVars, receiverVars, cancelVars, historyVars
<1>12. ASSUME NEW r \in Receiver, NEW t \in Tuple, Receive(r, t) \/ ListScan(r, t)
      PROVE  Gone'
  BY <1>12 DEF Receive, ListScan, TypeOK, Gone, Known, Holds, Phases, Placed,
     listenVars, indexVars, receiverVars, cancelVars, historyVars
<1>13. ASSUME NEW r \in Receiver, NEW i \in Entry, ExactGet(r, i)
      PROVE  Gone'
  BY <1>13 DEF ExactGet, MarkOverlap, TypeOK, Gone, Known, Holds, Phases, Placed,
     listenVars, indexVars, receiverVars, cancelVars, historyVars
<1>14. ASSUME NEW r \in Receiver, NEW i \in Entry, ListGet(r, i)
      PROVE  Gone'
  <2>1. ListGetEffect(r, i)
    BY <1>14, ListGetIs
  <2> QED BY <2>1 DEF ListGetEffect, Lists, Moved, TypeOK, Gone, Known, Holds, Phases,
     Placed
<1>15. ASSUME NEW r \in Receiver, ExactDelete(r)
      PROVE  Gone'
  <2>1. ExactDeleteEffect(r)
    BY <1>15, ExactDeleteIs
  <2> QED BY <2>1 DEF ExactDeleteEffect, Lists, Moved, TypeOK, Gone, Known, Holds,
     Phases, Placed
<1>16. ASSUME NEW r \in Receiver, Srem(r)
      PROVE  Gone'
  BY <1>16 DEF Srem, RemoveEntry, TypeOK, Gone, Known, Holds, Phases, Placed,
     listenVars, indexVars, receiverVars, cancelVars, historyVars
<1>17. ASSUME NEW r \in Receiver, ExactDone(r)
      PROVE  Gone'
  BY <1>17 DEF ExactDone, TypeOK, Gone, Known, Holds, Phases, Placed, listenVars,
     indexVars, receiverVars, cancelVars, historyVars
<1>18. ASSUME NEW r \in Receiver, ListDone(r)
      PROVE  Gone'
  BY <1>18 DEF ListDone, TypeOK, Gone, Known, Holds, Phases, Placed, listenVars,
     indexVars, receiverVars, cancelVars, historyVars
<1>19. ASSUME NEW r \in Receiver, NEW e \in Exec, ClaimSlot(r, e)
      PROVE  Gone'
  <2>1. ClaimSlotEffect(r, e)
    BY <1>19, ClaimSlotIs
  <2>2. \A q \in Receiver, d \in Exec : claimed'[q][d] > 0 => claimed[q][d] > 0 \/ d = e
    BY <2>1 DEF ClaimSlotEffect, Moved
  <2>3. lpc[e] \in {"set", "added", "open"} /\ slot'[node[e]] # e
    BY <2>1 DEF ClaimSlotEffect, Known, Holds
  <2>4. \A d \in Exec : slot[node[d]] # d => slot'[node[d]] # d
    BY <2>1 DEF ClaimSlotEffect
  <2> QED BY <2>1, <2>2, <2>3, <2>4 DEF ClaimSlotEffect, Gone
<1>20. ASSUME NEW r \in Receiver, ChooseDone(r)
      PROVE  Gone'
  BY <1>20 DEF ChooseDone, TypeOK, Gone, Known, Holds, Phases, Placed, listenVars,
     indexVars, receiverVars, cancelVars, historyVars
<1>21. ASSUME NEW r \in Receiver, ClaimFails(r)
      PROVE  Gone'
  BY <1>21, NothingIs DEF ClaimFails, TypeOK, Gone, Known, Holds, Phases, Placed,
     listenVars, indexVars, receiverVars, cancelVars, historyVars
<1>22. ASSUME NEW r \in Receiver, NEW e \in Exec, Dispatch(r, e)
      PROVE  Gone'
  <2>1. DispatchEffect(r, e)
    BY <1>22, DispatchIs
  <2>2. \A q \in Receiver, d \in Exec : claimed'[q][d] > 0 => claimed[q][d] > 0
    BY <2>1 DEF DispatchEffect, Moved
  <2>3. \A d \in Exec : fires'[d] > 0 => fires[d] > 0 \/ claimed[r][d] > 0
    BY <2>1 DEF DispatchEffect
  <2> QED BY <2>1, <2>2, <2>3 DEF DispatchEffect, Gone
<1>23. ASSUME NEW r \in Receiver, NEW e \in Exec, DispatchFails(r, e)
      PROVE  Gone'
  <2>1. DispatchFailsEffect(r, e)
    BY <1>23, DispatchFailsIs
  <2> QED BY <2>1 DEF DispatchFailsEffect, Lists, Moved, TypeOK, Gone, Known, Holds,
     Phases, Placed
<1>24. ASSUME NEW r \in Receiver, FireDone(r)
      PROVE  Gone'
  BY <1>24 DEF FireDone, TypeOK, Gone, Known, Holds, Phases, Placed, listenVars,
     indexVars, receiverVars, cancelVars, historyVars
<1>25. CASE UNCHANGED vars
  BY <1>25 DEF vars, TypeOK, Gone, Known, Holds, Phases, Placed, listenVars,
     indexVars, receiverVars, cancelVars, historyVars
<1> QED BY <1>1, <1>2, <1>3, <1>4, <1>5, <1>6, <1>7, <1>8, <1>9, <1>10, <1>11, <1>12,
   <1>13, <1>14, <1>15, <1>16, <1>17, <1>18, <1>19, <1>20, <1>21, <1>22, <1>23, <1>24,
   <1>25 DEF Next, ListenStep, ReceiverStep, CancelStep

\* A read that finds the execution held is an overlap.
LEMMA AloneStep ==
  ASSUME TypeOK, Alone, Phases, [Next]_vars
  PROVE  Alone'
<1>1. ASSUME NEW n \in Node, SlotExpires(n)
      PROVE  Alone'
  BY <1>1 DEF SlotExpires, DeleteSlot, TypeOK, Alone, Holds, Phases, Entry,
     listenVars, indexVars, receiverVars, cancelVars, historyVars
<1>2. ASSUME NEW n \in Node, CancelRead(n)
      PROVE  Alone'
  BY <1>2 DEF CancelRead, TypeOK, Alone, Holds, Phases, Entry, listenVars, indexVars,
     receiverVars, cancelVars, historyVars
<1>3. ASSUME NEW n \in Node, CancelDelete(n)
      PROVE  Alone'
  BY <1>3 DEF CancelDelete, DeleteSlot, TypeOK, Alone, Holds, Phases, Entry,
     listenVars, indexVars, receiverVars, cancelVars, historyVars
<1>4. ASSUME NEW n \in Node, CancelSrem(n)
      PROVE  Alone'
  BY <1>4 DEF CancelSrem, RemoveEntry, TypeOK, Alone, Holds, Phases, Entry,
     listenVars, indexVars, receiverVars, cancelVars, historyVars
<1>5. ASSUME NEW t \in Tuple, IndexExpires(t)
      PROVE  Alone'
  BY <1>5 DEF IndexExpires, SlotsOf, TypeOK, Alone, Holds, Phases, Entry, listenVars,
     indexVars, receiverVars, cancelVars, historyVars
<1>6. ASSUME NEW e \in Exec, NEW t \in Tuple, Listen(e, t)
      PROVE  Alone'
  BY <1>6 DEF Listen, Listening, TypeOK, Alone, Holds, Phases, Entry, listenVars,
     indexVars, receiverVars, cancelVars, historyVars
<1>7. ASSUME NEW e \in Exec, OpenRead(e)
      PROVE  Alone'
  BY <1>7 DEF OpenRead, Listening, TypeOK, Alone, Holds, Phases, Entry, listenVars,
     indexVars, receiverVars, cancelVars, historyVars
<1>8. ASSUME NEW e \in Exec, OpenClear(e)
      PROVE  Alone'
  BY <1>8 DEF OpenClear, Listening, RemoveEntry, TypeOK, Alone, Holds, Phases, Entry,
     listenVars, indexVars, receiverVars, cancelVars, historyVars
<1>9. ASSUME NEW e \in Exec, OpenSet(e)
      PROVE  Alone'
  BY <1>9 DEF OpenSet, Listening, PutSlot, TypeOK, Alone, Holds, Phases, Entry,
     listenVars, indexVars, receiverVars, cancelVars, historyVars
<1>10. ASSUME NEW e \in Exec, OpenIndex(e)
      PROVE  Alone'
  BY <1>10 DEF OpenIndex, Listening, TypeOK, Alone, Holds, Phases, Entry, listenVars,
     indexVars, receiverVars, cancelVars, historyVars
<1>11. ASSUME NEW e \in Exec, OpenExpire(e)
      PROVE  Alone'
  BY <1>11 DEF OpenExpire, Listening, SlotsOf, TypeOK, Alone, Holds, Phases, Entry,
     listenVars, indexVars, receiverVars, cancelVars, historyVars
<1>12. ASSUME NEW r \in Receiver, NEW t \in Tuple, Receive(r, t) \/ ListScan(r, t)
      PROVE  Alone'
  BY <1>12 DEF Receive, ListScan, TypeOK, Alone, Holds, Phases, Entry, listenVars,
     indexVars, receiverVars, cancelVars, historyVars
<1>13. ASSUME NEW r \in Receiver, NEW i \in Entry, ExactGet(r, i)
      PROVE  Alone'
  BY <1>13 DEF ExactGet, MarkOverlap, TypeOK, Alone, Holds, Phases, Entry, listenVars,
     indexVars, receiverVars, cancelVars, historyVars
<1>14. ASSUME NEW r \in Receiver, NEW i \in Entry, ListGet(r, i)
      PROVE  Alone'
  <2>1. ListGetEffect(r, i)
    BY <1>14, ListGetIs
  <2>2. CASE cands' = cands /\ overlap' = overlap
    BY <2>1, <2>2 DEF ListGetEffect, Alone, Holds
  <2>3. CASE ~(cands' = cands /\ overlap' = overlap)
    <3>1. PICK s \in Exec :
          /\ Moved(cands, cands', r, s, 1)
          /\ overlap' = IF \E q \in Receiver : Holds(q, s) THEN overlap \cup {s} ELSE overlap
          /\ hold' = hold /\ claimed' = claimed
      BY <2>1, <2>3 DEF ListGetEffect
    <3>2. \A q \in Receiver, d \in Exec : d # s => (Holds(q, d)' <=> Holds(q, d))
      BY <3>1 DEF Moved, Holds
    <3>3. CASE \E q \in Receiver : Holds(q, s)
      BY <3>1, <3>2, <3>3 DEF Alone, Moved
    <3>4. CASE \A q \in Receiver : ~Holds(q, s)
      <4>1. \A q \in Receiver : cands[q][s] = 0 /\ claimed[q][s] = 0 /\ hold[q] # s
        BY <3>1, <3>4 DEF Holds, TypeOK
      <4>2. \A q \in Receiver : q # r => ~Holds(q, s)'
        BY <3>1, <4>1 DEF Moved, Holds
      <4>3. cands'[r][s] = 1 /\ \A q \in Receiver : q # r => cands'[q][s] = 0
        BY <3>1, <4>1 DEF Moved
      <4> QED BY <3>1, <3>2, <4>1, <4>2, <4>3 DEF Alone, Moved
    <3> QED BY <3>3, <3>4
  <2> QED BY <2>2, <2>3
<1>15. ASSUME NEW r \in Receiver, ExactDelete(r)
      PROVE  Alone'
  <2>1. ExactDeleteEffect(r)
    BY <1>15, ExactDeleteIs
  <2>2. \A q \in Receiver, d \in Exec :
           /\ cands[q][d] \in Nat /\ claimed[q][d] \in Nat
           /\ cands'[q][d] \in Nat /\ claimed'[q][d] \in Nat
    BY <2>1 DEF ExactDeleteEffect, TypeOK, Lists
  <2>3. \A q \in Receiver, d \in Exec : Holds(q, d)' => Holds(q, d)
    BY <2>1 DEF ExactDeleteEffect, Moved, Holds
  <2>4. ASSUME NEW d \in Exec \ overlap, NEW q \in Receiver
        PROVE  /\ cands'[q][d] + claimed'[q][d] <= 1
               /\ hold'[q] = d => cands'[q][d] + claimed'[q][d] = 0
    <3>1. CASE q = r /\ d = hold[r]
      BY <2>1, <2>2, <3>1 DEF ExactDeleteEffect, Moved, Alone
    <3>2. CASE ~(q = r /\ d = hold[r])
      BY <2>1, <2>2, <3>2 DEF ExactDeleteEffect, Moved, Alone
    <3> QED BY <3>1, <3>2
  <2> QED BY <2>1, <2>3, <2>4 DEF ExactDeleteEffect, Alone
<1>16. ASSUME NEW r \in Receiver, Srem(r)
      PROVE  Alone'
  BY <1>16 DEF Srem, RemoveEntry, TypeOK, Alone, Holds, Phases, Entry, listenVars,
     indexVars, receiverVars, cancelVars, historyVars
<1>17. ASSUME NEW r \in Receiver, ExactDone(r)
      PROVE  Alone'
  BY <1>17 DEF ExactDone, TypeOK, Alone, Holds, Phases, Entry, listenVars, indexVars,
     receiverVars, cancelVars, historyVars
<1>18. ASSUME NEW r \in Receiver, ListDone(r)
      PROVE  Alone'
  BY <1>18 DEF ListDone, TypeOK, Alone, Holds, Phases, Entry, listenVars, indexVars,
     receiverVars, cancelVars, historyVars
<1>19. ASSUME NEW r \in Receiver, NEW e \in Exec, ClaimSlot(r, e)
      PROVE  Alone'
  <2>1. ClaimSlotEffect(r, e)
    BY <1>19, ClaimSlotIs
  <2>2. \A q \in Receiver, d \in Exec :
           /\ cands[q][d] \in Nat /\ claimed[q][d] \in Nat
           /\ cands'[q][d] \in Nat /\ claimed'[q][d] \in Nat
    BY <2>1 DEF ClaimSlotEffect, TypeOK, Lists
  <2>3. \A q \in Receiver, d \in Exec : Holds(q, d)' => Holds(q, d)
    BY <2>1 DEF ClaimSlotEffect, Moved, Holds
  <2>4. \A q \in Receiver, d \in Exec :
           cands'[q][d] + claimed'[q][d] <= cands[q][d] + claimed[q][d]
    BY <2>1, <2>2 DEF ClaimSlotEffect, Moved
  <2>5. hold' = hold /\ overlap' = overlap
    BY <2>1 DEF ClaimSlotEffect
  <2> QED BY <2>2, <2>3, <2>4, <2>5 DEF Alone
<1>20. ASSUME NEW r \in Receiver, ChooseDone(r)
      PROVE  Alone'
  BY <1>20 DEF ChooseDone, TypeOK, Alone, Holds, Phases, Entry, listenVars, indexVars,
     receiverVars, cancelVars, historyVars
<1>21. ASSUME NEW r \in Receiver, ClaimFails(r)
      PROVE  Alone'
  BY <1>21, NothingIs DEF ClaimFails, TypeOK, Alone, Holds, Phases, Entry, listenVars,
     indexVars, receiverVars, cancelVars, historyVars
<1>22. ASSUME NEW r \in Receiver, NEW e \in Exec, Dispatch(r, e)
      PROVE  Alone'
  <2>1. DispatchEffect(r, e)
    BY <1>22, DispatchIs
  <2>2. \A q \in Receiver, d \in Exec :
           /\ cands[q][d] \in Nat /\ claimed[q][d] \in Nat
           /\ cands'[q][d] \in Nat /\ claimed'[q][d] \in Nat
    BY <2>1 DEF DispatchEffect, TypeOK, Lists
  <2>3. \A q \in Receiver, d \in Exec : Holds(q, d)' => Holds(q, d)
    BY <2>1 DEF DispatchEffect, Moved, Holds
  <2>4. \A q \in Receiver, d \in Exec :
           cands'[q][d] + claimed'[q][d] <= cands[q][d] + claimed[q][d]
    BY <2>1, <2>2 DEF DispatchEffect, Moved
  <2>5. hold' = hold /\ overlap' = overlap
    BY <2>1 DEF DispatchEffect
  <2> QED BY <2>2, <2>3, <2>4, <2>5 DEF Alone
<1>23. ASSUME NEW r \in Receiver, NEW e \in Exec, DispatchFails(r, e)
      PROVE  Alone'
  <2>1. DispatchFailsEffect(r, e)
    BY <1>23, DispatchFailsIs
  <2>2. \A q \in Receiver, d \in Exec :
           /\ cands[q][d] \in Nat /\ claimed[q][d] \in Nat
           /\ cands'[q][d] \in Nat /\ claimed'[q][d] \in Nat
    BY <2>1 DEF DispatchFailsEffect, TypeOK, Lists
  <2>3. \A q \in Receiver, d \in Exec : Holds(q, d)' => Holds(q, d)
    BY <2>1 DEF DispatchFailsEffect, Moved, Holds
  <2>4. \A q \in Receiver, d \in Exec :
           cands'[q][d] + claimed'[q][d] <= cands[q][d] + claimed[q][d]
    BY <2>1, <2>2 DEF DispatchFailsEffect, Moved
  <2>5. hold' = hold /\ overlap' = overlap
    BY <2>1 DEF DispatchFailsEffect
  <2> QED BY <2>2, <2>3, <2>4, <2>5 DEF Alone
<1>24. ASSUME NEW r \in Receiver, FireDone(r)
      PROVE  Alone'
  BY <1>24 DEF FireDone, TypeOK, Alone, Holds, Phases, Entry, listenVars, indexVars,
     receiverVars, cancelVars, historyVars
<1>25. CASE UNCHANGED vars
  BY <1>25 DEF vars, TypeOK, Alone, Holds, Phases, Entry, listenVars, indexVars,
     receiverVars, cancelVars, historyVars
<1> QED BY <1>1, <1>2, <1>3, <1>4, <1>5, <1>6, <1>7, <1>8, <1>9, <1>10, <1>11, <1>12,
   <1>13, <1>14, <1>15, <1>16, <1>17, <1>18, <1>19, <1>20, <1>21, <1>22, <1>23, <1>24,
   <1>25 DEF Next, ListenStep, ReceiverStep, CancelStep

\* What was dispatched has no slot, so nobody gets hold of it again.
LEMMA OnceStep ==
  ASSUME TypeOK, Alone, Once, Phases, Gone, Placed, [Next]_vars
  PROVE  Once'
<1>1. ASSUME NEW n \in Node, SlotExpires(n)
      PROVE  Once'
  BY <1>1 DEF SlotExpires, DeleteSlot, TypeOK, Once, Alone, Holds, Phases, Gone,
     Placed, Entry, listenVars, indexVars, receiverVars, cancelVars, historyVars
<1>2. ASSUME NEW n \in Node, CancelRead(n)
      PROVE  Once'
  BY <1>2 DEF CancelRead, TypeOK, Once, Alone, Holds, Phases, Gone, Placed, Entry,
     listenVars, indexVars, receiverVars, cancelVars, historyVars
<1>3. ASSUME NEW n \in Node, CancelDelete(n)
      PROVE  Once'
  BY <1>3 DEF CancelDelete, DeleteSlot, TypeOK, Once, Alone, Holds, Phases, Gone,
     Placed, Entry, listenVars, indexVars, receiverVars, cancelVars, historyVars
<1>4. ASSUME NEW n \in Node, CancelSrem(n)
      PROVE  Once'
  BY <1>4 DEF CancelSrem, RemoveEntry, TypeOK, Once, Alone, Holds, Phases, Gone,
     Placed, Entry, listenVars, indexVars, receiverVars, cancelVars, historyVars
<1>5. ASSUME NEW t \in Tuple, IndexExpires(t)
      PROVE  Once'
  BY <1>5 DEF IndexExpires, SlotsOf, TypeOK, Once, Alone, Holds, Phases, Gone, Placed,
     Entry, listenVars, indexVars, receiverVars, cancelVars, historyVars
<1>6. ASSUME NEW e \in Exec, NEW t \in Tuple, Listen(e, t)
      PROVE  Once'
  BY <1>6 DEF Listen, Listening, TypeOK, Once, Alone, Holds, Phases, Gone, Placed,
     Entry, listenVars, indexVars, receiverVars, cancelVars, historyVars
<1>7. ASSUME NEW e \in Exec, OpenRead(e)
      PROVE  Once'
  BY <1>7 DEF OpenRead, Listening, TypeOK, Once, Alone, Holds, Phases, Gone, Placed,
     Entry, listenVars, indexVars, receiverVars, cancelVars, historyVars
<1>8. ASSUME NEW e \in Exec, OpenClear(e)
      PROVE  Once'
  BY <1>8 DEF OpenClear, Listening, RemoveEntry, TypeOK, Once, Alone, Holds, Phases,
     Gone, Placed, Entry, listenVars, indexVars, receiverVars, cancelVars, historyVars
<1>9. ASSUME NEW e \in Exec, OpenSet(e)
      PROVE  Once'
  BY <1>9 DEF OpenSet, Listening, PutSlot, TypeOK, Once, Alone, Holds, Phases, Gone,
     Placed, Entry, listenVars, indexVars, receiverVars, cancelVars, historyVars
<1>10. ASSUME NEW e \in Exec, OpenIndex(e)
      PROVE  Once'
  BY <1>10 DEF OpenIndex, Listening, TypeOK, Once, Alone, Holds, Phases, Gone, Placed,
     Entry, listenVars, indexVars, receiverVars, cancelVars, historyVars
<1>11. ASSUME NEW e \in Exec, OpenExpire(e)
      PROVE  Once'
  BY <1>11 DEF OpenExpire, Listening, SlotsOf, TypeOK, Once, Alone, Holds, Phases,
     Gone, Placed, Entry, listenVars, indexVars, receiverVars, cancelVars, historyVars
<1>12. ASSUME NEW r \in Receiver, NEW t \in Tuple, Receive(r, t) \/ ListScan(r, t)
      PROVE  Once'
  BY <1>12 DEF Receive, ListScan, TypeOK, Once, Alone, Holds, Phases, Gone, Placed,
     Entry, listenVars, indexVars, receiverVars, cancelVars, historyVars
<1>13. ASSUME NEW r \in Receiver, NEW i \in Entry, ExactGet(r, i)
      PROVE  Once'
  BY <1>13 DEF ExactGet, MarkOverlap, TypeOK, Once, Alone, Holds, Phases, Gone,
     Placed, Entry, listenVars, indexVars, receiverVars, cancelVars, historyVars
<1>14. ASSUME NEW r \in Receiver, NEW i \in Entry, ListGet(r, i)
      PROVE  Once'
  <2>1. ListGetEffect(r, i)
    BY <1>14, ListGetIs
  <2> QED BY <2>1 DEF ListGetEffect, Lists, Moved, TypeOK, Once, Alone, Holds, Phases,
     Gone, Placed, Entry
<1>15. ASSUME NEW r \in Receiver, ExactDelete(r)
      PROVE  Once'
  <2>1. ExactDeleteEffect(r)
    BY <1>15, ExactDeleteIs
  <2> QED BY <2>1 DEF ExactDeleteEffect, Lists, Moved, TypeOK, Once, Alone, Holds,
     Phases, Gone, Placed, Entry
<1>16. ASSUME NEW r \in Receiver, Srem(r)
      PROVE  Once'
  BY <1>16 DEF Srem, RemoveEntry, TypeOK, Once, Alone, Holds, Phases, Gone, Placed,
     Entry, listenVars, indexVars, receiverVars, cancelVars, historyVars
<1>17. ASSUME NEW r \in Receiver, ExactDone(r)
      PROVE  Once'
  BY <1>17 DEF ExactDone, TypeOK, Once, Alone, Holds, Phases, Gone, Placed, Entry,
     listenVars, indexVars, receiverVars, cancelVars, historyVars
<1>18. ASSUME NEW r \in Receiver, ListDone(r)
      PROVE  Once'
  BY <1>18 DEF ListDone, TypeOK, Once, Alone, Holds, Phases, Gone, Placed, Entry,
     listenVars, indexVars, receiverVars, cancelVars, historyVars
<1>19. ASSUME NEW r \in Receiver, NEW e \in Exec, ClaimSlot(r, e)
      PROVE  Once'
  <2>1. ClaimSlotEffect(r, e)
    BY <1>19, ClaimSlotIs
  <2>2. \A q \in Receiver, d \in Exec : Holds(q, d)' => Holds(q, d)
    BY <2>1 DEF ClaimSlotEffect, Moved, Holds
  <2>3. fires' = fires /\ overlap' = overlap
    BY <2>1 DEF ClaimSlotEffect
  <2> QED BY <2>2, <2>3 DEF Once
<1>20. ASSUME NEW r \in Receiver, ChooseDone(r)
      PROVE  Once'
  BY <1>20 DEF ChooseDone, TypeOK, Once, Alone, Holds, Phases, Gone, Placed, Entry,
     listenVars, indexVars, receiverVars, cancelVars, historyVars
<1>21. ASSUME NEW r \in Receiver, ClaimFails(r)
      PROVE  Once'
  BY <1>21, NothingIs DEF ClaimFails, TypeOK, Once, Alone, Holds, Phases, Gone,
     Placed, Entry, listenVars, indexVars, receiverVars, cancelVars, historyVars
<1>22. ASSUME NEW r \in Receiver, NEW e \in Exec, Dispatch(r, e)
      PROVE  Once'
  <2>1. DispatchEffect(r, e)
    BY <1>22, DispatchIs
  <2>2. \A q \in Receiver, d \in Exec :
           /\ cands[q][d] \in Nat /\ claimed[q][d] \in Nat
           /\ cands'[q][d] \in Nat /\ claimed'[q][d] \in Nat
    BY <2>1 DEF DispatchEffect, TypeOK, Lists
  <2>3. \A q \in Receiver, d \in Exec : Holds(q, d)' => Holds(q, d)
    BY <2>1 DEF DispatchEffect, Moved, Holds
  <2>4. SUFFICES ASSUME NEW d \in Exec \ overlap
                PROVE  fires'[d] <= 1 /\ (fires'[d] = 1 => \A q \in Receiver : ~Holds(q, d)')
    BY <2>1 DEF DispatchEffect, Once
  <2>5. CASE d # e
    BY <2>1, <2>3, <2>5 DEF DispatchEffect, Once
  <2>6. CASE d = e
    <3>1. Holds(r, e) /\ claimed[r][e] > 0
      BY <2>1 DEF DispatchEffect, Holds
    <3>2. fires[e] \in Nat /\ fires'[e] = fires[e] + 1
      BY <2>1 DEF DispatchEffect, TypeOK
    <3>3. fires[e] <= 1 /\ fires[e] # 1
      BY <2>4, <2>6, <3>1 DEF Once
    <3>4. fires'[e] = 1
      BY <3>2, <3>3
    <3>5. cands[r][e] = 0 /\ claimed[r][e] = 1 /\ hold[r] # e
      BY <2>2, <2>6, <3>1 DEF Alone
    <3>6. cands'[r][e] = 0 /\ claimed'[r][e] = 0 /\ hold'[r] # e
      BY <2>1, <3>5 DEF DispatchEffect, Moved
    <3>7. ASSUME NEW q \in Receiver PROVE ~Holds(q, e)'
      BY <2>3, <2>6, <3>1, <3>6 DEF Alone, Holds
    <3> QED BY <2>6, <3>4, <3>7
  <2> QED BY <2>5, <2>6
<1>23. ASSUME NEW r \in Receiver, NEW e \in Exec, DispatchFails(r, e)
      PROVE  Once'
  <2>1. DispatchFailsEffect(r, e)
    BY <1>23, DispatchFailsIs
  <2>2. \A q \in Receiver, d \in Exec : Holds(q, d)' => Holds(q, d)
    BY <2>1 DEF DispatchFailsEffect, Moved, Holds
  <2>3. fires' = fires /\ overlap' = overlap
    BY <2>1 DEF DispatchFailsEffect
  <2> QED BY <2>2, <2>3 DEF Once
<1>24. ASSUME NEW r \in Receiver, FireDone(r)
      PROVE  Once'
  BY <1>24 DEF FireDone, TypeOK, Once, Alone, Holds, Phases, Gone, Placed, Entry,
     listenVars, indexVars, receiverVars, cancelVars, historyVars
<1>25. CASE UNCHANGED vars
  BY <1>25 DEF vars, TypeOK, Once, Alone, Holds, Phases, Gone, Placed, Entry,
     listenVars, indexVars, receiverVars, cancelVars, historyVars
<1> QED BY <1>1, <1>2, <1>3, <1>4, <1>5, <1>6, <1>7, <1>8, <1>9, <1>10, <1>11, <1>12,
   <1>13, <1>14, <1>15, <1>16, <1>17, <1>18, <1>19, <1>20, <1>21, <1>22, <1>23, <1>24,
   <1>25 DEF Next, ListenStep, ReceiverStep, CancelStep

\* A listen is open after the EXPIRE, and a slot that replaces it is not open yet.
LEMMA GuardedStep ==
  ASSUME TypeOK, Placed, Phases, Guarded, [Next]_vars
  PROVE  Guarded'
<1>1. ASSUME NEW n \in Node, SlotExpires(n)
      PROVE  Guarded'
  BY <1>1 DEF SlotExpires, DeleteSlot, TypeOK, Placed, Guarded, Phases, listenVars,
     indexVars, receiverVars, cancelVars, historyVars
<1>2. ASSUME NEW n \in Node, CancelRead(n)
      PROVE  Guarded'
  BY <1>2 DEF CancelRead, TypeOK, Placed, Guarded, Phases, listenVars, indexVars,
     receiverVars, cancelVars, historyVars
<1>3. ASSUME NEW n \in Node, CancelDelete(n)
      PROVE  Guarded'
  BY <1>3 DEF CancelDelete, DeleteSlot, TypeOK, Placed, Guarded, Phases, listenVars,
     indexVars, receiverVars, cancelVars, historyVars
<1>4. ASSUME NEW n \in Node, CancelSrem(n)
      PROVE  Guarded'
  BY <1>4 DEF CancelSrem, RemoveEntry, TypeOK, Placed, Guarded, Phases, listenVars,
     indexVars, receiverVars, cancelVars, historyVars
<1>5. ASSUME NEW t \in Tuple, IndexExpires(t)
      PROVE  Guarded'
  BY <1>5 DEF IndexExpires, SlotsOf, TypeOK, Placed, Guarded, Phases, listenVars,
     indexVars, receiverVars, cancelVars, historyVars
<1>6. ASSUME NEW e \in Exec, NEW t \in Tuple, Listen(e, t)
      PROVE  Guarded'
  BY <1>6 DEF Listen, Listening, TypeOK, Placed, Guarded, Phases, listenVars,
     indexVars, receiverVars, cancelVars, historyVars
<1>7. ASSUME NEW e \in Exec, OpenRead(e)
      PROVE  Guarded'
  BY <1>7 DEF OpenRead, Listening, TypeOK, Placed, Guarded, Phases, listenVars,
     indexVars, receiverVars, cancelVars, historyVars
<1>8. ASSUME NEW e \in Exec, OpenClear(e)
      PROVE  Guarded'
  BY <1>8 DEF OpenClear, Listening, RemoveEntry, TypeOK, Placed, Guarded, Phases,
     listenVars, indexVars, receiverVars, cancelVars, historyVars
<1>9. ASSUME NEW e \in Exec, OpenSet(e)
      PROVE  Guarded'
  BY <1>9 DEF OpenSet, Listening, PutSlot, TypeOK, Placed, Guarded, Phases,
     listenVars, indexVars, receiverVars, cancelVars, historyVars
<1>10. ASSUME NEW e \in Exec, OpenIndex(e)
      PROVE  Guarded'
  BY <1>10 DEF OpenIndex, Listening, TypeOK, Placed, Guarded, Phases, listenVars,
     indexVars, receiverVars, cancelVars, historyVars
<1>11. ASSUME NEW e \in Exec, OpenExpire(e)
      PROVE  Guarded'
  <2>1. SUFFICES ASSUME NEW n \in Node, slot[n] # NoExec, lpc'[slot[n]] = "open"
              PROVE  n \in guarded'
    BY <1>11 DEF OpenExpire, Guarded
  <2>2. CASE slot[n] = e
    BY <1>11, <2>1, <2>2 DEF OpenExpire, SlotsOf
  <2>3. CASE slot[n] # e
    <3>1. lpc[slot[n]] = "open"
      BY <1>11, <2>1, <2>3 DEF OpenExpire, Listening, TypeOK
    <3> QED BY <1>11, <2>1, <3>1 DEF OpenExpire, Guarded
  <2> QED BY <2>2, <2>3
<1>12. ASSUME NEW r \in Receiver, NEW t \in Tuple, Receive(r, t) \/ ListScan(r, t)
      PROVE  Guarded'
  BY <1>12 DEF Receive, ListScan, TypeOK, Placed, Guarded, Phases, listenVars,
     indexVars, receiverVars, cancelVars, historyVars
<1>13. ASSUME NEW r \in Receiver, NEW i \in Entry, ExactGet(r, i)
      PROVE  Guarded'
  BY <1>13 DEF ExactGet, MarkOverlap, TypeOK, Placed, Guarded, Phases, listenVars,
     indexVars, receiverVars, cancelVars, historyVars
<1>14. ASSUME NEW r \in Receiver, NEW i \in Entry, ListGet(r, i)
      PROVE  Guarded'
  BY <1>14 DEF ListGet, MarkOverlap, TypeOK, Placed, Guarded, Phases, listenVars,
     indexVars, receiverVars, cancelVars, historyVars
<1>15. ASSUME NEW r \in Receiver, ExactDelete(r)
      PROVE  Guarded'
  BY <1>15 DEF ExactDelete, DeleteSlot, TypeOK, Placed, Guarded, Phases, listenVars,
     indexVars, receiverVars, cancelVars, historyVars
<1>16. ASSUME NEW r \in Receiver, Srem(r)
      PROVE  Guarded'
  BY <1>16 DEF Srem, RemoveEntry, TypeOK, Placed, Guarded, Phases, listenVars,
     indexVars, receiverVars, cancelVars, historyVars
<1>17. ASSUME NEW r \in Receiver, ExactDone(r)
      PROVE  Guarded'
  BY <1>17 DEF ExactDone, TypeOK, Placed, Guarded, Phases, listenVars, indexVars,
     receiverVars, cancelVars, historyVars
<1>18. ASSUME NEW r \in Receiver, ListDone(r)
      PROVE  Guarded'
  BY <1>18 DEF ListDone, TypeOK, Placed, Guarded, Phases, listenVars, indexVars,
     receiverVars, cancelVars, historyVars
<1>19. ASSUME NEW r \in Receiver, NEW e \in Exec, ClaimSlot(r, e)
      PROVE  Guarded'
  BY <1>19 DEF ClaimSlot, DeleteSlot, TypeOK, Placed, Guarded, Phases, listenVars,
     indexVars, receiverVars, cancelVars, historyVars
<1>20. ASSUME NEW r \in Receiver, ChooseDone(r)
      PROVE  Guarded'
  BY <1>20 DEF ChooseDone, TypeOK, Placed, Guarded, Phases, listenVars, indexVars,
     receiverVars, cancelVars, historyVars
<1>21. ASSUME NEW r \in Receiver, ClaimFails(r)
      PROVE  Guarded'
  BY <1>21, NothingIs DEF ClaimFails, TypeOK, Placed, Guarded, Phases, listenVars,
     indexVars, receiverVars, cancelVars, historyVars
<1>22. ASSUME NEW r \in Receiver, NEW e \in Exec, Dispatch(r, e)
      PROVE  Guarded'
  BY <1>22 DEF Dispatch, TypeOK, Placed, Guarded, Phases, listenVars, indexVars,
     receiverVars, cancelVars, historyVars
<1>23. ASSUME NEW r \in Receiver, NEW e \in Exec, DispatchFails(r, e)
      PROVE  Guarded'
  BY <1>23 DEF DispatchFails, TypeOK, Placed, Guarded, Phases, listenVars, indexVars,
     receiverVars, cancelVars, historyVars
<1>24. ASSUME NEW r \in Receiver, FireDone(r)
      PROVE  Guarded'
  BY <1>24 DEF FireDone, TypeOK, Placed, Guarded, Phases, listenVars, indexVars,
     receiverVars, cancelVars, historyVars
<1>25. CASE UNCHANGED vars
  BY <1>25 DEF vars, TypeOK, Placed, Guarded, Phases, listenVars, indexVars,
     receiverVars, cancelVars, historyVars
<1> QED BY <1>1, <1>2, <1>3, <1>4, <1>5, <1>6, <1>7, <1>8, <1>9, <1>10, <1>11, <1>12,
   <1>13, <1>14, <1>15, <1>16, <1>17, <1>18, <1>19, <1>20, <1>21, <1>22, <1>23, <1>24,
   <1>25 DEF Next, ListenStep, ReceiverStep, CancelStep

\* The entry of an open slot goes with the slot, or by the SREM of another request.
LEMMA IndexedStep ==
  ASSUME TypeOK, Placed, Phases, Guarded, Indexed, [Next]_vars
  PROVE  Indexed'
<1>1. ASSUME NEW n \in Node, SlotExpires(n)
      PROVE  Indexed'
  BY <1>1 DEF SlotExpires, DeleteSlot, TypeOK, Placed, Guarded, Phases, Indexed,
     EntryOf, Entry, listenVars, indexVars, receiverVars, cancelVars, historyVars
<1>2. ASSUME NEW n \in Node, CancelRead(n)
      PROVE  Indexed'
  BY <1>2 DEF CancelRead, TypeOK, Placed, Guarded, Phases, Indexed, EntryOf, Entry,
     listenVars, indexVars, receiverVars, cancelVars, historyVars
<1>3. ASSUME NEW n \in Node, CancelDelete(n)
      PROVE  Indexed'
  BY <1>3 DEF CancelDelete, DeleteSlot, TypeOK, Placed, Guarded, Phases, Indexed,
     EntryOf, Entry, listenVars, indexVars, receiverVars, cancelVars, historyVars
<1>4. ASSUME NEW n \in Node, CancelSrem(n)
      PROVE  Indexed'
  BY <1>4 DEF CancelSrem, RemoveEntry, TypeOK, Placed, Guarded, Phases, Indexed,
     EntryOf, Entry, listenVars, indexVars, receiverVars, cancelVars, historyVars
<1>5. ASSUME NEW t \in Tuple, IndexExpires(t)
      PROVE  Indexed'
  BY <1>5 DEF IndexExpires, SlotsOf, TypeOK, Placed, Guarded, Phases, Indexed,
     EntryOf, Entry, listenVars, indexVars, receiverVars, cancelVars, historyVars
<1>6. ASSUME NEW e \in Exec, NEW t \in Tuple, Listen(e, t)
      PROVE  Indexed'
  BY <1>6 DEF Listen, Listening, TypeOK, Placed, Guarded, Phases, Indexed, EntryOf,
     Entry, listenVars, indexVars, receiverVars, cancelVars, historyVars
<1>7. ASSUME NEW e \in Exec, OpenRead(e)
      PROVE  Indexed'
  BY <1>7 DEF OpenRead, Listening, TypeOK, Placed, Guarded, Phases, Indexed, EntryOf,
     Entry, listenVars, indexVars, receiverVars, cancelVars, historyVars
<1>8. ASSUME NEW e \in Exec, OpenClear(e)
      PROVE  Indexed'
  BY <1>8 DEF OpenClear, Listening, RemoveEntry, TypeOK, Placed, Guarded, Phases,
     Indexed, EntryOf, Entry, listenVars, indexVars, receiverVars, cancelVars,
     historyVars
<1>9. ASSUME NEW e \in Exec, OpenSet(e)
      PROVE  Indexed'
  BY <1>9 DEF OpenSet, Listening, PutSlot, TypeOK, Placed, Guarded, Phases, Indexed,
     EntryOf, Entry, listenVars, indexVars, receiverVars, cancelVars, historyVars
<1>10. ASSUME NEW e \in Exec, OpenIndex(e)
      PROVE  Indexed'
  BY <1>10 DEF OpenIndex, Listening, TypeOK, Placed, Guarded, Phases, Indexed,
     EntryOf, Entry, listenVars, indexVars, receiverVars, cancelVars, historyVars
<1>11. ASSUME NEW e \in Exec, OpenExpire(e)
      PROVE  Indexed'
  BY <1>11 DEF OpenExpire, Listening, SlotsOf, TypeOK, Placed, Guarded, Phases,
     Indexed, EntryOf, Entry, listenVars, indexVars, receiverVars, cancelVars,
     historyVars
<1>12. ASSUME NEW r \in Receiver, NEW t \in Tuple, Receive(r, t) \/ ListScan(r, t)
      PROVE  Indexed'
  BY <1>12 DEF Receive, ListScan, TypeOK, Placed, Guarded, Phases, Indexed, EntryOf,
     Entry, listenVars, indexVars, receiverVars, cancelVars, historyVars
<1>13. ASSUME NEW r \in Receiver, NEW i \in Entry, ExactGet(r, i)
      PROVE  Indexed'
  BY <1>13 DEF ExactGet, MarkOverlap, TypeOK, Placed, Guarded, Phases, Indexed,
     EntryOf, Entry, listenVars, indexVars, receiverVars, cancelVars, historyVars
<1>14. ASSUME NEW r \in Receiver, NEW i \in Entry, ListGet(r, i)
      PROVE  Indexed'
  BY <1>14 DEF ListGet, MarkOverlap, TypeOK, Placed, Guarded, Phases, Indexed,
     EntryOf, Entry, listenVars, indexVars, receiverVars, cancelVars, historyVars
<1>15. ASSUME NEW r \in Receiver, ExactDelete(r)
      PROVE  Indexed'
  BY <1>15 DEF ExactDelete, DeleteSlot, TypeOK, Placed, Guarded, Phases, Indexed,
     EntryOf, Entry, listenVars, indexVars, receiverVars, cancelVars, historyVars
<1>16. ASSUME NEW r \in Receiver, Srem(r)
      PROVE  Indexed'
  BY <1>16 DEF Srem, RemoveEntry, TypeOK, Placed, Guarded, Phases, Indexed, EntryOf,
     Entry, listenVars, indexVars, receiverVars, cancelVars, historyVars
<1>17. ASSUME NEW r \in Receiver, ExactDone(r)
      PROVE  Indexed'
  BY <1>17 DEF ExactDone, TypeOK, Placed, Guarded, Phases, Indexed, EntryOf, Entry,
     listenVars, indexVars, receiverVars, cancelVars, historyVars
<1>18. ASSUME NEW r \in Receiver, ListDone(r)
      PROVE  Indexed'
  BY <1>18 DEF ListDone, TypeOK, Placed, Guarded, Phases, Indexed, EntryOf, Entry,
     listenVars, indexVars, receiverVars, cancelVars, historyVars
<1>19. ASSUME NEW r \in Receiver, NEW e \in Exec, ClaimSlot(r, e)
      PROVE  Indexed'
  BY <1>19 DEF ClaimSlot, DeleteSlot, TypeOK, Placed, Guarded, Phases, Indexed,
     EntryOf, Entry, listenVars, indexVars, receiverVars, cancelVars, historyVars
<1>20. ASSUME NEW r \in Receiver, ChooseDone(r)
      PROVE  Indexed'
  BY <1>20 DEF ChooseDone, TypeOK, Placed, Guarded, Phases, Indexed, EntryOf, Entry,
     listenVars, indexVars, receiverVars, cancelVars, historyVars
<1>21. ASSUME NEW r \in Receiver, ClaimFails(r)
      PROVE  Indexed'
  BY <1>21, NothingIs DEF ClaimFails, TypeOK, Placed, Guarded, Phases, Indexed,
     EntryOf, Entry, listenVars, indexVars, receiverVars, cancelVars, historyVars
<1>22. ASSUME NEW r \in Receiver, NEW e \in Exec, Dispatch(r, e)
      PROVE  Indexed'
  BY <1>22 DEF Dispatch, TypeOK, Placed, Guarded, Phases, Indexed, EntryOf, Entry,
     listenVars, indexVars, receiverVars, cancelVars, historyVars
<1>23. ASSUME NEW r \in Receiver, NEW e \in Exec, DispatchFails(r, e)
      PROVE  Indexed'
  BY <1>23 DEF DispatchFails, TypeOK, Placed, Guarded, Phases, Indexed, EntryOf,
     Entry, listenVars, indexVars, receiverVars, cancelVars, historyVars
<1>24. ASSUME NEW r \in Receiver, FireDone(r)
      PROVE  Indexed'
  BY <1>24 DEF FireDone, TypeOK, Placed, Guarded, Phases, Indexed, EntryOf, Entry,
     listenVars, indexVars, receiverVars, cancelVars, historyVars
<1>25. CASE UNCHANGED vars
  BY <1>25 DEF vars, TypeOK, Placed, Guarded, Phases, Indexed, EntryOf, Entry,
     listenVars, indexVars, receiverVars, cancelVars, historyVars
<1> QED BY <1>1, <1>2, <1>3, <1>4, <1>5, <1>6, <1>7, <1>8, <1>9, <1>10, <1>11, <1>12,
   <1>13, <1>14, <1>15, <1>16, <1>17, <1>18, <1>19, <1>20, <1>21, <1>22, <1>23, <1>24,
   <1>25 DEF Next, ListenStep, ReceiverStep, CancelStep

\* Every step keeps the whole invariant.
LEMMA Inductive == IInv /\ [Next]_vars => IInv'
BY TypeStep, KnownStep, PlacedStep, PhasesStep, GoneStep, AloneStep, OnceStep, GuardedStep,
   IndexedStep DEF IInv

\* The invariant holds throughout.
LEMMA InvariantHolds == Spec => []IInv
BY Initially, Inductive, PTL DEF Spec

-----------------------------------------------------------------------------

\* Every variable of the slots and of their users keeps its type.
THEOREM TypeCorrect == Spec => []TypeOK
<1>1. IInv => TypeOK
  BY DEF IInv
<1> QED BY <1>1, InvariantHolds, PTL

\* A listen is dispatched at most once unless its slot was read while it was held,
\* by another delivery or by the same one.
THEOREM SingleShot == Spec => []FiresOnce
<1>1. IInv => FiresOnce
  BY DEF IInv, Once, FiresOnce
<1> QED BY <1>1, InvariantHolds, PTL

\* An open slot is in the index of its tuple, unless an SREM of another request or
\* the lapse of the old index before its EXPIRE removed the entry.
THEOREM OpenSlotIndexed == Spec => []SlotIndexed
<1>1. IInv => SlotIndexed
  BY DEF IInv, Indexed, SlotIndexed
<1> QED BY <1>1, InvariantHolds, PTL

\* A listen that nobody holds and whose slot is gone stays so, and is not fired again.
THEOREM SettledStays == Spec => SettledIsOver
<1> DEFINE Over(e) == Settled(e) => Settled(e)' /\ fires'[e] = fires[e]
<1>1. ASSUME TypeOK, Placed, Phases, [Next]_vars, NEW d \in Exec, Settled(d) PROVE Over(d)
  <2>1. ASSUME NEW n \in Node, SlotExpires(n)
        PROVE  Over(d)
    BY <1>1, <2>1 DEF SlotExpires, DeleteSlot, TypeOK, Placed, Phases, Settled, Holds,
       Entry, listenVars, indexVars, receiverVars, cancelVars, historyVars
  <2>2. ASSUME NEW n \in Node, CancelRead(n)
        PROVE  Over(d)
    BY <1>1, <2>2 DEF CancelRead, TypeOK, Placed, Phases, Settled, Holds, Entry,
       listenVars, indexVars, receiverVars, cancelVars, historyVars
  <2>3. ASSUME NEW n \in Node, CancelDelete(n)
        PROVE  Over(d)
    BY <1>1, <2>3 DEF CancelDelete, DeleteSlot, TypeOK, Placed, Phases, Settled, Holds,
       Entry, listenVars, indexVars, receiverVars, cancelVars, historyVars
  <2>4. ASSUME NEW n \in Node, CancelSrem(n)
        PROVE  Over(d)
    BY <1>1, <2>4 DEF CancelSrem, RemoveEntry, TypeOK, Placed, Phases, Settled, Holds,
       Entry, listenVars, indexVars, receiverVars, cancelVars, historyVars
  <2>5. ASSUME NEW t \in Tuple, IndexExpires(t)
        PROVE  Over(d)
    BY <1>1, <2>5 DEF IndexExpires, SlotsOf, TypeOK, Placed, Phases, Settled, Holds,
       Entry, listenVars, indexVars, receiverVars, cancelVars, historyVars
  <2>6. ASSUME NEW e \in Exec, NEW t \in Tuple, Listen(e, t)
        PROVE  Over(d)
    BY <1>1, <2>6 DEF Listen, Listening, TypeOK, Placed, Phases, Settled, Holds, Entry,
       listenVars, indexVars, receiverVars, cancelVars, historyVars
  <2>7. ASSUME NEW e \in Exec, OpenRead(e)
        PROVE  Over(d)
    BY <1>1, <2>7 DEF OpenRead, Listening, TypeOK, Placed, Phases, Settled, Holds,
       Entry, listenVars, indexVars, receiverVars, cancelVars, historyVars
  <2>8. ASSUME NEW e \in Exec, OpenClear(e)
        PROVE  Over(d)
    BY <1>1, <2>8 DEF OpenClear, Listening, RemoveEntry, TypeOK, Placed, Phases,
       Settled, Holds, Entry, listenVars, indexVars, receiverVars, cancelVars,
       historyVars
  <2>9. ASSUME NEW e \in Exec, OpenSet(e)
        PROVE  Over(d)
    BY <1>1, <2>9 DEF OpenSet, Listening, PutSlot, TypeOK, Placed, Phases, Settled,
       Holds, Entry, listenVars, indexVars, receiverVars, cancelVars, historyVars
  <2>10. ASSUME NEW e \in Exec, OpenIndex(e)
        PROVE  Over(d)
    BY <1>1, <2>10 DEF OpenIndex, Listening, TypeOK, Placed, Phases, Settled, Holds,
       Entry, listenVars, indexVars, receiverVars, cancelVars, historyVars
  <2>11. ASSUME NEW e \in Exec, OpenExpire(e)
        PROVE  Over(d)
    BY <1>1, <2>11 DEF OpenExpire, Listening, SlotsOf, TypeOK, Placed, Phases, Settled,
       Holds, Entry, listenVars, indexVars, receiverVars, cancelVars, historyVars
  <2>12. ASSUME NEW r \in Receiver, NEW t \in Tuple, Receive(r, t) \/ ListScan(r, t)
        PROVE  Over(d)
    BY <1>1, <2>12 DEF Receive, ListScan, TypeOK, Placed, Phases, Settled, Holds, Entry,
       listenVars, indexVars, receiverVars, cancelVars, historyVars
  <2>13. ASSUME NEW r \in Receiver, NEW i \in Entry, ExactGet(r, i)
        PROVE  Over(d)
    BY <1>1, <2>13 DEF ExactGet, MarkOverlap, TypeOK, Placed, Phases, Settled, Holds,
       Entry, listenVars, indexVars, receiverVars, cancelVars, historyVars
  <2>14. ASSUME NEW r \in Receiver, NEW i \in Entry, ListGet(r, i)
        PROVE  Over(d)
    <3>1. ListGetEffect(r, i)
      BY <1>1, <2>14, ListGetIs
    <3>2. CASE cands' = cands
      BY <1>1, <3>1, <3>2 DEF ListGetEffect, Settled, Holds
    <3>3. CASE cands' # cands
      <4>1. slot[i[2]] # d /\ Moved(cands, cands', r, slot[i[2]], 1)
        BY <1>1, <3>1, <3>3 DEF ListGetEffect, Placed, Settled
      <4>2. \A q \in Receiver : cands'[q][d] = cands[q][d]
        BY <4>1 DEF Moved
      <4> QED BY <1>1, <3>1, <4>2 DEF ListGetEffect, Settled, Holds
    <3> QED BY <3>2, <3>3
  <2>15. ASSUME NEW r \in Receiver, ExactDelete(r)
        PROVE  Over(d)
    <3>1. ExactDeleteEffect(r)
      BY <1>1, <2>15, ExactDeleteIs
    <3> QED BY <1>1, <3>1 DEF ExactDeleteEffect, Lists, Moved, TypeOK, Placed, Phases,
       Settled, Holds, Entry
  <2>16. ASSUME NEW r \in Receiver, Srem(r)
        PROVE  Over(d)
    BY <1>1, <2>16 DEF Srem, RemoveEntry, TypeOK, Placed, Phases, Settled, Holds, Entry,
       listenVars, indexVars, receiverVars, cancelVars, historyVars
  <2>17. ASSUME NEW r \in Receiver, ExactDone(r)
        PROVE  Over(d)
    BY <1>1, <2>17 DEF ExactDone, TypeOK, Placed, Phases, Settled, Holds, Entry,
       listenVars, indexVars, receiverVars, cancelVars, historyVars
  <2>18. ASSUME NEW r \in Receiver, ListDone(r)
        PROVE  Over(d)
    BY <1>1, <2>18 DEF ListDone, TypeOK, Placed, Phases, Settled, Holds, Entry,
       listenVars, indexVars, receiverVars, cancelVars, historyVars
  <2>19. ASSUME NEW r \in Receiver, NEW e \in Exec, ClaimSlot(r, e)
        PROVE  Over(d)
    <3>1. ClaimSlotEffect(r, e)
      BY <1>1, <2>19, ClaimSlotIs
    <3>2. \A q \in Receiver : Holds(q, d)' => Holds(q, d)
      BY <3>1 DEF ClaimSlotEffect, Moved, Holds
    <3>3. slot'[node[d]] # d
      BY <1>1, <3>1 DEF ClaimSlotEffect, Settled
    <3> QED BY <1>1, <3>1, <3>2, <3>3 DEF ClaimSlotEffect, Settled
  <2>20. ASSUME NEW r \in Receiver, ChooseDone(r)
        PROVE  Over(d)
    BY <1>1, <2>20 DEF ChooseDone, TypeOK, Placed, Phases, Settled, Holds, Entry,
       listenVars, indexVars, receiverVars, cancelVars, historyVars
  <2>21. ASSUME NEW r \in Receiver, ClaimFails(r)
        PROVE  Over(d)
    BY <1>1, <2>21, NothingIs DEF ClaimFails, TypeOK, Placed, Phases, Settled, Holds,
       Entry, listenVars, indexVars, receiverVars, cancelVars, historyVars
  <2>22. ASSUME NEW r \in Receiver, NEW e \in Exec, Dispatch(r, e)
        PROVE  Over(d)
    <3>1. DispatchEffect(r, e)
      BY <1>1, <2>22, DispatchIs
    <3> QED BY <1>1, <3>1 DEF DispatchEffect, Lists, Moved, TypeOK, Placed, Phases,
       Settled, Holds, Entry
  <2>23. ASSUME NEW r \in Receiver, NEW e \in Exec, DispatchFails(r, e)
        PROVE  Over(d)
    <3>1. DispatchFailsEffect(r, e)
      BY <1>1, <2>23, DispatchFailsIs
    <3> QED BY <1>1, <3>1 DEF DispatchFailsEffect, Lists, Moved, TypeOK, Placed, Phases,
       Settled, Holds, Entry
  <2>24. ASSUME NEW r \in Receiver, FireDone(r)
        PROVE  Over(d)
    BY <1>1, <2>24 DEF FireDone, TypeOK, Placed, Phases, Settled, Holds, Entry,
       listenVars, indexVars, receiverVars, cancelVars, historyVars
  <2>25. CASE UNCHANGED vars
    BY <1>1, <2>25 DEF vars, TypeOK, Placed, Phases, Settled, Holds, Entry, listenVars,
       indexVars, receiverVars, cancelVars, historyVars
  <2> QED BY <1>1, <2>1, <2>2, <2>3, <2>4, <2>5, <2>6, <2>7, <2>8, <2>9, <2>10, <2>11,
     <2>12, <2>13, <2>14, <2>15, <2>16, <2>17, <2>18, <2>19, <2>20, <2>21, <2>22, <2>23,
     <2>24, <2>25 DEF Next, ListenStep, ReceiverStep, CancelStep
<1>2. IInv /\ [Next]_vars => [\A e \in Exec : Over(e)]_vars
  BY <1>1 DEF IInv
<1> QED BY <1>2, InvariantHolds, PTL DEF Spec, SettledIsOver
=================================================================================
