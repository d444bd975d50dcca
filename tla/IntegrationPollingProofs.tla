------------------------ MODULE IntegrationPollingProofs ------------------------
(***************************************************************************)
(* Proofs about IntegrationPolling for any number of overlapping beat runs,*)
(* Listen requests and events and any cap: type correctness, that no event *)
(* is skipped but by a poller that moves past its cap, and that an active  *)
(* trigger keeps its row.                                                  *)
(***************************************************************************)
EXTENDS IntegrationPolling, TLAPS

USE NoneAssumption, RoleAssumption, EventsAssumption

\* Every event up to cursor c is handled, or was passed over.
Covered(c) == \A v \in Event : v <= c => v \in handled \cup passed

\* NothingSkipped is not inductive: the cursor that is stored was computed from a
\* copy of an older one, so every copy must be covered, and the cursor a beat run
\* brings from its poll up to the matches it has still to dispatch.
CursorsCovered ==
  /\ row # NoRow => Covered(row)
  /\ \A k \in Tick : Covered(tcur[k])
  /\ \A k \in Tick : \A v \in Event : v <= tnew[k] => v \in handled \cup passed \cup ttodo[k]
  /\ \A l \in Listen : lcur[l] # NoRow => Covered(lcur[l])
  /\ ncur # NoRow => Covered(ncur)

\* A poller that defers passes nothing over.
DeferringKeeps == defers => passed = {}

IInv == TypeOK /\ CursorsCovered /\ DeferringKeeps

\* The parts of TypeOK: the row and what is shared, the beat runs, the Listen
\* requests, the manual run.
SharedType ==
  /\ produced \in Cursor /\ wf \in WF /\ defers \in BOOLEAN
  /\ row \in Cursor \cup {NoRow} /\ due \in BOOLEAN
  /\ orphan \in SUBSET (Tick \cup Listen \cup {run})
  /\ handled \in SUBSET Event /\ passed \in SUBSET Event
TickType ==
  /\ tpc \in [Tick -> TPC]
  /\ tcur \in [Tick -> Cursor] /\ tnew \in [Tick -> Cursor]
  /\ ttodo \in [Tick -> SUBSET Event]
ListenType ==
  /\ slot \in Listen \cup {NoListen}
  /\ lpc \in [Listen -> LPC]
  /\ lcur \in [Listen -> Cursor \cup {NoRow}] /\ lnew \in [Listen -> Cursor]
RunType ==
  /\ npc \in {"idle", "read", "polled"}
  /\ ncur \in Cursor \cup {NoRow} /\ nnew \in Cursor

LEMMA TypeParts == TypeOK <=> SharedType /\ TickType /\ ListenType /\ RunType
  BY DEF TypeOK, SharedType, TickType, ListenType, RunType

\* The invariant holds at the start: no event is there and no cursor.
LEMMA Initially == Init => IInv
<1> SUFFICES ASSUME Init PROVE IInv
  OBVIOUS
<1>1. 0 \in Cursor
  BY DEF Cursor
<1>2. SharedType /\ RunType
  BY <1>1 DEF Init, SharedType, RunType, WF
<1>3. TickType
  BY <1>1 DEF Init, TickType, TPC
<1>4. ListenType
  BY <1>1 DEF Init, ListenType, LPC
<1>5. CursorsCovered /\ DeferringKeeps
  BY DEF Init, CursorsCovered, Covered, Event, DeferringKeeps
<1> QED BY <1>2, <1>3, <1>4, <1>5, TypeParts DEF IInv

\* What the helpers return.
LEMMA Ranges ==
  /\ 0 \in Cursor
  /\ \A c, d : Behind(c, d) \in SUBSET Event
  /\ \A c, d : Matches(c, d) \in SUBSET Event
  /\ Holder \in SUBSET (Tick \cup Listen \cup {run})
  BY DEF Cursor, Behind, Matches, Holder

\* The cursor a poller returns is one, and a poller that defers emits all events up
\* to it.
LEMMA NewCursorIs ==
  ASSUME NEW c \in Cursor \cup {NoRow}, NEW d \in Cursor
  PROVE  /\ NewCursor(c, d) \in Cursor
         /\ defers /\ c # NoRow => Behind(c, NewCursor(c, d)) \subseteq Matches(c, d)
<1>1. CASE c # NoRow /\ defers /\ c + MaxPerPoll < d
  BY <1>1 DEF NewCursor, Cursor, Behind, Matches, Event
<1>2. CASE ~(c # NoRow /\ defers /\ c + MaxPerPoll < d)
  BY <1>2 DEF NewCursor, Cursor, Behind, Matches, Event
<1> QED BY <1>1, <1>2

\* Types are kept.
LEMMA TypeStep ==
  ASSUME TypeOK, [Next]_vars
  PROVE  TypeOK'
<1>0. SharedType /\ TickType /\ ListenType /\ RunType
  BY TypeParts
<1> SUFFICES SharedType' /\ TickType' /\ ListenType' /\ RunType'
  BY DEF TypeOK, SharedType, TickType, ListenType, RunType
<1> USE <1>0, Ranges DEF world, state, tickVars, listenVars, runVars
<1>1. CASE ProviderEvent
  <2>1. SharedType'
    BY <1>1 DEF ProviderEvent, SharedType, WF, Cursor
  <2>2. TickType'
    BY <1>1 DEF ProviderEvent, TickType, TPC, Cursor
  <2>3. ListenType'
    BY <1>1 DEF ProviderEvent, ListenType, LPC, Cursor
  <2>4. RunType'
    BY <1>1 DEF ProviderEvent, RunType, Cursor
  <2> QED BY <2>1, <2>2, <2>3, <2>4
<1>2. CASE BecomeDue
  <2>1. SharedType'
    BY <1>2 DEF BecomeDue, SharedType, WF
  <2>2. TickType'
    BY <1>2 DEF BecomeDue, TickType, TPC
  <2>3. ListenType'
    BY <1>2 DEF BecomeDue, ListenType, LPC
  <2>4. RunType'
    BY <1>2 DEF BecomeDue, RunType
  <2> QED BY <2>1, <2>2, <2>3, <2>4
<1>3. CASE Save
  <2>1. SharedType'
    BY <1>3 DEF Save, SharedType, WF
  <2>2. TickType'
    BY <1>3 DEF Save, TickType, TPC, WF
  <2>3. ListenType'
    BY <1>3 DEF Save, ListenType, LPC, WF
  <2>4. RunType'
    BY <1>3 DEF Save, RunType, WF
  <2> QED BY <2>1, <2>2, <2>3, <2>4
<1>4. CASE DeleteWorkflow
  <2>1. SharedType'
    BY <1>4 DEF DeleteWorkflow, DeleteRow, SharedType, WF
  <2>2. TickType'
    BY <1>4 DEF DeleteWorkflow, DeleteRow, TickType, TPC, WF
  <2>3. ListenType'
    BY <1>4 DEF DeleteWorkflow, DeleteRow, ListenType, LPC, WF
  <2>4. RunType'
    BY <1>4 DEF DeleteWorkflow, DeleteRow, RunType, WF
  <2> QED BY <2>1, <2>2, <2>3, <2>4
<1>5. CASE SlotCloses
  <2>1. SharedType'
    BY <1>5 DEF SlotCloses, SharedType, WF
  <2>2. TickType'
    BY <1>5 DEF SlotCloses, TickType, TPC
  <2>3. ListenType'
    BY <1>5 DEF SlotCloses, ListenType, LPC
  <2>4. RunType'
    BY <1>5 DEF SlotCloses, RunType
  <2> QED BY <2>1, <2>2, <2>3, <2>4
<1>6. ASSUME NEW k \in Tick, TickRead(k)
      PROVE  SharedType' /\ TickType' /\ ListenType' /\ RunType'
  <2>1. SharedType'
    BY <1>6 DEF TickRead, At, SharedType, WF
  <2>2. TickType'
    BY <1>6 DEF TickRead, At, TickType, TPC, SharedType
  <2>3. ListenType'
    BY <1>6 DEF TickRead, At, ListenType, LPC, SharedType
  <2>4. RunType'
    BY <1>6 DEF TickRead, At, RunType, SharedType
  <2> QED BY <2>1, <2>2, <2>3, <2>4
<1>7. ASSUME NEW k \in Tick, TickCheck(k)
      PROVE  SharedType' /\ TickType' /\ ListenType' /\ RunType'
  <2>1. SharedType'
    BY <1>7 DEF TickCheck, At, SharedType, WF
  <2>2. TickType'
    BY <1>7 DEF TickCheck, At, TickType, TPC
  <2>3. ListenType'
    BY <1>7 DEF TickCheck, At, ListenType, LPC
  <2>4. RunType'
    BY <1>7 DEF TickCheck, At, RunType
  <2> QED BY <2>1, <2>2, <2>3, <2>4
<1>8. ASSUME NEW k \in Tick, TickLoad(k)
      PROVE  SharedType' /\ TickType' /\ ListenType' /\ RunType'
  <2>1. SharedType'
    BY <1>8 DEF TickLoad, At, SharedType, WF
  <2>2. TickType'
    BY <1>8 DEF TickLoad, At, TickType, TPC
  <2>3. ListenType'
    BY <1>8 DEF TickLoad, At, ListenType, LPC
  <2>4. RunType'
    BY <1>8 DEF TickLoad, At, RunType
  <2> QED BY <2>1, <2>2, <2>3, <2>4
<1>9. ASSUME NEW k \in Tick, TickLookupFails(k)
      PROVE  SharedType' /\ TickType' /\ ListenType' /\ RunType'
  <2>1. SharedType'
    BY <1>9 DEF TickLookupFails, Leave, SharedType, WF
  <2>2. TickType'
    BY <1>9 DEF TickLookupFails, Leave, TickType, TPC
  <2>3. ListenType'
    BY <1>9 DEF TickLookupFails, Leave, ListenType, LPC
  <2>4. RunType'
    BY <1>9 DEF TickLookupFails, Leave, RunType
  <2> QED BY <2>1, <2>2, <2>3, <2>4
<1>10. ASSUME NEW k \in Tick, TickSkip(k)
      PROVE  SharedType' /\ TickType' /\ ListenType' /\ RunType'
  <2>1. SharedType'
    BY <1>10 DEF TickSkip, Leave, PutOff, SharedType, WF
  <2>2. TickType'
    BY <1>10 DEF TickSkip, Leave, PutOff, TickType, TPC
  <2>3. ListenType'
    BY <1>10 DEF TickSkip, Leave, PutOff, ListenType, LPC
  <2>4. RunType'
    BY <1>10 DEF TickSkip, Leave, PutOff, RunType
  <2> QED BY <2>1, <2>2, <2>3, <2>4
<1>11. ASSUME NEW k \in Tick, TickPollFails(k)
      PROVE  SharedType' /\ TickType' /\ ListenType' /\ RunType'
  <2>1. SharedType'
    BY <1>11 DEF TickPollFails, Leave, PutOff, SharedType, WF
  <2>2. TickType'
    BY <1>11 DEF TickPollFails, Leave, PutOff, TickType, TPC
  <2>3. ListenType'
    BY <1>11 DEF TickPollFails, Leave, PutOff, ListenType, LPC
  <2>4. RunType'
    BY <1>11 DEF TickPollFails, Leave, PutOff, RunType
  <2> QED BY <2>1, <2>2, <2>3, <2>4
<1>12. ASSUME NEW k \in Tick, TickDies(k)
      PROVE  SharedType' /\ TickType' /\ ListenType' /\ RunType'
  <2>1. SharedType'
    BY <1>12 DEF TickDies, Leave, SharedType, WF
  <2>2. TickType'
    BY <1>12 DEF TickDies, Leave, TickType, TPC
  <2>3. ListenType'
    BY <1>12 DEF TickDies, Leave, ListenType, LPC
  <2>4. RunType'
    BY <1>12 DEF TickDies, Leave, RunType
  <2> QED BY <2>1, <2>2, <2>3, <2>4
<1>13. ASSUME NEW k \in Tick, TickDelete(k)
      PROVE  SharedType' /\ TickType' /\ ListenType' /\ RunType'
  <2>1. SharedType'
    BY <1>13 DEF TickDelete, Leave, DeleteRow, SharedType, WF
  <2>2. TickType'
    BY <1>13 DEF TickDelete, Leave, DeleteRow, TickType, TPC
  <2>3. ListenType'
    BY <1>13 DEF TickDelete, Leave, DeleteRow, ListenType, LPC
  <2>4. RunType'
    BY <1>13 DEF TickDelete, Leave, DeleteRow, RunType
  <2> QED BY <2>1, <2>2, <2>3, <2>4
<1>14. ASSUME NEW k \in Tick, TickPoll(k)
      PROVE  SharedType' /\ TickType' /\ ListenType' /\ RunType'
  <2>0. NewCursor(tcur[k], produced) \in Cursor
    BY NewCursorIs DEF SharedType, TickType
  <2>1. SharedType'
    BY <1>14, <2>0 DEF TickPoll, At, SharedType, WF
  <2>2. TickType'
    BY <1>14, <2>0 DEF TickPoll, At, TickType, TPC, SharedType
  <2>3. ListenType'
    BY <1>14, <2>0 DEF TickPoll, At, ListenType, LPC, SharedType
  <2>4. RunType'
    BY <1>14, <2>0 DEF TickPoll, At, RunType, SharedType
  <2> QED BY <2>1, <2>2, <2>3, <2>4
<1>15. ASSUME NEW k \in Tick, TickDispatch(k)
      PROVE  SharedType' /\ TickType' /\ ListenType' /\ RunType'
  <2>1. SharedType'
    BY <1>15 DEF TickDispatch, SharedType, WF, TickType, Event
  <2>2. TickType'
    BY <1>15 DEF TickDispatch, TickType, TPC, SharedType, Event
  <2>3. ListenType'
    BY <1>15 DEF TickDispatch, ListenType, LPC, SharedType, TickType, Event
  <2>4. RunType'
    BY <1>15 DEF TickDispatch, RunType, SharedType, TickType, Event
  <2> QED BY <2>1, <2>2, <2>3, <2>4
<1>16. ASSUME NEW k \in Tick, TickPersist(k)
      PROVE  SharedType' /\ TickType' /\ ListenType' /\ RunType'
  <2>1. SharedType'
    BY <1>16 DEF TickPersist, Leave, PutOff, SharedType, WF, TickType
  <2>2. TickType'
    BY <1>16 DEF TickPersist, Leave, PutOff, TickType, TPC
  <2>3. ListenType'
    BY <1>16 DEF TickPersist, Leave, PutOff, ListenType, LPC, TickType
  <2>4. RunType'
    BY <1>16 DEF TickPersist, Leave, PutOff, RunType, TickType
  <2> QED BY <2>1, <2>2, <2>3, <2>4
<1>17. ASSUME NEW l \in Listen, ListenSnapshot(l)
      PROVE  SharedType' /\ TickType' /\ ListenType' /\ RunType'
  <2>1. SharedType'
    BY <1>17 DEF ListenSnapshot, Go, SharedType, WF
  <2>2. TickType'
    BY <1>17 DEF ListenSnapshot, Go, TickType, TPC, SharedType
  <2>3. ListenType'
    BY <1>17 DEF ListenSnapshot, Go, ListenType, LPC, SharedType
  <2>4. RunType'
    BY <1>17 DEF ListenSnapshot, Go, RunType, SharedType
  <2> QED BY <2>1, <2>2, <2>3, <2>4
<1>18. ASSUME NEW l \in Listen, ListenCommit(l)
      PROVE  SharedType' /\ TickType' /\ ListenType' /\ RunType'
  <2>1. SharedType'
    BY <1>18 DEF ListenCommit, Go, Forget, SharedType, WF, ListenType
  <2>2. TickType'
    BY <1>18 DEF ListenCommit, Go, Forget, TickType, TPC, ListenType
  <2>3. ListenType'
    BY <1>18 DEF ListenCommit, Go, Forget, ListenType, LPC
  <2>4. RunType'
    BY <1>18 DEF ListenCommit, Go, Forget, RunType, ListenType
  <2> QED BY <2>1, <2>2, <2>3, <2>4
<1>19. ASSUME NEW l \in Listen, ListenFails(l)
      PROVE  SharedType' /\ TickType' /\ ListenType' /\ RunType'
  <2>1. SharedType'
    BY <1>19 DEF ListenFails, Go, Forget, SharedType, WF
  <2>2. TickType'
    BY <1>19 DEF ListenFails, Go, Forget, TickType, TPC
  <2>3. ListenType'
    BY <1>19 DEF ListenFails, Go, Forget, ListenType, LPC
  <2>4. RunType'
    BY <1>19 DEF ListenFails, Go, Forget, RunType
  <2> QED BY <2>1, <2>2, <2>3, <2>4
<1>20. ASSUME NEW l \in Listen, ListenOpen(l)
      PROVE  SharedType' /\ TickType' /\ ListenType' /\ RunType'
  <2>1. SharedType'
    BY <1>20 DEF ListenOpen, Go, SharedType, WF
  <2>2. TickType'
    BY <1>20 DEF ListenOpen, Go, TickType, TPC
  <2>3. ListenType'
    BY <1>20 DEF ListenOpen, Go, ListenType, LPC
  <2>4. RunType'
    BY <1>20 DEF ListenOpen, Go, RunType
  <2> QED BY <2>1, <2>2, <2>3, <2>4
<1>21. ASSUME NEW l \in Listen, LoopRead(l)
      PROVE  SharedType' /\ TickType' /\ ListenType' /\ RunType'
  <2>1. SharedType'
    BY <1>21 DEF LoopRead, Go, SharedType, WF
  <2>2. TickType'
    BY <1>21 DEF LoopRead, Go, TickType, TPC, SharedType
  <2>3. ListenType'
    BY <1>21 DEF LoopRead, Go, ListenType, LPC, SharedType
  <2>4. RunType'
    BY <1>21 DEF LoopRead, Go, RunType, SharedType
  <2> QED BY <2>1, <2>2, <2>3, <2>4
<1>22. ASSUME NEW l \in Listen, LoopPoll(l)
      PROVE  SharedType' /\ TickType' /\ ListenType' /\ RunType'
  <2>0. NewCursor(lcur[l], produced) \in Cursor
    BY NewCursorIs DEF SharedType, ListenType
  <2>1. SharedType'
    BY <1>22, <2>0 DEF LoopPoll, Go, SharedType, WF
  <2>2. TickType'
    BY <1>22, <2>0 DEF LoopPoll, Go, TickType, TPC, SharedType
  <2>3. ListenType'
    BY <1>22, <2>0 DEF LoopPoll, Go, ListenType, LPC, SharedType
  <2>4. RunType'
    BY <1>22, <2>0 DEF LoopPoll, Go, RunType, SharedType
  <2> QED BY <2>1, <2>2, <2>3, <2>4
<1>23. ASSUME NEW l \in Listen, LoopPollFails(l)
      PROVE  SharedType' /\ TickType' /\ ListenType' /\ RunType'
  <2>1. SharedType'
    BY <1>23 DEF LoopPollFails, Go, Forget, SharedType, WF
  <2>2. TickType'
    BY <1>23 DEF LoopPollFails, Go, Forget, TickType, TPC
  <2>3. ListenType'
    BY <1>23 DEF LoopPollFails, Go, Forget, ListenType, LPC
  <2>4. RunType'
    BY <1>23 DEF LoopPollFails, Go, Forget, RunType
  <2> QED BY <2>1, <2>2, <2>3, <2>4
<1>24. ASSUME NEW l \in Listen, LoopCommit(l)
      PROVE  SharedType' /\ TickType' /\ ListenType' /\ RunType'
  <2>1. SharedType'
    BY <1>24 DEF LoopCommit, Upsert, Go, Forget, SharedType, WF, ListenType
  <2>2. TickType'
    BY <1>24 DEF LoopCommit, Upsert, Go, Forget, TickType, TPC, ListenType
  <2>3. ListenType'
    BY <1>24 DEF LoopCommit, Upsert, Go, Forget, ListenType, LPC
  <2>4. RunType'
    BY <1>24 DEF LoopCommit, Upsert, Go, Forget, RunType, ListenType
  <2> QED BY <2>1, <2>2, <2>3, <2>4
<1>25. ASSUME NEW l \in Listen, LoopFire(l)
      PROVE  SharedType' /\ TickType' /\ ListenType' /\ RunType'
  <2>1. SharedType'
    BY <1>25 DEF LoopFire, Go, SharedType, WF
  <2>2. TickType'
    BY <1>25 DEF LoopFire, Go, TickType, TPC
  <2>3. ListenType'
    BY <1>25 DEF LoopFire, Go, ListenType, LPC
  <2>4. RunType'
    BY <1>25 DEF LoopFire, Go, RunType
  <2> QED BY <2>1, <2>2, <2>3, <2>4
<1>26. ASSUME NEW l \in Listen, LoopEnds(l)
      PROVE  SharedType' /\ TickType' /\ ListenType' /\ RunType'
  <2>1. SharedType'
    BY <1>26 DEF LoopEnds, Go, SharedType, WF
  <2>2. TickType'
    BY <1>26 DEF LoopEnds, Go, TickType, TPC
  <2>3. ListenType'
    BY <1>26 DEF LoopEnds, Go, ListenType, LPC
  <2>4. RunType'
    BY <1>26 DEF LoopEnds, Go, RunType
  <2> QED BY <2>1, <2>2, <2>3, <2>4
<1>27. ASSUME NEW l \in Listen, CleanupRead(l)
      PROVE  SharedType' /\ TickType' /\ ListenType' /\ RunType'
  <2>1. SharedType'
    BY <1>27 DEF CleanupRead, Go, SharedType, WF
  <2>2. TickType'
    BY <1>27 DEF CleanupRead, Go, TickType, TPC
  <2>3. ListenType'
    BY <1>27 DEF CleanupRead, Go, ListenType, LPC
  <2>4. RunType'
    BY <1>27 DEF CleanupRead, Go, RunType
  <2> QED BY <2>1, <2>2, <2>3, <2>4
<1>28. ASSUME NEW l \in Listen, CleanupDelete(l)
      PROVE  SharedType' /\ TickType' /\ ListenType' /\ RunType'
  <2>1. SharedType'
    BY <1>28 DEF CleanupDelete, DeleteRow, Go, SharedType, WF
  <2>2. TickType'
    BY <1>28 DEF CleanupDelete, DeleteRow, Go, TickType, TPC
  <2>3. ListenType'
    BY <1>28 DEF CleanupDelete, DeleteRow, Go, ListenType, LPC
  <2>4. RunType'
    BY <1>28 DEF CleanupDelete, DeleteRow, Go, RunType
  <2> QED BY <2>1, <2>2, <2>3, <2>4
<1>29. CASE RunRead
  <2>1. SharedType'
    BY <1>29 DEF RunRead, SharedType, WF
  <2>2. TickType'
    BY <1>29 DEF RunRead, TickType, TPC, SharedType
  <2>3. ListenType'
    BY <1>29 DEF RunRead, ListenType, LPC, SharedType
  <2>4. RunType'
    BY <1>29 DEF RunRead, RunType, SharedType
  <2> QED BY <2>1, <2>2, <2>3, <2>4
<1>30. CASE RunPoll
  <2>0. NewCursor(ncur, produced) \in Cursor
    BY NewCursorIs DEF SharedType, RunType
  <2>1. SharedType'
    BY <1>30, <2>0 DEF RunPoll, SharedType, WF
  <2>2. TickType'
    BY <1>30, <2>0 DEF RunPoll, TickType, TPC, SharedType
  <2>3. ListenType'
    BY <1>30, <2>0 DEF RunPoll, ListenType, LPC, SharedType
  <2>4. RunType'
    BY <1>30, <2>0 DEF RunPoll, RunType, SharedType
  <2> QED BY <2>1, <2>2, <2>3, <2>4
<1>31. CASE RunCommit
  <2>1. SharedType'
    BY <1>31 DEF RunCommit, Upsert, SharedType, WF, RunType
  <2>2. TickType'
    BY <1>31 DEF RunCommit, Upsert, TickType, TPC, RunType
  <2>3. ListenType'
    BY <1>31 DEF RunCommit, Upsert, ListenType, LPC, RunType
  <2>4. RunType'
    BY <1>31 DEF RunCommit, Upsert, RunType
  <2> QED BY <2>1, <2>2, <2>3, <2>4
<1>32. CASE RunFails
  <2>1. SharedType'
    BY <1>32 DEF RunFails, SharedType, WF
  <2>2. TickType'
    BY <1>32 DEF RunFails, TickType, TPC
  <2>3. ListenType'
    BY <1>32 DEF RunFails, ListenType, LPC
  <2>4. RunType'
    BY <1>32 DEF RunFails, RunType
  <2> QED BY <2>1, <2>2, <2>3, <2>4
<1>33. CASE UNCHANGED vars
  <2>1. SharedType'
    BY <1>33 DEF vars, SharedType, WF
  <2>2. TickType'
    BY <1>33 DEF vars, TickType, TPC
  <2>3. ListenType'
    BY <1>33 DEF vars, ListenType, LPC
  <2>4. RunType'
    BY <1>33 DEF vars, RunType
  <2> QED BY <2>1, <2>2, <2>3, <2>4
<1> QED BY <1>1, <1>2, <1>3, <1>4, <1>5, <1>6, <1>7, <1>8, <1>9, <1>10, <1>11, <1>12,
    <1>13, <1>14, <1>15, <1>16, <1>17, <1>18, <1>19, <1>20, <1>21, <1>22, <1>23, <1>24,
    <1>25, <1>26, <1>27, <1>28, <1>29, <1>30, <1>31, <1>32, <1>33 DEF Next, TickStep,
    ListenStep

\* Every cursor stays covered.
LEMMA CoveredStep ==
  ASSUME TypeOK, CursorsCovered, [Next]_vars
  PROVE  CursorsCovered'
<1> USE DEF TypeOK, CursorsCovered, Covered, Event, Cursor, world, state, tickVars, listenVars, runVars
<1>1. CASE ProviderEvent \/ BecomeDue \/ Save \/ SlotCloses
  BY <1>1 DEF ProviderEvent, BecomeDue, Save, SlotCloses
<1>2. CASE DeleteWorkflow
  BY <1>2 DEF DeleteWorkflow, DeleteRow, Holder
<1>3. ASSUME NEW k \in Tick, TickRead(k) \/ TickCheck(k) \/ TickLoad(k)
      PROVE  CursorsCovered'
  BY <1>3 DEF TickRead, TickCheck, TickLoad, At
<1>4. ASSUME NEW k \in Tick, TickSkip(k) \/ TickPollFails(k) \/ TickLookupFails(k) \/ TickDies(k)
      PROVE  CursorsCovered'
  BY <1>4 DEF TickSkip, TickPollFails, TickLookupFails, TickDies, Leave, PutOff
<1>5. ASSUME NEW k \in Tick, TickDelete(k)
      PROVE  CursorsCovered'
  BY <1>5 DEF TickDelete, Leave, DeleteRow, Holder
<1>6. ASSUME NEW k \in Tick, TickPoll(k)
      PROVE  CursorsCovered'
  <2>1. /\ tnew' = [tnew EXCEPT ![k] = tnew'[k]]
        /\ ttodo' = [ttodo EXCEPT ![k] = ttodo'[k]]
        /\ passed' = passed \cup (Behind(tcur[k], tnew'[k]) \ ttodo'[k])
        /\ UNCHANGED <<row, tcur, lcur, ncur, handled>>
    BY <1>6 DEF TickPoll
  <2>2. \A v \in Event : v <= tnew'[k] => v \in handled \cup passed' \cup ttodo'[k]
    BY <2>1 DEF Behind
  <2> QED BY <2>1, <2>2
<1>7. ASSUME NEW k \in Tick, TickDispatch(k)
      PROVE  CursorsCovered'
  BY <1>7 DEF TickDispatch
<1>8. ASSUME NEW k \in Tick, TickPersist(k)
      PROVE  CursorsCovered'
  BY <1>8 DEF TickPersist, Leave, PutOff
<1>9. ASSUME NEW l \in Listen, ListenSnapshot(l) \/ ListenOpen(l)
      PROVE  CursorsCovered'
  BY <1>9 DEF ListenSnapshot, ListenOpen, Go
<1>10. ASSUME NEW l \in Listen, ListenCommit(l)
      PROVE  CursorsCovered'
  BY <1>10 DEF ListenCommit, Go, Forget, Behind
<1>11. ASSUME NEW l \in Listen, ListenFails(l) \/ LoopPollFails(l)
      PROVE  CursorsCovered'
  BY <1>11 DEF ListenFails, LoopPollFails, Go, Forget
<1>12. ASSUME NEW l \in Listen, LoopRead(l)
      PROVE  CursorsCovered'
  BY <1>12 DEF LoopRead, Go
<1>13. ASSUME NEW l \in Listen, LoopPoll(l)
      PROVE  CursorsCovered'
  BY <1>13 DEF LoopPoll, Go
<1>14. ASSUME NEW l \in Listen, LoopCommit(l)
      PROVE  CursorsCovered'
  BY <1>14 DEF LoopCommit, Upsert, Go, Forget, Behind
<1>15. ASSUME NEW l \in Listen, LoopFire(l) \/ LoopEnds(l) \/ CleanupRead(l)
      PROVE  CursorsCovered'
  BY <1>15 DEF LoopFire, LoopEnds, CleanupRead, Go
<1>16. ASSUME NEW l \in Listen, CleanupDelete(l)
      PROVE  CursorsCovered'
  BY <1>16 DEF CleanupDelete, DeleteRow, Holder, Go
<1>17. CASE RunRead \/ RunPoll
  BY <1>17 DEF RunRead, RunPoll
<1>18. CASE RunFails
  BY <1>18 DEF RunFails
<1>19. CASE RunCommit
  BY <1>19 DEF RunCommit, Upsert, Behind
<1>20. CASE UNCHANGED vars
  BY <1>20 DEF vars
<1> QED BY <1>1, <1>2, <1>3, <1>4, <1>5, <1>6, <1>7, <1>8, <1>9, <1>10, <1>11, <1>12,
    <1>13, <1>14, <1>15, <1>16, <1>17, <1>18, <1>19, <1>20 DEF Next, TickStep, ListenStep

\* Only a poll passes events over, and not one that defers.
LEMMA DeferringStep ==
  ASSUME TypeOK, DeferringKeeps, [Next]_vars
  PROVE  DeferringKeeps'
<1> USE DEF DeferringKeeps, world
<1>1. CASE ProviderEvent \/ BecomeDue \/ Save \/ SlotCloses
  BY <1>1 DEF ProviderEvent, BecomeDue, Save, SlotCloses
<1>2. CASE DeleteWorkflow
  BY <1>2 DEF DeleteWorkflow, DeleteRow, Holder
<1>3. ASSUME NEW k \in Tick, TickRead(k) \/ TickCheck(k) \/ TickLoad(k)
      PROVE  DeferringKeeps'
  BY <1>3 DEF TickRead, TickCheck, TickLoad, At
<1>4. ASSUME NEW k \in Tick, TickSkip(k) \/ TickPollFails(k) \/ TickLookupFails(k) \/ TickDies(k)
      PROVE  DeferringKeeps'
  BY <1>4 DEF TickSkip, TickPollFails, TickLookupFails, TickDies, Leave, PutOff
<1>5. ASSUME NEW k \in Tick, TickDelete(k)
      PROVE  DeferringKeeps'
  BY <1>5 DEF TickDelete, Leave, DeleteRow, Holder
<1>6. ASSUME NEW k \in Tick, TickPoll(k)
      PROVE  DeferringKeeps'
  <2>1. produced \in Cursor /\ tcur[k] \in Cursor /\ tcur[k] # NoRow
    BY DEF TypeOK, Cursor
  <2>2. /\ defers' = defers
        /\ passed' = passed \cup (Behind(tcur[k], NewCursor(tcur[k], produced))
                                    \ Matches(tcur[k], produced))
    BY <1>6 DEF TickPoll, TypeOK
  <2>3. defers => Behind(tcur[k], NewCursor(tcur[k], produced)) \subseteq Matches(tcur[k], produced)
    BY <2>1, NewCursorIs
  <2> QED BY <2>2, <2>3
<1>7. ASSUME NEW k \in Tick, TickDispatch(k)
      PROVE  DeferringKeeps'
  BY <1>7 DEF TickDispatch
<1>8. ASSUME NEW k \in Tick, TickPersist(k)
      PROVE  DeferringKeeps'
  BY <1>8 DEF TickPersist, Leave, PutOff
<1>9. ASSUME NEW l \in Listen, ListenSnapshot(l) \/ ListenOpen(l)
      PROVE  DeferringKeeps'
  BY <1>9 DEF ListenSnapshot, ListenOpen, Go
<1>10. ASSUME NEW l \in Listen, ListenCommit(l)
      PROVE  DeferringKeeps'
  BY <1>10 DEF ListenCommit, Go, Forget, Behind
<1>11. ASSUME NEW l \in Listen, ListenFails(l) \/ LoopPollFails(l)
      PROVE  DeferringKeeps'
  BY <1>11 DEF ListenFails, LoopPollFails, Go, Forget
<1>12. ASSUME NEW l \in Listen, LoopRead(l)
      PROVE  DeferringKeeps'
  BY <1>12 DEF LoopRead, Go
<1>13. ASSUME NEW l \in Listen, LoopPoll(l)
      PROVE  DeferringKeeps'
  BY <1>13 DEF LoopPoll, Go
<1>14. ASSUME NEW l \in Listen, LoopCommit(l)
      PROVE  DeferringKeeps'
  BY <1>14 DEF LoopCommit, Upsert, Go, Forget, Behind
<1>15. ASSUME NEW l \in Listen, LoopFire(l) \/ LoopEnds(l) \/ CleanupRead(l)
      PROVE  DeferringKeeps'
  BY <1>15 DEF LoopFire, LoopEnds, CleanupRead, Go
<1>16. ASSUME NEW l \in Listen, CleanupDelete(l)
      PROVE  DeferringKeeps'
  BY <1>16 DEF CleanupDelete, DeleteRow, Holder, Go
<1>17. CASE RunRead \/ RunPoll
  BY <1>17 DEF RunRead, RunPoll
<1>18. CASE RunFails
  BY <1>18 DEF RunFails
<1>19. CASE RunCommit
  BY <1>19 DEF RunCommit, Upsert, Behind
<1>20. CASE UNCHANGED vars
  BY <1>20 DEF vars
<1> QED BY <1>1, <1>2, <1>3, <1>4, <1>5, <1>6, <1>7, <1>8, <1>9, <1>10, <1>11, <1>12,
    <1>13, <1>14, <1>15, <1>16, <1>17, <1>18, <1>19, <1>20 DEF Next, TickStep, ListenStep

\* The invariant holds throughout.
LEMMA InvariantHolds == Spec => []IInv
<1>1. IInv /\ [Next]_vars => IInv'
  BY TypeStep, CoveredStep, DeferringStep DEF IInv
<1> QED BY Initially, <1>1, PTL DEF Spec

\* Every variable of the cursor and its users keeps its type.
THEOREM TypeCorrect == Spec => []TypeOK
<1>1. IInv => TypeOK
  BY DEF IInv
<1> QED BY <1>1, InvariantHolds, PTL

\* No event lies behind the stored cursor without having been handled, however many
\* beat runs, poll loops and manual runs overlap, unless a poller that does not defer
\* moved past it because it was over its cap.
THEOREM NeverSkips == Spec => []NothingSkipped
<1>1. IInv => NothingSkipped
  BY DEF IInv, CursorsCovered, Covered, DeferringKeeps, NothingSkipped
<1> QED BY <1>1, InvariantHolds, PTL

\* An active trigger loses its row only with its workflow, or to a deletion that was
\* decided while the workflow was paused or without the node.
THEOREM RowIsKept == Spec => ActiveKeepsRow
<1> DEFINE Kept == wf = "active" =>
             /\ Deciding' \subseteq Deciding
             /\ row # NoRow /\ Deciding = {} /\ wf' # "deleted" => row' # NoRow
<1>1. ASSUME TypeOK, [Next]_vars PROVE Kept
  <2> USE <1>1 DEF TypeOK, Cursor, Deciding, world, state, tickVars, listenVars, runVars
  <2>1. CASE ProviderEvent \/ BecomeDue \/ Save \/ SlotCloses
    BY <2>1 DEF ProviderEvent, BecomeDue, Save, SlotCloses
  <2>2. CASE DeleteWorkflow
    BY <2>2 DEF DeleteWorkflow, DeleteRow, Holder
  <2>3. ASSUME NEW k \in Tick, TickRead(k) \/ TickCheck(k) \/ TickLoad(k)
        PROVE  Kept
    BY <2>3 DEF TickRead, TickCheck, TickLoad, At
  <2>4. ASSUME NEW k \in Tick, TickSkip(k) \/ TickPollFails(k) \/ TickLookupFails(k) \/ TickDies(k)
        PROVE  Kept
    BY <2>4 DEF TickSkip, TickPollFails, TickLookupFails, TickDies, Leave, PutOff
  <2>5. ASSUME NEW k \in Tick, TickDelete(k)
        PROVE  Kept
    BY <2>5 DEF TickDelete, Leave, DeleteRow, Holder
  <2>6. ASSUME NEW k \in Tick, TickPoll(k)
        PROVE  Kept
    BY <2>6 DEF TickPoll, At
  <2>7. ASSUME NEW k \in Tick, TickDispatch(k)
        PROVE  Kept
    BY <2>7 DEF TickDispatch
  <2>8. ASSUME NEW k \in Tick, TickPersist(k)
        PROVE  Kept
    BY <2>8 DEF TickPersist, Leave, PutOff
  <2>9. ASSUME NEW l \in Listen, ListenSnapshot(l) \/ ListenOpen(l)
        PROVE  Kept
    BY <2>9 DEF ListenSnapshot, ListenOpen, Go
  <2>10. ASSUME NEW l \in Listen, ListenCommit(l)
        PROVE  Kept
    BY <2>10 DEF ListenCommit, Go, Forget, Behind
  <2>11. ASSUME NEW l \in Listen, ListenFails(l) \/ LoopPollFails(l)
        PROVE  Kept
    BY <2>11 DEF ListenFails, LoopPollFails, Go, Forget
  <2>12. ASSUME NEW l \in Listen, LoopRead(l)
        PROVE  Kept
    BY <2>12 DEF LoopRead, Go
  <2>13. ASSUME NEW l \in Listen, LoopPoll(l)
        PROVE  Kept
    BY <2>13 DEF LoopPoll, Go
  <2>14. ASSUME NEW l \in Listen, LoopCommit(l)
        PROVE  Kept
    BY <2>14 DEF LoopCommit, Upsert, Go, Forget, Behind
  <2>15. ASSUME NEW l \in Listen, LoopFire(l) \/ LoopEnds(l) \/ CleanupRead(l)
        PROVE  Kept
    BY <2>15 DEF LoopFire, LoopEnds, CleanupRead, Go
  <2>16. ASSUME NEW l \in Listen, CleanupDelete(l)
        PROVE  Kept
    BY <2>16 DEF CleanupDelete, DeleteRow, Holder, Go
  <2>17. CASE RunRead \/ RunPoll
    BY <2>17 DEF RunRead, RunPoll
  <2>18. CASE RunFails
    BY <2>18 DEF RunFails
  <2>19. CASE RunCommit
    BY <2>19 DEF RunCommit, Upsert, Behind
  <2>20. CASE UNCHANGED vars
    BY <2>20 DEF vars
  <2> QED BY <2>1, <2>2, <2>3, <2>4, <2>5, <2>6, <2>7, <2>8, <2>9, <2>10, <2>11, <2>12,
      <2>13, <2>14, <2>15, <2>16, <2>17, <2>18, <2>19, <2>20 DEF Next, TickStep,
      ListenStep
<1>2. IInv /\ [Next]_vars => [Kept]_vars
  BY <1>1 DEF IInv
<1> QED BY <1>2, InvariantHolds, PTL DEF Spec, ActiveKeepsRow
=================================================================================
