--------------------------- MODULE AppAdmissionProofs ---------------------------
(***************************************************************************)
(* Proofs about AppAdmission for any finite set of messages and any limit: *)
(* type correctness, that the counter never counts a slot nobody holds,    *)
(* that it is exact until it lapses, and the concurrency cap.              *)
(***************************************************************************)
EXTENDS AppAdmission, FiniteSetTheorems, TLAPS

USE MsgAssumption, MaxAssumption

\* Holders whose INCR stayed within the limit: the ones that are or may be let in.
Granted == {m \in Holders : n[m] <= MaxInflight}

\* A message past the limit was granted, and nobody floors an exact counter.
WhileExact ==
  ~lapsed => /\ \A m \in Msg :
                  /\ pc[m] \in {"admitted", "queued", "running", "releasing", "lost"}
                       => n[m] <= MaxInflight
                  /\ pc[m] \notin {"flooring", "floorRefused"}
             /\ Cardinality(Granted) <= MaxInflight

\* CapKept is not inductive: a message is granted by the answer of its INCR, and
\* what bounds the granted ones is that this answer was the number of holders.
IInv == TypeOK /\ NoOvercount /\ ExactCount /\ WhileExact

\* Holders and granted messages are finite sets.
LEMMA HoldersFinite ==
  /\ IsFiniteSet(Holders) /\ Cardinality(Holders) \in Nat
  /\ IsFiniteSet(Granted) /\ Cardinality(Granted) \in Nat
  /\ Cardinality(Granted) <= Cardinality(Holders)
<1>1. Holders \subseteq Msg /\ Granted \subseteq Holders
  BY DEF Holders, Granted
<1>2. IsFiniteSet(Holders)
  BY <1>1, FS_Subset
<1>3. IsFiniteSet(Granted) /\ Cardinality(Granted) <= Cardinality(Holders)
  BY <1>1, <1>2, FS_Subset
<1> QED BY <1>2, <1>3, FS_CardinalityType

\* A step that moves a message among the places that hold a slot.
LEMMA KeepHolding ==
  ASSUME IInv, NEW m \in Msg, NEW from \in Holding, NEW to \in Holding, Go(m, from, to),
         to \in {"admitted", "queued", "running", "releasing", "lost"} /\ ~lapsed
           => n[m] <= MaxInflight,
         to = "admitted" => n[m] <= MaxInflight, to = "refusing" => n[m] > MaxInflight,
         UNCHANGED <<count, n, lapsed>>, key' \in {"absent", "forever", "ticking"},
         again' \in SUBSET Msg
  PROVE  IInv'
<1>1. pc[m] = from /\ pc' = [pc EXCEPT ![m] = to]
  BY DEF Go
<1>2. TypeOK'
  BY <1>1 DEF IInv, TypeOK, PC, Holding
<1>3. Holders' = Holders /\ Granted' = Granted
  BY <1>1 DEF Holders, Granted, IInv, TypeOK
<1>4. NoOvercount' /\ ExactCount'
  BY <1>3 DEF IInv, NoOvercount, ExactCount
<1>5. WhileExact'
  BY <1>1, <1>3 DEF IInv, WhileExact, Holding, TypeOK
<1> QED BY <1>2, <1>4, <1>5 DEF IInv

\* A step that takes a message without a slot to a place without one.
LEMMA KeepFree ==
  ASSUME IInv, NEW m \in Msg, NEW to \in {"none", "done"}, pc[m] \notin Holding,
         pc' = [pc EXCEPT ![m] = to],
         UNCHANGED <<count, n, again, lapsed>>, key' \in {"absent", "forever", "ticking"}
  PROVE  IInv'
<1>1. TypeOK'
  BY DEF IInv, TypeOK, PC
<1>2. Holders' = Holders /\ Granted' = Granted
  BY DEF Holders, Granted, IInv, TypeOK, Holding
<1>3. NoOvercount' /\ ExactCount'
  BY <1>2 DEF IInv, NoOvercount, ExactCount
<1>4. WhileExact'
  BY <1>2 DEF IInv, WhileExact, TypeOK
<1> QED BY <1>1, <1>3, <1>4 DEF IInv

\* INCR counts its own message, and answers with the number of holders while exact.
LEMMA IncrStep ==
  ASSUME IInv, NEW m \in Msg, Incr(m)
  PROVE  IInv'
<1>1. /\ pc[m] = "none" /\ pc' = [pc EXCEPT ![m] = "counted"]
      /\ count' = count + 1 /\ n' = [n EXCEPT ![m] = count + 1] /\ lapsed' = lapsed
  BY DEF Incr, Go
<1>2. TypeOK'
  BY DEF IInv, TypeOK, PC, Incr, Go, Touched
<1>3. Holders' = Holders \cup {m} /\ m \notin Holders
  BY <1>1 DEF Holders, Holding, IInv, TypeOK
<1>4. Cardinality(Holders') = Cardinality(Holders) + 1 /\ Cardinality(Holders) \in Nat
  BY <1>3, FS_AddElement, HoldersFinite
<1>5. NoOvercount' /\ ExactCount'
  BY <1>1, <1>4 DEF IInv, NoOvercount, ExactCount, TypeOK
<1>6. ASSUME ~lapsed PROVE Cardinality(Granted') <= MaxInflight
  <2>1. count = Cardinality(Holders)
    BY <1>6 DEF IInv, ExactCount
  <2>2. CASE count + 1 <= MaxInflight
    <3>1. Granted' \subseteq Holders' /\ IsFiniteSet(Holders')
      BY <1>3, FS_AddElement, HoldersFinite DEF Granted
    <3>2. Cardinality(Granted') <= Cardinality(Holders')
      BY <3>1, FS_Subset
    <3>3. Cardinality(Granted') \in Nat
      BY <3>1, FS_Subset, FS_CardinalityType
    <3> QED BY <2>1, <2>2, <3>2, <3>3, <1>4
  <2>3. CASE ~(count + 1 <= MaxInflight)
    <3>1. Granted' = Granted
      BY <1>1, <1>3, <2>3 DEF Granted, IInv, TypeOK, Holders
    <3> QED BY <3>1, <1>6 DEF IInv, WhileExact
  <2> QED BY <2>2, <2>3
<1>7. WhileExact'
  BY <1>1, <1>6 DEF IInv, WhileExact, TypeOK
<1> QED BY <1>2, <1>5, <1>7 DEF IInv

\* DECR frees the slot of its own message; while exact it needs no floor.
LEMMA DecrStep ==
  ASSUME IInv, NEW m \in Msg, Decr(m)
  PROVE  IInv'
<1> DEFINE to == pc'[m]
<1>1. /\ pc[m] \in {"refusing", "releasing"} /\ pc' = [pc EXCEPT ![m] = to]
      /\ to \in {"none", "done", "flooring", "floorRefused"}
      /\ count - 1 >= 0 => to \in {"none", "done"}
      /\ count' = count - 1 /\ n' = n /\ lapsed' = lapsed
  BY DEF Decr, Go, IInv, TypeOK
<1>2. TypeOK'
  BY <1>1 DEF IInv, TypeOK, PC, Decr, Go, Touched
<1>3. Holders' = Holders \ {m} /\ m \in Holders
  BY <1>1 DEF Holders, Holding, IInv, TypeOK
<1>4. Cardinality(Holders') = Cardinality(Holders) - 1 /\ Cardinality(Holders) \in Nat
  BY <1>3, FS_RemoveElement, HoldersFinite
<1>5. Cardinality(Holders) >= 1
  BY <1>3, <1>4, FS_EmptySet, HoldersFinite
<1>6. NoOvercount' /\ ExactCount'
  BY <1>1, <1>4 DEF IInv, NoOvercount, ExactCount, TypeOK
<1>7. Granted' = Granted \ {m}
  BY <1>1, <1>3 DEF Granted
<1>8. Cardinality(Granted') <= Cardinality(Granted) /\ Cardinality(Granted') \in Nat
  BY <1>7, FS_Subset, FS_CardinalityType, HoldersFinite
<1>9. ASSUME ~lapsed PROVE to \in {"none", "done"}
  BY <1>1, <1>5, <1>9 DEF IInv, ExactCount, TypeOK
<1>10. ASSUME ~lapsed PROVE Cardinality(Granted') <= MaxInflight
  BY <1>8, <1>10, HoldersFinite DEF IInv, WhileExact
<1>11. WhileExact'
  BY <1>1, <1>9, <1>10 DEF IInv, WhileExact, TypeOK
<1> QED BY <1>2, <1>6, <1>11 DEF IInv

\* The floor is reached only after a lapse.
LEMMA FloorStep ==
  ASSUME IInv, NEW m \in Msg, Floor(m)
  PROVE  IInv'
<1>1. /\ pc[m] \in {"flooring", "floorRefused"}
      /\ pc' = [pc EXCEPT ![m] = "done"] \/ pc' = [pc EXCEPT ![m] = "none"]
      /\ count' = 0 /\ lapsed' = lapsed
  BY DEF Floor, Go
<1>2. lapsed
  BY <1>1 DEF IInv, WhileExact
<1>3. TypeOK'
  BY <1>1 DEF IInv, TypeOK, PC, Floor
<1>4. Holders' = Holders
  BY <1>1 DEF Holders, Holding, IInv, TypeOK
<1>5. NoOvercount'
  BY <1>1, <1>4, HoldersFinite DEF NoOvercount
<1> QED BY <1>1, <1>2, <1>3, <1>5 DEF IInv, ExactCount, WhileExact

\* A task that is over is delivered again: it holds a slot the counter has freed.
LEMMA AgainStep ==
  ASSUME IInv, NEW m \in Msg, Go(m, "done", "queued"), lapsed',
         again' \in SUBSET Msg, UNCHANGED <<count, key, n>>
  PROVE  IInv'
<1>1. pc[m] = "done" /\ pc' = [pc EXCEPT ![m] = "queued"]
  BY DEF Go
<1>2. TypeOK'
  BY <1>1 DEF IInv, TypeOK, PC
<1>3. Holders' = Holders \cup {m} /\ m \notin Holders
  BY <1>1 DEF Holders, Holding, IInv, TypeOK
<1>4. Cardinality(Holders') = Cardinality(Holders) + 1 /\ Cardinality(Holders) \in Nat
  BY <1>3, FS_AddElement, HoldersFinite
<1>5. NoOvercount'
  BY <1>4 DEF IInv, NoOvercount, TypeOK
<1> QED BY <1>2, <1>5 DEF IInv, ExactCount, WhileExact

\* When the key expires, nothing is held or the counter has lapsed.
LEMMA ExpireStep ==
  ASSUME IInv, Expire
  PROVE  IInv'
<1>1. /\ count' = 0 /\ n' = n
      /\ pc' = [m \in Msg |-> IF m \in Leaked THEN "none" ELSE pc[m]]
      /\ lapsed' = (lapsed \/ Holders # Leaked)
  BY DEF Expire
<1>2. TypeOK'
  BY <1>1 DEF IInv, TypeOK, PC, Expire
<1>3. Holders' = Holders \ Leaked
  BY <1>1 DEF Holders, Leaked, Holding, IInv, TypeOK
<1>4. Holders' \subseteq Holders /\ IsFiniteSet(Holders')
  BY <1>3, FS_Subset, HoldersFinite
<1>5. NoOvercount'
  BY <1>1, <1>4, FS_CardinalityType DEF NoOvercount
<1>6. ASSUME ~lapsed' PROVE Holders' = {} /\ Granted' = {} /\ ~lapsed
  <2>1. Holders' = {} /\ ~lapsed
    BY <1>1, <1>3, <1>6
  <2> QED BY <2>1 DEF Granted
<1>7. ExactCount'
  BY <1>1, <1>6, FS_EmptySet DEF ExactCount
<1>8. WhileExact'
  BY <1>1, <1>6, FS_EmptySet DEF IInv, WhileExact, TypeOK
<1> QED BY <1>2, <1>5, <1>7, <1>8 DEF IInv

\* Nobody holds a slot at the start.
LEMMA Initially == Init => IInv
<1> SUFFICES ASSUME Init PROVE IInv
  OBVIOUS
<1>1. Holders = {} /\ Granted = {}
  BY DEF Init, Holders, Granted, Holding
<1>2. Cardinality(Holders) = 0 /\ Cardinality(Granted) = 0
  BY <1>1, FS_EmptySet
<1>3. TypeOK
  <2>1. pc \in [Msg -> PC] /\ n \in [Msg -> Int]
    BY DEF Init, PC
  <2>2. count \in Int /\ key \in {"absent", "forever", "ticking"}
    BY DEF Init
  <2>3. again \in SUBSET Msg /\ lapsed \in BOOLEAN
    BY DEF Init
  <2>4. \A m \in Msg : pc[m] \notin {"admitted", "refusing"}
    BY DEF Init
  <2> QED BY <2>1, <2>2, <2>3, <2>4 DEF TypeOK
<1>4. NoOvercount /\ ExactCount
  BY <1>2 DEF Init, NoOvercount, ExactCount
<1>5. WhileExact
  BY <1>2 DEF Init, WhileExact
<1> QED BY <1>3, <1>4, <1>5 DEF IInv

\* Every step keeps the whole invariant.
LEMMA Inductive == IInv /\ [Next]_vars => IInv'
<1> SUFFICES ASSUME IInv, [Next]_vars PROVE IInv'
  OBVIOUS
<1> USE DEF Holding
<1>0. TypeOK /\ WhileExact
  BY DEF IInv
<1>1. ASSUME NEW m \in Msg, Incr(m) PROVE IInv'
  BY <1>1, IncrStep
<1>2. ASSUME NEW m \in Msg, Limit(m) PROVE IInv'
  <2>1. CASE n[m] > MaxInflight
    BY <1>0, <1>2, <2>1, KeepHolding DEF Limit, TypeOK
  <2>2. CASE ~(n[m] > MaxInflight)
    <3>1. n[m] <= MaxInflight
      BY <1>0, <2>2 DEF TypeOK
    <3> QED BY <1>0, <1>2, <2>2, <3>1, KeepHolding DEF Limit, TypeOK
  <2> QED BY <2>1, <2>2
<1>3. ASSUME NEW m \in Msg, Dispatch(m) PROVE IInv'
  BY <1>0, <1>3, KeepHolding DEF Dispatch, Go, TypeOK, WhileExact
<1>4. ASSUME NEW m \in Msg, SendFails(m) PROVE IInv'
  BY <1>0, <1>4, KeepHolding DEF SendFails, TypeOK
<1>5. ASSUME NEW m \in Msg, Start(m) PROVE IInv'
  BY <1>0, <1>5, KeepHolding DEF Start, Go, TypeOK, WhileExact
<1>6. ASSUME NEW m \in Msg, Finish(m) PROVE IInv'
  BY <1>0, <1>6, KeepHolding DEF Finish, Go, TypeOK, WhileExact
<1>7. ASSUME NEW m \in Msg, WorkerDies(m) PROVE IInv'
  BY <1>0, <1>7, KeepHolding DEF WorkerDies, Go, TypeOK, WhileExact
<1>8. ASSUME NEW m \in Msg, Redeliver(m) PROVE IInv'
  <2>1. again' \in SUBSET Msg
    BY <1>0, <1>8 DEF Redeliver, TypeOK
  <2>2. CASE Go(m, "lost", "queued") /\ UNCHANGED lapsed
    BY <1>0, <1>8, <2>1, <2>2, KeepHolding DEF Redeliver, Go, TypeOK, WhileExact
  <2>3. CASE Go(m, "done", "queued") /\ lapsed' = TRUE
    BY <1>8, <2>1, <2>3, AgainStep DEF Redeliver
  <2> QED BY <1>8, <2>2, <2>3 DEF Redeliver
<1>9. ASSUME NEW m \in Msg, Decr(m) PROVE IInv'
  BY <1>9, DecrStep
<1>10. ASSUME NEW m \in Msg, Floor(m) PROVE IInv'
  BY <1>10, FloorStep
<1>11. ASSUME NEW m \in Msg, DecrFails(m) PROVE IInv'
  <2>1. CASE Go(m, "refusing", "leaked") \/ Go(m, "releasing", "leaked")
    BY <1>0, <1>11, <2>1, KeepHolding DEF DecrFails, TypeOK
  <2>2. CASE Go(m, "flooring", "done") \/ Go(m, "floorRefused", "none")
    BY <1>0, <1>11, <2>2, KeepFree DEF DecrFails, Go, TypeOK
  <2> QED BY <1>11, <2>1, <2>2 DEF DecrFails
<1>12. CASE Expire
  BY <1>12, ExpireStep
<1>13. CASE UNCHANGED vars
  BY <1>13 DEF vars, IInv, TypeOK, NoOvercount, ExactCount, WhileExact, Holders, Granted
<1> QED BY <1>1, <1>2, <1>3, <1>4, <1>5, <1>6, <1>7, <1>8, <1>9, <1>10, <1>11, <1>12, <1>13
        DEF Next

\* The invariant holds throughout.
LEMMA InvariantHolds == Spec => []IInv
<1> QED BY Initially, Inductive, PTL DEF Spec

\* Every variable of the counter and its messages keeps its type.
THEOREM TypeCorrect == Spec => []TypeOK
<1>1. IInv => TypeOK
  BY DEF IInv
<1> QED BY <1>1, InvariantHolds, PTL

\* The counter never exceeds the slots that are held, so that no app is starved by
\* a slot that was returned.
THEOREM NeverOvercounts == Spec => []NoOvercount
<1>1. IInv => NoOvercount
  BY DEF IInv
<1> QED BY <1>1, InvariantHolds, PTL

\* Until it lapses the counter is the number of slots held.
THEOREM CounterExact == Spec => []ExactCount
<1>1. IInv => ExactCount
  BY DEF IInv
<1> QED BY <1>1, InvariantHolds, PTL

\* Until it lapses no more than MaxInflight messages are let in at a time.
THEOREM CapIsKept == Spec => []CapKept
<1>1. IInv => CapKept
  <2> SUFFICES ASSUME IInv, ~lapsed PROVE Cardinality(InFlight) <= MaxInflight
    BY DEF CapKept
  <2>1. InFlight \subseteq Granted
    BY DEF IInv, WhileExact, InFlight, Granted, Holders, Holding
  <2>2. Cardinality(InFlight) <= Cardinality(Granted) /\ Cardinality(InFlight) \in Nat
    BY <2>1, HoldersFinite, FS_Subset, FS_CardinalityType
  <2> QED BY <2>2, HoldersFinite DEF IInv, WhileExact
<1> QED BY <1>1, InvariantHolds, PTL
\* Turns under way hold a slot that was granted.
LEMMA UnderWayGranted ==
  ASSUME IInv
  PROVE  /\ IsFiniteSet(UnderWay) /\ Cardinality(UnderWay) \in Nat
         /\ ~lapsed => UnderWay \subseteq Granted
<1>1. UnderWay \subseteq Holders
  BY DEF UnderWay, Holders, Holding
<1>2. IsFiniteSet(UnderWay)
  BY <1>1, FS_Subset, HoldersFinite
<1> QED BY <1>1, <1>2, FS_CardinalityType DEF IInv, WhileExact, UnderWay, Granted

\* A message that INCR let through finds fewer than MaxInflight turns under way:
\* it is granted itself and not yet one of them.
LEMMA AdmissionEnters ==
  ASSUME IInv, ~lapsed, NEW m \in Msg, pc[m] = "counted", n[m] <= MaxInflight
  PROVE  Cardinality(UnderWay) < MaxInflight
<1>1. UnderWay \subseteq Granted \ {m} /\ m \in Granted
  BY UnderWayGranted DEF UnderWay, Granted, Holders, Holding
<1>2. /\ IsFiniteSet(Granted \ {m}) /\ Cardinality(Granted \ {m}) = Cardinality(Granted) - 1
      /\ Cardinality(Granted) \in Nat
  BY <1>1, HoldersFinite, FS_RemoveElement
<1>3. Cardinality(UnderWay) <= Cardinality(Granted \ {m})
  BY <1>1, <1>2, FS_Subset
<1>4. Cardinality(Granted) <= MaxInflight
  BY DEF IInv, WhileExact
<1> QED BY <1>2, <1>3, <1>4, UnderWayGranted

\* A step that moves one message: the semaphore stutters, is entered or is left.
LEMMA OneMoves ==
  ASSUME IInv, NEW m \in Msg, NEW to, pc' = [pc EXCEPT ![m] = to], UNCHANGED lapsed,
         \/ m \in UnderWay
         \/ to \notin {"admitted", "queued", "running", "releasing", "lost"}
         \/ lapsed
         \/ Cardinality(UnderWay) < MaxInflight
  PROVE  [Semaphore!Next]_Semaphore!vars
<1> USE DEF IInv, TypeOK
<1>1. UnderWay' = UnderWay \/ UnderWay' = UnderWay \cup {m} \/ UnderWay' = UnderWay \ {m}
  BY DEF UnderWay
<1>2. CASE UnderWay' = UnderWay
  BY <1>2 DEF Semaphore!vars
<1>3. CASE UnderWay' = UnderWay \ {m}
  BY <1>3 DEF Semaphore!Next, Semaphore!Exit
<1>4. CASE UnderWay' = UnderWay \cup {m} /\ m \notin UnderWay
  <2>1. to \in {"admitted", "queued", "running", "releasing", "lost"}
    BY <1>4 DEF UnderWay
  <2>2. CASE lapsed
    <3>1. UnderWay' \in SUBSET Msg
      BY DEF UnderWay
    <3> QED BY <2>2, <3>1 DEF Semaphore!Next, Semaphore!Break
  <2>3. CASE ~lapsed /\ Cardinality(UnderWay) < MaxInflight
    <3>1. Semaphore!Enter(m)
      BY <1>4, <2>3 DEF Semaphore!Enter, Semaphore!Cardinality, Cardinality
    <3> QED BY <3>1 DEF Semaphore!Next
  <2> QED BY <1>4, <2>1, <2>2, <2>3
<1> QED BY <1>1, <1>2, <1>3, <1>4

\* Every step of the counter is a step of the semaphore or none.
LEMMA SemaphoreStep ==
  ASSUME IInv, [Next]_vars
  PROVE  [Semaphore!Next]_Semaphore!vars
<1> USE DEF Go
<1>1. ASSUME NEW m \in Msg, Incr(m) PROVE [Semaphore!Next]_Semaphore!vars
  BY <1>1, OneMoves DEF Incr
<1>2. ASSUME NEW m \in Msg, Limit(m) PROVE [Semaphore!Next]_Semaphore!vars
  <2>1. CASE n[m] > MaxInflight
    BY <1>2, <2>1, OneMoves DEF Limit
  <2>2. CASE ~(n[m] > MaxInflight)
    <3>1. n[m] <= MaxInflight /\ pc[m] = "counted"
      BY <1>2, <2>2 DEF IInv, TypeOK, Limit
    <3>2. lapsed \/ Cardinality(UnderWay) < MaxInflight
      BY <3>1, AdmissionEnters
    <3> QED BY <1>2, <2>2, <3>2, OneMoves DEF Limit
  <2> QED BY <2>1, <2>2
<1>3. ASSUME NEW m \in Msg, Dispatch(m) \/ Start(m) \/ Finish(m) \/ WorkerDies(m)
      PROVE  [Semaphore!Next]_Semaphore!vars
  <2>1. m \in UnderWay
    BY <1>3 DEF Dispatch, Start, Finish, WorkerDies, UnderWay
  <2> QED BY <1>3, <2>1, OneMoves DEF Dispatch, Start, Finish, WorkerDies
<1>4. ASSUME NEW m \in Msg, SendFails(m) \/ Decr(m) \/ Floor(m) \/ DecrFails(m)
      PROVE  [Semaphore!Next]_Semaphore!vars
  <2>1. CASE SendFails(m)
    BY <2>1, OneMoves DEF SendFails
  <2>2. CASE Decr(m)
    BY <2>2, OneMoves DEF Decr
  <2>3. CASE Floor(m)
    BY <2>3, OneMoves DEF Floor
  <2>4. CASE DecrFails(m)
    BY <2>4, OneMoves DEF DecrFails
  <2> QED BY <1>4, <2>1, <2>2, <2>3, <2>4
<1>5. ASSUME NEW m \in Msg, Redeliver(m) PROVE [Semaphore!Next]_Semaphore!vars
  <2>1. CASE Go(m, "lost", "queued") /\ UNCHANGED lapsed
    <3>1. m \in UnderWay
      BY <2>1 DEF UnderWay
    <3> QED BY <2>1, <3>1, OneMoves
  <2>2. CASE lapsed' = TRUE
    <3>1. UnderWay' \in SUBSET Msg
      BY DEF UnderWay
    <3> QED BY <2>2, <3>1 DEF Semaphore!Next, Semaphore!Break
  <2> QED BY <1>5, <2>1, <2>2 DEF Redeliver
<1>6. CASE Expire
  <2>1. UnderWay' = UnderWay
    BY <1>6 DEF Expire, UnderWay, Leaked, IInv, TypeOK
  <2>2. lapsed' = lapsed \/ lapsed' = TRUE
    BY <1>6 DEF Expire, IInv, TypeOK
  <2>3. UnderWay' \in SUBSET Msg
    BY DEF UnderWay
  <2> QED BY <2>1, <2>2, <2>3 DEF Semaphore!Next, Semaphore!Break, Semaphore!vars
<1>7. CASE UNCHANGED vars
  BY <1>7 DEF vars, UnderWay, Semaphore!vars
<1> QED BY <1>1, <1>2, <1>3, <1>4, <1>5, <1>6, <1>7 DEF Next

\* The counter with its two processes, its failures and its expiry implements the
\* semaphore: turns enter below the cap only, until the counter lapses.
THEOREM Refines == Spec => ImplementsSemaphore
<1>1. Init => Semaphore!Init
  BY DEF Init, Semaphore!Init, UnderWay
<1>2. IInv /\ [Next]_vars => [Semaphore!Next]_Semaphore!vars
  BY SemaphoreStep
<1> QED BY <1>1, <1>2, InvariantHolds, PTL DEF Spec, ImplementsSemaphore, Semaphore!Spec
=============================================================================
