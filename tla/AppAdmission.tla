------------------------------ MODULE AppAdmission ------------------------------
(***************************************************************************)
(* The in-flight counter of one public app (features/apps/spend.py): raised*)
(* by send_message (public_router.py) before it dispatches a turn, lowered *)
(* in the finally of the worker task execute_app_message                   *)
(* (apps/worker/app/jobs/tasks.py).  Everything send_message checks before *)
(* it only refuses the message.  The counter is a Redis key; each command  *)
(* is a step.                                                              *)
(***************************************************************************)
EXTENDS Integers, FiniteSets

CONSTANTS
  Msg,         \* messages of visitors
  MaxInflight  \* PUBLIC_APP_MAX_INFLIGHT

ASSUME MsgAssumption == IsFiniteSet(Msg)
ASSUME MaxAssumption == MaxInflight \in Nat

VARIABLES
  count,   \* value of the key app_inflight, 0 when it is absent
  key,     \* the key: "absent", "forever" without expiry, "ticking" with one
  pc,      \* where each message is
  n,       \* what INCR answered
  again,   \* messages the broker delivered a second time
  lapsed   \* history: the counter lost a slot still held, or freed one twice

vars == <<count, key, pc, n, again, lapsed>>

PC == {"none", "counted", "refusing", "admitted", "queued", "running", "releasing",
       "flooring", "floorRefused", "lost", "leaked", "done"}

\* Messages that hold a slot; those of a dead worker come back when the broker
\* delivers them again, leaked ones never do.
Holding == {"counted", "refusing", "admitted", "queued", "running", "releasing", "lost", "leaked"}
Holders == {m \in Msg : pc[m] \in Holding}
Leaked == {m \in Msg : pc[m] = "leaked"}

\* Messages that were let in and may still cost something.
InFlight == {m \in Msg : pc[m] \in {"admitted", "queued", "running"}}

TypeOK ==
  /\ count \in Int
  /\ key \in {"absent", "forever", "ticking"}
  /\ pc \in [Msg -> PC]
  /\ n \in [Msg -> Int]
  /\ again \in SUBSET Msg
  /\ lapsed \in BOOLEAN
  \* What a message is on its way to fits the answer its INCR got.
  /\ \A m \in Msg : /\ pc[m] = "admitted" => n[m] <= MaxInflight
                    /\ pc[m] = "refusing" => n[m] > MaxInflight

Init ==
  /\ count = 0 /\ key = "absent"
  /\ pc = [m \in Msg |-> "none"] /\ n = [m \in Msg |-> 0]
  /\ again = {} /\ lapsed = FALSE

Go(m, from, to) == pc[m] = from /\ pc' = [pc EXCEPT ![m] = to]

Touched == IF key = "absent" THEN "forever" ELSE key

-----------------------------------------------------------------------------
(* send_message.                                                           *)

\* A bug: the answer of INCR is taken for the count before it.
IncrLate(m) ==
  /\ Go(m, "none", "counted")
  /\ count' = count + 1 /\ key' = Touched
  /\ n' = [n EXCEPT ![m] = count]
  /\ UNCHANGED <<again, lapsed>>

\* INCR ...
Incr(m) ==
  /\ Go(m, "none", "counted")
  /\ count' = count + 1 /\ key' = Touched
  /\ n' = [n EXCEPT ![m] = count + 1]
  /\ UNCHANGED <<again, lapsed>>

\* A bug: the comparison lets one more in.
LimitOneMore(m) ==
  /\ Go(m, "counted", IF n[m] > MaxInflight + 1 THEN "refusing" ELSE "admitted")
  /\ key' = IF key = "absent" THEN "absent" ELSE "ticking"
  /\ UNCHANGED <<count, n, again, lapsed>>

\* ... then EXPIRE, and the comparison with the limit.
Limit(m) ==
  /\ Go(m, "counted", IF n[m] > MaxInflight THEN "refusing" ELSE "admitted")
  /\ key' = IF key = "absent" THEN "absent" ELSE "ticking"
  /\ UNCHANGED <<count, n, again, lapsed>>

\* Both message rows are created and the task is enqueued.
Dispatch(m) ==
  /\ Go(m, "admitted", "queued")
  /\ UNCHANGED <<count, key, n, again, lapsed>>

\* Redis, the database or the broker fails after INCR: nobody lowers the counter.
SendFails(m) ==
  /\ Go(m, "counted", "leaked") \/ Go(m, "admitted", "leaked")
  /\ UNCHANGED <<count, key, n, again, lapsed>>

-----------------------------------------------------------------------------
(* execute_app_message.                                                    *)

Start(m) ==
  /\ Go(m, "queued", "running")
  /\ UNCHANGED <<count, key, n, again, lapsed>>

\* Completed, failed or cancelled: the finally is entered.
Finish(m) ==
  /\ Go(m, "running", "releasing")
  /\ UNCHANGED <<count, key, n, again, lapsed>>

\* The worker is killed; no finally runs.
WorkerDies(m) ==
  /\ Go(m, "running", "lost") \/ Go(m, "releasing", "lost")
  /\ UNCHANGED <<count, key, n, again, lapsed>>

\* acks_late: the broker delivers an unacknowledged message again, after a loss or
\* when a run outlives the visibility timeout (here: once that run is over).
Redeliver(m) ==
  /\ m \notin again /\ again' = again \cup {m}
  /\ \/ Go(m, "lost", "queued") /\ UNCHANGED lapsed
     \/ Go(m, "done", "queued") /\ lapsed' = TRUE
  /\ UNCHANGED <<count, key, n>>

-----------------------------------------------------------------------------
(* decr_inflight, of a refused message and of the worker's finally.        *)

\* A bug: the refusal leaves the counter raised.
DecrWorkerOnly(m) ==
  \/ /\ Go(m, "refusing", "none")
     /\ UNCHANGED <<count, key, n, again, lapsed>>
  \/ /\ Go(m, "releasing", IF count - 1 < 0 THEN "flooring" ELSE "done")
     /\ count' = count - 1 /\ key' = Touched
     /\ UNCHANGED <<n, again, lapsed>>

Decr(m) ==
  /\ \/ Go(m, "refusing", IF count - 1 < 0 THEN "floorRefused" ELSE "none")
     \/ Go(m, "releasing", IF count - 1 < 0 THEN "flooring" ELSE "done")
  /\ count' = count - 1 /\ key' = Touched
  /\ UNCHANGED <<n, again, lapsed>>

\* A bug: the floor is one too high.
FloorAtOne(m) ==
  /\ Go(m, "flooring", "done") \/ Go(m, "floorRefused", "none")
  /\ count' = 1 /\ key' = "forever"
  /\ UNCHANGED <<n, again, lapsed>>

\* SET to 0, which drops the expiry.
Floor(m) ==
  /\ Go(m, "flooring", "done") \/ Go(m, "floorRefused", "none")
  /\ count' = 0 /\ key' = "forever"
  /\ UNCHANGED <<n, again, lapsed>>

\* An error of Redis is logged and forgotten.
DecrFails(m) ==
  /\ \/ Go(m, "refusing", "leaked") \/ Go(m, "releasing", "leaked")
     \/ Go(m, "flooring", "done") \/ Go(m, "floorRefused", "none")
  /\ UNCHANGED <<count, key, n, again, lapsed>>

\* Thirty minutes after the last EXPIRE.  Leaked slots are free again; one that is
\* still held is no longer counted.
Expire ==
  /\ key = "ticking" /\ key' = "absent"
  /\ count' = 0
  /\ pc' = [m \in Msg |-> IF m \in Leaked THEN "none" ELSE pc[m]]
  /\ lapsed' = (lapsed \/ Holders # Leaked)
  /\ UNCHANGED <<n, again>>

Next ==
  \/ \E m \in Msg :
       \/ Incr(m) \/ Limit(m) \/ Dispatch(m) \/ SendFails(m)
       \/ Start(m) \/ Finish(m) \/ WorkerDies(m) \/ Redeliver(m)
       \/ Decr(m) \/ Floor(m) \/ DecrFails(m)
  \/ Expire

Spec == Init /\ [][Next]_vars

-----------------------------------------------------------------------------
(* Properties.                                                             *)

\* Every path from a raised counter lowers it exactly once: until the key expires
\* under a held slot or a finished task is delivered again, the counter is the
\* number of slots held.
ExactCount == ~lapsed => count = Cardinality(Holders)

\* Whatever expires, floors or comes twice, the counter never counts a slot that
\* nobody holds ("can't drive it negative and starve the app").
NoOvercount == count <= Cardinality(Holders)

\* The concurrency cap: as long as the counter is exact, no more messages than
\* MaxInflight are let in at a time.
CapKept == ~lapsed => Cardinality(InFlight) <= MaxInflight

\* Turns from their admission until their slot is given back or leaks, those whose
\* worker died included.
UnderWay == {m \in Msg : pc[m] \in {"admitted", "queued", "running", "releasing", "lost"}}

Semaphore == INSTANCE TurnSemaphore
               WITH Turn <- Msg, Cap <- MaxInflight, inUse <- UnderWay, broken <- lapsed

\* INCR, EXPIRE, DECR and SET, sent by two processes that may fail between any two
\* of them, make a counting semaphore for as long as the counter is exact: a turn
\* enters only below the cap, also one that the broker returns from a dead worker.
ImplementsSemaphore == Semaphore!Spec
=============================================================================
