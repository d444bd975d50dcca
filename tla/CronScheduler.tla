----------------------------- MODULE CronScheduler -----------------------------
(***************************************************************************)
(* check_cron_triggers (execution_engine/scheduler/cron.py) for one node   *)
(* whose expression is due every Period minutes.  Celery beat enqueues a   *)
(* check every minute; the last-run key in Redis lives KeyMinutes.         *)
(***************************************************************************)
EXTENDS Integers

CONSTANTS
  Check,      \* runs of check_cron_triggers that may overlap
  Period,     \* minutes between two due times of the expression
  KeyMinutes, \* ex=120
  MaxNow      \* bound: minutes the model looks at

VARIABLES
  now,    \* minutes since the first due time
  ttl,    \* minutes the last-run key has to live, 0 when it is absent
  queue,  \* a check that beat has enqueued for this minute is not started yet
  pc,     \* where each check is with the node
  at,     \* the `now` each check took at its start
  fires   \* history: how often each due time was fired

vars == <<now, ttl, queue, pc, at, fires>>

Minute == 0..MaxNow
Window == {w \in Minute : w % Period = 0}

\* croniter(cron_expr, now).get_prev
LastExpected(t) == t - (t % Period)

Init ==
  /\ now = 0 /\ ttl = 0 /\ queue = TRUE
  /\ pc = [c \in Check |-> "idle"] /\ at = [c \in Check |-> 0]
  /\ fires = [w \in Window |-> 0]

\* A minute passes and beat enqueues the next check.
Minutes ==
  /\ now < MaxNow
  /\ now' = now + 1 /\ queue' = TRUE
  /\ ttl' = IF ttl = 0 THEN 0 ELSE ttl - 1
  /\ UNCHANGED <<pc, at, fires>>

At(c, from, to) == pc[c] = from /\ pc' = [pc EXCEPT ![c] = to]

Start(c) ==
  /\ queue /\ queue' = FALSE
  /\ At(c, "idle", "get")
  /\ at' = [at EXCEPT ![c] = now]
  /\ UNCHANGED <<now, ttl, fires>>

\* The client decodes responses, so `.decode()` on the key's value raises: the
\* error is logged and the node passed over, whatever the drift policy.
GetPresent(c) ==
  /\ ttl > 0
  /\ At(c, "get", "idle")
  /\ UNCHANGED <<now, ttl, queue, at, fires>>

\* No last run is known: every drift policy fires the last due time once.
GetAbsent(c) ==
  /\ ttl = 0
  /\ At(c, "get", "fire")
  /\ UNCHANGED <<now, ttl, queue, at, fires>>

Fire(c) ==
  /\ At(c, "fire", "mark")
  /\ fires' = [fires EXCEPT ![LastExpected(at[c])] = @ + 1]
  /\ UNCHANGED <<now, ttl, queue, at>>

\* trigger_workflow raises: the key is not set.
FireFails(c) ==
  /\ At(c, "fire", "idle")
  /\ UNCHANGED <<now, ttl, queue, at, fires>>

Mark(c) ==
  /\ At(c, "mark", "idle")
  /\ ttl' = KeyMinutes
  /\ UNCHANGED <<now, queue, at, fires>>

Next ==
  \/ Minutes
  \/ \E c \in Check :
       Start(c) \/ GetPresent(c) \/ GetAbsent(c) \/ Fire(c) \/ FireFails(c) \/ Mark(c)

Spec == Init /\ [][Next]_vars

\* "Already fired for this window", "fire ONCE for the current tick": no due time
\* of a cron trigger is fired twice.
OncePerWindow == \A w \in Window : fires[w] <= 1
=============================================================================
