---------------------------- MODULE ConcurrencyMutex ----------------------------
(***************************************************************************)
(* The per-workflow Redis mutex (execution_engine/concurrency.py) and the  *)
(* part of WorkflowRunner.run that takes it and gives it back              *)
(* (execution_engine/engine/workflow_runner.py).  One key, one workflow;   *)
(* every Run is one call of WorkflowRunner.run by a Celery task, and the   *)
(* UUID token it draws is the run itself.  Time is the clock of Redis: a   *)
(* Tick ages the key, and a key that reaches its TTL is gone.              *)
(***************************************************************************)
EXTENDS Integers

CONSTANTS
  Run,          \* calls of WorkflowRunner.run that contend for one workflow
  NoRun,        \* the key does not exist
  TTL,          \* ticks after which Redis drops the key (EX ttl)
  PollInterval, \* DEFAULT_QUEUE_POLL_INTERVAL
  MaxWait,      \* Workflow.concurrency_queue_max_wait_seconds as stored
  DefaultWait   \* the 60 of "or 60" when the column is 0 or NULL

ASSUME NoRunAssumption == NoRun \notin Run
ASSUME TTLAssumption == TTL \in Nat \ {0}
ASSUME WaitAssumption ==
  /\ PollInterval \in Nat \ {0}
  /\ MaxWait \in Nat
  /\ DefaultWait \in Nat \ {0}

VARIABLES
  lock,     \* the value of the key: the token's owner, or NoRun
  ttl,      \* ticks the key has left, 0 when there is no key
  pc,       \* where each run is
  token,    \* runs whose stack frame holds a token to pass to release
  waited,   \* the local `elapsed` of a queued acquire
  lost,     \* history: token holders whose key expired or was overwritten
  replacing,\* history: runs whose workflow row said "replace"
  owed      \* history: runs that acquired and have not called release yet

vars == <<lock, ttl, pc, token, waited, lost, replacing, owed>>

Policy == {"skip", "queue", "replace"}
PC == {"idle", "queued", "forcing", "granted", "running",
       "skipped", "ended", "crashed"}
\* A run that is past acquire and has not left WorkflowRunner.run.
Active == {"granted", "running"}
Final == {"skipped", "ended", "crashed"}

\* `int(wf.concurrency_queue_max_wait_seconds or 60)`: a stored 0 is not "no wait".
EffectiveWait == IF MaxWait = 0 THEN DefaultWait ELSE MaxWait

TypeOK ==
  /\ lock \in Run \cup {NoRun}
  /\ ttl \in 0 .. TTL
  /\ pc \in [Run -> PC]
  /\ token \in SUBSET Run
  /\ waited \in [Run -> {w \in Nat : w < EffectiveWait}]
  /\ lost \in SUBSET Run
  /\ replacing \in SUBSET Run
  /\ owed \in SUBSET Run

Init ==
  /\ lock = NoRun
  /\ ttl = 0
  /\ pc = [r \in Run |-> "idle"]
  /\ token = {}
  /\ waited = [r \in Run |-> 0]
  /\ lost = {}
  /\ replacing = {}
  /\ owed = {}

Goto(r, l) == pc' = [pc EXCEPT ![r] = l]

\* The frame of run r is gone, and its locals with it.
Leave(r, l) ==
  /\ Goto(r, l)
  /\ token' = token \ {r}
  /\ lost' = lost \ {r}
  /\ waited' = [waited EXCEPT ![r] = 0]

-----------------------------------------------------------------------------
(* Redis commands.                                                         *)

KeyUnchanged == UNCHANGED <<lock, ttl>>

\* A bug: the key written without EX never expires.
SetKeyNoExpiry(r) ==
  /\ lock' = r
  /\ ttl' = 0
  /\ lost' = lost \cup ({lock} \cap token)

\* SET key token EX ttl, whoever held the key before.
SetKey(r) ==
  /\ lock' = r
  /\ ttl' = TTL
  /\ lost' = lost \cup ({lock} \cap token)

\* acquire returned AcquireResult(acquired=True, token=...).
Grant(r) ==
  /\ SetKey(r)
  /\ token' = token \cup {r}
  /\ owed' = owed \cup {r}
  /\ Goto(r, "granted")

-----------------------------------------------------------------------------
(* ConcurrencyManager.acquire, called by WorkflowRunner._acquire_concurrency *)

\* The policy column, read just before the first SET NX.
ReadPolicy(r, p) ==
  replacing' = IF p = "replace" THEN replacing \cup {r} ELSE replacing

\* First try: SET NX succeeds under any policy.
AcquireFree(r, p) ==
  /\ pc[r] = "idle" /\ lock = NoRun
  /\ ReadPolicy(r, p)
  /\ Grant(r)
  /\ UNCHANGED waited

\* Skip declines, replace goes on to force the key, queue starts to poll
\* (EffectiveWait > 0, so the loop is entered).
OnCollision == [skip |-> "skipped", replace |-> "forcing", queue |-> "queued"]

\* First try collides: branch on the policy.
Collide(r, p) ==
  /\ pc[r] = "idle" /\ lock # NoRun
  /\ ReadPolicy(r, p)
  /\ Goto(r, OnCollision[p])
  /\ KeyUnchanged
  /\ UNCHANGED <<token, waited, lost, owed>>

\* REPLACE: the unconditional SET, a round trip after the failed SET NX.
ForceReplace(r) ==
  /\ pc[r] = "forcing"
  /\ Grant(r)
  /\ UNCHANGED <<waited, replacing>>

\* A bug: a queued run writes the key although another run holds it.
PollIgnoringHolder(r) ==
  /\ pc[r] = "queued"
  /\ waited' = [waited EXCEPT ![r] = 0]
  /\ Grant(r)
  /\ UNCHANGED replacing

\* A bug: `while elapsed <= queue_max_wait_seconds`, one poll too many.
PollOnceMore(r) ==
  /\ pc[r] = "queued"
  /\ LET elapsed == waited[r] + PollInterval IN
       \/ /\ lock = NoRun
          /\ Grant(r)
          /\ waited' = [waited EXCEPT ![r] = 0]
       \/ /\ lock # NoRun /\ elapsed <= EffectiveWait
          /\ waited' = [waited EXCEPT ![r] = elapsed]
          /\ KeyUnchanged
          /\ UNCHANGED <<pc, token, lost, owed>>
       \/ /\ lock # NoRun /\ elapsed > EffectiveWait
          /\ Leave(r, "skipped")
          /\ KeyUnchanged
          /\ UNCHANGED owed
  /\ UNCHANGED replacing

\* QUEUE: one turn of the while loop - sleep, count it, SET NX again - and the
\* queue_timeout that follows when the loop condition fails.
Poll(r) ==
  /\ pc[r] = "queued" /\ waited[r] < EffectiveWait
  /\ LET elapsed == waited[r] + PollInterval IN
       \/ /\ lock = NoRun
          /\ Grant(r)
          /\ waited' = [waited EXCEPT ![r] = 0]
       \/ /\ lock # NoRun /\ elapsed < EffectiveWait
          /\ waited' = [waited EXCEPT ![r] = elapsed]
          /\ KeyUnchanged
          /\ UNCHANGED <<pc, token, lost, owed>>
       \/ /\ lock # NoRun /\ elapsed >= EffectiveWait
          /\ Leave(r, "skipped")
          /\ KeyUnchanged
          /\ UNCHANGED owed
  /\ UNCHANGED replacing

\* An exception inside acquire (Redis down, timeout): _acquire_concurrency
\* returns (None, None) and the run goes on without a token.  The SET it was
\* waiting for may have been applied by Redis or not.
AcquireError(r) ==
  /\ pc[r] \in {"idle", "queued", "forcing"}
  /\ \/ UNCHANGED <<lock, ttl, lost>>
     \/ /\ lock = NoRun \/ pc[r] = "forcing"
        /\ SetKey(r)
  /\ Goto(r, "granted")
  /\ waited' = [waited EXCEPT ![r] = 0]
  /\ UNCHANGED <<token, replacing, owed>>

\* No workflow row behind the id (a crew run passes its crew id, or the row was
\* deleted): the mutex is not used at all.
Bypass(r) ==
  /\ pc[r] = "idle"
  /\ Goto(r, "granted")
  /\ KeyUnchanged
  /\ UNCHANGED <<token, waited, lost, replacing, owed>>

-----------------------------------------------------------------------------
(* WorkflowRunner.run after acquire.                                       *)

\* run is left before the try whose finally releases: the graph has no start
\* node (`return {}`), or the fixture lookup raises.
LeaveBeforeTry(r) ==
  /\ pc[r] = "granted"
  /\ Leave(r, "ended")
  /\ KeyUnchanged
  /\ UNCHANGED <<replacing, owed>>

\* The try is entered and the start nodes are gathered.
EnterBody(r) ==
  /\ pc[r] = "granted"
  /\ Goto(r, "running")
  /\ KeyUnchanged
  /\ UNCHANGED <<token, waited, lost, replacing, owed>>

\* A bug: release with a plain DEL instead of the compare-and-delete.
ReleaseAnyHolder(r) ==
  /\ pc[r] = "running"
  /\ owed' = owed \ {r}
  /\ IF r \in token
       THEN lock' = NoRun /\ ttl' = 0
       ELSE KeyUnchanged
  /\ Leave(r, "ended")
  /\ UNCHANGED replacing

\* The body ends - value, failure, cancel or pause - and the finally releases:
\* the script deletes the key only while it holds this run's token.
Release(r) ==
  /\ pc[r] = "running"
  /\ owed' = owed \ {r}
  /\ IF r \in token /\ lock = r
       THEN lock' = NoRun /\ ttl' = 0
       ELSE KeyUnchanged
  /\ Leave(r, "ended")
  /\ UNCHANGED replacing

\* The same when Redis fails: release logs and returns False, and nothing
\* retries it.
ReleaseError(r) ==
  /\ pc[r] = "running" /\ r \in token
  /\ owed' = owed \ {r}
  /\ Leave(r, "ended")
  /\ KeyUnchanged
  /\ UNCHANGED replacing

-----------------------------------------------------------------------------
(* The environment.                                                        *)

\* SIGKILL of the worker: no Python code runs.
Crash(r) ==
  /\ pc[r] \in {"queued", "forcing"} \cup Active
  /\ Leave(r, "crashed")
  /\ KeyUnchanged
  /\ UNCHANGED <<replacing, owed>>

\* Redis's clock: the key loses a tick of its TTL and is dropped at the last.
Tick ==
  /\ ttl > 0
  /\ ttl' = ttl - 1
  /\ IF ttl = 1
       THEN lock' = NoRun /\ lost' = lost \cup ({lock} \cap token)
       ELSE UNCHANGED <<lock, lost>>
  /\ UNCHANGED <<pc, token, waited, replacing, owed>>

RunStep(r) ==
  \/ \E p \in Policy : AcquireFree(r, p) \/ Collide(r, p)
  \/ ForceReplace(r)
  \/ Poll(r)
  \/ LeaveBeforeTry(r)
  \/ EnterBody(r)
  \/ Release(r)

Fault(r) ==
  \/ AcquireError(r)
  \/ Bypass(r)
  \/ ReleaseError(r)
  \/ Crash(r)

Next ==
  \/ \E r \in Run : RunStep(r) \/ Fault(r)
  \/ Tick

Spec == Init /\ [][Next]_vars

\* Redis's clock does not stop.
Fairness == WF_vars(Tick)

FairSpec == Spec /\ Fairness

-----------------------------------------------------------------------------
(* Properties.                                                             *)

\* A run the mutex answers for: it holds a token whose key neither lived its
\* whole TTL nor was overwritten.
Protected(r) == pc[r] \in Active /\ r \in token \ lost

\* What makes the mutex correct, in the form an induction can carry: only an
\* active run holds a token, a token not lost is the key's value, every key has
\* an expiry, only a REPLACE acquire gets to force, and a token is still owed.
TokenDiscipline ==
  /\ \A r \in token : pc[r] \in Active
  /\ lost \subseteq token
  /\ token \subseteq owed
KeyDiscipline ==
  /\ lock = NoRun <=> ttl = 0
  /\ \A r \in token \ lost : lock = r
ForceDiscipline == \A r \in Run : pc[r] = "forcing" => r \in replacing
IInv == TypeOK /\ TokenDiscipline /\ KeyDiscipline /\ ForceDiscipline

\* Two runs execute the workflow at once only if one of them is lock-free, has
\* outlived its TTL or was replaced (the purpose of the mutex, concurrency.py).
MutualExclusion == \A r, s \in Run : Protected(r) /\ Protected(s) => r = s

\* The key changes hands without being free in between only through REPLACE;
\* skip and queue never take it from a holder (SET NX).
OnlyReplaceSteals ==
  [][lock # NoRun /\ lock' \notin {lock, NoRun} => lock' \in replacing']_vars

\* The key is deleted early - TTL not yet up - only by its own holder, so a
\* late release never frees a successor (the compare-and-delete script).
OnlyHolderFrees ==
  [][lock # NoRun /\ lock' = NoRun /\ ttl > 1 => lock \in owed \ owed']_vars

\* A key whose run is over (killed worker, empty graph, failed release, SET
\* applied behind an error) is not kept for ever: the TTL frees it.
OrphanFreed ==
  \A r \in Run : (lock = r /\ pc[r] \in Final) ~> (lock # r)
=============================================================================
