------------------------- MODULE ConcurrencyMutexProofs -------------------------
(***************************************************************************)
(* Proofs about ConcurrencyMutex for any set of runs, TTL and queue wait.  *)
(* IInv is inductive; mutual exclusion and the two action properties       *)
(* follow from it.                                                         *)
(***************************************************************************)
EXTENDS ConcurrencyMutex, TLAPS

USE NoRunAssumption, TTLAssumption

\* The queue wait is never 0: the polling loop runs at least once.
LEMMA EffectiveWaitPositive == EffectiveWait \in Nat \ {0}
  BY WaitAssumption DEF EffectiveWait

\* The initial state - no key, every run idle - satisfies the invariant.
LEMMA InitIInv == Init => IInv
  BY EffectiveWaitPositive DEF Init, IInv, TypeOK, TokenDiscipline, KeyDiscipline, ForceDiscipline, PC, Active

\* Writing the key for a run without a token keeps every key bounded by the
\* TTL and marks the previous token holder as having lost it (SetKey).
LEMMA GrantIInv ==
  ASSUME NEW r \in Run, IInv, Grant(r), r \notin token,
         waited' \in [Run -> {w \in Nat : w < EffectiveWait}], replacing' \in SUBSET Run,
         replacing \subseteq replacing'
  PROVE  IInv'
<1>1. TypeOK'
  <2>1. lock' = r /\ ttl' = TTL /\ token' = token \cup {r} /\ owed' = owed \cup {r}
    BY DEF Grant, SetKey
  <2>2. lost' \in SUBSET Run
    BY DEF IInv, TypeOK, Grant, SetKey
  <2>3. pc' \in [Run -> PC]
    BY DEF IInv, TypeOK, Grant, Goto, PC
  <2> QED BY <2>1, <2>2, <2>3 DEF IInv, TypeOK
<1>2. TokenDiscipline'
  <2>1. \A s \in token' : pc'[s] \in Active
    BY DEF IInv, TypeOK, TokenDiscipline, Grant, Goto, Active
  <2>2. lost' \subseteq token' /\ token' \subseteq owed'
    BY DEF IInv, TokenDiscipline, Grant, SetKey
  <2> QED BY <2>1, <2>2 DEF TokenDiscipline
<1>3. KeyDiscipline'
  <2>1. lock' # NoRun /\ ttl' # 0
    BY DEF Grant, SetKey
  <2>2. ASSUME NEW s \in token' \ lost' PROVE lock' = s
    BY <2>2 DEF IInv, TokenDiscipline, KeyDiscipline, Grant, SetKey
  <2> QED BY <2>1, <2>2 DEF KeyDiscipline
<1>4. ForceDiscipline'
  BY DEF IInv, TypeOK, ForceDiscipline, Grant, Goto
<1> QED BY <1>1, <1>2, <1>3, <1>4 DEF IInv

\* A run that leaves with the key untouched takes its token out of the
\* picture, whatever it still owes (LeaveBeforeTry, ReleaseError, Crash and a
\* queue timeout).
LEMMA LeaveIInv ==
  ASSUME NEW r \in Run, NEW l \in Final, IInv, Leave(r, l), KeyUnchanged,
         UNCHANGED replacing,
         owed' = owed \/ (owed' = owed \ {r})
  PROVE  IInv'
<1>1. TypeOK'
  BY EffectiveWaitPositive DEF IInv, TypeOK, Leave, Goto, KeyUnchanged, PC, Final
<1>2. TokenDiscipline'
  BY DEF IInv, TypeOK, TokenDiscipline, Leave, Goto
<1>3. KeyDiscipline'
  BY DEF IInv, KeyDiscipline, Leave, KeyUnchanged
<1>4. ForceDiscipline'
  BY DEF IInv, TypeOK, ForceDiscipline, Leave, Goto, Final
<1> QED BY <1>1, <1>2, <1>3, <1>4 DEF IInv

\* Every step of ConcurrencyMutex preserves the invariant: one step per action.
LEMMA NextIInv == IInv /\ [Next]_vars => IInv'
<1> SUFFICES ASSUME IInv, [Next]_vars PROVE IInv'
  OBVIOUS
<1> USE DEF ReadPolicy
<1>1. ASSUME NEW r \in Run, NEW p \in Policy, AcquireFree(r, p) PROVE IInv'
  <2>1. r \notin token
    BY <1>1 DEF AcquireFree, IInv, TokenDiscipline, Active
  <2> QED BY <1>1, <2>1, GrantIInv DEF AcquireFree, IInv, TypeOK
<1>2. ASSUME NEW r \in Run, NEW p \in Policy, Collide(r, p) PROVE IInv'
  <2> DEFINE l == OnCollision[p]
  <2>1. l \in {"skipped", "forcing", "queued"} /\ (l = "forcing" => p = "replace")
    BY DEF Policy, OnCollision
  <2>2. pc' = [pc EXCEPT ![r] = l] /\ UNCHANGED <<lock, ttl, token, waited, lost, owed>>
    BY <1>2 DEF Collide, Goto, KeyUnchanged
  <2>3. replacing' = IF p = "replace" THEN replacing \cup {r} ELSE replacing
    BY <1>2 DEF Collide
  <2>4. r \notin token
    BY <1>2 DEF Collide, IInv, TokenDiscipline, Active
  <2> HIDE DEF l
  <2>5. TypeOK'
    BY <2>1, <2>2, <2>3 DEF IInv, TypeOK, PC
  <2>6. TokenDiscipline'
    BY <2>2, <2>4 DEF IInv, TypeOK, TokenDiscipline
  <2>7. KeyDiscipline'
    BY <2>2 DEF IInv, KeyDiscipline
  <2>8. ForceDiscipline'
    BY <2>1, <2>2, <2>3 DEF IInv, TypeOK, ForceDiscipline
  <2> QED BY <2>5, <2>6, <2>7, <2>8 DEF IInv
<1>3. ASSUME NEW r \in Run, ForceReplace(r) PROVE IInv'
  <2>1. r \notin token
    BY <1>3 DEF ForceReplace, IInv, TokenDiscipline, Active
  <2> QED BY <1>3, <2>1, GrantIInv DEF ForceReplace, IInv, TypeOK
<1>4. ASSUME NEW r \in Run, Poll(r) PROVE IInv'
  <2>1. r \notin token
    BY <1>4 DEF Poll, IInv, TokenDiscipline, Active
  <2>2. CASE Grant(r) /\ waited' = [waited EXCEPT ![r] = 0]
    BY <1>4, <2>1, <2>2, GrantIInv, EffectiveWaitPositive DEF Poll, IInv, TypeOK
  <2>3. CASE /\ waited' = [waited EXCEPT ![r] = waited[r] + PollInterval]
             /\ waited[r] + PollInterval < EffectiveWait
             /\ KeyUnchanged
             /\ UNCHANGED <<pc, token, lost, owed, replacing>>
    <3>1. waited' \in [Run -> {w \in Nat : w < EffectiveWait}]
      BY <2>3, WaitAssumption DEF IInv, TypeOK
    <3> QED BY <2>3, <3>1 DEF IInv, TypeOK, TokenDiscipline, KeyDiscipline,
                              ForceDiscipline, KeyUnchanged
  <2>4. CASE Leave(r, "skipped") /\ KeyUnchanged /\ UNCHANGED <<owed, replacing>>
    BY <2>4, LeaveIInv DEF Final
  <2> QED BY <1>4, <2>2, <2>3, <2>4 DEF Poll
<1>5. ASSUME NEW r \in Run, AcquireError(r) PROVE IInv'
  <2>1. r \notin token
    BY <1>5 DEF AcquireError, IInv, TokenDiscipline, Active
  <2>2. /\ pc' = [pc EXCEPT ![r] = "granted"]
        /\ waited' = [waited EXCEPT ![r] = 0]
        /\ UNCHANGED <<token, replacing, owed>>
        /\ UNCHANGED <<lock, ttl, lost>> \/ SetKey(r)
    BY <1>5 DEF AcquireError, Goto
  <2>3. TypeOK'
    BY <2>2, EffectiveWaitPositive DEF IInv, TypeOK, SetKey, PC
  <2>4. TokenDiscipline'
    BY <2>2 DEF IInv, TypeOK, TokenDiscipline, SetKey, Active
  <2>5. KeyDiscipline'
    <3>1. CASE UNCHANGED <<lock, ttl, lost>>
      BY <2>2, <3>1 DEF IInv, KeyDiscipline
    <3>2. CASE SetKey(r)
      BY <2>1, <2>2, <3>2 DEF IInv, KeyDiscipline, SetKey
    <3> QED BY <2>2, <3>1, <3>2
  <2>6. ForceDiscipline'
    BY <2>2 DEF IInv, TypeOK, ForceDiscipline
  <2> QED BY <2>3, <2>4, <2>5, <2>6 DEF IInv
<1>6. ASSUME NEW r \in Run, NEW l \in {"granted", "running"},
             pc[r] \in {"idle", "granted"}, Goto(r, l), KeyUnchanged,
             UNCHANGED <<token, waited, lost, replacing, owed>>
      PROVE IInv'
  BY <1>6 DEF IInv, TypeOK, TokenDiscipline, KeyDiscipline, ForceDiscipline,
              Goto, KeyUnchanged, PC, Active
<1>7. ASSUME NEW r \in Run, Bypass(r) PROVE IInv'
  BY <1>6, <1>7 DEF Bypass
<1>8. ASSUME NEW r \in Run, EnterBody(r) PROVE IInv'
  BY <1>6, <1>8 DEF EnterBody
<1>9. ASSUME NEW r \in Run, LeaveBeforeTry(r) PROVE IInv'
  BY <1>9, LeaveIInv DEF LeaveBeforeTry, Final
<1>10. ASSUME NEW r \in Run, Release(r) PROVE IInv'
  <2>1. CASE r \in token /\ lock = r
    <3>1. lock' = NoRun /\ ttl' = 0 /\ owed' = owed \ {r} /\ Leave(r, "ended")
          /\ UNCHANGED replacing
      BY <1>10, <2>1 DEF Release
    <3>2. TypeOK'
      BY <3>1, EffectiveWaitPositive DEF IInv, TypeOK, Leave, Goto, PC
    <3>3. TokenDiscipline'
      BY <3>1 DEF IInv, TypeOK, TokenDiscipline, Leave, Goto
    <3>4. KeyDiscipline'
      BY <2>1, <3>1 DEF IInv, KeyDiscipline, Leave
    <3>5. ForceDiscipline'
      BY <3>1 DEF IInv, TypeOK, ForceDiscipline, Leave, Goto
    <3> QED BY <3>2, <3>3, <3>4, <3>5 DEF IInv
  <2>2. CASE ~(r \in token /\ lock = r)
    BY <1>10, <2>2, LeaveIInv DEF Release, Final
  <2> QED BY <2>1, <2>2
<1>11. ASSUME NEW r \in Run, ReleaseError(r) PROVE IInv'
  BY <1>11, LeaveIInv DEF ReleaseError, Final
<1>12. ASSUME NEW r \in Run, Crash(r) PROVE IInv'
  BY <1>12, LeaveIInv DEF Crash, Final
<1>13. CASE Tick
  <2>1. TypeOK'
    BY <1>13 DEF Tick, IInv, TypeOK
  <2>2. TokenDiscipline'
    BY <1>13 DEF Tick, IInv, TokenDiscipline
  <2>3. KeyDiscipline'
    BY <1>13 DEF Tick, IInv, TypeOK, KeyDiscipline
  <2>4. ForceDiscipline'
    BY <1>13 DEF Tick, IInv, ForceDiscipline
  <2> QED BY <2>1, <2>2, <2>3, <2>4 DEF IInv
<1>14. CASE UNCHANGED vars
  BY <1>14 DEF vars, IInv, TypeOK, TokenDiscipline, KeyDiscipline, ForceDiscipline
<1> QED
  BY <1>1, <1>2, <1>3, <1>4, <1>5, <1>7, <1>8, <1>9, <1>10, <1>11, <1>12, <1>13, <1>14
  DEF Next, RunStep, Fault

\* The inductive invariant holds in every reachable state.
THEOREM InvariantHolds == Spec => []IInv
  BY InitIInv, NextIInv, PTL DEF Spec

\* Type correctness of the mutex and of the runs around it.
THEOREM TypeCorrect == Spec => []TypeOK
<1>1. IInv => TypeOK
  BY DEF IInv
<1> QED BY <1>1, InvariantHolds, PTL

\* At most one run is protected by the mutex at a time: an overlap needs a
\* lock-free run, an expired TTL or a REPLACE (the purpose of concurrency.py).
THEOREM AtMostOneProtected == Spec => []MutualExclusion
<1>1. IInv => MutualExclusion
  BY DEF IInv, KeyDiscipline, MutualExclusion, Protected
<1> QED BY <1>1, InvariantHolds, PTL

\* Only a REPLACE acquire takes the key from a holder.
THEOREM StealsAreReplaces == Spec => OnlyReplaceSteals
<1>1. IInv /\ [Next]_vars =>
        [lock # NoRun /\ lock' \notin {lock, NoRun} => lock' \in replacing']_vars
  BY DEF IInv, TypeOK, ForceDiscipline, Next, RunStep, Fault, vars, AcquireFree, Collide,
     ForceReplace, Poll, AcquireError, Bypass, LeaveBeforeTry, EnterBody, Release,
     ReleaseError, Crash, Tick, Grant, SetKey, KeyUnchanged, ReadPolicy
<1> QED BY <1>1, InvariantHolds, PTL DEF Spec, OnlyReplaceSteals

\* Before its TTL is up the key is deleted only by the run whose token it is:
\* a late release never frees a successor (the compare-and-delete script).
THEOREM FreesAreOwn == Spec => OnlyHolderFrees
<1>1. IInv /\ [Next]_vars =>
        [lock # NoRun /\ lock' = NoRun /\ ttl > 1 => lock \in owed \ owed']_vars
  BY DEF IInv, TypeOK, TokenDiscipline, Next, RunStep, Fault, vars, AcquireFree, Collide,
     ForceReplace, Poll, AcquireError, Bypass, LeaveBeforeTry, EnterBody, Release,
     ReleaseError, Crash, Tick, Grant, SetKey, KeyUnchanged
<1> QED BY <1>1, InvariantHolds, PTL DEF Spec, OnlyHolderFrees
=============================================================================
