----------------------------- MODULE TurnSemaphore -----------------------------
(***************************************************************************)
(* What the in-flight counter of a public app promises to the rest of the  *)
(* system, without Redis: a counting semaphore that a visitor's turn enters*)
(* and leaves.  Its place can break (the key expires under a live turn, the*)
(* broker delivers a finished one again); nothing is promised from then on.*)
(***************************************************************************)
EXTENDS Naturals, FiniteSets

CONSTANTS
  Turn,  \* turns of visitors
  Cap    \* how many may be under way

VARIABLES
  inUse,  \* turns under way
  broken  \* the semaphore is no longer reliable

vars == <<inUse, broken>>

Init == inUse = {} /\ broken = FALSE

Enter(t) ==
  /\ ~broken
  /\ t \notin inUse /\ Cardinality(inUse) < Cap
  /\ inUse' = inUse \cup {t}
  /\ UNCHANGED broken

Exit(t) ==
  /\ inUse' = inUse \ {t}
  /\ UNCHANGED broken

Break ==
  /\ broken' = TRUE
  /\ inUse' \in SUBSET Turn

Next == (\E t \in Turn : Enter(t) \/ Exit(t)) \/ Break

Spec == Init /\ [][Next]_vars
=============================================================================
