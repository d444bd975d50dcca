--------------------------- MODULE MCConcurrencyMutex ---------------------------
(* Three runs of one workflow, a TTL of two ticks, and a queue that polls    *)
(* every 2 seconds: the stored wait of 0 becomes 4, so it polls twice.       *)
EXTENDS ConcurrencyMutex
=============================================================================
