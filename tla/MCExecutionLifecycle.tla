------------------------- MODULE MCExecutionLifecycle -------------------------
(* One execution, two workers, and a broker that hands a message out at most *)
(* twice: enough for a redelivery to run beside the first delivery.          *)
EXTENDS ExecutionLifecycle
=============================================================================
