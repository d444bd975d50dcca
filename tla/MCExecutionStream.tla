--------------------------- MODULE MCExecutionStream ---------------------------
(* One execution, a viewer, two workers, and a broker that hands a message   *)
(* out at most twice: a redelivery runs beside the first delivery.  No       *)
(* delivery dispatches a listen (MaxClaims = 0): that ends no stream.        *)
EXTENDS ExecutionStream
=============================================================================
