------------------------------ MODULE MCLifecycle ------------------------------
(* Constants for model checking Lifecycle. *)
EXTENDS Lifecycle

CONSTANTS k1

MCKeyOf == [r \in Relay |-> k1]
================================================================================
