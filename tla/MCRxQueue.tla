------------------------------ MODULE MCRxQueue ------------------------------
(* An instance of RxQueue for TLC. *)
EXTENDS RxQueue, TLC

CONSTANTS p, q, whole

MCParts == (p :> 2) @@ (q :> 2) @@ (whole :> 1)
=============================================================================
