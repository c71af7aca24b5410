---------------------------- MODULE MCNetworkLife ----------------------------
(* An instance of NetworkLife for TLC. *)
EXTENDS NetworkLife
=============================================================================
