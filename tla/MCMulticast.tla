----------------------------- MODULE MCMulticast -----------------------------
(* An instance of Multicast for TLC: sender replication, a network with a  *)
(* bridge whose replicator is the node, and one with another replicator.   *)
EXTENDS Multicast

CONSTANTS a, b

MCConfig ==
    { [limit |-> 2, bridges |-> {b}, replicators |-> {Self}],
      [limit |-> 1, bridges |-> {Self}, replicators |-> {a}],
      [limit |-> 2, bridges |-> {}, replicators |-> {a}] }
=============================================================================
