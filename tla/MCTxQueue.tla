------------------------------ MODULE MCTxQueue ------------------------------
(* An instance of TxQueue for TLC. *)
EXTENDS TxQueue, TLC

CONSTANTS pkt1, pkt2, peer1, peer2

MCTo == (pkt1 :> peer1) @@ (pkt2 :> peer2)
=============================================================================
