----------------------------- MODULE MCAddresses -----------------------------
(***************************************************************************)
(* An instance of the two lists of addresses of a node, for TLC: the       *)
(* endpoints of a root, and the paths to a peer, with two ports of one     *)
(* address and another address, and two threads.  Neither touches the      *)
(* state of the other, so a behaviour has only one of them.                *)
(***************************************************************************)
EXTENDS RootEndpoints, PeerPaths, TLC

CONSTANTS lan1, lan2, pub1, pub2, v6
CONSTANTS a1, a2, b, t1, t2

VARIABLE part    \* the one that this behaviour has, fixed at the start

MCIp == {lan1, lan2, pub1, pub2, v6}
MCV4 == MCIp \ {v6}
MCPrivate == {lan1, lan2}

(* The resolver returns IPv4 addresses without a port, each at most once. *)
MCAnswers ==
    LET seqs == UNION { [1..n -> MCV4] : n \in 1..3 }
        injective(s) == \A i, j \in DOMAIN s : s[i] = s[j] => i = j
    IN  { [i \in DOMAIN s |-> [ip |-> s[i], port |-> 0]] : s \in {t \in seqs : injective(t)} }

Ep(i, k) == [ip |-> i, port |-> k]

(* Private first, public first with another port, IPv6, and no endpoint. *)
MCListed == {
    << Ep(lan1, 2), Ep(pub1, 2) >>,
    << Ep(pub1, 1), Ep(lan1, 2) >>,
    << Ep(pub1, 1), Ep(lan1, 2), Ep(lan1, 1) >>,
    << Ep(v6, 1), Ep(pub2, 1) >>,
    << >> }

MCAddressOf == (a1 :> "a") @@ (a2 :> "a") @@ (b :> "b")
MCScopeOf == (a1 :> "private") @@ (a2 :> "private") @@ (b :> "global")

Threads == Permutations({t1, t2})

AddressesInit ==
    /\ Init /\ PathsInit
    /\ \/ part = "root"
       \/ part = "peer" /\ cur = <<>>

AddressesNext ==
    /\ UNCHANGED part
    /\ \/ part = "root" /\ Next /\ UNCHANGED pathsVars
       \/ part = "peer" /\ PathsNext /\ UNCHANGED vars

AddressesSpec == AddressesInit /\ [][AddressesNext]_<<vars, pathsVars, part>>
=============================================================================
