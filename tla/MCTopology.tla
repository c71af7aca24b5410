----------------------------- MODULE MCTopology -----------------------------
(* Instances of Topology for TLC. *)
EXTENDS Topology

VARIABLE part    \* which half of the instance a behaviour shows

CONSTANTS self, r1, r2, k1, k2, p, m, lan, pub1, pub2

Ep(i) == [ip |-> i, port |-> 1]
R(a, eps) == [addr |-> a, eps |-> eps]
W(id, ts, by, roots) == [id |-> id, ts |-> ts, by |-> by, roots |-> roots]

MCEpLists ==
    LET seqs == UNION { [1..n -> {Ep(lan), Ep(pub1), Ep(pub2)}] : n \in 0..3 }
    IN  { s \in seqs : \A i, j \in DOMAIN s : s[i] = s[j] => i = j }

(* A planet whose root moves, then hands over to another key, and moons.   *)
Planet1 == W(p, 1, k1, << R(r1, <<Ep(lan), Ep(pub1)>>) >>)
Planet2 == W(p, 2, k2, << R(r1, <<Ep(pub2)>>), R(r2, <<>>) >>)
Planet3 == W(p, 3, k2, << R(r2, <<Ep(pub1)>>), R(self, <<>>) >>)
Moon1 == W(m, 1, k1, << R(r2, <<Ep(pub2)>>), R(r1, <<Ep(pub1)>>) >>)
Moon2 == W(m, 2, k1, << R(r2, <<Ep(pub1)>>) >>)

(* Planet3 signed by the key it was handed to, a later one by the old key. *)
Planet3Old == [Planet3 EXCEPT !.ts = 4]
MCPublished == { <<k1, Planet1>>, <<k1, Planet2>>, <<k2, Planet3>>, <<k1, Planet3Old>>,
                 <<k1, Moon1>>, <<k1, Moon2>> }
MCOffered == { q[2] : q \in MCPublished }

MCAnswers == { <<Ep(pub2)>> }
MCSources == { <<r1, pub1>>, <<r1, pub2>> }

(* With packets, files are edited while the node is down; with files       *)
(* edited at any time, no packets but those that bring worlds.             *)
MCInit == Init /\ part \in {"packets", "files"}
MCNext ==
    /\ UNCHANGED part
    /\ \/ ChangeWorlds \/ StartOrEnd
       \/ part = "packets" /\ ChangePeers
       \/ (part = "files" \/ ~ up) /\ ChangeFiles
MCSpec == MCInit /\ [][MCNext]_<<vars, part>>
=============================================================================
