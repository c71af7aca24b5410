--------------------------- MODULE WorldEndpoints ---------------------------
(***************************************************************************)
(* The pure functions of node/Topology.cpp that compute the stable         *)
(* endpoints of a world's primary root from the addresses its domain       *)
(* resolved to.  An endpoint is an address and a port; port 0 stands for   *)
(* "not given", as in InetAddress.                                         *)
(***************************************************************************)
EXTENDS Naturals, Sequences, SequencesExt

CONSTANTS
    Ip,            \* the addresses the instance distinguishes
    V4,            \* those of them that are IPv4
    Private,       \* IPv4 addresses that are RFC1918, link-local or CGNAT
    Port,          \* the ports the instance distinguishes, 0 among them
    DefaultPort,   \* 9994, used when the root lists no endpoint
    MaxEndpoints   \* ZT_WORLD_MAX_STABLE_ENDPOINTS_PER_ROOT

ASSUME EndpointConstants ==
    /\ V4 \subseteq Ip
    /\ Private \subseteq V4
    /\ Port \subseteq Nat
    /\ 0 \in Port
    /\ DefaultPort \in Port \ {0}
    /\ MaxEndpoints \in Nat

Endpoint == [ip : Ip, port : Port]

(* The private addresses of a list, in order: what a re-resolution keeps. *)
KeepPrivate(list, e) == IF e.ip \in Private THEN Append(list, e) ELSE list

Lan(cur) ==
    LET list[i \in 0..Len(cur)] == IF i = 0 THEN <<>> ELSE KeepPrivate(list[i - 1], cur[i])
    IN  list[Len(cur)]

(* The port a resolved address without one gets: that of the first listed  *)
(* endpoint, whichever root address that happens to be.                    *)
RootPort(cur) == IF cur = <<>> THEN DefaultPort ELSE cur[1].port

WithPort(e, port) == IF e.port > 0 THEN e ELSE [e EXCEPT !.port = port]

(* Faulty merges, for the mutation runs: the first is the replace-only     *)
(* version that docs/PLAN-NATIVE-DYNAMIC-IP.md reports as a live bug.      *)
MergeReplaceOnly(cur, eps) == [i \in DOMAIN eps |-> WithPort(eps[i], RootPort(cur))]
MergeNoDedup(cur, eps) == Lan(cur) \o MergeReplaceOnly(cur, eps)
MergeKeepStale(cur, eps) ==
    FoldLeft(LAMBDA list, e : IF Contains(list, e) THEN list ELSE Append(list, e),
             cur, MergeReplaceOnly(cur, eps))

(* A resolved address joins the list, unless it is there. *)
AddResolved(list, e, port) ==
    LET x == WithPort(e, port)
    IN  IF e.ip \in V4 /\ ~ Contains(list, x) THEN Append(list, x) ELSE list

Joined(first, eps, port) ==
    LET list[i \in 0..Len(eps)] ==
            IF i = 0 THEN first ELSE AddResolved(list[i - 1], eps[i], port)
    IN  list[Len(eps)]

(* zgMergeRootEndpoints: the private endpoints of cur, then every IPv4     *)
(* address of eps that is not listed yet.                                  *)
Merge(cur, eps) == Joined(Lan(cur), eps, RootPort(cur))

(* zgSameEndpoints: equal address by address, in the same order. *)
SameEndpoints(cur, eps) == cur = eps

(* Whether setPlanetEndpoints / setMoonEndpoints change a root that lists  *)
(* cur when they are given eps, and what the root lists afterwards.        *)
Refreshes(cur, eps) == Merge(cur, eps) # <<>> /\ ~ SameEndpoints(cur, Merge(cur, eps))
Refreshed(cur, eps) == IF Refreshes(cur, eps) THEN Merge(cur, eps) ELSE cur

(* World::deserialize throws on a root with more endpoints than this. *)
Loadable(cur) == Len(cur) <= MaxEndpoints
=============================================================================
