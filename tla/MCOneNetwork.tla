---------------------------- MODULE MCOneNetwork ----------------------------
(***************************************************************************)
(* An instance of a node in one network, for TLC: how it is joined, left   *)
(* and configured, and the multicasts it sends in it.  Neither part looks  *)
(* at the state of the other, so a behaviour has only one of them.         *)
(***************************************************************************)
EXTENDS MCMulticast, NetworkLife

VARIABLE part    \* the one that this behaviour has, fixed at the start

OneNetworkInit ==
    /\ Init /\ LifeInit
    /\ \/ part = "life" /\ config = CHOOSE c \in Config : TRUE
       \/ part = "multicasts" /\ file = Absent

(* Nothing is left to do but a join beyond the bound. *)
AtRest ==
    /\ made = MaxJoins /\ current = 0
    /\ \A t \in Api : api[t] \in {"idle", "join"}
    /\ \A h \in Handler : ~Busy(h)
    /\ UNCHANGED lifeVars

OneNetworkNext ==
    /\ UNCHANGED part
    /\ \/ part = "life" /\ (LifeNext \/ AtRest) /\ UNCHANGED vars
       \/ part = "multicasts" /\ Next /\ UNCHANGED lifeVars

OneNetworkSpec == OneNetworkInit /\ [][OneNetworkNext]_<<vars, lifeVars, part>>
=============================================================================
