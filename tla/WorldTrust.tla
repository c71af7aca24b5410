----------------------------- MODULE WorldTrust -----------------------------
(***************************************************************************)
(* What a node promises about the worlds it follows, without peers, files  *)
(* or endpoints.  The head of a world is what only its signing key may     *)
(* change: id, revision, next signing key and the set of its roots.  While *)
(* the node runs, the head of a world it follows changes only to a newer   *)
(* one signed by the key the present head names; the planet, once there,   *)
(* never goes away; and between two runs anything may happen to the files. *)
(***************************************************************************)
EXTENDS Naturals

CONSTANTS
    Slot,        \* the worlds a node can follow: its planet and its moons
    Optional,    \* those it may stop following
    WorldHead,        \* the heads of worlds
    Signed,      \* the pairs <<key, head>> such that key signed the head
    None

VARIABLES running, head

trustVars == <<running, head>>

TrustInit ==
    /\ running = FALSE
    /\ head = [s \in Slot |-> None]

Succeeds(cur, new) ==
    /\ new.id = cur.id
    /\ new.ts > cur.ts
    /\ <<cur.by, new>> \in Signed

Change(s) ==
    /\ running
    /\ UNCHANGED running
    /\ \A t \in Slot \ {s} : head'[t] = head[t]
    /\ DOMAIN head' = Slot

Succeed(s) == head[s] # None /\ head'[s] # None /\ Succeeds(head[s], head'[s]) /\ Change(s)

Adopt(s) == head[s] = None /\ head'[s] \in WorldHead /\ Change(s)

Leave(s) == s \in Optional /\ head'[s] = None /\ Change(s)

Stop == running /\ ~ running' /\ head' = [s \in Slot |-> None]

Begin == ~ running /\ running' /\ head' \in [Slot -> WorldHead \cup {None}]

TrustNext ==
    \/ \E s \in Slot : Succeed(s) \/ Adopt(s) \/ Leave(s)
    \/ Stop
    \/ Begin

TrustSpec == TrustInit /\ [][TrustNext]_trustVars
=============================================================================
