----------------------------- MODULE Membership -----------------------------
(***************************************************************************)
(* node/Membership.cpp, node/Membership.hpp and the parts of node/         *)
(* Network.cpp and node/IncomingPacket.cpp that call them: what the nodes  *)
(* of one network know of one member, the Target.  Its certificate of      *)
(* membership (COM) and its other credentials (tags, capabilities,         *)
(* certificates of ownership) come in any order, any number of times, and  *)
(* so do the revocations, which the nodes pass on to each other.  The      *)
(* network is private.  A credential is its timestamp; 0 is none.          *)
(***************************************************************************)
EXTENDS Naturals, FiniteSets

CONSTANTS
    Node,        \* addresses of the nodes that joined the network
    Target,      \* the member the credentials are about
    Controller,
    Key,         \* the Target's credentials other than the COM: credentialKey()
    Com,         \* what a revocation of the COM has in the place of a key
    Revocations, \* what the controller signs: [key, thr, fast]
    Online,      \* the sets of members that are online when it sends them
    Watching,    \* nodes the Target and the other peers send credentials to
    Stamps,      \* timestamps of credentials
    ConfStamps,  \* timestamps of network configurations
    Delta,       \* credentialTimeMaxDelta and the maxDelta of the COMs
    Peers,       \* for each node, the members it knows at first
    MaxForgets   \* bound on the peers the topology drops

ASSUME MembershipConstants ==
    /\ Target \in Node /\ Controller \notin Node /\ Com \notin Key
    /\ IsFiniteSet(Node)
    /\ Watching \subseteq Node /\ Online \subseteq SUBSET Node
    /\ Stamps \subseteq Nat \ {0} /\ ConfStamps \subseteq Nat
    /\ Revocations \subseteq [key : Key \cup {Com}, thr : Nat \ {0}, fast : BOOLEAN]
    /\ Delta \in Nat /\ MaxForgets \in Nat
    /\ Peers \in [Node -> SUBSET Node]

VARIABLES
    entries,     \* _memberships: the members a node has an entry for
    conf,        \* _config.timestamp and that of the node's own COM; 0 is none
    (* the entry of the Target *)
    com,         \* _com
    comThr,      \* _comRevocationThreshold
    thr,         \* _revocations
    cred,        \* _remoteTags, _remoteCaps, _remoteCoos
    (* the network *)
    flight,      \* revocations on their way
    issued,      \* revocations the controller has sent
    (* history *)
    heard,       \* revocations a node verified since it has the entry
    forgets

entry == <<com, comThr, thr, cred, heard>>
vars == <<entries, conf, entry, flight, issued, forgets>>

Message == [to : Node, from : Node \cup {Controller}, rev : Revocations]

TypeOK ==
    /\ entries \in [Node -> SUBSET Node]
    /\ conf \in [Node -> Nat]
    /\ com \in [Node -> Nat] /\ comThr \in [Node -> Nat]
    /\ thr \in [Node -> [Key -> Nat]] /\ cred \in [Node -> [Key -> Nat]]
    /\ flight \subseteq Message
    /\ heard \in [Node -> SUBSET Revocations] /\ issued \subseteq Revocations
    /\ forgets \in 0..MaxForgets

Within(a, b) == a <= b + Delta /\ b <= a + Delta

ValidUnlessOld(n, k) == cred[n][k] # 0 /\ Within(cred[n][k], conf[n])

(* _isCredentialTimestampValid of the credential a node has: what getTag,  *)
(* the CapabilityIterator and hasCertificateOfOwnershipFor go by           *)
Valid(n, k) == cred[n][k] # 0 /\ Within(cred[n][k], conf[n]) /\ cred[n][k] > thr[n][k]

AllowedUnlessOld(n) ==
    /\ conf[n] # 0 /\ com[n] # 0
    /\ Within(com[n], conf[n])

(* gate and isAllowedOnNetwork *)
Allowed(n) ==
    /\ conf[n] # 0 /\ com[n] # 0
    /\ com[n] > comThr[n]
    /\ Within(com[n], conf[n])

KnowTarget(n) == entries' = [entries EXCEPT ![n] = @ \cup {Target}]

------------------------------------------------------------------------------
(* Credentials.  Only a signature that verifies matters; one that does not *)
(* leaves an empty entry, and a packet that waits for the identity of the  *)
(* controller is the same packet later.                                    *)

AddCom(n, ts) ==
    /\ KnowTarget(n)
    /\ IF ts <= comThr[n] \/ ts < com[n]
       THEN UNCHANGED com
       ELSE com' = [com EXCEPT ![n] = ts]
    /\ UNCHANGED <<conf, comThr, thr, cred, flight, heard, issued, forgets>>

AddCredential(n, k, ts) ==
    /\ KnowTarget(n)
    /\ IF cred[n][k] > ts \/ thr[n][k] >= ts
       THEN UNCHANGED cred
       ELSE cred' = [cred EXCEPT ![n][k] = ts]
    /\ UNCHANGED <<conf, com, comThr, thr, flight, heard, issued, forgets>>

BadCredential(n) ==
    /\ KnowTarget(n)
    /\ UNCHANGED <<conf, entry, flight, issued, forgets>>

------------------------------------------------------------------------------
(* Revocations *)

New(n, r) == IF r.key = Com THEN r.thr > comThr[n] ELSE r.thr > thr[n][r.key]

ThresholdOfNow(n, r) ==
    IF New(n, r)
    THEN /\ comThr' = [comThr EXCEPT ![n] = r.thr]
         /\ thr' = IF r.key = Com THEN thr
                   ELSE [thr EXCEPT ![n][r.key] = IF conf[n] > r.thr THEN conf[n] ELSE r.thr]
    ELSE UNCHANGED <<comThr, thr>>

(* A revocation of another credential that is news sets the threshold of   *)
(* the COM too, to its own.                                                *)
RaiseThreshold(n, r) ==
    IF New(n, r)
    THEN /\ comThr' = [comThr EXCEPT ![n] = r.thr]
         /\ thr' = IF r.key = Com THEN thr ELSE [thr EXCEPT ![n][r.key] = r.thr]
    ELSE UNCHANGED <<comThr, thr>>

PassedOnToOthers(n, from, r) ==
    IF New(n, r) /\ r.fast
    THEN { [to |-> a, from |-> n, rev |-> r] : a \in entries[n] \ {from, n, Target} }
    ELSE {}

(* What a node sends on to the members it knows: those that are news.  A   *)
(* packet to oneself is not sent.                                          *)
PassedOn(n, from, r) ==
    IF New(n, r) /\ r.fast
    THEN { [to |-> a, from |-> n, rev |-> r] : a \in (entries[n] \cup {Target}) \ {from, n} }
    ELSE {}

(* A packet that is lost, or that rateGateCredentialsReceived drops as too *)
(* early after another of its sender, stays in flight for ever.            *)
AddRevocation(m) ==
    /\ m \in flight
    /\ KnowTarget(m.to)
    /\ RaiseThreshold(m.to, m.rev)
    /\ heard' = [heard EXCEPT ![m.to] = @ \cup {m.rev}]
    /\ flight' = (flight \ {m}) \cup PassedOn(m.to, m.from, m.rev)
    /\ UNCHANGED <<conf, com, cred, issued, forgets>>

(* The identity of the controller is not known yet, and the packet stays   *)
(* in the receive queue.                                                   *)
DeferForWhois(m) ==
    /\ m \in flight
    /\ KnowTarget(m.to)
    /\ UNCHANGED <<conf, entry, flight, issued, forgets>>

(* onNetworkMemberDeauthorize sends to the members that are online, once.  *)
Revoke(r, to) ==
    /\ r \notin issued
    /\ issued' = issued \cup {r}
    /\ flight' = flight \cup { [to |-> n, from |-> Controller, rev |-> r] : n \in to }
    /\ UNCHANGED <<entries, conf, entry, forgets>>

------------------------------------------------------------------------------
(* The network's configuration and housekeeping *)

(* setConfiguration takes any configuration that is for this node. *)
SetConfiguration(n, ts) ==
    /\ conf' = [conf EXCEPT ![n] = ts]
    /\ UNCHANGED <<entries, entry, flight, issued, forgets>>

(* Network::clean erases the entries of peers the topology has dropped and *)
(* what is not valid in the others.                                        *)
Clean(n, gone) ==
    /\ gone \subseteq entries[n]
    /\ forgets + Cardinality(gone) <= MaxForgets
    /\ forgets' = forgets + Cardinality(gone)
    /\ entries' = [entries EXCEPT ![n] = @ \ gone]
    /\ IF Target \in gone
       THEN /\ com' = [com EXCEPT ![n] = 0]
            /\ comThr' = [comThr EXCEPT ![n] = 0]
            /\ thr' = [thr EXCEPT ![n] = [k \in Key |-> 0]]
            /\ cred' = [cred EXCEPT ![n] = [k \in Key |-> 0]]
            /\ heard' = [heard EXCEPT ![n] = {}]
       ELSE /\ cred' = [cred EXCEPT ![n] =
                           [k \in Key |-> IF Valid(n, k) THEN cred[n][k] ELSE 0]]
            /\ UNCHANGED <<com, comThr, thr, heard>>
    /\ UNCHANGED <<conf, flight, issued>>

------------------------------------------------------------------------------

Init ==
    /\ entries = Peers
    /\ conf = [n \in Node |-> 0]
    /\ com = [n \in Node |-> 0] /\ comThr = [n \in Node |-> 0]
    /\ thr = [n \in Node |-> [k \in Key |-> 0]]
    /\ cred = [n \in Node |-> [k \in Key |-> 0]]
    /\ flight = {}
    /\ heard = [n \in Node |-> {}]
    /\ issued = {} /\ forgets = 0

Next ==
    \/ \E n \in Watching, ts \in Stamps : AddCom(n, ts)
    \/ \E n \in Watching, k \in Key, ts \in Stamps : AddCredential(n, k, ts)
    \/ \E n \in Watching : BadCredential(n)
    \/ \E n \in Watching, ts \in ConfStamps : SetConfiguration(n, ts)
    \/ \E n \in Watching, gone \in SUBSET Node : Clean(n, gone)
    \/ \E m \in flight : AddRevocation(m) \/ DeferForWhois(m)
    \/ \E r \in Revocations, to \in Online : Revoke(r, to)

(* For what is said of revocations that are not lost: in the end each is   *)
(* taken, as the controller answers the WHOIS.                             *)
Fairness == \A n \in Node : WF_vars(\E m \in flight : m.to = n /\ AddRevocation(m))

Spec == Init /\ [][Next]_vars /\ Fairness

------------------------------------------------------------------------------
(* Properties *)

(* Whatever came first, a credential a node goes by is newer than every    *)
(* revocation of it that the node accepted (as long as it kept the entry). *)
RevokedStaysOut ==
    \A n \in Node : \A r \in heard[n] :
        (r.key \in Key /\ Valid(n, r.key)) => cred[n][r.key] > r.thr

(* Nodes that accepted the same revocations, in any order, refuse the same *)
(* credentials.  Of the COM this is true only where none of the            *)
(* revocations was of another credential: such a one sets the threshold of *)
(* the COM to its own, so that the last to come decides.                   *)
SameRevocations ==
    \A n, o \in Node :
        heard[n] = heard[o]
        => /\ thr[n] = thr[o]
           /\ (\A r \in heard[n] : r.key = Com) => comThr[n] = comThr[o]

Linked ==
    \A S \in (SUBSET Node) \ {{}, Node} : \E n \in S : Peers[n] \ S # {}

(* Whether a node goes by a revocation or by a later one in its place *)
Held(n, r) == IF r.key = Com THEN comThr[n] >= r.thr ELSE thr[n][r.key] >= r.thr

ComAlone == \A q \in issued : q.key = Com

(* Fast propagation: unless packets are lost, a revocation that one node   *)
(* accepted reaches all that members link to it: one of the COM, which is  *)
(* what this controller sends, as long as no other credential is revoked   *)
(* (that lowers the threshold of the COM again), one of another credential *)
(* in any case.                                                            *)
RumourReachesAll ==
    (Linked /\ \A r \in Revocations : r.fast)
    => ( [](forgets = 0)
         => \A r \in Revocations :
               (r.key = Com => []ComAlone)
               => ((\E n \in Node : r \in heard[n]) ~> (\A n \in Node : Held(n, r))) )

(* A node does not let the Target in with a COM from before a revocation   *)
(* of the COM that it accepted, whichever came first, unless it also       *)
(* accepted a revocation of another credential, which sets the threshold   *)
(* of the COM back to its own.                                             *)
ComRevocationsHold ==
    \A n \in Node :
        (Allowed(n) /\ \A r \in heard[n] : r.key = Com)
        => \A r \in heard[n] : com[n] > r.thr
=============================================================================
