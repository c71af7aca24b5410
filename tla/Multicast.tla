------------------------------ MODULE Multicast ------------------------------
(***************************************************************************)
(* node/Multicaster.cpp and node/OutboundMulticast.hpp: what a node keeps  *)
(* of one multicast group of one network, its members and the multicasts   *)
(* that wait for more of them.  Every operation holds _groups_m.  A        *)
(* multicast is handed to sendOnly for each of its receivers; the rules of *)
(* the network may drop it there, and it is logged as sent all the same.   *)
(* MULTICAST_GATHER, MULTICAST_FRAME with a gather limit and their answers *)
(* are packets that may be lost: an answer is an Add, at any time.         *)
(***************************************************************************)
EXTENDS Naturals, FiniteSets

CONSTANTS
    Node,            \* addresses, the node's own among them
    Self,
    None,            \* no origin: the multicast is from this node
    Config,          \* network configurations: [limit, bridges, replicators]
    QueueSize,       \* ZT_TX_QUEUE_SIZE
    TransmitTimeout, \* ZT_MULTICAST_TRANSMIT_TIMEOUT
    GatherDelay,     \* ZT_MULTICAST_EXPLICIT_GATHER_DELAY
    LikeExpire,      \* ZT_MULTICAST_LIKE_EXPIRE
    MaxCasts,        \* bound on the multicasts sent
    MaxTime          \* bound on the clock

ASSUME MulticastConstants ==
    /\ Self \in Node /\ None \notin Node /\ IsFiniteSet(Node)
    /\ Config # {}
    /\ Config \subseteq [limit : Nat \ {0}, bridges : SUBSET Node, replicators : SUBSET Node]
    /\ QueueSize \in Nat \ {0} /\ TransmitTimeout \in Nat /\ LikeExpire \in Nat
    /\ GatherDelay \in Nat \ {0} /\ MaxCasts \in Nat /\ MaxTime \in Nat

VARIABLES
    config,      \* network->config()
    now,
    liked,       \* members, by the time they were last heard of; 0 is no member
    lastGather,  \* lastExplicitGather
    txQueue,     \* the multicasts in txQueue; they are numbered as they are sent
    count,       \* multicasts sent
    cast         \* the OutboundMulticasts, and their history

vars == <<config, now, liked, lastGather, txQueue, count, cast>>

Id == 1..MaxCasts

(* The log is kept as a set and its length.  The history of a multicast is *)
(* how it was sent, to whom, whether members were asked for explicitly,    *)
(* and who has been a member since.                                        *)
Cast == [origin : Node \cup {None}, stamp : Nat, limit : Nat, log : SUBSET Node, size : Nat,
         way : {"unsent", "replicator", "once", "queued"}, extra : SUBSET Node,
         to : SUBSET Node, asked : BOOLEAN, seen : SUBSET Node]

TypeOK ==
    /\ config \in Config /\ now \in Nat /\ lastGather \in Nat
    /\ liked \in [Node -> Nat] /\ liked[Self] = 0
    /\ count \in 0..MaxCasts
    /\ txQueue \subseteq 1..count /\ Cardinality(txQueue) <= QueueSize
    /\ cast \in [Id -> Cast]

Members == { n \in Node : liked[n] # 0 }

Expired(id) == now >= cast[id].stamp + TransmitTimeout

AtLimit(id) == cast[id].size >= cast[id].limit

(* What a walk through S in some order takes when it ends after k *)
Picks(S, k) ==
    { T \in SUBSET S : Cardinality(T) = IF Cardinality(S) <= k THEN Cardinality(S) ELSE k }

------------------------------------------------------------------------------
(* send *)

Waited == now >= lastGather + GatherDelay

GatherDue == Members = {} \/ now >= lastGather + GatherDelay

Sender(origin) == IF origin = None THEN {} ELSE {origin}

(* Only a multicast that is queued logs its origin and its receivers. *)
Outbound(origin, way, extra, to) ==
    LET log == IF way = "queued" THEN Sender(origin) \cup to ELSE {}
        size == IF way = "queued" THEN Cardinality(Sender(origin)) + Cardinality(to) ELSE 0
    IN [origin |-> origin, stamp |-> now, limit |-> config.limit, log |-> log, size |-> size,
        way |-> way, extra |-> extra, to |-> to, asked |-> way = "queued" /\ GatherDue,
        seen |-> Members]

Sent(out) ==
    /\ count < MaxCasts
    /\ count' = count + 1
    /\ cast' = [cast EXCEPT ![count + 1] = out]

(* Only a replicator sends for others. *)
From(origin) == origin = None \/ (origin # Self /\ Self \in config.replicators)

(* Whichever replicator answers, and has the best path *)
SendToReplicator(r) ==
    /\ Self \notin config.bridges /\ Self \notin config.replicators
    /\ r \in config.replicators
    /\ Sent(Outbound(None, "replicator", {}, {r}))
    /\ UNCHANGED <<config, now, liked, lastGather, txQueue>>

RecentPlain == { n \in Members \ config.bridges : now < liked[n] + LikeExpire }

(* Members that are not bridges, were they due to be cleaned or not *)
Plain == Members \ config.bridges

(* With members enough, the queue is skipped and nothing is logged. *)
SendOnce(origin) ==
    /\ From(origin)
    /\ Cardinality(Members) >= config.limit
    /\ LET extra == config.bridges \ {Self, origin}
       IN \E picked \in Picks(Plain \ {origin}, config.limit) :
             Sent(Outbound(origin, "once", extra, extra \cup picked))
    /\ UNCHANGED <<config, now, liked, lastGather, txQueue>>

(* A full queue loses its oldest multicast. *)
Trimmed ==
    IF Cardinality(txQueue) >= QueueSize
    THEN txQueue \ { id \in txQueue : \A o \in txQueue : id <= o }
    ELSE txQueue

(* The bridges and members are not compared with the origin here. *)
SendQueued(origin) ==
    /\ From(origin)
    /\ Cardinality(Members) < config.limit
    /\ lastGather' = IF GatherDue THEN now ELSE lastGather
    /\ \E bridges \in Picks(config.bridges \ {Self}, config.limit) :
       \E others \in Picks(Plain, config.limit - Cardinality(bridges)) :
          Sent(Outbound(origin, "queued", {}, bridges \cup others))
    /\ txQueue' = Trimmed \cup {count + 1}
    /\ UNCHANGED <<config, now, liked>>

------------------------------------------------------------------------------
(* Members *)

AnyNew(id, new) == new

(* sendIfNew *)
NotYetSent(id, new) == new \ cast[id].log

TakenAll(id, new) == Picks(NotYetSent(id, new), Cardinality(new))

(* What the multicast id is sent to of the new members, who are offered in *)
(* any order                                                               *)
Taken(id, new) ==
    Picks(NotYetSent(id, new), IF AtLimit(id) THEN 0 ELSE cast[id].limit - cast[id].size)

Onward(id, to, new) ==
    [cast[id] EXCEPT !.log = @ \cup to, !.size = @ + Cardinality(to),
                     !.to = @ \cup to, !.seen = @ \cup new]

(* Add of a MULTICAST_LIKE, or addMultiple of what was gathered: a member  *)
(* known already is heard of again, and that is all.  The others get the   *)
(* multicasts that wait.                                                   *)
Add(heard) ==
    LET new == heard \ (Members \cup {Self})
    IN /\ liked' = [n \in Node |-> IF n \in heard \ {Self} THEN now ELSE liked[n]]
       /\ \E taken \in [txQueue -> SUBSET new] :
             /\ \A id \in txQueue : taken[id] \in Taken(id, new)
             /\ cast' = [id \in Id |->
                            IF id \in txQueue THEN Onward(id, taken[id], new) ELSE cast[id]]
             /\ txQueue' = IF new = {} THEN txQueue
                           ELSE { id \in txQueue : cast'[id].size < cast[id].limit }
       /\ UNCHANGED <<config, now, lastGather, count>>

(* ERROR(UNWANTED_MULTICAST) *)
Remove(n) ==
    /\ n \in Members
    /\ liked' = [liked EXCEPT ![n] = 0]
    /\ UNCHANGED <<config, now, lastGather, txQueue, count, cast>>

(* Every ZT_HOUSEKEEPING_PERIOD.  A group with nothing left is erased. *)
Clean ==
    /\ txQueue' = { id \in txQueue : ~(Expired(id) \/ AtLimit(id)) }
    /\ liked' = [n \in Node |-> IF now < liked[n] + LikeExpire THEN liked[n] ELSE 0]
    /\ lastGather' = IF txQueue' = {} /\ \A n \in Node : liked'[n] = 0 THEN 0 ELSE lastGather
    /\ UNCHANGED <<config, now, count, cast>>

------------------------------------------------------------------------------

SetConfiguration(c) ==
    /\ config' = c
    /\ UNCHANGED <<now, liked, lastGather, txQueue, count, cast>>

Tick ==
    /\ now < MaxTime
    /\ now' = now + 1
    /\ UNCHANGED <<config, liked, lastGather, txQueue, count, cast>>

(* The clock is far enough from 0 for the first gather to be due. *)
Init ==
    /\ config \in Config /\ now = GatherDelay
    /\ liked = [n \in Node |-> 0] /\ lastGather = 0
    /\ txQueue = {} /\ count = 0
    /\ cast = [id \in Id |->
                  [origin |-> None, stamp |-> 0, limit |-> 0, log |-> {}, size |-> 0,
                   way |-> "unsent", extra |-> {}, to |-> {}, asked |-> FALSE, seen |-> {}]]

Next ==
    \/ \E r \in Node : SendToReplicator(r)
    \/ \E origin \in Node \cup {None} : SendOnce(origin) \/ SendQueued(origin)
    \/ \E heard \in (SUBSET Node) \ {{}} : Add(heard)
    \/ \E n \in Node : Remove(n)
    \/ Clean
    \/ \E c \in Config : SetConfiguration(c)
    \/ Tick

Spec == Init /\ [][Next]_vars

------------------------------------------------------------------------------
(* Properties *)

Queued == { id \in 1..count : cast[id].way = "queued" }

(* No receiver gets a multicast twice, whoever leaves the group, comes     *)
(* back or becomes a bridge while it waits.                                *)
NeverTwice ==
    \A id \in Queued :
        cast[id].size = Cardinality(cast[id].to) + (IF cast[id].origin = None THEN 0 ELSE 1)

(* A multicast that waits and has not reached its limit has been sent to   *)
(* everyone who was a member at any time since, or is their own: an answer *)
(* that names a member again has nothing to make up for.                   *)
WaitingReachedAll ==
    \A id \in txQueue :
        AtLimit(id) \/ cast[id].seen \subseteq cast[id].to \cup {cast[id].origin}

(* The limit of the network at the time bounds the receivers, the bridges  *)
(* apart when the queue is skipped.                                        *)
WithinLimit ==
    \A id \in 1..count :
        cast[id].way # "replicator"
        => Cardinality(cast[id].to \ cast[id].extra) <= cast[id].limit

(* A multicast that is queued for want of members asks for more: upstreams *)
(* and the controller, or the first receiver.                              *)
SomeoneIsAsked == \A id \in Queued : cast[id].asked \/ cast[id].to # {}

(* Multicaster.hpp: "Origin of multicast (to not return to sender)" *)
OriginSpared == \A id \in 1..count : cast[id].origin \notin cast[id].to
=============================================================================
