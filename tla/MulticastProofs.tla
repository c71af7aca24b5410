--------------------------- MODULE MulticastProofs ---------------------------
(* For any network, queue and number of multicasts: a multicast is sent    *)
(* once to each, within its limit, and to all while it waits.              *)
EXTENDS Multicast, FiniteSetTheorems, WellFoundedInduction, TLAPS

(* The log of a queued multicast is its receivers and its origin. *)
Logged(out) ==
    /\ out.log = Sender(out.origin) \cup out.to
    /\ out.size = Cardinality(out.to) + (IF out.origin = None THEN 0 ELSE 1)
    /\ out.extra = {}

(* A multicast below its limit has been sent to all members since, and the *)
(* receivers of any but a replicated one are within its limit.             *)
Reached(out) == out.size >= out.limit \/ out.seen \subseteq out.to \cup {out.origin}

Bounded(out) ==
    out.way # "replicator" => Cardinality(out.to \ out.extra) <= out.limit

Sound(out) ==
    /\ Bounded(out)
    /\ out.way = "queued" => /\ Logged(out) /\ Reached(out)
                             /\ out.asked \/ out.to # {}

IInv ==
    /\ TypeOK
    /\ txQueue \subseteq Queued
    /\ \A id \in 1..count : Sound(cast[id])

LEMMA Smallest ==
    ASSUME NEW T \in SUBSET Nat, T # {}
    PROVE  \E x \in T : T \ { y \in T : \A z \in T : y <= z } = T \ {x}
<1>1. PICK x \in T : \A y \in T : <<y, x>> \notin OpToRel(<, Nat)
  BY NatLessThanWellFounded, WFMin, Zenon
<1>2. ASSUME NEW y \in T
      PROVE  x <= y
  <2>1. <<y, x>> \notin { ss \in Nat \X Nat : ss[1] < ss[2] }
    BY <1>1 DEF OpToRel
  <2>2. ~(y < x)
    BY <2>1
  <2> QED BY <2>2
<1>3. { y \in T : \A z \in T : y <= z } = {x}
  <2>1. x \in { y \in T : \A z \in T : y <= z }
    BY <1>2
  <2>2. ASSUME NEW y \in T, \A z \in T : y <= z
        PROVE  y = x
    <3>1. y <= x /\ x <= y /\ x \in Nat /\ y \in Nat
      BY <1>2, <2>2
    <3> QED BY <3>1
  <2> QED BY <2>1, <2>2
<1> QED BY <1>3

LEMMA OneMore ==
    ASSUME NEW S, NEW x, IsFiniteSet(S)
    PROVE  /\ Cardinality(S) \in Nat /\ Cardinality(S \cup {x}) \in Nat
           /\ Cardinality(S \cup {x}) <= Cardinality(S) + 1
<1>1. IsFiniteSet(S \cup {x})
  BY FS_AddElement
<1>2. Cardinality(S) \in Nat /\ Cardinality(S \cup {x}) \in Nat
  BY <1>1, FS_CardinalityType
<1>3. Cardinality(S \cup {x}) = IF x \in S THEN Cardinality(S) ELSE Cardinality(S) + 1
  BY FS_AddElement
<1> QED BY <1>2, <1>3

LEMMA PicksBounded ==
    ASSUME NEW S \in SUBSET Node, NEW k \in Nat, NEW T \in Picks(S, k)
    PROVE  /\ T \subseteq S /\ IsFiniteSet(T)
           /\ Cardinality(T) \in Nat /\ Cardinality(T) <= k
           /\ Cardinality(T) < k => T = S
           /\ S # {} /\ k > 0 => T # {}
<1>1. IsFiniteSet(S) /\ Cardinality(S) \in Nat
  BY FS_Subset, FS_CardinalityType, MulticastConstants
<1>2. T \in SUBSET S /\ Cardinality(T) = IF Cardinality(S) <= k THEN Cardinality(S) ELSE k
  BY DEF Picks
<1>3. /\ IsFiniteSet(T) /\ Cardinality(T) \in Nat
      /\ Cardinality(S) = Cardinality(T) => S = T
  BY <1>1, <1>2, FS_Subset, FS_CardinalityType
<1>4. S # {} => Cardinality(S) # 0
  BY <1>1, FS_EmptySet
<1>5. T = {} => Cardinality(T) = 0
  BY FS_EmptySet
<1> QED BY <1>1, <1>2, <1>3, <1>4, <1>5

------------------------------------------------------------------------------

LEMMA Initially == Init => IInv
<1> SUFFICES ASSUME Init PROVE IInv
  OBVIOUS
<1>1. TypeOK
  BY MulticastConstants, FS_EmptySet DEF Init, TypeOK, Cast
<1>2. 1..count = {}
  BY DEF Init
<1> QED BY <1>1, <1>2 DEF Init, IInv

(* Another multicast *)
LEMMA SentKeeps ==
    ASSUME IInv, NEW out \in Cast, Sent(out), Sound(out)
    PROVE  /\ count' = count + 1 /\ (count \in 0..MaxCasts)' /\ (cast \in [Id -> Cast])'
           /\ \A id \in 1..count : cast'[id] = cast[id]
           /\ cast'[count + 1] = out
           /\ (\A id \in 1..count : Sound(cast[id]))'
           /\ txQueue \subseteq Queued'
<1>1. count \in Nat /\ MaxCasts \in Nat /\ count + 1 \in Id /\ 1..count \subseteq Id
  BY MulticastConstants DEF IInv, TypeOK, Sent, Id
<1>2. /\ count' = count + 1 /\ (count \in 0..MaxCasts)' /\ (cast \in [Id -> Cast])'
      /\ cast'[count + 1] = out
      /\ \A id \in 1..count : cast'[id] = cast[id]
  BY <1>1 DEF IInv, TypeOK, Sent
<1>3. 1..(count + 1) = (1..count) \cup {count + 1}
  BY <1>1
<1>4. (\A id \in 1..count : Sound(cast[id]))'
  <2> SUFFICES ASSUME NEW id \in 1..count'
               PROVE  Sound(cast'[id])
    OBVIOUS
  <2>1. CASE id = count + 1
    BY <1>2, <2>1
  <2>2. CASE id \in 1..count
    <3>1. Sound(cast[id])
      BY <2>2 DEF IInv
    <3> QED BY <1>2, <2>2, <3>1
  <2> QED BY <1>2, <1>3, <2>1, <2>2
<1>5. txQueue \subseteq Queued'
  BY <1>2, <1>3 DEF IInv, Queued
<1> QED BY <1>2, <1>4, <1>5

LEMMA MembersType == IInv => Members \subseteq Node \ {Self}
BY DEF IInv, TypeOK, Members

LEMMA SenderType ==
    ASSUME NEW origin \in Node \cup {None}
    PROVE  /\ Sender(origin) \subseteq Node
           /\ Cardinality(Sender(origin)) = IF origin = None THEN 0 ELSE 1
BY FS_EmptySet, FS_Singleton DEF Sender

LEMMA ConfigType ==
    IInv => config.limit \in Nat \ {0} /\ config.bridges \subseteq Node
BY MulticastConstants DEF IInv, TypeOK

LEMMA OutboundType ==
    ASSUME IInv, NEW origin \in Node \cup {None},
           NEW way \in {"replicator", "once", "queued"}, NEW extra \in SUBSET Node,
           NEW to \in SUBSET Node, NEW out, out = Outbound(origin, way, extra, to)
    PROVE  out \in Cast
<1> DEFINE log == IF way = "queued" THEN Sender(origin) \cup to ELSE {}
           size == IF way = "queued" THEN Cardinality(Sender(origin)) + Cardinality(to) ELSE 0
           asked == way = "queued" /\ GatherDue
<1>1. IsFiniteSet(to) /\ Cardinality(to) \in Nat
  BY FS_Subset, FS_CardinalityType, MulticastConstants
<1>2. log \subseteq Node /\ size \in Nat /\ asked \in BOOLEAN
  BY <1>1, SenderType DEF GatherDue
<1>3. Members \subseteq Node /\ now \in Nat /\ config.limit \in Nat
  BY MembersType, ConfigType DEF IInv, TypeOK
<1>4. out = [origin |-> origin, stamp |-> now, limit |-> config.limit, log |-> log, size |-> size,
             way |-> way, extra |-> extra, to |-> to, asked |-> asked, seen |-> Members]
  BY DEF Outbound
<1> HIDE DEF log, size, asked
<1> QED BY <1>2, <1>3, <1>4 DEF Cast

LEMMA OutboundFields ==
    ASSUME NEW origin, NEW way, NEW extra, NEW to, NEW out, out = Outbound(origin, way, extra, to)
    PROVE  /\ out.origin = origin /\ out.limit = config.limit /\ out.way = way
           /\ out.extra = extra /\ out.to = to /\ out.seen = Members
BY DEF Outbound

LEMMA OutboundAsked ==
    ASSUME NEW origin, NEW way, NEW extra, NEW to,
           NEW out, out = Outbound(origin, way, extra, to), way = "queued", GatherDue
    PROVE  out.asked
<1> DEFINE asked == way = "queued" /\ GatherDue
           log == IF way = "queued" THEN Sender(origin) \cup to ELSE {}
           size == IF way = "queued" THEN Cardinality(Sender(origin)) + Cardinality(to) ELSE 0
<1>1. asked
  OBVIOUS
<1>2. out = [origin |-> origin, stamp |-> now, limit |-> config.limit, log |-> log, size |-> size,
             way |-> way, extra |-> extra, to |-> to, asked |-> asked, seen |-> Members]
  BY DEF Outbound
<1> HIDE DEF asked, log, size
<1>3. out.asked = asked
  BY <1>2
<1> QED BY <1>1, <1>3, Zenon

LEMMA ReplicatorKeeps ==
    ASSUME IInv, NEW r \in Node, SendToReplicator(r)
    PROVE  IInv'
<1> DEFINE out == Outbound(None, "replicator", {}, {r})
<1>1. out \in Cast /\ out.way = "replicator"
  <2>1. None \in Node \cup {None} /\ {} \in SUBSET Node /\ {r} \in SUBSET Node
    OBVIOUS
  <2>2. "replicator" \in {"replicator", "once", "queued"} /\ out = Outbound(None, "replicator", {}, {r})
    OBVIOUS
  <2> HIDE DEF out
  <2> QED BY <2>1, <2>2, OutboundType, OutboundFields
<1>2. Sound(out)
  BY <1>1 DEF Sound, Bounded
<1>3. Sent(out)
  BY DEF SendToReplicator
<1> HIDE DEF out
<1> QED BY <1>1, <1>2, <1>3, SentKeeps DEF SendToReplicator, IInv, TypeOK

LEMMA OnceKeeps ==
    ASSUME IInv, NEW origin \in Node \cup {None}, SendOnce(origin)
    PROVE  IInv'
<1> DEFINE extra == config.bridges \ {Self, origin}
<1>1. PICK picked \in Picks(Plain \ {origin}, config.limit) :
         Sent(Outbound(origin, "once", extra, extra \cup picked))
  BY DEF SendOnce
<1> DEFINE out == Outbound(origin, "once", extra, extra \cup picked)
<1>2. /\ picked \subseteq Plain /\ IsFiniteSet(picked) /\ Cardinality(picked) \in Nat
      /\ Cardinality(picked) <= config.limit
  <2>1. Plain \ {origin} \in SUBSET Node /\ config.limit \in Nat
    BY MembersType, ConfigType DEF Plain
  <2> QED BY <2>1, PicksBounded
<1>3. extra \in SUBSET Node /\ extra \cup picked \in SUBSET Node
  BY <1>2, MembersType, ConfigType DEF Plain
<1>4. /\ out \in Cast /\ out.way = "once" /\ out.extra = extra
      /\ out.to = extra \cup picked /\ out.limit = config.limit
  <2>1. /\ "once" \in {"replicator", "once", "queued"}
        /\ out = Outbound(origin, "once", extra, extra \cup picked)
    OBVIOUS
  <2> HIDE DEF extra, out
  <2> QED BY <1>3, <2>1, OutboundType, OutboundFields
<1>5. Cardinality((extra \cup picked) \ extra) <= config.limit
  <2>1. (extra \cup picked) \ extra \in SUBSET picked
    OBVIOUS
  <2>2. /\ IsFiniteSet((extra \cup picked) \ extra)
        /\ Cardinality((extra \cup picked) \ extra) <= Cardinality(picked)
    BY <1>2, <2>1, FS_Subset
  <2>3. Cardinality((extra \cup picked) \ extra) \in Nat
    BY <2>2, FS_CardinalityType
  <2> QED BY <1>2, <2>2, <2>3, ConfigType
<1>6. Sent(out)
  BY <1>1
<1>7. Sound(out)
  <2> HIDE DEF out, extra
  <2> QED BY <1>4, <1>5 DEF Sound, Bounded
<1> HIDE DEF out
<1> QED BY <1>4, <1>6, <1>7, SentKeeps DEF SendOnce, IInv, TypeOK

------------------------------------------------------------------------------

LEMMA TrimmedFits ==
    ASSUME IInv
    PROVE  /\ Trimmed \subseteq txQueue
           /\ Cardinality(Trimmed \cup {count + 1}) <= QueueSize
<1>1. count \in Nat /\ txQueue \in SUBSET (1..count) /\ Cardinality(txQueue) <= QueueSize
  BY DEF IInv, TypeOK
<1>2. IsFiniteSet(txQueue)
  <2>1. IsFiniteSet(1..count)
    BY <1>1, FS_Interval
  <2> QED BY <1>1, <2>1, FS_Subset
<1>3. Cardinality(txQueue) \in Nat
  BY <1>2, FS_CardinalityType
<1>4. QueueSize \in Nat \ {0}
  BY MulticastConstants
<1>5. CASE Cardinality(txQueue) >= QueueSize
  <2>1. txQueue # {}
    BY <1>3, <1>4, <1>5, FS_EmptySet
  <2>2. txQueue \in SUBSET Nat
    BY <1>1
  <2>3. PICK x \in txQueue :
           txQueue \ { y \in txQueue : \A z \in txQueue : y <= z } = txQueue \ {x}
    BY <2>1, <2>2, Smallest
  <2>4. Trimmed = txQueue \ {x}
    BY <1>5, <2>3 DEF Trimmed
  <2>5. IsFiniteSet(Trimmed) /\ Cardinality(Trimmed) = Cardinality(txQueue) - 1
    BY <1>2, <2>4, FS_RemoveElement
  <2>6. /\ Cardinality(Trimmed \cup {count + 1}) \in Nat
        /\ Cardinality(Trimmed \cup {count + 1}) <= Cardinality(Trimmed) + 1
    BY <2>5, OneMore
  <2> QED BY <1>1, <1>3, <1>4, <2>4, <2>5, <2>6
<1>6. CASE ~(Cardinality(txQueue) >= QueueSize)
  <2>1. Trimmed = txQueue
    BY <1>6 DEF Trimmed
  <2>2. /\ Cardinality(Trimmed \cup {count + 1}) \in Nat
        /\ Cardinality(Trimmed \cup {count + 1}) <= Cardinality(txQueue) + 1
    BY <1>2, <2>1, OneMore
  <2> QED BY <1>3, <1>4, <1>6, <2>1, <2>2
<1> QED BY <1>5, <1>6

LEMMA QueuedType ==
    ASSUME IInv, NEW origin \in Node \cup {None}, NEW to \in SUBSET Node,
           NEW out, out = Outbound(origin, "queued", {}, to)
    PROVE  /\ out \in Cast /\ out.way = "queued"
           /\ out.origin = origin /\ out.limit = config.limit /\ out.extra = {} /\ out.to = to
           /\ GatherDue => out.asked
           /\ out.seen = Members
           /\ out.log = Sender(origin) \cup to
           /\ out.size = Cardinality(Sender(origin)) + Cardinality(to)
<1>1. out \in Cast
  <2>1. {} \in SUBSET Node /\ "queued" \in {"replicator", "once", "queued"}
    OBVIOUS
  <2> QED BY <2>1, OutboundType
<1>2. out = [origin |-> origin, stamp |-> now, limit |-> config.limit,
             log |-> Sender(origin) \cup to,
             size |-> Cardinality(Sender(origin)) + Cardinality(to),
             way |-> "queued", extra |-> {}, to |-> to, asked |-> "queued" = "queued" /\ GatherDue,
             seen |-> Members]
  BY DEF Outbound
<1>3. /\ out.way = "queued" /\ out.origin = origin /\ out.limit = config.limit
      /\ out.extra = {} /\ out.to = to /\ out.seen = Members
      /\ out.log = Sender(origin) \cup to
      /\ out.size = Cardinality(Sender(origin)) + Cardinality(to)
  BY <1>2
<1>4. GatherDue => out.asked
  BY OutboundAsked, Zenon
<1> QED BY <1>1, <1>3, <1>4

LEMMA QueuedKeeps ==
    ASSUME IInv, NEW origin \in Node \cup {None}, SendQueued(origin)
    PROVE  IInv'
<1>0. PICK bridges \in Picks(config.bridges \ {Self}, config.limit) :
          \E others \in Picks(Plain, config.limit - Cardinality(bridges)) :
             Sent(Outbound(origin, "queued", {}, bridges \cup others))
  BY DEF SendQueued
<1>1. PICK others \in Picks(Plain, config.limit - Cardinality(bridges)) :
          Sent(Outbound(origin, "queued", {}, bridges \cup others))
  BY <1>0
<1> DEFINE to == bridges \cup others
           out == Outbound(origin, "queued", {}, to)
<1>2. /\ bridges \subseteq config.bridges \ {Self} /\ IsFiniteSet(bridges)
      /\ Cardinality(bridges) \in Nat /\ Cardinality(bridges) <= config.limit
      /\ Cardinality(bridges) < config.limit => bridges = config.bridges \ {Self}
      /\ config.bridges \ {Self} # {} => bridges # {}
  BY ConfigType, PicksBounded
<1>3. config.limit - Cardinality(bridges) \in Nat
  BY <1>2, ConfigType
<1>4. /\ others \subseteq Plain /\ IsFiniteSet(others)
      /\ Cardinality(others) \in Nat
      /\ Cardinality(others) <= config.limit - Cardinality(bridges)
      /\ Cardinality(others) < config.limit - Cardinality(bridges) => others = Plain
      /\ Plain # {} /\ config.limit - Cardinality(bridges) > 0 => others # {}
  BY <1>3, MembersType, PicksBounded DEF Plain
<1>5. /\ to \subseteq Node /\ IsFiniteSet(to)
      /\ Cardinality(to) = Cardinality(bridges) + Cardinality(others)
  <2>1. bridges \cap others = {}
    BY <1>2, <1>4 DEF Plain
  <2>2. /\ IsFiniteSet(to)
        /\ Cardinality(to) = Cardinality(bridges) + Cardinality(others) - Cardinality(bridges \cap others)
    BY <1>2, <1>4, FS_Union
  <2>3. Cardinality(bridges \cap others) = 0
    BY <2>1, FS_EmptySet
  <2> QED BY <1>2, <1>4, <2>2, <2>3, MembersType, ConfigType DEF Plain
<1>6. Cardinality(Sender(origin)) = IF origin = None THEN 0 ELSE 1
  BY SenderType
<1>8. /\ out \in Cast /\ out.way = "queued"
      /\ out.origin = origin /\ out.limit = config.limit /\ out.extra = {} /\ out.to = to
      /\ GatherDue => out.asked
      /\ out.seen = Members
      /\ out.log = Sender(origin) \cup to
      /\ out.size = Cardinality(Sender(origin)) + Cardinality(to)
  <2>1. out = Outbound(origin, "queued", {}, to)
    OBVIOUS
  <2>2. to \in SUBSET Node
    BY <1>5
  <2> HIDE DEF to, out
  <2> QED BY <2>1, <2>2, QueuedType
<1>9. Sent(out)
  BY <1>1
<1> HIDE DEF to, out
<1>10. Logged(out)
  BY <1>2, <1>4, <1>5, <1>6, <1>8 DEF Logged
<1>11. Bounded(out)
  <2>1. to \ {} = to
    OBVIOUS
  <2>2. Cardinality(to) <= config.limit
    BY <1>2, <1>3, <1>4, <1>5, ConfigType
  <2> QED BY <1>8, <2>1, <2>2 DEF Bounded
<1>12. Reached(out)
  <2> SUFFICES ASSUME ~(out.size >= out.limit)
               PROVE  Members \subseteq to
    BY <1>8 DEF Reached
  <2>1. Cardinality(bridges) < config.limit /\ Cardinality(others) < config.limit - Cardinality(bridges)
    BY <1>2, <1>4, <1>5, <1>6, <1>8, ConfigType
  <2>2. bridges = config.bridges \ {Self} /\ others = Plain
    BY <1>2, <1>4, <2>1
  <2> QED BY <2>2, MembersType DEF to, Plain
<1>13. GatherDue \/ to # {}
  <2> SUFFICES ASSUME ~GatherDue, bridges = {}
               PROVE  others # {}
    BY DEF to
  <2>1. Members # {}
    BY DEF GatherDue
  <2>2. config.bridges \ {Self} = {}
    BY <1>2
  <2>3. Plain # {}
    BY <2>1, <2>2, MembersType DEF Plain
  <2>4. Cardinality(bridges) = 0
    BY FS_EmptySet
  <2> QED BY <1>4, <2>3, <2>4, ConfigType
<1>14. Sound(out)
  BY <1>8, <1>10, <1>11, <1>12, <1>13 DEF Sound
<1>17. /\ count' = count + 1 /\ (count \in 0..MaxCasts)' /\ (cast \in [Id -> Cast])'
       /\ cast'[count + 1] = out
       /\ (\A id \in 1..count : Sound(cast[id]))'
       /\ txQueue \subseteq Queued'
  BY <1>8, <1>9, <1>14, SentKeeps
<1>18. txQueue' = Trimmed \cup {count + 1} /\ UNCHANGED <<config, now, liked>>
  BY DEF SendQueued
<1>19. lastGather' \in Nat
  BY DEF SendQueued, IInv, TypeOK
<1>20. count \in Nat /\ txQueue \subseteq 1..count
  BY DEF IInv, TypeOK
<1>21. count + 1 \in Queued'
  BY <1>8, <1>17, <1>20 DEF Queued
<1>22. (txQueue \subseteq Queued)'
  BY <1>17, <1>18, <1>21, TrimmedFits
<1>23. (txQueue \subseteq 1..count)'
  <2>1. 1..count \subseteq 1..count' /\ count + 1 \in 1..count'
    BY <1>17, <1>20
  <2> QED BY <1>18, <1>20, <2>1, TrimmedFits
<1>24. TypeOK'
  BY <1>17, <1>18, <1>19, <1>23, TrimmedFits DEF IInv, TypeOK
<1> QED BY <1>17, <1>22, <1>24 DEF IInv

------------------------------------------------------------------------------

LEMMA OnwardSound ==
    ASSUME IInv, NEW id \in txQueue, NEW new \in SUBSET Node, NEW to \in Taken(id, new)
    PROVE  /\ Onward(id, to, new) \in Cast /\ Onward(id, to, new).way = "queued"
           /\ Sound(Onward(id, to, new))
<1> DEFINE out == cast[id]
           onward == Onward(id, to, new)
<1>1. out \in Cast /\ out.way = "queued" /\ Sound(out)
  <2>1. id \in 1..count /\ 1..count \subseteq Id
    BY MulticastConstants DEF IInv, TypeOK, Id
  <2> QED BY <2>1 DEF IInv, TypeOK, Queued
<1>2. out.limit \in Nat /\ out.size \in Nat /\ out.to \in SUBSET Node /\ out.log \in SUBSET Node
  BY <1>1 DEF Cast
<1>3. NotYetSent(id, new) \in SUBSET Node
  BY DEF NotYetSent
<1>4. /\ to \subseteq NotYetSent(id, new) /\ IsFiniteSet(to) /\ Cardinality(to) \in Nat
      /\ AtLimit(id) => Cardinality(to) = 0
      /\ ~AtLimit(id) => /\ Cardinality(to) <= out.limit - out.size
                         /\ Cardinality(to) < out.limit - out.size => to = NotYetSent(id, new)
  <2>1. CASE AtLimit(id)
    <3>1. to \in Picks(NotYetSent(id, new), 0) /\ 0 \in Nat
      BY <2>1 DEF Taken
    <3>2. /\ to \subseteq NotYetSent(id, new) /\ IsFiniteSet(to) /\ Cardinality(to) \in Nat
          /\ Cardinality(to) <= 0
      BY <1>3, <3>1, PicksBounded
    <3> QED BY <2>1, <3>2
  <2>2. CASE ~AtLimit(id)
    <3>1. out.limit - out.size \in Nat
      BY <1>2, <2>2 DEF AtLimit
    <3>2. to \in Picks(NotYetSent(id, new), out.limit - out.size)
      BY <2>2 DEF Taken
    <3>3. /\ to \subseteq NotYetSent(id, new) /\ IsFiniteSet(to) /\ Cardinality(to) \in Nat
          /\ Cardinality(to) <= out.limit - out.size
          /\ Cardinality(to) < out.limit - out.size => to = NotYetSent(id, new)
      <4> DEFINE k == out.limit - out.size
      <4> HIDE DEF k
      <4>1. k \in Nat /\ to \in Picks(NotYetSent(id, new), k)
        BY <3>1, <3>2 DEF k
      <4>2. /\ to \subseteq NotYetSent(id, new) /\ IsFiniteSet(to) /\ Cardinality(to) \in Nat
            /\ Cardinality(to) <= k
            /\ Cardinality(to) < k => to = NotYetSent(id, new)
        BY <1>3, <4>1, PicksBounded
      <4> QED BY <4>2 DEF k
    <3> QED BY <2>2, <3>3
  <2> QED BY <2>1, <2>2
<1>5. onward = [origin |-> out.origin, stamp |-> out.stamp, limit |-> out.limit,
                log |-> out.log \cup to, size |-> out.size + Cardinality(to), way |-> out.way,
                extra |-> out.extra, to |-> out.to \cup to, asked |-> out.asked,
                seen |-> out.seen \cup new]
  <2>1. out = [origin |-> out.origin, stamp |-> out.stamp, limit |-> out.limit,
                log |-> out.log, size |-> out.size, way |-> out.way, extra |-> out.extra,
                to |-> out.to, asked |-> out.asked, seen |-> out.seen]
    BY <1>1 DEF Cast
  <2>2. onward = [out EXCEPT !.log = @ \cup to, !.size = @ + Cardinality(to),
                             !.to = @ \cup to, !.seen = @ \cup new]
    BY DEF Onward
  <2> HIDE DEF out, onward
  <2> QED BY <2>1, <2>2, Zenon
<1>6. to \subseteq Node
  BY <1>3, <1>4
<1>7. onward \in Cast
  BY <1>1, <1>4, <1>5, <1>6 DEF Cast
<1>8. Cardinality(out.to \cup to) = Cardinality(out.to) + Cardinality(to) /\ Cardinality(out.to) \in Nat
  <2>1. IsFiniteSet(out.to) /\ Cardinality(out.to) \in Nat
    BY <1>2, FS_Subset, FS_CardinalityType, MulticastConstants
  <2>2. out.to \cap to = {}
    BY <1>1, <1>4 DEF Sound, Logged, NotYetSent
  <2>3. Cardinality(out.to \cup to) = Cardinality(out.to) + Cardinality(to) - Cardinality(out.to \cap to)
    BY <1>4, <2>1, FS_Union
  <2>4. Cardinality(out.to \cap to) = 0
    BY <2>2, FS_EmptySet
  <2> QED BY <1>4, <2>1, <2>3, <2>4
<1>9. /\ onward.origin = out.origin /\ onward.limit = out.limit /\ onward.way = "queued"
      /\ onward.extra = out.extra /\ onward.to = out.to \cup to /\ onward.asked = out.asked
      /\ onward.log = out.log \cup to /\ onward.size = out.size + Cardinality(to)
      /\ onward.seen = out.seen \cup new
  BY <1>1, <1>5
<1>10. /\ out.log = Sender(out.origin) \cup out.to
       /\ out.size = Cardinality(out.to) + (IF out.origin = None THEN 0 ELSE 1)
       /\ out.extra = {} /\ Reached(out) /\ (out.asked \/ out.to # {})
       /\ Cardinality(out.to) <= out.limit
  <2>1. out.to \ {} = out.to
    OBVIOUS
  <2> QED BY <1>1, <2>1 DEF Sound, Logged, Bounded
<1> HIDE DEF out, onward
<1>11. Logged(onward)
  BY <1>2, <1>4, <1>8, <1>9, <1>10 DEF Logged
<1>12. Bounded(onward)
  <2>1. (out.to \cup to) \ {} = out.to \cup to
    OBVIOUS
  <2>2. AtLimit(id) <=> out.size >= out.limit
    BY DEF AtLimit, out
  <2>3. Cardinality(out.to \cup to) <= out.limit
    BY <1>2, <1>4, <1>8, <1>10, <2>2
  <2> QED BY <1>9, <1>10, <2>1, <2>3 DEF Bounded
<1>13. Reached(onward)
  <2> SUFFICES ASSUME ~(onward.size >= onward.limit)
               PROVE  out.seen \cup new \subseteq out.to \cup to \cup {out.origin}
    BY <1>9 DEF Reached
  <2>1. ~AtLimit(id) /\ ~(out.size >= out.limit) /\ Cardinality(to) < out.limit - out.size
    BY <1>2, <1>4, <1>9 DEF AtLimit, out
  <2>2. out.seen \subseteq out.to \cup {out.origin}
    BY <1>10, <2>1 DEF Reached
  <2>3. to = NotYetSent(id, new)
    BY <1>4, <2>1
  <2>4. new \subseteq out.log \cup to
    BY <2>3 DEF NotYetSent, out
  <2> QED BY <1>10, <2>2, <2>4 DEF Sender
<1> QED BY <1>7, <1>9, <1>10, <1>11, <1>12, <1>13 DEF Sound, onward

LEMMA AddKeeps ==
    ASSUME IInv, NEW heard \in SUBSET Node, Add(heard)
    PROVE  IInv'
<1> DEFINE new == heard \ (Members \cup {Self})
<1>1. PICK taken \in [txQueue -> SUBSET new] :
         /\ \A id \in txQueue : taken[id] \in Taken(id, new)
         /\ cast' = [id \in Id |-> IF id \in txQueue THEN Onward(id, taken[id], new) ELSE cast[id]]
         /\ txQueue' = IF new = {} THEN txQueue
                       ELSE { id \in txQueue : cast'[id].size < cast[id].limit }
  BY DEF Add
<1>2. UNCHANGED <<config, now, lastGather, count>>
  BY DEF Add
<1>3. txQueue' \subseteq txQueue
  BY <1>1
<1>4. /\ 1..count \subseteq Id /\ txQueue \subseteq 1..count /\ cast \in [Id -> Cast]
      /\ txQueue \subseteq Queued /\ \A id \in 1..count : Sound(cast[id])
  BY MulticastConstants DEF IInv, TypeOK, Id
<1>5. new \in SUBSET Node
  OBVIOUS
<1> HIDE DEF new
<1>6. ASSUME NEW id \in txQueue
      PROVE  cast'[id] \in Cast /\ cast'[id].way = "queued" /\ Sound(cast'[id])
  <2>1. taken[id] \in Taken(id, new) /\ cast'[id] = Onward(id, taken[id], new)
    BY <1>1, <1>4
  <2> QED BY <1>5, <2>1, OnwardSound
<1>7. \A id \in Id \ txQueue : cast'[id] = cast[id]
  BY <1>1
<1>8. cast' \in [Id -> Cast]
  <2>1. \A id \in Id : cast'[id] \in Cast
    BY <1>4, <1>6, <1>7
  <2>2. cast' = [id \in Id |-> cast'[id]]
    BY <1>1
  <2> QED BY <2>1, <2>2
<1>9. (\A id \in 1..count : Sound(cast[id]))'
  <2> SUFFICES ASSUME NEW id \in 1..count
               PROVE  Sound(cast'[id])
    BY <1>2
  <2> QED BY <1>4, <1>6, <1>7
<1>10. (txQueue \subseteq Queued)'
  BY <1>2, <1>3, <1>4, <1>6 DEF Queued
<1>11. liked' \in [Node -> Nat] /\ liked'[Self] = 0
  BY MulticastConstants DEF Add, IInv, TypeOK
<1>12. Cardinality(txQueue') <= QueueSize
  <2>0. IsFiniteSet(1..count)
    BY FS_Interval DEF IInv, TypeOK
  <2>1. IsFiniteSet(txQueue)
    BY <1>4, <2>0, FS_Subset
  <2>2. /\ IsFiniteSet(txQueue') /\ Cardinality(txQueue') <= Cardinality(txQueue)
    BY <1>3, <2>1, FS_Subset
  <2>3. Cardinality(txQueue') \in Nat /\ Cardinality(txQueue) \in Nat
    BY <2>1, <2>2, FS_CardinalityType
  <2> QED BY <2>2, <2>3, MulticastConstants DEF IInv, TypeOK
<1>13. TypeOK'
  BY <1>2, <1>3, <1>4, <1>8, <1>11, <1>12 DEF IInv, TypeOK
<1> QED BY <1>9, <1>10, <1>13 DEF IInv

(* Fewer multicasts wait, and all that was sent is as it was. *)
LEMMA RestKeeps ==
    ASSUME IInv, UNCHANGED <<count, cast>>, txQueue' \subseteq txQueue,
           config' \in Config, now' \in Nat, lastGather' \in Nat,
           liked' \in [Node -> Nat], liked'[Self] = 0
    PROVE  IInv'
<1>1. txQueue \subseteq 1..count /\ Cardinality(txQueue) <= QueueSize /\ count \in Nat
  BY DEF IInv, TypeOK
<1>2. Cardinality(txQueue') <= QueueSize
  <2>0. IsFiniteSet(1..count)
    BY <1>1, FS_Interval
  <2>1. IsFiniteSet(txQueue)
    BY <1>1, <2>0, FS_Subset
  <2>2. /\ IsFiniteSet(txQueue') /\ Cardinality(txQueue') <= Cardinality(txQueue)
    BY <2>1, FS_Subset
  <2>3. Cardinality(txQueue') \in Nat /\ Cardinality(txQueue) \in Nat
    BY <2>1, <2>2, FS_CardinalityType
  <2> QED BY <1>1, <2>2, <2>3, MulticastConstants
<1>3. TypeOK'
  BY <1>1, <1>2 DEF IInv, TypeOK
<1>4. (txQueue \subseteq Queued)'
  BY DEF IInv, Queued
<1>5. (\A id \in 1..count : Sound(cast[id]))'
  <2> SUFFICES ASSUME NEW id \in 1..count
               PROVE  Sound(cast[id])
    OBVIOUS
  <2> QED BY DEF IInv
<1> QED BY <1>3, <1>4, <1>5 DEF IInv

LEMMA Step == IInv /\ [Next]_vars => IInv'
<1> SUFFICES ASSUME IInv, [Next]_vars PROVE IInv'
  OBVIOUS
<1>0. config \in Config /\ now \in Nat /\ lastGather \in Nat /\ liked \in [Node -> Nat] /\ liked[Self] = 0
  BY DEF IInv, TypeOK
<1>1. ASSUME NEW r \in Node, SendToReplicator(r) PROVE IInv'
  BY <1>1, ReplicatorKeeps
<1>2. ASSUME NEW origin \in Node \cup {None}, SendOnce(origin) PROVE IInv'
  BY <1>2, OnceKeeps
<1>3. ASSUME NEW origin \in Node \cup {None}, SendQueued(origin) PROVE IInv'
  BY <1>3, QueuedKeeps
<1>4. ASSUME NEW heard \in SUBSET Node, Add(heard) PROVE IInv'
  BY <1>4, AddKeeps
<1>5. ASSUME NEW n \in Node, Remove(n) PROVE IInv'
  BY <1>0, <1>5, RestKeeps DEF Remove
<1>6. CASE Clean
  <2>1. liked' \in [Node -> Nat] /\ liked'[Self] = 0
    BY <1>0, <1>6, MulticastConstants DEF Clean
  <2>2. lastGather' \in Nat /\ txQueue' \subseteq txQueue /\ UNCHANGED <<config, now, count, cast>>
    BY <1>0, <1>6 DEF Clean
  <2> QED BY <1>0, <2>1, <2>2, RestKeeps
<1>7. ASSUME NEW c \in Config, SetConfiguration(c) PROVE IInv'
  BY <1>0, <1>7, RestKeeps DEF SetConfiguration
<1>8. CASE Tick
  BY <1>0, <1>8, RestKeeps DEF Tick
<1>9. CASE UNCHANGED vars
  BY <1>0, <1>9, RestKeeps DEF vars
<1> QED BY <1>1, <1>2, <1>3, <1>4, <1>5, <1>6, <1>7, <1>8, <1>9 DEF Next

------------------------------------------------------------------------------

LEMMA Invariant == Spec => []IInv
BY Initially, Step, PTL DEF Spec

LEMMA IInvImplies ==
    IInv => TypeOK /\ NeverTwice /\ WaitingReachedAll /\ WithinLimit /\ SomeoneIsAsked
<1> SUFFICES ASSUME IInv
             PROVE  TypeOK /\ NeverTwice /\ WaitingReachedAll /\ WithinLimit /\ SomeoneIsAsked
  OBVIOUS
<1>1. TypeOK /\ txQueue \subseteq Queued /\ \A id \in 1..count : Sound(cast[id])
  BY DEF IInv
<1>2. NeverTwice /\ SomeoneIsAsked
  BY <1>1 DEF NeverTwice, SomeoneIsAsked, Queued, Sound, Logged
<1>3. WaitingReachedAll
  BY <1>1 DEF WaitingReachedAll, Queued, Sound, Reached, AtLimit
<1>4. WithinLimit
  BY <1>1 DEF WithinLimit, Sound, Bounded
<1> QED BY <1>1, <1>2, <1>3, <1>4

(* Members, multicasts and the queue keep their types, and the queue never *)
(* holds more than ZT_TX_QUEUE_SIZE multicasts.                            *)
THEOREM MulticastTypes == Spec => []TypeOK
BY Invariant, IInvImplies, PTL

(* No receiver gets a queued multicast twice. *)
THEOREM SentOnce == Spec => []NeverTwice
BY Invariant, IInvImplies, PTL

(* Whoever was a member while a multicast waits below its limit has had it. *)
THEOREM NobodyMissed == Spec => []WaitingReachedAll
BY Invariant, IInvImplies, PTL

(* The limit bounds the receivers of a multicast. *)
THEOREM LimitKept == Spec => []WithinLimit
BY Invariant, IInvImplies, PTL

(* A queued multicast always asks somebody for members. *)
THEOREM AlwaysAsked == Spec => []SomeoneIsAsked
BY Invariant, IInvImplies, PTL
=============================================================================
