---------------------------- MODULE RxQueueProofs ----------------------------
(* For any number of threads, entries, packets and parts: no packet is put *)
(* together from the parts of two, and one whose parts have all come, in   *)
(* any order, is put together.                                             *)
EXTENDS RxQueue, FiniteSetTheorems, TLAPS

(* The parts an entry has are of its packet; a complete one has them all.  *)
Sound(e) ==
    /\ InUse(e) => e.packetId \in Packet
    /\ e.packetId \in Packet =>
          /\ e.haveFragments \subseteq PartsOf(e.packetId)
          /\ e.totalFragments \in {0, Parts[e.packetId]}
          /\ \A f \in e.haveFragments : e.parts[f] = e.packetId
          /\ e.complete => e.haveFragments = PartsOf(e.packetId)

(* What a thread is at is a part of a packet. *)
Works(w) ==
    /\ w.at \in {"next", "handle"} => w.packet \in Packet /\ w.part \in PartsOf(w.packet)
    /\ w.at \in {"queue", "store"} => w.packet \in Packet /\ Parts[w.packet] = 1

IInv ==
    /\ TypeOK
    /\ \A s \in Slot : Sound(rxQueue[s])
    /\ \A t \in Thread : Works(thread[t])
    /\ WholePackets

LEMMA PartsFacts ==
    ASSUME NEW p \in Packet
    PROVE  /\ Parts[p] \in Nat \ {0} /\ PartsOf(p) \subseteq Part /\ 0 \in PartsOf(p)
           /\ p # 0
BY RxQueueConstants DEF PartsOf, Part

LEMMA PartsCounted ==
    ASSUME NEW p \in Packet
    PROVE  IsFiniteSet(PartsOf(p)) /\ Cardinality(PartsOf(p)) = Parts[p]
<1>0. Parts[p] \in Nat \ {0}
  BY PartsFacts
<1>1. 0 \in Int /\ Parts[p] - 1 \in Int /\ ~(0 > Parts[p] - 1)
  BY <1>0
<1>2. /\ IsFiniteSet(0..(Parts[p] - 1))
      /\ Cardinality(0..(Parts[p] - 1)) = (Parts[p] - 1) - 0 + 1
  BY <1>1, FS_Interval
<1>3. (Parts[p] - 1) - 0 + 1 = Parts[p]
  BY <1>0
<1> QED BY <1>2, <1>3 DEF PartsOf

LEMMA InRing == \A ptr \in Slot : Incr(ptr) \in Slot
BY RxQueueConstants DEF Slot, Incr

LEMMA EntryFields ==
    ASSUME NEW e \in Entry
    PROVE  /\ e.timestamp \in {"free", "recent", "old"} /\ e.packetId \in Packet \cup {0}
           /\ e.haveFragments \subseteq Part /\ e.totalFragments \in Nat
           /\ e.complete \in BOOLEAN /\ e.parts \in [Part -> Packet \cup {0}]
BY DEF Entry

LEMMA StartedSound ==
    ASSUME NEW e \in Entry, NEW p \in Packet, NEW f \in PartsOf(p)
    PROVE  Started(e, p, f) \in Entry /\ Sound(Started(e, p, f))
<1>1. f \in Part /\ Parts[p] \in Nat
  BY PartsFacts
<1>2. [e.parts EXCEPT ![f] = p] \in [Part -> Packet \cup {0}] /\ [e.parts EXCEPT ![f] = p][f] = p
  BY <1>1, EntryFields
<1>3. Started(e, p, f) \in Entry
  BY <1>1, <1>2 DEF Started, Entry
<1>4. Sound(Started(e, p, f))
  BY <1>2 DEF Started, Sound, InUse
<1> QED BY <1>3, <1>4

LEMMA AddedSound ==
    ASSUME NEW e \in Entry, Sound(e), NEW f \in PartsOf(e.packetId), e.packetId \in Packet,
           f \notin e.haveFragments
    PROVE  LET m == Added(e, e.packetId, f)
           IN /\ m \in Entry /\ Sound(m) /\ m.packetId = e.packetId
              /\ HasAll(m) => m.haveFragments = PartsOf(e.packetId)
<1> DEFINE p == e.packetId
           m == Added(e, p, f)
<1>1. f \in Part /\ Parts[p] \in Nat \ {0}
  BY PartsFacts
<1>2. [e.parts EXCEPT ![f] = p] \in [Part -> Packet \cup {0}]
  BY <1>1, EntryFields
<1>3. /\ m.packetId = p /\ m.haveFragments = e.haveFragments \cup {f}
      /\ m.totalFragments = (IF f = 0 THEN e.totalFragments ELSE Parts[p])
      /\ m.timestamp = e.timestamp /\ m.complete = e.complete
      /\ m.parts = [e.parts EXCEPT ![f] = p]
  BY DEF Added
<1>4. m \in Entry
  BY <1>1, <1>2, EntryFields DEF Added, Entry
<1>5. ~e.complete
  BY DEF Sound
<1>6. \A g \in m.haveFragments : m.parts[g] = p
  BY <1>1, <1>3, EntryFields DEF Sound
<1>7. m.haveFragments \in SUBSET PartsOf(p) /\ m.totalFragments \in {0, Parts[p]}
  BY <1>3 DEF Sound
<1>8. Sound(m)
  BY <1>3, <1>5, <1>6, <1>7 DEF Sound
<1>9. ASSUME HasAll(m) PROVE m.haveFragments = PartsOf(p)
  <2>1. Cardinality(m.haveFragments) = Parts[p]
    BY <1>1, <1>7, <1>9 DEF HasAll
  <2>2. IsFiniteSet(PartsOf(p)) /\ Cardinality(PartsOf(p)) = Parts[p]
    BY PartsCounted
  <2> QED BY <1>7, <2>1, <2>2, FS_Subset
<1> QED BY <1>3, <1>4, <1>8, <1>9

(* What is decoded of an entry that has all parts is whole. *)
LEMMA ContentsWhole ==
    ASSUME NEW e \in Entry, Sound(e), e.packetId \in Packet,
           e.haveFragments = PartsOf(e.packetId)
    PROVE  \A d \in Decoding(e) :
               /\ d.packet \in Packet /\ d.parts \in [PartsOf(d.packet) -> Packet \cup {0}]
               /\ \A f \in PartsOf(d.packet) : d.parts[f] = d.packet
BY DEF Decoding, Contents, Sound

LEMMA TriedSound ==
    ASSUME NEW e \in Entry, Sound(e), e.packetId \in Packet,
           e.haveFragments = PartsOf(e.packetId)
    PROVE  Tried(e) \in Entry /\ Sound(Tried(e))
BY DEF Tried, Entry, Sound, InUse

LEMMA FreedSound ==
    ASSUME NEW e \in Entry, Sound(e)
    PROVE  /\ [e EXCEPT !.timestamp = "free"] \in Entry /\ Sound([e EXCEPT !.timestamp = "free"])
           /\ InUse(e) => /\ [e EXCEPT !.timestamp = "old"] \in Entry
                          /\ Sound([e EXCEPT !.timestamp = "old"])
BY DEF Entry, Sound, InUse

LEMMA Initially == Init => IInv
<1> SUFFICES ASSUME Init PROVE IInv
  OBVIOUS
<1>1. 0 \in Slot
  BY RxQueueConstants DEF Slot
<1>2. rxQueue \in [Slot -> Entry] /\ \A s \in Slot : Sound(rxQueue[s])
  BY RxQueueConstants DEF Init, Entry, Sound, InUse
<1>3. thread \in [Thread -> Work] /\ \A t \in Thread : Works(thread[t])
  BY <1>1 DEF Init, Idle, Work, Works
<1>4. known \subseteq Packet /\ overlap \in BOOLEAN /\ coming \in 0..MaxComing
  <2>1. 0 \in 0..MaxComing
    BY RxQueueConstants
  <2> QED BY <2>1, RxQueueConstants DEF Init
<1>5. TypeOK
  BY <1>1, <1>2, <1>3, <1>4 DEF Init, TypeOK
<1> QED BY <1>2, <1>3, <1>5 DEF Init, IInv, WholePackets

(* What the lemmas about a step leave to say of it *)
Decodes(d) ==
    /\ d.packet \in Packet /\ d.parts \in [PartsOf(d.packet) -> Packet \cup {0}]
    /\ \A f \in PartsOf(d.packet) : d.parts[f] = d.packet

LEMMA EntryStep ==
    ASSUME IInv, NEW s \in Slot, NEW e \in Entry, Sound(e),
           rxQueue' = [rxQueue EXCEPT ![s] = e]
    PROVE  rxQueue' \in [Slot -> Entry] /\ \A o \in Slot : Sound(rxQueue'[o])
BY DEF IInv, TypeOK

LEMMA ThreadStep ==
    ASSUME IInv, NEW t \in Thread, NEW w \in Work, Works(w), Go(t, w)
    PROVE  thread' \in [Thread -> Work] /\ \A o \in Thread : Works(thread'[o])
BY DEF IInv, TypeOK, Go

LEMMA DecodedStep ==
    ASSUME IInv, NEW D, decoded' = decoded \cup D, \A d \in D : Decodes(d)
    PROVE  /\ WholePackets'
           /\ \A d \in decoded' : /\ d.packet \in Packet
                                  /\ d.parts \in [PartsOf(d.packet) -> Packet \cup {0}]
BY DEF IInv, TypeOK, WholePackets, Decodes

LEMMA IdleWork == Idle \in Work /\ Works(Idle)
<1>1. 0 \in Slot
  BY RxQueueConstants DEF Slot
<1> QED BY <1>1 DEF Idle, Work, Works

LEMMA Receiving ==
    ASSUME IInv, NEW t \in Thread, NEW p \in Packet
    PROVE  /\ ReceiveWhole(t, p) => IInv'
           /\ \A f \in PartsOf(p) : ReceivePart(t, p, f) => IInv'
<1>1. \A f \in PartsOf(p) : f \in Part \cup {0}
  BY PartsFacts
<1>2. 0 \in Slot /\ rxQueuePtr \in Slot
  BY RxQueueConstants DEF Slot, IInv, TypeOK
<1>3. ASSUME Comes PROVE coming' \in 0..MaxComing
  BY <1>3, RxQueueConstants DEF Comes, IInv, TypeOK
<1>4. ASSUME NEW f \in PartsOf(p), ReceivePart(t, p, f) PROVE IInv'
  <2>1. thread' \in [Thread -> Work] /\ \A o \in Thread : Works(thread'[o])
    <3>1. CASE \E s \in Slot :
                   Go(t, [at |-> "handle", packet |-> p, part |-> f, slot |-> s])
      <4> PICK s \in Slot : Go(t, [at |-> "handle", packet |-> p, part |-> f, slot |-> s])
        BY <3>1
      <4> DEFINE w == [at |-> "handle", packet |-> p, part |-> f, slot |-> s]
      <4>1. w \in Work /\ Works(w)
        BY <1>1 DEF Work, Works
      <4> QED BY <4>1, ThreadStep
    <3>2. CASE Go(t, [at |-> "next", packet |-> p, part |-> f, slot |-> rxQueuePtr])
      <4> DEFINE w == [at |-> "next", packet |-> p, part |-> f, slot |-> rxQueuePtr]
      <4>1. w \in Work /\ Works(w)
        BY <1>1, <1>2 DEF Work, Works
      <4> QED BY <3>2, <4>1, ThreadStep
    <3> QED BY <1>4, <3>1, <3>2 DEF ReceivePart
  <2>2. overlap' \in BOOLEAN
    BY <1>4 DEF ReceivePart
  <2> QED BY <1>3, <1>4, <2>1, <2>2 DEF ReceivePart, IInv, TypeOK, WholePackets
<1>5. ASSUME ReceiveWhole(t, p) PROVE IInv'
  <2>1. CASE p \in known
    <3> DEFINE d == [packet |-> p, parts |-> [f \in {0} |-> p]]
    <3>1. Decodes(d)
      <4>1. PartsOf(p) = {0}
        BY <1>5 DEF ReceiveWhole, PartsOf
      <4> QED BY <4>1 DEF Decodes
    <3>2. decoded' = decoded \cup {d} /\ arrived' = arrived \cup {<<p, 0>>}
      BY <1>5, <2>1 DEF ReceiveWhole
    <3> DEFINE D == {d}
    <3>5. decoded' = decoded \cup D /\ \A x \in D : Decodes(x)
      BY <3>1, <3>2
    <3> HIDE DEF d, D
    <3>3. WholePackets' /\ \A x \in decoded' : /\ x.packet \in Packet
                                  /\ x.parts \in [PartsOf(x.packet) -> Packet \cup {0}]
      BY <3>5, DecodedStep
    <3>4. arrived' \subseteq Packet \X Part
      BY <3>2, PartsFacts DEF IInv, TypeOK
    <3> QED BY <1>3, <1>5, <2>1, <3>3, <3>4 DEF ReceiveWhole, IInv, TypeOK
  <2>2. CASE p \notin known
    <3> DEFINE w == [at |-> "queue", packet |-> p, part |-> 0, slot |-> 0]
    <3>1. w \in Work /\ Works(w)
      BY <1>2, <1>5 DEF Work, Works, ReceiveWhole
    <3>2. thread' \in [Thread -> Work] /\ \A o \in Thread : Works(thread'[o])
      BY <1>5, <2>2, <3>1, ThreadStep DEF ReceiveWhole
    <3>3. overlap' \in BOOLEAN
      BY <1>5, <2>2 DEF ReceiveWhole
    <3> QED BY <1>3, <1>5, <2>2, <3>2, <3>3 DEF ReceiveWhole, IInv, TypeOK, WholePackets
  <2> QED BY <2>1, <2>2
<1> QED BY <1>4, <1>5

LEMMA Handling ==
    ASSUME IInv, NEW t \in Thread, Handle(t)
    PROVE  IInv'
<1> DEFINE w == thread[t]
           e == rxQueue[w.slot]
           more == Added(e, w.packet, w.part)
<1>1. /\ w.packet \in Packet /\ w.part \in PartsOf(w.packet) /\ w.slot \in Slot
      /\ w.part \in Part
  BY PartsFacts DEF Handle, IInv, TypeOK, Works, Work
<1>2. e \in Entry /\ Sound(e)
  BY <1>1 DEF IInv, TypeOK
<1>3. thread' \in [Thread -> Work] /\ \A o \in Thread : Works(thread'[o])
  BY IdleWork, ThreadStep DEF Handle
<1>4. arrived' \subseteq Packet \X Part
  BY <1>1 DEF Handle, IInv, TypeOK
<1>5. taken' \subseteq Packet
  <2>1. TakenFrom(w.slot, w.packet) \subseteq Packet
    BY <1>2 DEF TakenFrom, Sound
  <2> QED BY <2>1 DEF Handle, IInv, TypeOK
<1>6. rxQueuePtr' \in Slot /\ known' \subseteq Packet /\ overlap' \in BOOLEAN
      /\ coming' \in 0..MaxComing
  BY DEF Handle, IInv, TypeOK
<1>7. /\ rxQueue' \in [Slot -> Entry] /\ \A s \in Slot : Sound(rxQueue'[s])
      /\ WholePackets'
      /\ \A d \in decoded' : /\ d.packet \in Packet
                             /\ d.parts \in [PartsOf(d.packet) -> Packet \cup {0}]
  <2>1. CASE ~Mine(e, w.packet)
    <3>1. rxQueue' = [rxQueue EXCEPT ![w.slot] = Started(e, w.packet, w.part)]
          /\ decoded' = decoded
      BY <2>1 DEF Handle
    <3>2. Started(e, w.packet, w.part) \in Entry /\ Sound(Started(e, w.packet, w.part))
      BY <1>1, <1>2, StartedSound
    <3> QED BY <1>1, <3>1, <3>2, EntryStep DEF IInv, TypeOK, WholePackets
  <2>2. CASE Mine(e, w.packet) /\ w.part \notin e.haveFragments
    <3>1. e.packetId = w.packet
      BY <2>2 DEF Mine
    <3>2. /\ more \in Entry /\ Sound(more) /\ more.packetId = w.packet
          /\ HasAll(more) => more.haveFragments = PartsOf(w.packet)
      BY <1>1, <1>2, <2>2, <3>1, AddedSound
    <3>3. CASE HasAll(more)
      <4>1. rxQueue' = [rxQueue EXCEPT ![w.slot] = Tried(more)]
            /\ decoded' = decoded \cup Decoding(more)
        BY <2>2, <3>3 DEF Handle
      <4>2. Tried(more) \in Entry /\ Sound(Tried(more))
        BY <1>1, <3>2, <3>3, TriedSound
      <4>3. \A d \in Decoding(more) : Decodes(d)
        BY <1>1, <3>2, <3>3, ContentsWhole DEF Decodes
      <4>4. rxQueue' \in [Slot -> Entry] /\ \A s \in Slot : Sound(rxQueue'[s])
        BY <1>1, <4>1, <4>2, EntryStep
      <4> QED BY <4>1, <4>3, <4>4, DecodedStep
    <3>4. CASE ~HasAll(more)
      <4>1. rxQueue' = [rxQueue EXCEPT ![w.slot] = more] /\ decoded' = decoded
        BY <2>2, <3>4 DEF Handle
      <4> QED BY <1>1, <3>2, <4>1, EntryStep DEF IInv, TypeOK, WholePackets
    <3> QED BY <3>3, <3>4
  <2>3. CASE Mine(e, w.packet) /\ w.part \in e.haveFragments
    BY <2>3 DEF Handle, IInv, TypeOK, WholePackets
  <2> QED BY <2>1, <2>2, <2>3
<1> QED BY <1>3, <1>4, <1>5, <1>6, <1>7 DEF IInv, TypeOK

LEMMA Queueing ==
    ASSUME IInv, NEW t \in Thread, TakeNext(t) \/ TakeEntry(t) \/ Store(t)
    PROVE  IInv'
<1> DEFINE w == thread[t]
<1>1. w \in Work /\ Works(w) /\ rxQueuePtr \in Slot /\ Incr(rxQueuePtr) \in Slot
  BY InRing DEF IInv, TypeOK
<1>2. CASE TakeNext(t)
  <2> DEFINE v == [w EXCEPT !.at = "handle"]
  <2>1. v \in Work /\ Works(v)
    BY <1>1, <1>2 DEF TakeNext, Work, Works
  <2>2. thread' \in [Thread -> Work] /\ \A o \in Thread : Works(thread'[o])
    BY <1>2, <2>1, ThreadStep DEF TakeNext
  <2> QED BY <1>1, <1>2, <2>2 DEF TakeNext, IInv, TypeOK, WholePackets
<1>3. CASE TakeEntry(t)
  <2> DEFINE v == [w EXCEPT !.at = "store", !.slot = rxQueuePtr]
  <2>1. v \in Work /\ Works(v)
    BY <1>1, <1>3 DEF TakeEntry, Work, Works
  <2>2. thread' \in [Thread -> Work] /\ \A o \in Thread : Works(thread'[o])
    BY <1>3, <2>1, ThreadStep DEF TakeEntry
  <2> QED BY <1>1, <1>3, <2>2 DEF TakeEntry, IInv, TypeOK, WholePackets
<1>4. CASE Store(t)
  <2>1. w.slot \in Slot /\ w.packet \in Packet /\ Parts[w.packet] = 1
    BY <1>1, <1>4 DEF Store, Work, Works
  <2> DEFINE e == rxQueue[w.slot]
             stored == [timestamp |-> "recent", packetId |-> w.packet, haveFragments |-> {0},
                        totalFragments |-> 1, complete |-> TRUE,
                        parts |-> [e.parts EXCEPT ![0] = w.packet]]
  <2>2. e \in Entry /\ Sound(e)
    BY <2>1 DEF IInv, TypeOK
  <2>3. 0 \in Part /\ PartsOf(w.packet) = {0}
    BY <2>1, PartsFacts DEF PartsOf
  <2>4. stored \in Entry /\ Sound(stored)
    <3>1. [e.parts EXCEPT ![0] = w.packet] \in [Part -> Packet \cup {0}]
          /\ [e.parts EXCEPT ![0] = w.packet][0] = w.packet
      BY <2>1, <2>2, <2>3, EntryFields
    <3>2. stored \in Entry
      BY <2>1, <2>3, <3>1 DEF Entry
    <3> QED BY <2>1, <2>3, <3>1, <3>2 DEF Sound, InUse
  <2>5. rxQueue' \in [Slot -> Entry] /\ \A s \in Slot : Sound(rxQueue'[s])
    BY <1>4, <2>1, <2>4, EntryStep DEF Store
  <2>6. thread' \in [Thread -> Work] /\ \A o \in Thread : Works(thread'[o])
    BY <1>4, IdleWork, ThreadStep DEF Store
  <2>7. TakenFrom(w.slot, w.packet) \subseteq Packet
    BY <2>2 DEF TakenFrom, Sound
  <2>8. taken' \subseteq Packet /\ arrived' \subseteq Packet \X Part
    BY <1>4, <2>1, <2>3, <2>7 DEF Store, IInv, TypeOK
  <2> QED BY <1>4, <2>5, <2>6, <2>8 DEF Store, IInv, TypeOK, WholePackets
<1> QED BY <1>2, <1>3, <1>4

LEMMA Sweeping ==
    ASSUME IInv, NEW s \in Slot, Retry(s) \/ Age(s)
    PROVE  IInv'
<1> DEFINE e == rxQueue[s]
<1>1. e \in Entry /\ Sound(e)
  BY DEF IInv, TypeOK
<1>2. CASE Retry(s)
  <2>1. e.packetId \in Packet /\ e.haveFragments = PartsOf(e.packetId)
    BY <1>1, <1>2 DEF Retry, Waiting, Sound
  <2>2. rxQueue' = [rxQueue EXCEPT ![s] = [e EXCEPT !.timestamp = "free"]]
        /\ decoded' = decoded \cup Decoding(e)
    BY <1>2 DEF Retry
  <2>3. rxQueue' \in [Slot -> Entry] /\ \A o \in Slot : Sound(rxQueue'[o])
    BY <1>1, <2>2, FreedSound, EntryStep
  <2>4. \A d \in Decoding(e) : Decodes(d)
    BY <1>1, <2>1, ContentsWhole DEF Decodes
  <2>5. WholePackets' /\ \A d \in decoded' : /\ d.packet \in Packet
                             /\ d.parts \in [PartsOf(d.packet) -> Packet \cup {0}]
    BY <2>2, <2>4, DecodedStep
  <2>6. taken' \subseteq Packet
    BY <1>2, <2>1 DEF Retry, IInv, TypeOK
  <2> QED BY <1>2, <2>3, <2>5, <2>6 DEF Retry, IInv, TypeOK
<1>3. CASE Age(s)
  <2>1. InUse(e) /\ rxQueue' = [rxQueue EXCEPT ![s] = [e EXCEPT !.timestamp = "old"]]
    BY <1>3 DEF Age, Waiting
  <2>2. rxQueue' \in [Slot -> Entry] /\ \A o \in Slot : Sound(rxQueue'[o])
    BY <1>1, <2>1, FreedSound, EntryStep
  <2> QED BY <1>3, <2>2 DEF Age, IInv, TypeOK, WholePackets
<1> QED BY <1>2, <1>3

LEMMA Step == IInv /\ [Next]_vars => IInv'
<1> SUFFICES ASSUME IInv, [Next]_vars PROVE IInv'
  OBVIOUS
<1>1. ASSUME NEW t \in Thread, NEW p \in Packet, NEW f \in PartsOf(p), ReceivePart(t, p, f)
      PROVE  IInv'
  BY <1>1, Receiving
<1>2. ASSUME NEW t \in Thread, NEW p \in Packet, ReceiveWhole(t, p) PROVE IInv'
  BY <1>2, Receiving
<1>3. ASSUME NEW t \in Thread, Continue(t) PROVE IInv'
  BY <1>3, Handling, Queueing DEF Continue
<1>4. ASSUME NEW s \in Slot, Retry(s) \/ Age(s) PROVE IInv'
  BY <1>4, Sweeping
<1>5. ASSUME NEW p \in Packet, Learn(p) PROVE IInv'
  BY <1>5 DEF Learn, IInv, TypeOK, WholePackets
<1>6. CASE UNCHANGED vars
  BY <1>6 DEF vars, IInv, TypeOK, WholePackets
<1> QED BY <1>1, <1>2, <1>3, <1>4, <1>5, <1>6 DEF Next

(* Entries, threads and the ring keep their types, and the pointer stays   *)
(* in the ring.                                                            *)
THEOREM RxQueueTypes == Spec => []TypeOK
<1>1. IInv => TypeOK
  BY DEF IInv
<1> QED BY <1>1, Initially, Step, PTL DEF Spec

(* tryDecode is given the parts of one packet, whichever threads looked up *)
(* an entry before it was reused.                                          *)
THEOREM PacketsAreWhole == Spec => []WholePackets
<1>1. IInv => WholePackets
  BY DEF IInv
<1> QED BY <1>1, Initially, Step, PTL DEF Spec

------------------------------------------------------------------------------
(* Parts in any order *)

Settled(p) == Decoded(p) \/ p \in taken

(* As long as packet p is neither decoded nor lost, its entry has just the *)
(* parts that arrived; all of them only when tryDecode has been asked.     *)
Gathered(e, p) ==
    /\ InUse(e) /\ e.haveFragments # {}
    /\ \A f \in PartsOf(p) : f \in e.haveFragments <=> <<p, f>> \in arrived
    /\ (\E f \in e.haveFragments : f # 0) => e.totalFragments = Parts[p]
    /\ e.complete \/ e.haveFragments # PartsOf(p)

Assembles(p) ==
    /\ \A s \in Slot : rxQueue[s].packetId = p => Gathered(rxQueue[s], p)
    /\ \A s, o \in Slot :
          Parts[p] > 1 /\ rxQueue[s].packetId = p /\ rxQueue[o].packetId = p => s = o
    /\ \A f \in PartsOf(p) : <<p, f>> \in arrived => \E s \in Slot : rxQueue[s].packetId = p

(* A thread that handles a part is at the entry of its packet, unless it   *)
(* has none.                                                               *)
RightEntry(w) ==
    w.at \in {"next", "handle"} =>
        /\ Parts[w.packet] > 1
        /\ \/ Settled(w.packet)
           \/ w.at = "handle" /\ rxQueue[w.slot].packetId = w.packet
           \/ \A s \in Slot : rxQueue[s].packetId # w.packet

Alone == \A t, o \in Thread : thread[t] # Idle /\ thread[o] # Idle => t = o

Orderly ==
    /\ Alone
    /\ \A p \in Packet : Settled(p) \/ Assembles(p)
    /\ \A t \in Thread : RightEntry(thread[t])

InOrder == ~overlap => Orderly

LEMMA Monotone ==
    ASSUME NEW p, Settled(p), decoded \subseteq decoded', taken \subseteq taken'
    PROVE  Settled(p)'
BY DEF Settled, Decoded

LEMMA AloneWhenIdle ==
    ASSUME NEW t \in Thread, \A o \in Thread \ {t} : thread[o] = Idle,
           thread \in [Thread -> Work], NEW w, Go(t, w)
    PROVE  /\ Alone'
           /\ \A o \in Thread : thread'[o] = IF o = t THEN w ELSE Idle
<1>1. \A o \in Thread : thread'[o] = IF o = t THEN w ELSE thread[o]
  BY DEF Go
<1> QED BY <1>1 DEF Alone

LEMMA IdleIsRight == RightEntry(Idle) /\ RightEntry(Idle)'
BY DEF RightEntry, Idle

(* A packet is unharmed when its entries and its parts stay.               *)
LEMMA Untouched ==
    ASSUME NEW p \in Packet, Assembles(p),
           \A s \in Slot : \/ rxQueue'[s] = rxQueue[s]
                           \/ rxQueue[s].packetId # p /\ rxQueue'[s].packetId # p,
           \A f \in PartsOf(p) : <<p, f>> \in arrived' <=> <<p, f>> \in arrived
    PROVE  Assembles(p)'
<1>1. \A s \in Slot : rxQueue'[s].packetId = p <=> rxQueue[s].packetId = p
  OBVIOUS
<1>2. ASSUME NEW s \in Slot, rxQueue'[s].packetId = p PROVE Gathered(rxQueue[s], p)'
  <2>1. rxQueue'[s] = rxQueue[s] /\ Gathered(rxQueue[s], p)
    BY <1>2 DEF Assembles
  <2> QED BY <2>1 DEF Gathered, InUse
<1>3. \A s, o \in Slot :
          Parts[p] > 1 /\ rxQueue'[s].packetId = p /\ rxQueue'[o].packetId = p => s = o
  BY <1>1 DEF Assembles
<1>4. ASSUME NEW f \in PartsOf(p), <<p, f>> \in arrived'
      PROVE  \E s \in Slot : rxQueue'[s].packetId = p
  <2>1. PICK s \in Slot : rxQueue[s].packetId = p
    BY <1>4 DEF Assembles
  <2> QED BY <1>1, <2>1
<1> QED BY <1>2, <1>3, <1>4 DEF Assembles

(* Entry s, of which packet p takes hold: another packet it had is lost.   *)
LEMMA OthersUntouched ==
    ASSUME IInv, Orderly, NEW s \in Slot, NEW p \in Packet, NEW f, NEW e,
           rxQueue' = [rxQueue EXCEPT ![s] = e], e.packetId = p,
           rxQueue[s].packetId = p \/ taken' = taken \cup TakenFrom(s, p),
           decoded \subseteq decoded', taken \subseteq taken',
           arrived' = arrived \cup {<<p, f>>}
    PROVE  \A q \in Packet \ {p} : Settled(q)' \/ Assembles(q)'
<1> SUFFICES ASSUME NEW q \in Packet \ {p}, ~Settled(q)' PROVE Assembles(q)'
  OBVIOUS
<1>1. ~Settled(q) /\ Assembles(q)
  BY Monotone DEF Orderly
<1>2. rxQueue[s].packetId # q
  <2> SUFFICES ASSUME rxQueue[s].packetId = q PROVE FALSE
    OBVIOUS
  <2>1. InUse(rxQueue[s])
    BY <1>1 DEF Assembles, Gathered
  <2>2. q \in taken'
    BY <2>1 DEF TakenFrom
  <2> QED BY <2>2 DEF Settled
<1>3. \A o \in Slot : rxQueue'[o] = IF o = s THEN e ELSE rxQueue[o]
  BY DEF IInv, TypeOK
<1>4. \A g : <<q, g>> \in arrived' <=> <<q, g>> \in arrived
  OBVIOUS
<1> QED BY <1>1, <1>2, <1>3, <1>4, Untouched

LEMMA OrderlyReceiving ==
    ASSUME IInv, Orderly, NEW t \in Thread, NEW p \in Packet,
           ReceiveWhole(t, p) \/ \E f \in PartsOf(p) : ReceivePart(t, p, f),
           ~overlap'
    PROVE  Orderly'
<1>0. thread \in [Thread -> Work] /\ rxQueue' = rxQueue /\ taken' = taken
  BY DEF ReceiveWhole, ReceivePart, IInv, TypeOK
<1>1. ASSUME NEW f \in PartsOf(p), ReceivePart(t, p, f) PROVE Orderly'
  <2>1. /\ \A o \in Thread \ {t} : thread[o] = Idle
        /\ decoded' = decoded /\ arrived' = arrived /\ Parts[p] > 1
    BY <1>1 DEF ReceivePart
  <2>2. \A q \in Packet : Settled(q)' \/ Assembles(q)'
    BY <1>0, <2>1 DEF Orderly, Settled, Decoded, Assembles, Gathered, InUse
  <2>3. PICK w : Go(t, w) /\ RightEntry(w)'
    <3>1. CASE \E s \in Slot :
                  Match(s, p) /\ Go(t, [at |-> "handle", packet |-> p, part |-> f, slot |-> s])
      <4> PICK s \in Slot :
             Match(s, p) /\ Go(t, [at |-> "handle", packet |-> p, part |-> f, slot |-> s])
        BY <3>1
      <4> DEFINE w == [at |-> "handle", packet |-> p, part |-> f, slot |-> s]
      <4>1. RightEntry(w)'
        BY <1>0, <2>1 DEF RightEntry, Match
      <4> QED BY <4>1
    <3>2. CASE /\ \A s \in Slot : ~Match(s, p)
               /\ Go(t, [at |-> "next", packet |-> p, part |-> f, slot |-> rxQueuePtr])
      <4> PICK w : w = [at |-> "next", packet |-> p, part |-> f, slot |-> rxQueuePtr]
        OBVIOUS
      <4>1. Settled(p)' \/ \A s \in Slot : rxQueue'[s].packetId # p
        <5>1. CASE Settled(p)
          BY <1>0, <2>1, <5>1 DEF Settled, Decoded
        <5>2. CASE Assembles(p)
          BY <1>0, <3>2, <5>2 DEF Assembles, Gathered, Match
        <5> QED BY <5>1, <5>2 DEF Orderly
      <4>2. RightEntry(w)'
        BY <2>1, <4>1 DEF RightEntry
      <4> QED BY <3>2, <4>2
    <3> QED BY <1>1, <3>1, <3>2 DEF ReceivePart
  <2>4. Alone' /\ \A o \in Thread : thread'[o] = IF o = t THEN w ELSE Idle
    BY <1>0, <2>1, <2>3, AloneWhenIdle
  <2>5. \A o \in Thread : RightEntry(thread[o])'
    BY <2>3, <2>4, IdleIsRight DEF RightEntry
  <2> QED BY <2>2, <2>4, <2>5 DEF Orderly
<1>2. CASE ReceiveWhole(t, p) /\ p \in known
  <2>1. /\ decoded \subseteq decoded' /\ thread' = thread
        /\ arrived' = arrived \cup {<<p, 0>>}
        /\ [packet |-> p, parts |-> [f \in {0} |-> p]] \in decoded'
    BY <1>2 DEF ReceiveWhole
  <2>2. Decoded(p)'
    BY <2>1 DEF Decoded
  <2>3. ASSUME NEW q \in Packet PROVE Settled(q)' \/ Assembles(q)'
    <3>1. CASE Settled(q) \/ q = p
      BY <1>0, <2>1, <2>2, <3>1, Monotone DEF Settled
    <3>2. CASE ~Settled(q) /\ q # p
      <4>1. Assembles(q) /\ \A f : <<q, f>> \in arrived' <=> <<q, f>> \in arrived
        BY <2>1, <3>2 DEF Orderly
      <4> QED BY <1>0, <4>1, Untouched
    <3> QED BY <3>1, <3>2
  <2>4. \A o \in Thread : RightEntry(thread[o])'
    BY <1>0, <2>1, Monotone DEF Orderly, RightEntry
  <2> QED BY <2>1, <2>3, <2>4 DEF Orderly, Alone
<1>3. CASE ReceiveWhole(t, p) /\ p \notin known
  <2> DEFINE w == [at |-> "queue", packet |-> p, part |-> 0, slot |-> 0]
  <2>1. /\ \A o \in Thread \ {t} : thread[o] = Idle /\ decoded' = decoded
        /\ arrived' = arrived /\ Go(t, w) /\ decoded' = decoded
    BY <1>3 DEF ReceiveWhole
  <2>2. \A q \in Packet : Settled(q)' \/ Assembles(q)'
    BY <1>0, <2>1 DEF Orderly, Settled, Decoded, Assembles, Gathered, InUse
  <2>3. Alone' /\ \A o \in Thread : thread'[o] = IF o = t THEN w ELSE Idle
    BY <1>0, <2>1, AloneWhenIdle
  <2>4. \A o \in Thread : RightEntry(thread[o])'
    BY <2>3, IdleIsRight DEF RightEntry
  <2> QED BY <2>2, <2>3, <2>4 DEF Orderly
<1> QED BY <1>1, <1>2, <1>3

(* In order, the thread that is at work is the only one.                   *)
LEMMA OthersIdle ==
    ASSUME Orderly, NEW t \in Thread, thread[t].at # "idle"
    PROVE  \A o \in Thread \ {t} : thread[o] = Idle
BY DEF Orderly, Alone, Idle

LEMMA OrderlyTaking ==
    ASSUME IInv, Orderly, NEW t \in Thread, TakeNext(t) \/ TakeEntry(t)
    PROVE  Orderly'
<1>1. /\ rxQueue' = rxQueue /\ taken' = taken /\ decoded' = decoded /\ arrived' = arrived
      /\ thread \in [Thread -> Work] /\ \A o \in Thread \ {t} : thread[o] = Idle
  BY OthersIdle DEF TakeNext, TakeEntry, IInv, TypeOK
<1>2. \A q \in Packet : Settled(q)' \/ Assembles(q)'
  BY <1>1 DEF Orderly, Settled, Decoded, Assembles, Gathered, InUse
<1>3. PICK w : Go(t, w) /\ RightEntry(w)'
  <2>1. CASE TakeNext(t)
    <3> PICK v : v = thread[t]
      OBVIOUS
    <3> DEFINE w == [v EXCEPT !.at = "handle"]
    <3>1. /\ w.packet = v.packet /\ w.at = "handle" /\ v.at = "next" /\ RightEntry(v)
          /\ w = [thread[t] EXCEPT !.at = "handle"]
      BY <1>1, <2>1 DEF Work, Orderly, TakeNext
    <3> HIDE DEF w
    <3>2. RightEntry(w)'
      BY <1>1, <3>1 DEF RightEntry, Settled, Decoded
    <3> QED BY <2>1, <3>1, <3>2 DEF TakeNext
  <2>2. CASE TakeEntry(t)
    <3> PICK w : w = [thread[t] EXCEPT !.at = "store", !.slot = rxQueuePtr]
      OBVIOUS
    <3>1. w.at = "store"
      BY <1>1 DEF Work
    <3>2. RightEntry(w)'
      BY <3>1 DEF RightEntry
    <3> QED BY <2>2, <3>2 DEF TakeEntry
  <2> QED BY <2>1, <2>2
<1>4. Alone' /\ \A o \in Thread : thread'[o] = IF o = t THEN w ELSE Idle
  BY <1>1, <1>3, AloneWhenIdle
<1>5. \A o \in Thread : RightEntry(thread[o])'
  BY <1>3, <1>4, IdleIsRight DEF RightEntry
<1> QED BY <1>2, <1>4, <1>5 DEF Orderly

LEMMA OrderlyHandling ==
    ASSUME IInv, Orderly, NEW t \in Thread, Handle(t)
    PROVE  Orderly'
<1> PICK w, p, f : w = thread[t] /\ p = w.packet /\ f = w.part
  OBVIOUS
<1> PICK e : e = rxQueue[w.slot]
  OBVIOUS
<1> DEFINE more == Added(e, p, f)
<1>1. /\ p \in Packet /\ f \in PartsOf(p) /\ w.slot \in Slot /\ Parts[p] > 1
      /\ thread \in [Thread -> Work] /\ rxQueue \in [Slot -> Entry]
      /\ Parts[p] \in Nat /\ 1 \in PartsOf(p) /\ 0 \in PartsOf(p) /\ RightEntry(w)
  <2>1. p \in Packet /\ f \in PartsOf(p) /\ w.slot \in Slot /\ Parts[p] > 1
    BY DEF Handle, IInv, TypeOK, Works, Work, Orderly, RightEntry
  <2>2. Parts[p] \in Nat /\ 1 \in PartsOf(p) /\ 0 \in PartsOf(p)
    BY <2>1, RxQueueConstants DEF PartsOf
  <2> QED BY <2>1, <2>2 DEF IInv, TypeOK, Orderly
<1>2. /\ Alone' /\ \A o \in Thread : thread'[o] = Idle
  BY <1>1, OthersIdle, AloneWhenIdle DEF Handle
<1>3. \A o \in Thread : RightEntry(thread[o])'
  BY <1>2, IdleIsRight DEF RightEntry
<1>4. decoded \subseteq decoded' /\ taken \subseteq taken'
      /\ arrived' = arrived \cup {<<p, f>>}
  BY DEF Handle
<1>5. CASE ~Mine(e, p)
  <2> DEFINE n == Started(e, p, f)
  <2>1. rxQueue' = [rxQueue EXCEPT ![w.slot] = n] /\ taken' = taken \cup TakenFrom(w.slot, p)
        /\ decoded' = decoded
    BY <1>5 DEF Handle
  <2>2. /\ n.packetId = p /\ n.haveFragments = {f} /\ InUse(n)
        /\ n.totalFragments = IF f = 0 THEN 0 ELSE Parts[p]
    BY DEF Started, InUse
  <2>3. \A q \in Packet \ {p} : Settled(q)' \/ Assembles(q)'
    BY <1>1, <1>4, <2>1, <2>2, OthersUntouched
  <2>4. ASSUME ~Settled(p)' PROVE Assembles(p)'
    <3>1. ~Settled(p) /\ Assembles(p)
      BY <1>1, <1>4, <2>4, Monotone DEF Orderly
    <3>2. \A s \in Slot : rxQueue[s].packetId # p
      BY <1>1, <1>5, <3>1 DEF RightEntry, Handle, Mine
    <3>3. \A g \in PartsOf(p) : <<p, g>> \notin arrived
      BY <3>1, <3>2 DEF Assembles
    <3>4. \A s \in Slot : rxQueue'[s] = IF s = w.slot THEN n ELSE rxQueue[s]
      BY <1>1, <2>1
    <3>5. \A s \in Slot : rxQueue'[s].packetId = p <=> s = w.slot
      BY <2>2, <3>2, <3>4
    <3>6. Gathered(n, p)'
      <4> HIDE DEF n
      <4>1. \A g \in PartsOf(p) : g \in n.haveFragments <=> <<p, g>> \in arrived'
        BY <1>4, <2>2, <3>3
      <4>2. n.haveFragments # PartsOf(p)
        BY <1>1, <2>2
      <4>3. (\E g \in n.haveFragments : g # 0) => n.totalFragments = Parts[p]
        BY <2>2
      <4> QED BY <2>2, <4>1, <4>2, <4>3 DEF Gathered, InUse
    <3>7. ASSUME NEW s \in Slot, rxQueue'[s].packetId = p PROVE Gathered(rxQueue[s], p)'
      <4>1. rxQueue'[s] = n
        BY <3>4, <3>5, <3>7
      <4> HIDE DEF n
      <4> QED BY <3>6, <4>1 DEF Gathered, InUse
    <3> QED BY <1>1, <3>5, <3>7 DEF Assembles
  <2>5. \A q \in Packet : Settled(q)' \/ Assembles(q)'
    BY <2>3, <2>4
  <2> QED BY <1>2, <1>3, <2>5 DEF Orderly
<1>6. CASE Mine(e, p) /\ f \notin e.haveFragments
  <2> PICK n : n = IF HasAll(more) THEN Tried(more) ELSE more
    OBVIOUS
  <2>1. /\ rxQueue' = [rxQueue EXCEPT ![w.slot] = n] /\ e.packetId = p
        /\ decoded' = decoded \cup (IF HasAll(more) THEN Decoding(more) ELSE {})
    BY <1>6 DEF Handle, Mine
  <2>2. /\ more.packetId = p /\ more.haveFragments = e.haveFragments \cup {f}
        /\ more.totalFragments = (IF f = 0 THEN e.totalFragments ELSE Parts[p])
        /\ more.timestamp = e.timestamp /\ more.complete = e.complete
        /\ more \in Entry /\ (HasAll(more) => more.haveFragments = PartsOf(p))
    <3>1. e \in Entry /\ Sound(e)
      BY <1>1 DEF IInv
    <3>2. more \in Entry /\ (HasAll(more) => more.haveFragments = PartsOf(p))
      BY <1>1, <1>6, <2>1, <3>1, AddedSound
    <3> QED BY <3>2 DEF Added
  <2>3. /\ n.packetId = p /\ n.haveFragments = more.haveFragments
        /\ n.totalFragments = more.totalFragments
    BY <2>2 DEF Tried, Added
  <2>4. \A q \in Packet \ {p} : Settled(q)' \/ Assembles(q)'
    <3> QED BY <1>1, <1>4, <2>1, <2>3, OthersUntouched
  <2>5. ASSUME ~Settled(p)' PROVE Assembles(p)'
    <3>1. ~Settled(p) /\ Assembles(p)
      BY <1>1, <1>4, <2>5, Monotone DEF Orderly
    <3>2. Gathered(e, p)
      BY <1>1, <2>1, <3>1 DEF Assembles
    <3>3. HasAll(more) => p \notin known
      <4> SUFFICES ASSUME HasAll(more), p \in known PROVE FALSE
        OBVIOUS
      <4>1. Contents(more) \in decoded'
        BY <2>1, <2>2 DEF Decoding
      <4>2. Contents(more).packet = p
        BY <2>2 DEF Contents
      <4> QED BY <2>5, <4>1, <4>2 DEF Settled, Decoded
    <3>4. /\ n.timestamp = e.timestamp
          /\ n.complete = IF HasAll(more) THEN TRUE ELSE e.complete
      BY <2>2, <3>3 DEF Tried, Entry
    <3> HIDE DEF more
    <3>5. (\E g \in n.haveFragments : g # 0) => n.totalFragments = Parts[p]
      BY <2>2, <2>3, <3>2 DEF Gathered
    <3>6. n.complete \/ n.haveFragments # PartsOf(p)
      <4> SUFFICES ASSUME n.haveFragments = PartsOf(p) PROVE HasAll(more)
        BY <3>4
      <4>1. more.totalFragments = Parts[p]
        BY <1>1, <2>3, <3>5
      <4>2. Cardinality(more.haveFragments) = Parts[p]
        BY <1>1, <2>3, PartsCounted
      <4> QED BY <1>1, <4>1, <4>2 DEF HasAll
    <3>7. \A s \in Slot : rxQueue'[s] = IF s = w.slot THEN n ELSE rxQueue[s]
      BY <1>1, <2>1
    <3>8. \A s \in Slot : rxQueue'[s].packetId = p <=> s = w.slot
      BY <1>1, <2>1, <2>3, <3>1, <3>7 DEF Assembles
    <3>9. ASSUME NEW s \in Slot, rxQueue'[s].packetId = p PROVE Gathered(rxQueue[s], p)'
      <4>1. rxQueue'[s] = n
        BY <3>7, <3>8, <3>9
      <4>2. \A g \in PartsOf(p) : g \in n.haveFragments <=> <<p, g>> \in arrived'
        BY <1>4, <2>2, <2>3, <3>2 DEF Gathered
      <4>3. InUse(n) /\ n.haveFragments # {}
        BY <2>2, <2>3, <3>2, <3>4 DEF Gathered, InUse
      <4> QED BY <3>5, <3>6, <4>1, <4>2, <4>3 DEF Gathered, InUse
    <3> QED BY <1>1, <3>8, <3>9 DEF Assembles
  <2>6. \A q \in Packet : Settled(q)' \/ Assembles(q)'
    BY <2>4, <2>5
  <2> QED BY <1>2, <1>3, <2>6 DEF Orderly
<1>7. CASE Mine(e, p) /\ f \in e.haveFragments
  <2>1. rxQueue' = rxQueue /\ decoded' = decoded /\ taken' = taken /\ e.packetId = p
    BY <1>7 DEF Handle, Mine
  <2>2. ASSUME NEW q \in Packet, ~Settled(q)' PROVE Assembles(q)'
    <3>1. Assembles(q)
      BY <2>1, <2>2 DEF Orderly, Settled, Decoded
    <3>2. q = p => <<p, f>> \in arrived
      BY <1>1, <1>7, <2>1, <3>1 DEF Assembles, Gathered
    <3>3. \A g \in PartsOf(q) : <<q, g>> \in arrived' <=> <<q, g>> \in arrived
      BY <1>4, <3>2
    <3> QED BY <2>1, <3>1, <3>3, Untouched
  <2> QED BY <1>2, <1>3, <2>2 DEF Orderly
<1> QED BY <1>5, <1>6, <1>7

LEMMA OrderlyStoring ==
    ASSUME IInv, Orderly, NEW t \in Thread, Store(t)
    PROVE  Orderly'
<1> PICK w, p, e : w = thread[t] /\ p = w.packet /\ e = rxQueue[w.slot]
  OBVIOUS
<1> DEFINE n == [timestamp |-> "recent", packetId |-> p, haveFragments |-> {0},
                 totalFragments |-> 1, complete |-> TRUE,
                 parts |-> [e.parts EXCEPT ![0] = p]]
<1>1. /\ p \in Packet /\ w.slot \in Slot /\ Parts[p] = 1 /\ PartsOf(p) = {0}
      /\ thread \in [Thread -> Work] /\ rxQueue \in [Slot -> Entry]
  <2>1. p \in Packet /\ w.slot \in Slot /\ Parts[p] = 1
    BY DEF Store, IInv, TypeOK, Works, Work
  <2> QED BY <2>1 DEF IInv, TypeOK, PartsOf
<1>2. /\ Alone' /\ \A o \in Thread : thread'[o] = Idle
  BY <1>1, OthersIdle, AloneWhenIdle DEF Store
<1>3. \A o \in Thread : RightEntry(thread[o])'
  BY <1>2, IdleIsRight DEF RightEntry
<1>4. /\ decoded' = decoded /\ taken' = taken \cup TakenFrom(w.slot, p)
      /\ arrived' = arrived \cup {<<p, 0>>} /\ rxQueue' = [rxQueue EXCEPT ![w.slot] = n]
  BY DEF Store
<1>5. /\ n.packetId = p /\ n.haveFragments = {0} /\ InUse(n) /\ n.complete
  BY DEF InUse
<1> HIDE DEF n
<1>6. \A q \in Packet \ {p} : Settled(q)' \/ Assembles(q)'
  BY <1>1, <1>4, <1>5, OthersUntouched
<1>7. ASSUME ~Settled(p)' PROVE Assembles(p)'
  <2>1. Assembles(p)
    BY <1>1, <1>4, <1>7, Monotone DEF Orderly
  <2>2. \A s \in Slot : rxQueue'[s] = IF s = w.slot THEN n ELSE rxQueue[s]
    BY <1>1, <1>4
  <2>3. ASSUME NEW s \in Slot, rxQueue'[s].packetId = p PROVE Gathered(rxQueue[s], p)'
    <3>1. CASE s = w.slot
      BY <1>1, <1>4, <1>5, <2>2, <3>1 DEF Gathered, InUse
    <3>2. CASE s # w.slot
      <4>1. rxQueue'[s] = rxQueue[s] /\ Gathered(rxQueue[s], p)
        BY <2>1, <2>2, <2>3, <3>2 DEF Assembles
      <4>2. 0 \in rxQueue[s].haveFragments
        BY <1>1, <2>3, <4>1 DEF Gathered, IInv, Sound
      <4> QED BY <1>1, <1>4, <4>1, <4>2 DEF Gathered, InUse
    <3> QED BY <3>1, <3>2
  <2>4. rxQueue'[w.slot].packetId = p
    BY <1>1, <1>5, <2>2
  <2> QED BY <1>1, <2>3, <2>4 DEF Assembles
<1>8. \A q \in Packet : Settled(q)' \/ Assembles(q)'
  BY <1>6, <1>7
<1> QED BY <1>2, <1>3, <1>8 DEF Orderly

LEMMA OrderlySweeping ==
    ASSUME IInv, Orderly, NEW s \in Slot, Retry(s) \/ Age(s)
    PROVE  Orderly'
<1> PICK e, p : e = rxQueue[s] /\ p = e.packetId
  OBVIOUS
<1>0. /\ thread' = thread /\ arrived' = arrived
      /\ decoded \subseteq decoded' /\ taken \subseteq taken'
      /\ e \in Entry /\ rxQueue \in [Slot -> Entry]
  BY DEF Retry, Age, IInv, TypeOK
<1>1. PICK ts : rxQueue' = [rxQueue EXCEPT ![s] = [e EXCEPT !.timestamp = ts]]
  BY DEF Retry, Age
<1>2. \A o \in Slot : /\ o # s => rxQueue'[o] = rxQueue[o]
                      /\ rxQueue'[o].packetId = rxQueue[o].packetId
  BY <1>0, <1>1 DEF Entry
<1>3. \A o \in Thread : RightEntry(thread[o])'
  <2> SUFFICES ASSUME NEW o \in Thread PROVE RightEntry(thread[o])'
    OBVIOUS
  <2>1. RightEntry(thread[o]) /\ thread[o].slot \in Slot
    BY DEF Orderly, IInv, TypeOK, Work
  <2>2. Settled(thread[o].packet) => Settled(thread[o].packet)'
    BY <1>0, Monotone DEF Settled, Decoded
  <2> QED BY <1>0, <1>2, <2>1, <2>2 DEF RightEntry, Settled, Decoded
<1>4. Retry(s) => Settled(p)'
  <2> SUFFICES ASSUME Retry(s) PROVE Settled(p)'
    OBVIOUS
  <2>1. CASE p \in known
    <3>1. Contents(e) \in decoded' /\ Contents(e).packet = p
      BY <2>1 DEF Retry, Decoding, Contents
    <3> QED BY <3>1 DEF Settled, Decoded
  <2>2. CASE p \notin known
    BY <2>2 DEF Retry, Settled
  <2> QED BY <2>1, <2>2
<1>5. ASSUME NEW q \in Packet, ~Settled(q)' PROVE Assembles(q)'
  <2>1. Assembles(q)
    BY <1>0, <1>5, Monotone DEF Orderly
  <2>2. CASE q # p
    <3>1. \A o \in Slot : \/ rxQueue'[o] = rxQueue[o]
                          \/ rxQueue[o].packetId # q /\ rxQueue'[o].packetId # q
      BY <1>2, <2>2
    <3> QED BY <1>0, <2>1, <3>1, Untouched
  <2>3. CASE q = p
    <3>1. Age(s)
      BY <1>4, <1>5, <2>3
    <3>2. rxQueue' = [rxQueue EXCEPT ![s] = [e EXCEPT !.timestamp = "old"]]
      BY <3>1 DEF Age
    <3>3. ASSUME NEW o \in Slot, rxQueue'[o].packetId = q PROVE Gathered(rxQueue[o], q)'
      <4>1. Gathered(rxQueue[o], q)
        BY <1>2, <2>1, <3>3 DEF Assembles
      <4>2. /\ rxQueue'[o].haveFragments = rxQueue[o].haveFragments
            /\ rxQueue'[o].totalFragments = rxQueue[o].totalFragments
            /\ rxQueue'[o].complete = rxQueue[o].complete
            /\ rxQueue'[o].timestamp \in {"old", rxQueue[o].timestamp}
        BY <1>0, <3>2 DEF Entry
      <4> QED BY <1>0, <4>1, <4>2 DEF Gathered, InUse
    <3>4. \A o, v \in Slot : Parts[q] > 1 /\ rxQueue'[o].packetId = q
                               /\ rxQueue'[v].packetId = q => o = v
      BY <1>2, <2>1 DEF Assembles
    <3>5. ASSUME NEW f \in PartsOf(q), <<q, f>> \in arrived'
          PROVE  \E o \in Slot : rxQueue'[o].packetId = q
      <4>1. PICK o \in Slot : rxQueue[o].packetId = q
        BY <1>0, <2>1, <3>5 DEF Assembles
      <4> QED BY <1>2, <4>1
    <3> QED BY <3>3, <3>4, <3>5 DEF Assembles
  <2> QED BY <2>2, <2>3
<1> QED BY <1>0, <1>3, <1>5 DEF Orderly, Alone

LEMMA InOrderInitially == Init => InOrder
<1> SUFFICES ASSUME Init PROVE Orderly
  BY DEF InOrder
<1>1. \A t \in Thread : thread[t] = Idle
  BY DEF Init
<1>2. \A s \in Slot : rxQueue[s].packetId = 0
  BY DEF Init
<1>3. \A p \in Packet : Assembles(p)
  BY <1>2, RxQueueConstants DEF Init, Assembles
<1> QED BY <1>1, <1>3, IdleIsRight DEF Orderly, Alone

LEMMA InOrderStep == IInv /\ InOrder /\ [Next]_vars => InOrder'
<1> SUFFICES ASSUME IInv, InOrder, [Next]_vars, ~overlap' PROVE Orderly'
  BY DEF InOrder
<1>0. Orderly
  BY DEF InOrder, Next, ReceivePart, ReceiveWhole, Continue, TakeNext, Handle, TakeEntry,
         Store, Retry, Age, Learn, vars
<1>1. ASSUME NEW t \in Thread, NEW p \in Packet, NEW f \in PartsOf(p), ReceivePart(t, p, f)
      PROVE  Orderly'
  BY <1>0, <1>1, OrderlyReceiving
<1>2. ASSUME NEW t \in Thread, NEW p \in Packet, ReceiveWhole(t, p) PROVE Orderly'
  BY <1>0, <1>2, OrderlyReceiving
<1>3. ASSUME NEW t \in Thread, Continue(t) PROVE Orderly'
  BY <1>0, <1>3, OrderlyTaking, OrderlyHandling, OrderlyStoring DEF Continue
<1>4. ASSUME NEW s \in Slot, Retry(s) \/ Age(s) PROVE Orderly'
  BY <1>0, <1>4, OrderlySweeping
<1>5. CASE (\E p \in Packet : Learn(p)) \/ UNCHANGED vars
  <2>1. /\ rxQueue' = rxQueue /\ thread' = thread /\ arrived' = arrived
        /\ decoded' = decoded /\ taken' = taken
    BY <1>5 DEF Learn, vars
  <2> QED BY <1>0, <2>1 DEF Orderly, Alone, Settled, Decoded, Assembles, Gathered, InUse,
                             RightEntry
<1> QED BY <1>1, <1>2, <1>3, <1>4, <1>5 DEF Next

(* In whatever order and however often the parts of a packet come, they    *)
(* are put together: tryDecode takes it or it waits for its sender, unless *)
(* two threads were at work at once or the ring went round.                *)
THEOREM PartsAssemble == Spec => []AnyOrderAssembles
<1>1. IInv /\ InOrder => AnyOrderAssembles
  <2> SUFFICES ASSUME IInv, Orderly, NEW p \in Packet \ taken,
                      {p} \X PartsOf(p) \subseteq arrived, ~Decoded(p)
               PROVE  \E s \in Slot : WaitsIn(s, p)
    BY DEF InOrder, AnyOrderAssembles
  <2>1. Assembles(p) /\ 0 \in PartsOf(p)
    BY PartsFacts DEF Orderly, Settled
  <2>2. PICK s \in Slot : rxQueue[s].packetId = p
    BY <2>1 DEF Assembles
  <2>3. Gathered(rxQueue[s], p) /\ rxQueue[s].haveFragments \subseteq PartsOf(p)
    BY <2>1, <2>2 DEF Assembles, IInv, Sound
  <2>4. PartsOf(p) \subseteq rxQueue[s].haveFragments
    BY <2>3 DEF Gathered
  <2> QED BY <2>2, <2>3, <2>4 DEF WaitsIn, Waiting, Gathered
<1> QED BY <1>1, Initially, Step, InOrderInitially, InOrderStep, PTL DEF Spec
=============================================================================
