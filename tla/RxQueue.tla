------------------------------- MODULE RxQueue -------------------------------
(***************************************************************************)
(* The receive queue of node/Switch.cpp: onRemotePacket, several threads   *)
(* of it, puts packets together from their parts (the head, 0, and its     *)
(* fragments) in a ring of entries, and keeps there the packets that can   *)
(* not be decoded before the identity of their sender is known.  Parts     *)
(* come in any order and any number of times.  An entry is looked up       *)
(* without its lock.                                                       *)
(***************************************************************************)
EXTENDS Naturals, FiniteSets

CONSTANTS
    Thread,   \* threads that receive packets
    Packet,   \* packet ids; 0 is the id of an entry never used
    Parts,    \* for each packet, its number of parts; 1 is not fragmented
    Familiar, \* packets whose sender's identity is known at first
    Slots,    \* ZT_RX_QUEUE_SIZE
    MaxComing \* bound on the parts that come

ASSUME RxQueueConstants ==
    /\ 0 \notin Packet /\ Packet # {} /\ Slots \in Nat \ {0} /\ MaxComing \in Nat
    /\ Parts \in [Packet -> Nat \ {0}] /\ Familiar \subseteq Packet

VARIABLES
    rxQueue,     \* _rxQueue
    rxQueuePtr,  \* _rxQueuePtr, modulo Slots
    known,       \* packets whose sender's identity is known
    thread,      \* what each thread does, and to which entry
    (* history *)
    decoded,     \* what tryDecode took: for each packet, its parts
    arrived,     \* parts that have been handled
    taken,       \* packets whose entry has been reused before it was free
    overlap,     \* two threads have been at work at the same time
    coming       \* parts that came

vars == <<rxQueue, rxQueuePtr, known, thread, decoded, arrived, taken, overlap, coming>>

Slot == 0..(Slots - 1)
Part == UNION { 0..(Parts[p] - 1) : p \in Packet }
PartsOf(p) == 0..(Parts[p] - 1)

(* timestamp is compared with 0 and with the age ZT_RECEIVE_QUEUE_TIMEOUT. *)
(* frag0 and frags are given by the packets their contents are of.         *)
Entry == [timestamp : {"free", "recent", "old"}, packetId : Packet \cup {0},
          haveFragments : SUBSET Part, totalFragments : Nat, complete : BOOLEAN,
          parts : [Part -> Packet \cup {0}]]

Work == [at : {"idle", "next", "handle", "queue", "store"},
         packet : Packet \cup {0}, part : Part \cup {0}, slot : Slot]

Idle == [at |-> "idle", packet |-> 0, part |-> 0, slot |-> 0]

TypeOK ==
    /\ rxQueue \in [Slot -> Entry] /\ rxQueuePtr \in Slot
    /\ known \subseteq Packet
    /\ thread \in [Thread -> Work]
    /\ \A d \in decoded : d.packet \in Packet /\ d.parts \in [PartsOf(d.packet) -> Packet \cup {0}]
    /\ arrived \subseteq Packet \X Part
    /\ taken \subseteq Packet /\ overlap \in BOOLEAN /\ coming \in 0..MaxComing

Incr(ptr) == (ptr + 1) % Slots

Go(t, work) == thread' = [thread EXCEPT ![t] = work]

------------------------------------------------------------------------------
(* Entries *)

HasAll(e) == e.totalFragments > 1 /\ Cardinality(e.haveFragments) = e.totalFragments

Contents(e) == [packet |-> e.packetId, parts |-> [f \in PartsOf(e.packetId) |-> e.parts[f]]]

(* The entry starts over; the buffers of other parts keep what they had. *)
Started(e, p, f) ==
    [timestamp |-> "recent", packetId |-> p, haveFragments |-> {f},
     totalFragments |-> IF f = 0 THEN 0 ELSE Parts[p],
     complete |-> FALSE, parts |-> [e.parts EXCEPT ![f] = p]]

HeadForgetsTotal(e, p, f) ==
    [timestamp |-> e.timestamp, packetId |-> p, haveFragments |-> e.haveFragments \cup {f},
     totalFragments |-> IF f = 0 THEN 0 ELSE Parts[p],
     complete |-> e.complete, parts |-> [e.parts EXCEPT ![f] = p]]

Added(e, p, f) ==
    [timestamp |-> e.timestamp, packetId |-> p, haveFragments |-> e.haveFragments \cup {f},
     totalFragments |-> IF f = 0 THEN e.totalFragments ELSE Parts[p],
     complete |-> e.complete, parts |-> [e.parts EXCEPT ![f] = p]]

(* tryDecode of a packet that is all there *)
Tried(e) ==
    IF e.packetId \in known THEN [e EXCEPT !.timestamp = "free"] ELSE [e EXCEPT !.complete = TRUE]

Decoding(e) == IF e.packetId \in known THEN {Contents(e)} ELSE {}

InUse(e) == e.timestamp # "free"

(* The entry s becomes one of packet p: the packet it had, if any, is lost. *)
TakenFrom(s, p) == IF InUse(rxQueue[s]) /\ rxQueue[s].packetId # p THEN {rxQueue[s].packetId} ELSE {}

------------------------------------------------------------------------------
(* onRemotePacket *)

Comes ==
    /\ coming < MaxComing
    /\ coming' = coming + 1

Match(s, p) == rxQueue[s].packetId = p /\ InUse(rxQueue[s])

(* A part of a fragmented packet, until _findRXQueueEntry has looked at    *)
(* the entries; what it loaded of the pointer is used later.               *)
ReceivePart(t, p, f) ==
    /\ thread[t] = Idle
    /\ Parts[p] > 1
    /\ Comes
    /\ \/ \E s \in Slot :
             /\ Match(s, p)
             /\ Go(t, [at |-> "handle", packet |-> p, part |-> f, slot |-> s])
       \/ /\ \A s \in Slot : ~Match(s, p)
          /\ Go(t, [at |-> "next", packet |-> p, part |-> f, slot |-> rxQueuePtr])
    /\ overlap' = (overlap \/ \E o \in Thread \ {t} : thread[o] # Idle)
    /\ UNCHANGED <<rxQueue, rxQueuePtr, known, decoded, arrived, taken>>

TakeNext(t) ==
    /\ thread[t].at = "next"
    /\ rxQueuePtr' = Incr(rxQueuePtr)
    /\ Go(t, [thread[t] EXCEPT !.at = "handle"])
    /\ UNCHANGED <<rxQueue, known, decoded, arrived, taken, overlap, coming>>

TakenMeansMine(e, p) == InUse(e)

(* Asked again with the lock of the entry *)
Mine(e, p) == e.packetId = p

(* With the lock of the entry *)
Handle(t) ==
    LET w == thread[t]
        e == rxQueue[w.slot]
        more == Added(e, w.packet, w.part)
    IN /\ w.at = "handle"
       /\ Go(t, Idle)
       /\ arrived' = arrived \cup {<<w.packet, w.part>>}
       /\ \/ /\ ~Mine(e, w.packet)
             /\ rxQueue' = [rxQueue EXCEPT ![w.slot] = Started(e, w.packet, w.part)]
             /\ taken' = taken \cup TakenFrom(w.slot, w.packet)
             /\ UNCHANGED decoded
          \/ /\ Mine(e, w.packet) /\ w.part \notin e.haveFragments
             /\ rxQueue' = [rxQueue EXCEPT ![w.slot] = IF HasAll(more) THEN Tried(more) ELSE more]
             /\ decoded' = decoded \cup (IF HasAll(more) THEN Decoding(more) ELSE {})
             /\ UNCHANGED taken
          \/ /\ Mine(e, w.packet) /\ w.part \in e.haveFragments
             /\ UNCHANGED <<rxQueue, decoded, taken>>
       /\ UNCHANGED <<rxQueuePtr, known, overlap, coming>>

(* A packet in one piece *)
ReceiveWhole(t, p) ==
    /\ thread[t] = Idle
    /\ Parts[p] = 1
    /\ Comes
    /\ IF p \in known
       THEN /\ decoded' = decoded \cup {[packet |-> p, parts |-> [f \in {0} |-> p]]}
            /\ arrived' = arrived \cup {<<p, 0>>}
            /\ UNCHANGED <<thread, overlap>>
       ELSE /\ Go(t, [at |-> "queue", packet |-> p, part |-> 0, slot |-> 0])
            /\ overlap' = (overlap \/ \E o \in Thread \ {t} : thread[o] # Idle)
            /\ UNCHANGED <<decoded, arrived>>
    /\ UNCHANGED <<rxQueue, rxQueuePtr, known, taken>>

(* _nextRXQueueEntry *)
TakeEntry(t) ==
    /\ thread[t].at = "queue"
    /\ rxQueuePtr' = Incr(rxQueuePtr)
    /\ Go(t, [thread[t] EXCEPT !.at = "store", !.slot = rxQueuePtr])
    /\ UNCHANGED <<rxQueue, known, decoded, arrived, taken, overlap, coming>>

Store(t) ==
    LET w == thread[t]
        e == rxQueue[w.slot]
    IN /\ w.at = "store"
       /\ Go(t, Idle)
       /\ rxQueue' = [rxQueue EXCEPT ![w.slot] =
              [timestamp |-> "recent", packetId |-> w.packet, haveFragments |-> {0},
               totalFragments |-> 1, complete |-> TRUE, parts |-> [e.parts EXCEPT ![0] = w.packet]]]
       /\ arrived' = arrived \cup {<<w.packet, 0>>}
       /\ taken' = taken \cup TakenFrom(w.slot, w.packet)
       /\ UNCHANGED <<rxQueuePtr, known, decoded, overlap, coming>>

------------------------------------------------------------------------------
(* doAnythingWaitingForPeer and doTimerTasks *)

Waiting(e) == InUse(e) /\ e.complete

TimeoutFirst(s) ==
    LET e == rxQueue[s]
    IN /\ Waiting(e)
       /\ e.packetId \in known \/ e.timestamp = "old"
       /\ rxQueue' = [rxQueue EXCEPT ![s].timestamp = "free"]
       /\ decoded' = decoded \cup (IF e.timestamp = "old" THEN {} ELSE Decoding(e))
       /\ taken' = taken \cup (IF e.packetId \in known THEN {} ELSE {e.packetId})
       /\ UNCHANGED <<rxQueuePtr, known, thread, arrived, overlap, coming>>

(* One entry, with its lock: they go over all of them. *)
Retry(s) ==
    LET e == rxQueue[s]
    IN /\ Waiting(e)
       /\ e.packetId \in known \/ e.timestamp = "old"
       /\ rxQueue' = [rxQueue EXCEPT ![s].timestamp = "free"]
       /\ decoded' = decoded \cup Decoding(e)
       /\ taken' = taken \cup (IF e.packetId \in known THEN {} ELSE {e.packetId})
       /\ UNCHANGED <<rxQueuePtr, known, thread, arrived, overlap, coming>>

Learn(p) ==
    /\ p \notin known
    /\ known' = known \cup {p}
    /\ UNCHANGED <<rxQueue, rxQueuePtr, thread, decoded, arrived, taken, overlap, coming>>

(* More than ZT_RECEIVE_QUEUE_TIMEOUT has passed; only waiting entries are *)
(* asked.                                                                  *)
Age(s) ==
    /\ Waiting(rxQueue[s])
    /\ rxQueue[s].timestamp = "recent"
    /\ rxQueue' = [rxQueue EXCEPT ![s].timestamp = "old"]
    /\ UNCHANGED <<rxQueuePtr, known, thread, decoded, arrived, taken, overlap, coming>>

------------------------------------------------------------------------------

Init ==
    /\ rxQueue = [s \in Slot |->
           [timestamp |-> "free", packetId |-> 0, haveFragments |-> {}, totalFragments |-> 0,
            complete |-> FALSE, parts |-> [f \in Part |-> 0]]]
    /\ rxQueuePtr = 0
    /\ known = Familiar
    /\ thread = [t \in Thread |-> Idle]
    /\ decoded = {} /\ arrived = {} /\ taken = {} /\ overlap = FALSE
    /\ coming = 0

Continue(t) == TakeNext(t) \/ Handle(t) \/ TakeEntry(t) \/ Store(t)

Next ==
    \/ \E t \in Thread : \E p \in Packet : \E f \in PartsOf(p) : ReceivePart(t, p, f)
    \/ \E t \in Thread, p \in Packet : ReceiveWhole(t, p)
    \/ \E t \in Thread : Continue(t)
    \/ \E s \in Slot : Retry(s) \/ Age(s)
    \/ \E p \in Packet : Learn(p)

(* Threads go on; entries get old and are gone over again and again. *)
Fairness ==
    /\ \A t \in Thread : WF_vars(Continue(t))
    /\ \A s \in Slot : WF_vars(Retry(s)) /\ WF_vars(Age(s))

Spec == Init /\ [][Next]_vars /\ Fairness

------------------------------------------------------------------------------
(* Properties *)

(* What is decoded was put together from the parts of one packet, however  *)
(* the threads race for an entry.                                          *)
WholePackets == \A d \in decoded : \A f \in PartsOf(d.packet) : d.parts[f] = d.packet

Decoded(p) == \E d \in decoded : d.packet = p
WaitsIn(s, p) == Waiting(rxQueue[s]) /\ rxQueue[s].packetId = p

(* Parts are put together in any order and with repetitions, unless two    *)
(* threads are at it or the ring has gone round in between.                *)
AnyOrderAssembles ==
    ~overlap =>
        \A p \in Packet \ taken :
            {p} \X PartsOf(p) \subseteq arrived => Decoded(p) \/ \E s \in Slot : WaitsIn(s, p)

(* A packet that waits is decoded once its sender is known, even when the  *)
(* identity came after tryDecode and before the packet was in the queue.   *)
WaitingIsDecoded ==
    \A p \in Packet :
        (p \in known /\ \E s \in Slot : WaitsIn(s, p)) ~> (Decoded(p) \/ p \in taken)
=============================================================================
