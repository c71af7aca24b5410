------------------------------- MODULE TxQueue -------------------------------
(***************************************************************************)
(* Sending in node/Switch.cpp: send, requestWhois, doAnythingWaitingForPeer *)
(* and doTimerTasks.  A packet that can not be sent waits in a short queue *)
(* and an upstream is asked for the identity of its destination, not too   *)
(* often.  Packets are sent by several threads, answers come to another    *)
(* and a timer goes over the queue; each thread lets go of the locks       *)
(* between its steps.                                                      *)
(***************************************************************************)
EXTENDS Naturals, Sequences

CONSTANTS
    Sender,      \* threads that send
    Packet,      \* packets, each sent once
    To,          \* for each packet, its destination
    Upstream,    \* the upstream that is asked; its identity is known
    QueueSize,   \* ZT_TX_QUEUE_SIZE
    RetryDelay,  \* ZT_WHOIS_RETRY_DELAY
    Timeout,     \* ZT_TRANSMIT_QUEUE_TIMEOUT
    Nothing,
    MaxForgets   \* bound on the peers the topology drops

Dest == { To[p] : p \in Packet }

ASSUME TxQueueConstants ==
    /\ Upstream \notin Dest /\ Nothing \notin Packet \cup Dest
    /\ QueueSize \in Nat \ {0} /\ RetryDelay \in Nat \ {0} /\ Timeout \in Nat
    /\ MaxForgets \in Nat

VARIABLES
    txQueue,    \* _txQueue
    lastWhois,  \* age of _lastSentWhoisRequest; RetryDelay stands for
                \* more and for none, which the code treats alike
    lastCheck,  \* age of _lastCheckedQueues
    known,      \* destinations the topology has a peer for
    up,         \* there is a path to the upstream, and by it to all peers
    asked,      \* WHOIS requests that may still be answered; one that is lost
                \* stays here and never is
    sender,     \* what each sender is at
    receiver,   \* what the thread that got an answer is at
    timer,      \* what doTimerTasks is at, and whom it has to ask about
    (* history *)
    sent, evicted, expired,
    twice,      \* packets sent a second time
    forgets

clocks == <<lastWhois, lastCheck>>
fates == <<sent, evicted, expired, twice>>
vars == <<txQueue, clocks, known, up, asked, sender, receiver, timer, fates, forgets>>

(* A WHOIS waits in the queue as Nothing. *)
Entry == [packet : Packet \cup {Nothing}, about : Dest, age : 0..(Timeout + 1)]

TypeOK ==
    /\ \A i \in DOMAIN txQueue : txQueue[i] \in Entry
    /\ Len(txQueue) <= QueueSize
    /\ lastWhois \in [Dest -> 0..RetryDelay]
    /\ lastCheck \in 0..RetryDelay
    /\ known \subseteq Dest /\ asked \subseteq Dest /\ up \in BOOLEAN
    /\ sender \in [Sender -> [at : {"idle", "push", "ask"}, packet : Packet \cup {Nothing}]]
    /\ receiver \in [at : {"idle", "erase", "flush"}, about : Dest \cup {Nothing}]
    /\ timer \in [at : {"idle", "ask"}, need : SUBSET Dest]
    /\ \A s \in {sent, evicted, expired, twice} : s \subseteq Packet
    /\ forgets \in 0..MaxForgets

------------------------------------------------------------------------------

IsWhois(e) == e.packet = Nothing

(* _trySend *)
CanSend(d) == up /\ d \in known
EntryCanGo(e) == IF IsWhois(e) THEN up ELSE CanSend(e.about)

(* A full queue loses its oldest entry. *)
Pushed(q, e) == Append(IF Len(q) >= QueueSize THEN Tail(q) ELSE q, e)

EvictedBy(q) ==
    IF Len(q) >= QueueSize /\ ~IsWhois(Head(q)) THEN {Head(q).packet} ELSE {}

(* What the entries of a queue at some positions hold and ask about *)
PacketsAt(q, S) == { q[i].packet : i \in S } \ {Nothing}
QuestionsAt(q, S) == { q[i].about : i \in { j \in S : IsWhois(q[j]) } }

PacketsIn(q) == PacketsAt(q, DOMAIN q)

(* The entries at some positions, in order *)
EntriesAt(q, S) ==
    LET list[i \in 0..Len(q)] ==
            IF i = 0 THEN <<>> ELSE IF i \in S THEN Append(list[i - 1], q[i]) ELSE list[i - 1]
    IN  list[Len(q)]

(* Entries of the queue are sent. *)
SendAll(q, S) ==
    /\ sent' = sent \cup PacketsAt(q, S)
    /\ twice' = twice \cup (sent \cap PacketsAt(q, S))
    /\ asked' = asked \cup QuestionsAt(q, S)

AskedLongAgo(d) == lastWhois[d] >= RetryDelay

(* requestWhois: the question goes to the upstream or, without a path, into *)
(* the queue.                                                              *)
RequestWhois(d) ==
    IF AskedLongAgo(d)
    THEN /\ lastWhois' = [lastWhois EXCEPT ![d] = 0]
         /\ IF up
            THEN /\ asked' = asked \cup {d}
                 /\ UNCHANGED <<txQueue, evicted>>
            ELSE /\ txQueue' = Pushed(txQueue, [packet |-> Nothing, about |-> d, age |-> 0])
                 /\ evicted' = evicted \cup EvictedBy(txQueue)
                 /\ UNCHANGED asked
    ELSE UNCHANGED <<lastWhois, asked, txQueue, evicted>>

------------------------------------------------------------------------------
(* send *)

Fresh(p) == p \notin sent /\ \A s \in Sender : sender[s].packet # p

Idle == [at |-> "idle", packet |-> Nothing]

Send(s, p) ==
    /\ sender[s] = Idle
    /\ Fresh(p) /\ p \notin evicted \cup expired \cup PacketsIn(txQueue)
    /\ IF CanSend(To[p])
       THEN /\ sent' = sent \cup {p}
            /\ UNCHANGED sender
       ELSE /\ sender' = [sender EXCEPT ![s] = [at |-> "push", packet |-> p]]
            /\ UNCHANGED sent
    /\ UNCHANGED <<txQueue, clocks, known, up, asked, receiver, timer, evicted, expired, twice,
                   forgets>>

Push(s) ==
    LET p == sender[s].packet
    IN /\ sender[s].at = "push"
       /\ sender' = [sender EXCEPT ![s].at = "ask"]
       /\ txQueue' = Pushed(txQueue, [packet |-> p, about |-> To[p], age |-> 0])
       /\ evicted' = evicted \cup EvictedBy(txQueue)
       /\ UNCHANGED <<clocks, known, up, asked, receiver, timer, sent, expired, twice, forgets>>

Ask(s) ==
    /\ sender[s].at = "ask"
    /\ sender' = [sender EXCEPT ![s] = Idle]
    /\ IF To[sender[s].packet] \in known
       THEN UNCHANGED <<lastWhois, asked, txQueue, evicted>>
       ELSE RequestWhois(To[sender[s].packet])
    /\ UNCHANGED <<lastCheck, known, up, receiver, timer, sent, expired, twice, forgets>>

------------------------------------------------------------------------------
(* An OK(WHOIS), and doAnythingWaitingForPeer *)

AddPeer(d) ==
    /\ up
    /\ receiver.at = "idle"
    /\ d \in asked
    /\ asked' = asked \ {d}
    /\ known' = known \cup {d}
    /\ receiver' = [at |-> "erase", about |-> d]
    /\ UNCHANGED <<txQueue, clocks, up, sender, timer, fates, forgets>>

EraseWhois ==
    /\ receiver.at = "erase"
    /\ lastWhois' = [lastWhois EXCEPT ![receiver.about] = RetryDelay]
    /\ receiver' = [receiver EXCEPT !.at = "flush"]
    /\ UNCHANGED <<txQueue, lastCheck, known, up, asked, sender, timer, fates, forgets>>

NoneLeaves(q, d) == q

(* The packets in the queue that wait for d and can be sent *)
Leaving(q, d) == { i \in DOMAIN q : ~IsWhois(q[i]) /\ q[i].about = d /\ CanSend(d) }

(* What stays in the queue when they have been sent *)
Stays(q, d) == EntriesAt(q, DOMAIN q \ Leaving(q, d))

Flush ==
    LET d == receiver.about
    IN /\ receiver.at = "flush"
       /\ receiver' = [at |-> "idle", about |-> Nothing]
       /\ txQueue' = Stays(txQueue, d)
       /\ SendAll(txQueue, Leaving(txQueue, d))
       /\ UNCHANGED <<clocks, known, up, sender, timer, evicted, expired, forgets>>

------------------------------------------------------------------------------
(* doTimerTasks *)

Old(e) == e.age > Timeout

TimeoutFirst(q) == { i \in DOMAIN q : EntryCanGo(q[i]) /\ ~Old(q[i]) }

(* What goes; an entry that can be sent is sent even when it is old. *)
Goes(q) == { i \in DOMAIN q : EntryCanGo(q[i]) }

GivenUp(q) == { i \in DOMAIN q \ Goes(q) : Old(q[i]) }
Waits(q) == DOMAIN q \ (Goes(q) \cup GivenUp(q))

(* Whom the packets that wait on are for, and are not known *)
Strangers(q) ==
    { q[i].about : i \in { j \in Waits(q) : ~IsWhois(q[j]) /\ q[j].about \notin known } }

CheckQueue ==
    /\ timer.at = "idle"
    /\ lastCheck >= RetryDelay
    /\ lastCheck' = 0
    /\ txQueue' = EntriesAt(txQueue, Waits(txQueue))
    /\ SendAll(txQueue, Goes(txQueue))
    /\ expired' = expired \cup PacketsAt(txQueue, GivenUp(txQueue))
    /\ timer' = [at |-> "ask", need |-> Strangers(txQueue)]
    /\ UNCHANGED <<lastWhois, known, up, sender, receiver, evicted, forgets>>

TimerAsk(d) ==
    /\ timer.at = "ask" /\ d \in timer.need
    /\ timer' = [timer EXCEPT !.need = @ \ {d}]
    /\ RequestWhois(d)
    /\ UNCHANGED <<lastCheck, known, up, sender, receiver, sent, expired, twice, forgets>>

TimerEnd ==
    /\ timer = [at |-> "ask", need |-> {}]
    /\ timer' = [timer EXCEPT !.at = "idle"]
    /\ UNCHANGED <<txQueue, clocks, known, up, asked, sender, receiver, fates, forgets>>

------------------------------------------------------------------------------
(* Time and the network *)

Older(age, cap) == IF age < cap THEN age + 1 ELSE age

Tick ==
    /\ lastWhois' = [d \in Dest |-> Older(lastWhois[d], RetryDelay)]
    /\ lastCheck' = Older(lastCheck, RetryDelay)
    /\ txQueue' = [i \in DOMAIN txQueue |->
                      [txQueue[i] EXCEPT !.age = Older(@, Timeout + 1)]]
    /\ UNCHANGED <<known, up, asked, sender, receiver, timer, fates, forgets>>

LinkChanges ==
    /\ up' = ~up
    /\ UNCHANGED <<txQueue, clocks, known, asked, sender, receiver, timer, fates, forgets>>

Forget(d) ==
    /\ d \in known
    /\ forgets < MaxForgets
    /\ forgets' = forgets + 1
    /\ known' = known \ {d}
    /\ UNCHANGED <<txQueue, clocks, up, asked, sender, receiver, timer, fates>>

------------------------------------------------------------------------------

Init ==
    /\ txQueue = << >>
    /\ lastWhois = [d \in Dest |-> RetryDelay]
    /\ lastCheck = RetryDelay
    /\ known = {} /\ up \in BOOLEAN /\ asked = {}
    /\ sender = [s \in Sender |-> Idle]
    /\ receiver = [at |-> "idle", about |-> Nothing]
    /\ timer = [at |-> "idle", need |-> {}]
    /\ sent = {} /\ evicted = {} /\ expired = {} /\ twice = {} /\ forgets = 0

TimerStep == CheckQueue \/ (\E d \in Dest : TimerAsk(d)) \/ TimerEnd

Next ==
    \/ \E s \in Sender, p \in Packet : Send(s, p)
    \/ \E s \in Sender : Push(s) \/ Ask(s)
    \/ \E d \in Dest : AddPeer(d) \/ Forget(d)
    \/ EraseWhois \/ Flush
    \/ TimerStep
    \/ Tick \/ LinkChanges

(* Threads go on, time passes and the timer is called again and again. *)
Fairness ==
    /\ \A s \in Sender : WF_vars(Push(s) \/ Ask(s))
    /\ WF_vars(EraseWhois \/ Flush)
    /\ WF_vars(TimerStep)
    /\ WF_vars(Tick)

Spec == Init /\ [][Next]_vars /\ Fairness

------------------------------------------------------------------------------
(* Properties *)

InHand(p) == \E s \in Sender : sender[s] = [at |-> "push", packet |-> p]
InQueue(p) == p \in PacketsIn(txQueue)

Places == << { p \in Packet : InHand(p) }, PacketsIn(txQueue), sent, evicted, expired >>

(* Whatever the threads do to the queue at the same time, a packet is at   *)
(* one place: it waits to be queued or in the queue, or was sent, pushed   *)
(* out or given up, once; and the queue keeps to its size.                 *)
OneFate ==
    /\ Len(txQueue) <= QueueSize
    /\ twice = {}
    /\ \A i, j \in DOMAIN txQueue :
          txQueue[i].packet = txQueue[j].packet /\ ~IsWhois(txQueue[i]) => i = j
    /\ LET places == Places
       IN  \A i, j \in DOMAIN places : i < j => places[i] \cap places[j] = {}

(* A packet that send took in stays at one of these places: no step of any *)
(* thread drops it without it being sent, pushed out or given up.          *)
Placed == { p \in Packet : InHand(p) } \cup PacketsIn(txQueue) \cup sent \cup evicted \cup expired
NoneForgotten == [][Placed \subseteq Placed']_vars

(* A packet is not left behind: once its destination stays in reach it is  *)
(* sent, and never times out, even when the identity came between the      *)
(* attempt to send and the queue, and the answer found the queue empty.    *)
ReachableIsSent ==
    \A p \in Packet :
        [](InQueue(p) /\ []CanSend(To[p]) => <>(p \in sent \cup evicted))
=============================================================================
