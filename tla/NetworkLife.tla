----------------------------- MODULE NetworkLife -----------------------------
(***************************************************************************)
(* Joining and leaving one network: Node::join and Node::leave of node/    *)
(* Node.cpp, the constructor, setConfiguration and the refusals of node/   *)
(* Network.cpp, and what the service does for them in service/             *)
(* OneService.cpp: the port (tap) and the file in networks.d that brings   *)
(* the network back at the next start.  Threads of the control API join    *)
(* and leave while packet threads bring configurations and refusals; the   *)
(* callbacks to the service are made after the node's locks were let go.   *)
(* A port can always be created, and what a request to sign on sets in a   *)
(* configuration is left out.                                              *)
(***************************************************************************)
EXTENDS Naturals, FiniteSets

CONSTANTS
    Api,         \* threads that join and leave
    Main,        \* the one of them that starts the service; once it has, it
                 \* stands for another one
    Handler,     \* packet threads
    Revision,    \* configurations the controller sends
    NoConfig,    \* a Network without one
    Absent,      \* no file
    Blank,       \* a file without a configuration that can be read
    MaxJoins,    \* bound on the Network objects
    MaxRestarts  \* bound on the restarts

ASSUME NetworkLifeConstants ==
    /\ Main \in Api
    /\ NoConfig \notin Revision /\ Absent \notin Revision /\ Blank \notin Revision
    /\ Absent # Blank
    /\ MaxJoins \in Nat /\ MaxRestarts \in Nat

VARIABLES
    current,   \* the object in _networks, by its number; 0 is none
    made,      \* objects made
    configs,    \* _config of each object
    file,      \* networks.d/<nwid>.conf
    tap,       \* the service has a port for the network
    shown,     \* the configuration the service has for the port
    api,       \* what each thread of the API is at
    handler,   \* what each packet thread is at, for which object
    restarts,
    (* history, since the start of the process *)
    rejoined,  \* the network was joined while it was being left
    late,      \* a configuration was saved after its network was left
    crossed,   \* two configurations were under way at once, or one that had
               \* passed its checks when the network was joined
    stray      \* a refusal of an object that was left reached the port of
               \* the one joined since

lifeVars == <<current, made, configs, file, tap, shown, api, handler, restarts,
              rejoined, late, crossed, stray>>

Object == 1..MaxJoins

Work == [at : {"idle", "check", "set", "callback", "save", "deny"},
         net : Object \cup {0}, rev : Revision \cup {NoConfig}]

Idle == [at |-> "idle", net |-> 0, rev |-> NoConfig]

LifeTypeOK ==
    /\ made \in 0..MaxJoins /\ current \in 0..made
    /\ configs \in [Object -> Revision \cup {NoConfig}]
    /\ file \in Revision \cup {Absent, Blank}
    /\ tap \in BOOLEAN /\ shown \in Revision \cup {NoConfig}
    /\ api \in [Api -> {"idle", "list", "join", "put", "up", "destroy", "delete"}]
    /\ handler \in [Handler -> Work]
    /\ restarts \in 0..MaxRestarts
    /\ rejoined \in BOOLEAN /\ late \in BOOLEAN /\ crossed \in BOOLEAN
    /\ stray \in BOOLEAN

Go(t, step) == api' = [api EXCEPT ![t] = step]
Turn(h, work) == handler' = [handler EXCEPT ![h] = work]

(* join holds _networks_m to its end, leave only for its first step. *)
Joining == \E t \in Api : api[t] \in {"put", "up"}
Leaving == \E t \in Api : api[t] \in {"destroy", "delete"}

Busy(h) == handler[h].at # "idle"

(* with a configuration that it found neither left nor a duplicate *)
Configures(h) == handler[h].at \in {"set", "callback", "save"}

------------------------------------------------------------------------------
(* The service's nodeVirtualNetworkConfigFunction *)

(* The port is made if there is none. *)
Up(c) == tap' = TRUE /\ shown' = c

UpOnUpdate(c) == tap' = TRUE /\ shown' = c

(* Without a port, an update leaves nothing. *)
ConfigUpdate(c) ==
    /\ shown' = IF tap THEN c ELSE NoConfig
    /\ UNCHANGED tap

Destroy == tap' = FALSE /\ shown' = NoConfig

------------------------------------------------------------------------------
(* Node::join and the constructor of Network *)

Forgotten == NoConfig

(* The configuration in the file, if it can be read *)
Loaded == IF file \in Revision THEN file ELSE NoConfig

Join(t) ==
    /\ ~Joining
    /\ IF current # 0
       THEN Go(t, "idle") /\ UNCHANGED <<made, configs, rejoined, crossed>>
       ELSE /\ made < MaxJoins
            /\ made' = made + 1
            /\ configs' = [configs EXCEPT ![made + 1] = Loaded]
            /\ Go(t, IF file \in Revision THEN "up" ELSE "put")
            /\ rejoined' = (rejoined \/ Leaving)
            /\ crossed' = (crossed \/ \E h \in Handler : Configures(h))
    /\ UNCHANGED <<current, file, tap, shown, handler, restarts, late, stray>>

JoinAsked(t) == api[t] = "idle" /\ current = 0 /\ Join(t)

(* A network without a configuration gets a file for the next start. *)
JoinPut(t) ==
    /\ api[t] = "put"
    /\ file' = Blank
    /\ Go(t, "up")
    /\ UNCHANGED <<current, made, configs, tap, shown, handler, restarts, rejoined, late, crossed, stray>>

JoinUp(t) ==
    /\ api[t] = "up"
    /\ Up(configs[made])
    /\ current' = made
    /\ Go(t, "idle")
    /\ UNCHANGED <<made, configs, file, handler, restarts, rejoined, late, crossed, stray>>

------------------------------------------------------------------------------
(* Node::leave *)

(* destroy() and the removal from _networks, under its lock *)
LeaveStart(t) ==
    /\ api[t] = "idle"
    /\ ~Joining
    /\ current # 0
    /\ current' = 0
    /\ Go(t, "destroy")
    /\ UNCHANGED <<made, configs, file, tap, shown, handler, restarts, rejoined, late, crossed, stray>>

LeaveDestroy(t) ==
    /\ api[t] = "destroy"
    /\ Destroy
    /\ Go(t, "delete")
    /\ UNCHANGED <<current, made, configs, file, handler, restarts, rejoined, late, crossed, stray>>

LeaveDelete(t) ==
    /\ api[t] = "delete"
    /\ file' = Absent
    /\ Go(t, "idle")
    /\ UNCHANGED <<current, made, configs, tap, shown, handler, restarts, rejoined, late, crossed, stray>>

------------------------------------------------------------------------------
(* Packet threads: a configuration, or a refusal of the controller *)

(* Node::network *)
Receive(h, work) ==
    /\ handler[h] = Idle
    /\ ~Joining
    /\ current # 0
    /\ Turn(h, [work EXCEPT !.net = current])
    /\ UNCHANGED <<current, made, configs, file, tap, shown, api, restarts,
                   rejoined, late, crossed, stray>>

ReceiveConfig(h, r) == Receive(h, [at |-> "check", net |-> 0, rev |-> r])
ReceiveError(h) == Receive(h, [at |-> "deny", net |-> 0, rev |-> NoConfig])

(* setConfiguration looks at _destroyed and for a duplicate, without lock. *)
Check(h) ==
    LET w == handler[h]
    IN /\ w.at = "check"
       /\ Turn(h, IF w.net # current \/ configs[w.net] = w.rev
                  THEN Idle ELSE [w EXCEPT !.at = "set"])
       /\ UNCHANGED <<current, made, configs, file, tap, shown, api, restarts,
                      rejoined, late, crossed, stray>>

SetConfig(h) ==
    LET w == handler[h]
    IN /\ w.at = "set"
       /\ configs' = [configs EXCEPT ![w.net] = w.rev]
       /\ Turn(h, [w EXCEPT !.at = "callback"])
       /\ crossed' = (crossed \/ \E o \in Handler : handler[o].at \in {"callback", "save"})
       /\ UNCHANGED <<current, made, file, tap, shown, api, restarts, rejoined, late, stray>>

Callback(h) ==
    /\ handler[h].at = "callback"
    /\ ConfigUpdate(handler[h].rev)
    /\ Turn(h, [handler[h] EXCEPT !.at = "save"])
    /\ UNCHANGED <<current, made, configs, file, api, restarts, rejoined, late, crossed, stray>>

Save(h) ==
    LET w == handler[h]
    IN /\ w.at = "save"
       /\ file' = w.rev
       /\ late' = (late \/ w.net # current)
       /\ Turn(h, Idle)
       /\ UNCHANGED <<current, made, configs, tap, shown, api, restarts, rejoined, crossed, stray>>

(* setAccessDenied and setNotFound call the service with the lock of the   *)
(* network, left or not.                                                   *)
Deny(h) ==
    LET w == handler[h]
    IN /\ w.at = "deny"
       /\ ConfigUpdate(configs[w.net])
       /\ stray' = (stray \/ (tap /\ current # 0 /\ w.net # current))
       /\ Turn(h, Idle)
       /\ UNCHANGED <<current, made, configs, file, api, restarts, rejoined, late, crossed>>

------------------------------------------------------------------------------
(* The process ends at any point, in the middle of writing a file too, and *)
(* starts again: it joins the networks it found in networks.d, when the    *)
(* API is already there.                                                   *)

Writing == (\E t \in Api : api[t] = "put") \/ (\E h \in Handler : handler[h].at = "save")

Restart ==
    /\ restarts < MaxRestarts
    /\ restarts' = restarts + 1
    /\ file' \in {file} \cup (IF Writing THEN {Blank} ELSE {})
    /\ current' = 0 /\ tap' = FALSE /\ shown' = NoConfig
    /\ api' = [t \in Api |-> IF t = Main THEN "list" ELSE "idle"]
    /\ handler' = [h \in Handler |-> Idle]
    /\ rejoined' = FALSE /\ late' = FALSE /\ crossed' = FALSE /\ stray' = FALSE
    /\ UNCHANGED <<made, configs>>

ListNetworks ==
    /\ api[Main] = "list"
    /\ Go(Main, IF file = Absent THEN "idle" ELSE "join")
    /\ UNCHANGED <<current, made, configs, file, tap, shown, handler, restarts,
                   rejoined, late, crossed, stray>>

JoinListed == api[Main] = "join" /\ Join(Main)

LifeInit ==
    /\ current = 0 /\ made = 0
    /\ configs = [o \in Object |-> NoConfig]
    /\ file \in Revision \cup {Absent, Blank}
    /\ tap = FALSE /\ shown = NoConfig
    /\ api = [t \in Api |-> IF t = Main THEN "list" ELSE "idle"]
    /\ handler = [h \in Handler |-> Idle]
    /\ restarts = 0
    /\ rejoined = FALSE /\ late = FALSE /\ crossed = FALSE /\ stray = FALSE

ApiStep(t) ==
    \/ JoinAsked(t) \/ JoinPut(t) \/ JoinUp(t)
    \/ LeaveStart(t) \/ LeaveDestroy(t) \/ LeaveDelete(t)

HandlerStep(h) ==
    \/ \E r \in Revision : ReceiveConfig(h, r)
    \/ ReceiveError(h)
    \/ Check(h) \/ SetConfig(h) \/ Callback(h) \/ Save(h) \/ Deny(h)

LifeNext ==
    \/ \E t \in Api : ApiStep(t)
    \/ \E h \in Handler : HandlerStep(h)
    \/ ListNetworks \/ JoinListed
    \/ Restart

LifeSpec == LifeInit /\ [][LifeNext]_lifeVars

------------------------------------------------------------------------------
(* Properties *)

Quiet == (\A t \in Api : api[t] = "idle") /\ \A h \in Handler : ~Busy(h)

(* When all threads are done, the service has a port for the network, and  *)
(* a file to come back with, exactly while it is joined, except that a     *)
(* join during a leave may lose both, and a configuration on its way       *)
(* during a leave may bring the file back.                                 *)
InStep ==
    Quiet => /\ tap => current # 0
             /\ (current # 0 /\ ~rejoined) => tap /\ file # Absent
             /\ (file # Absent /\ ~late) => current # 0

OnDisk(c) == IF c = NoConfig THEN Blank ELSE c

(* When all threads are done, the port and the file have the configuration *)
(* of the network, whatever was joined, left and refused at the same time, *)
(* with two exceptions: two configurations crossed, or one that had passed *)
(* its checks and a join; and a refusal held for an object that was left   *)
(* came after the next one had its port, where it shows the configuration  *)
(* of the old one (Network.hpp does not look at _destroyed there).         *)
ServiceFollows ==
    (Quiet /\ current # 0 /\ ~crossed /\ ~stray)
    => /\ tap => shown = configs[current]
       /\ file # Absent => file = OnDisk(configs[current])

(* ZeroTierOne.h: "Network is going down permanently (leave/delete)", so   *)
(* the next start does not bring it back.                                  *)
LeftForGood == (Quiet /\ current = 0) => file = Absent
=============================================================================
