-------------------------- MODULE NetworkLifeProofs --------------------------
(***************************************************************************)
(* Proofs about NetworkLife: whatever the number of threads, objects and   *)
(* restarts, the port and the file are in step with the joined network     *)
(* when all threads are done, and have its configuration.                  *)
(***************************************************************************)
EXTENDS NetworkLife, TLAPS

Writers(w) == handler[w].at \in {"callback", "save"}

(* A packet thread has a configuration for an object that was made. *)
WorkOK ==
    \A h \in Handler :
        /\ Busy(h) => handler[h].net \in Object /\ handler[h].net <= made
        /\ Busy(h) /\ handler[h].at # "deny" => handler[h].rev \in Revision

(* join is alone under _networks_m, and its object is not in _networks yet. *)
OneJoins ==
    /\ Joining => current = 0 /\ made \in Object
    /\ \A t, u \in Api : api[t] \in {"put", "up"} /\ api[u] \in {"put", "up"} => t = u

PortInStep == tap => current # 0 \/ \E t \in Api : api[t] = "destroy"

JoinedInStep ==
    ~rejoined => /\ current # 0 => tap /\ file # Absent
                 /\ current # 0 \/ Joining => ~Leaving
                 /\ \A t \in Api : api[t] = "up" => file # Absent

FileInStep ==
    file # Absent /\ ~late => \/ current # 0 \/ Joining \/ Leaving
                              \/ api[Main] \in {"list", "join"}

(* One configuration at a time is on its way to the port and the file, and *)
(* none for an object that was left while another one is made.             *)
OneWrites ==
    /\ \A h, o \in Handler : Writers(h) /\ Writers(o) => h = o
    /\ \A h \in Handler : Writers(h) => handler[h].rev = configs[handler[h].net]
    /\ Joining => \A h \in Handler : ~Configures(h)
    /\ current # 0 => \A h \in Handler : Configures(h) => handler[h].net = current

PortFollows ==
    tap /\ current # 0 /\ (\A h \in Handler : handler[h].at # "callback")
        => shown = configs[current]

FileFollows ==
    /\ file # Absent /\ current # 0 /\ (\A h \in Handler : ~Writers(h))
           => file = OnDisk(configs[current])
    /\ \A t \in Api : api[t] = "put" => configs[made] = NoConfig
    /\ \A t \in Api : api[t] = "up" /\ file # Absent => file = OnDisk(configs[made])

Steps == WorkOK /\ OneJoins /\ PortInStep /\ JoinedInStep /\ FileInStep
Follows == ~crossed /\ ~stray => OneWrites /\ PortFollows /\ FileFollows

LifeInv == LifeTypeOK /\ Steps /\ Follows

LEMMA LifeInvInit == LifeInit => LifeInv
<1> SUFFICES ASSUME LifeInit PROVE LifeInv
  OBVIOUS
<1>1. LifeTypeOK
  <2>1. Idle \in Work
    BY DEF Idle, Work
  <2>2. 0 \in 0..MaxJoins /\ 0 \in 0..MaxRestarts /\ 0 \in 0..0
    BY NetworkLifeConstants
  <2>3. api \in [Api -> {"idle", "list", "join", "put", "up", "destroy", "delete"}]
    BY DEF LifeInit
  <2> QED BY <2>1, <2>2, <2>3 DEF LifeInit, LifeTypeOK
<1>2. \A h \in Handler : handler[h].at = "idle"
  BY DEF LifeInit, Idle
<1>3. ~Joining /\ \A t \in Api : api[t] \in {"list", "idle"}
  BY DEF LifeInit, Joining
<1>4. Steps
  BY <1>2, <1>3, NetworkLifeConstants
     DEF LifeInit, Steps, WorkOK, Busy, OneJoins, PortInStep, JoinedInStep, FileInStep
<1>5. Follows
  BY <1>2, <1>3
     DEF LifeInit, Follows, Writers, OneWrites, PortFollows, FileFollows, Configures
<1> QED BY <1>1, <1>4, <1>5 DEF LifeInv

------------------------------------------------------------------------------
(* Types *)

LEMMA TypeJoin == ASSUME NEW t \in Api, LifeTypeOK, Join(t) PROVE LifeTypeOK'
<1>1. CASE current # 0
  BY <1>1 DEF Join, Go, LifeTypeOK
<1>2. CASE current = 0
  <2>1. made + 1 \in Object /\ Loaded \in Revision \cup {NoConfig}
    BY <1>2, NetworkLifeConstants DEF Join, LifeTypeOK, Object, Loaded
  <2>2. configs' \in [Object -> Revision \cup {NoConfig}]
    BY <1>2, <2>1 DEF Join, LifeTypeOK
  <2>3. rejoined' \in BOOLEAN /\ crossed' \in BOOLEAN /\ stray' = stray
    BY <1>2 DEF Join, LifeTypeOK, Leaving, Configures
  <2>4. made' \in 0..MaxJoins /\ current' \in 0..made'
    BY <1>2, <2>1 DEF Join, LifeTypeOK, Object
  <2> QED BY <1>2, <2>2, <2>3, <2>4 DEF Join, Go, LifeTypeOK
<1> QED BY <1>1, <1>2

LEMMA TypeApi == ASSUME NEW t \in Api, LifeTypeOK, OneJoins, ApiStep(t) PROVE LifeTypeOK'
<1>1. CASE JoinAsked(t)
  BY <1>1, TypeJoin DEF JoinAsked
<1>2. CASE JoinPut(t)
  BY <1>2 DEF JoinPut, Go, LifeTypeOK
<1>3. CASE JoinUp(t)
  <2>1. made \in Object
    BY <1>3 DEF JoinUp, OneJoins, Joining
  <2> QED BY <1>3, <2>1 DEF JoinUp, Up, Go, LifeTypeOK, Object
<1>4. CASE LeaveStart(t)
  BY <1>4 DEF LeaveStart, Go, LifeTypeOK
<1>5. CASE LeaveDestroy(t)
  BY <1>5 DEF LeaveDestroy, Destroy, Go, LifeTypeOK
<1>6. CASE LeaveDelete(t)
  BY <1>6 DEF LeaveDelete, Go, LifeTypeOK
<1> QED BY <1>1, <1>2, <1>3, <1>4, <1>5, <1>6 DEF ApiStep

LEMMA TypeReceive ==
    ASSUME NEW h \in Handler, NEW work \in Work, LifeTypeOK, Receive(h, work)
    PROVE  LifeTypeOK'
<1>1. current \in Object
  BY NetworkLifeConstants DEF Receive, LifeTypeOK, Object
<1>2. [work EXCEPT !.net = current] \in Work
  BY <1>1 DEF Work
<1> QED BY <1>2 DEF Receive, Turn, LifeTypeOK

LEMMA TypeHandler ==
    ASSUME NEW h \in Handler, LifeTypeOK, WorkOK, HandlerStep(h) PROVE LifeTypeOK'
<1> DEFINE w == handler[h]
<1>1. w \in Work /\ Idle \in Work
  BY DEF LifeTypeOK, Work, Idle
<1>2. CASE \E r \in Revision : ReceiveConfig(h, r)
  BY <1>2, TypeReceive DEF ReceiveConfig, Work
<1>3. CASE ReceiveError(h)
  BY <1>3, TypeReceive DEF ReceiveError, Work
<1>4. CASE Check(h)
  <2>1. [w EXCEPT !.at = "set"] \in Work
    BY <1>1 DEF Work
  <2> QED BY <1>1, <1>4, <2>1 DEF Check, Turn, LifeTypeOK
<1>5. CASE SetConfig(h)
  <2>1. [w EXCEPT !.at = "callback"] \in Work /\ w.rev \in Revision
    BY <1>1, <1>5 DEF SetConfig, Work, WorkOK, Busy
  <2>2. crossed' \in BOOLEAN
    BY <1>5 DEF SetConfig, LifeTypeOK
  <2> QED BY <1>5, <2>1, <2>2 DEF SetConfig, Turn, LifeTypeOK
<1>6. CASE Callback(h)
  <2>1. [w EXCEPT !.at = "save"] \in Work /\ w.rev \in Revision
    BY <1>1, <1>6 DEF Callback, Work, WorkOK, Busy
  <2> QED BY <1>6, <2>1 DEF Callback, ConfigUpdate, Turn, LifeTypeOK
<1>7. CASE Save(h)
  <2>1. w.rev \in Revision
    BY <1>7 DEF Save, WorkOK, Busy
  <2>2. late' \in BOOLEAN
    BY <1>7 DEF Save, LifeTypeOK
  <2> QED BY <1>1, <1>7, <2>1, <2>2 DEF Save, Turn, LifeTypeOK
<1>8. CASE Deny(h)
  <2>1. configs[w.net] \in Revision \cup {NoConfig}
    BY <1>8 DEF Deny, WorkOK, Busy, LifeTypeOK
  <2> QED BY <1>1, <1>8, <2>1 DEF Deny, ConfigUpdate, Turn, LifeTypeOK
<1> QED BY <1>2, <1>3, <1>4, <1>5, <1>6, <1>7, <1>8 DEF HandlerStep

LEMMA TypeRestart == ASSUME LifeTypeOK, Restart PROVE LifeTypeOK'
<1>1. restarts' \in 0..MaxRestarts
  BY NetworkLifeConstants DEF Restart, LifeTypeOK
<1>2. handler' \in [Handler -> Work]
  BY DEF Restart, Work, Idle
<1>3. file' \in Revision \cup {Absent, Blank}
  BY DEF Restart, LifeTypeOK
<1>4. api' \in [Api -> {"idle", "list", "join", "put", "up", "destroy", "delete"}]
  BY DEF Restart
<1>5. current' \in 0..made' /\ made' \in 0..MaxJoins
  BY DEF Restart, LifeTypeOK
<1> QED BY <1>1, <1>2, <1>3, <1>4, <1>5 DEF Restart, LifeTypeOK

LEMMA TypeNext == ASSUME LifeTypeOK, Steps, [LifeNext]_lifeVars PROVE LifeTypeOK'
<1>1. CASE \E t \in Api : ApiStep(t)
  BY <1>1, TypeApi DEF Steps
<1>2. CASE \E h \in Handler : HandlerStep(h)
  BY <1>2, TypeHandler DEF Steps
<1>3. CASE ListNetworks
  BY <1>3 DEF ListNetworks, Go, LifeTypeOK
<1>4. CASE JoinListed
  BY <1>4, TypeJoin, NetworkLifeConstants DEF JoinListed
<1>5. CASE Restart
  BY <1>5, TypeRestart
<1>6. CASE UNCHANGED lifeVars
  BY <1>6 DEF lifeVars, LifeTypeOK
<1> QED BY <1>1, <1>2, <1>3, <1>4, <1>5, <1>6 DEF LifeNext

------------------------------------------------------------------------------
(* The port and the file are in step with the network. *)

LEMMA StepsJoin == ASSUME NEW t \in Api, LifeTypeOK, Steps, Join(t),
                          api[t] \in {"idle", "join"}, api[t] = "join" => t = Main
                   PROVE  Steps'
<1>1. CASE current # 0
  <2>1. /\ api' = [api EXCEPT ![t] = "idle"]
        /\ UNCHANGED <<current, made, file, tap, handler, rejoined, late>>
    BY <1>1 DEF Join, Go
  <2>2. Joining' = Joining /\ Leaving' = Leaving
    BY <2>1 DEF LifeTypeOK, Joining, Leaving
  <2>3. WorkOK'
    BY <2>1 DEF Steps, WorkOK, Busy
  <2>4. OneJoins'
    BY <2>1, <2>2 DEF Steps, OneJoins, LifeTypeOK
  <2>5. PortInStep' /\ FileInStep'
    BY <1>1, <2>1 DEF PortInStep, FileInStep
  <2>6. JoinedInStep'
    BY <2>1, <2>2 DEF Steps, JoinedInStep, LifeTypeOK
  <2> QED BY <2>3, <2>4, <2>5, <2>6 DEF Steps
<1>2. CASE current = 0
  <2>1. PICK s \in {"put", "up"} : api' = [api EXCEPT ![t] = s] /\ (s = "up" => file \in Revision)
    BY <1>2 DEF Join, Go
  <2>2. /\ made' = made + 1 /\ made' \in Object
        /\ UNCHANGED <<current, file, tap, handler, late>>
        /\ rejoined' = (rejoined \/ Leaving)
    BY <1>2, NetworkLifeConstants DEF Join, LifeTypeOK, Object
  <2>3. Joining' /\ ~Joining /\ Leaving' = Leaving /\ api[t] \notin {"destroy", "delete"}
    BY <2>1 DEF Join, LifeTypeOK, Joining, Leaving
  <2>4. WorkOK'
    <3> SUFFICES ASSUME NEW h \in Handler, Busy(h)
                 PROVE  /\ handler[h].net \in Object /\ handler[h].net <= made + 1
                        /\ handler[h].at # "deny" => handler[h].rev \in Revision
      BY <2>2 DEF WorkOK, Busy
    <3>1. handler[h].net \in Object /\ handler[h].net <= made /\ made \in Nat
      BY DEF Steps, WorkOK, LifeTypeOK
    <3> QED BY <3>1 DEF Steps, WorkOK, Object
  <2>5. OneJoins'
    BY <1>2, <2>1, <2>2, <2>3 DEF OneJoins, Joining, LifeTypeOK
  <2>6. PortInStep'
    BY <2>1, <2>2, <2>3 DEF Steps, PortInStep, LifeTypeOK
  <2>7. JoinedInStep'
    <3>1. \A u \in Api : api'[u] = "up" => file # Absent
      BY <2>1, <2>3, NetworkLifeConstants DEF Joining, LifeTypeOK
    <3> QED BY <1>2, <2>2, <2>3, <3>1 DEF JoinedInStep
  <2>8. FileInStep'
    BY <2>3 DEF FileInStep
  <2> QED BY <2>4, <2>5, <2>6, <2>7, <2>8 DEF Steps
<1> QED BY <1>1, <1>2

LEMMA StepsJoinPut == ASSUME NEW t \in Api, LifeTypeOK, Steps, JoinPut(t) PROVE Steps'
<1>1. /\ api[t] = "put" /\ api' = [api EXCEPT ![t] = "up"] /\ file' = Blank /\ Blank # Absent
      /\ UNCHANGED <<current, made, tap, handler, rejoined, late>>
  BY NetworkLifeConstants DEF JoinPut, Go
<1>2. Joining /\ Joining' /\ Leaving' = Leaving
  BY <1>1 DEF LifeTypeOK, Joining, Leaving
<1>3. WorkOK'
  BY <1>1 DEF Steps, WorkOK, Busy
<1>4. OneJoins'
  BY <1>1, <1>2 DEF Steps, OneJoins, LifeTypeOK
<1>5. PortInStep'
  BY <1>1 DEF Steps, PortInStep, LifeTypeOK
<1>6. JoinedInStep'
  BY <1>1, <1>2 DEF Steps, JoinedInStep
<1>7. FileInStep'
  BY <1>2 DEF FileInStep
<1> QED BY <1>3, <1>4, <1>5, <1>6, <1>7 DEF Steps

LEMMA StepsJoinUp == ASSUME NEW t \in Api, LifeTypeOK, Steps, JoinUp(t) PROVE Steps'
<1>1. /\ api[t] = "up" /\ api' = [api EXCEPT ![t] = "idle"] /\ tap' = TRUE
      /\ current' = made
      /\ UNCHANGED <<made, file, handler, rejoined, late>>
  BY DEF JoinUp, Up, Go
<1>2. Joining /\ Leaving' = Leaving /\ made \in Object
  BY <1>1 DEF LifeTypeOK, Joining, Leaving, Steps, OneJoins
<1>3. current' # 0
  BY <1>1, <1>2 DEF Object
<1>4. WorkOK'
  BY <1>1 DEF Steps, WorkOK, Busy
<1>5. ~Joining'
  BY <1>1 DEF Joining, Steps, OneJoins, LifeTypeOK
<1>6. OneJoins'
  BY <1>5 DEF OneJoins, Joining
<1>7. PortInStep' /\ FileInStep'
  BY <1>3 DEF PortInStep, FileInStep
<1>8. JoinedInStep'
  BY <1>1, <1>2, <1>5 DEF Steps, JoinedInStep, Joining
<1> QED BY <1>4, <1>6, <1>7, <1>8 DEF Steps

LEMMA StepsLeave ==
    ASSUME NEW t \in Api, LifeTypeOK, Steps, LeaveStart(t) \/ LeaveDestroy(t) \/ LeaveDelete(t)
    PROVE  Steps'
<1>1. WorkOK'
  BY DEF LeaveStart, LeaveDestroy, LeaveDelete, Steps, WorkOK, Busy
<1>2. CASE LeaveStart(t)
  <2>1. /\ api' = [api EXCEPT ![t] = "destroy"] /\ current' = 0 /\ ~Joining
        /\ UNCHANGED <<file, tap, rejoined, late>>
    BY <1>2 DEF LeaveStart, Go
  <2>2. ~Joining' /\ api'[t] = "destroy" /\ Leaving'
    BY <2>1 DEF Joining, Leaving, LifeTypeOK
  <2>3. OneJoins' /\ PortInStep' /\ JoinedInStep' /\ FileInStep'
    BY <2>1, <2>2 DEF OneJoins, PortInStep, JoinedInStep, FileInStep, Joining
  <2> QED BY <1>1, <2>3 DEF Steps
<1>3. CASE LeaveDestroy(t)
  <2>1. /\ api[t] = "destroy" /\ api' = [api EXCEPT ![t] = "delete"] /\ tap' = FALSE
        /\ UNCHANGED <<current, made, file, rejoined, late>>
    BY <1>3 DEF LeaveDestroy, Destroy, Go
  <2>2. Joining' = Joining /\ Leaving /\ Leaving'
    BY <2>1 DEF Joining, Leaving, LifeTypeOK
  <2>3. OneJoins'
    BY <2>1, <2>2 DEF Steps, OneJoins, LifeTypeOK
  <2>4. PortInStep' /\ FileInStep'
    BY <2>1, <2>2 DEF PortInStep, FileInStep
  <2>5. JoinedInStep'
    <3>1. \A u \in Api : api'[u] = "up" => api[u] = "up"
      BY <2>1 DEF LifeTypeOK
    <3> QED BY <2>1, <2>2, <3>1 DEF Steps, JoinedInStep
  <2> QED BY <1>1, <2>3, <2>4, <2>5 DEF Steps
<1>4. CASE LeaveDelete(t)
  <2>1. /\ api[t] = "delete" /\ api' = [api EXCEPT ![t] = "idle"] /\ file' = Absent
        /\ UNCHANGED <<current, made, tap, rejoined, late>>
    BY <1>4 DEF LeaveDelete, Go
  <2>2. Joining' = Joining /\ Leaving
    BY <2>1 DEF Joining, Leaving, LifeTypeOK
  <2>3. OneJoins'
    BY <2>1, <2>2 DEF Steps, OneJoins, LifeTypeOK
  <2>4. PortInStep' /\ FileInStep'
    BY <2>1 DEF Steps, PortInStep, FileInStep, LifeTypeOK
  <2>5. JoinedInStep'
    <3>1. \A u \in Api : api'[u] = "up" => Joining
      BY <2>1 DEF LifeTypeOK, Joining
    <3> QED BY <2>1, <2>2, <3>1 DEF Steps, JoinedInStep
  <2> QED BY <1>1, <2>3, <2>4, <2>5 DEF Steps
<1> QED BY <1>2, <1>3, <1>4

(* A packet thread writes the file, and may take the configuration of the  *)
(* port with it, but neither makes nor takes a port.                       *)
LEMMA StepsHandler ==
    ASSUME NEW h \in Handler, LifeTypeOK, Steps, HandlerStep(h) PROVE Steps'
<1> DEFINE w == handler[h]
<1>1. UNCHANGED <<current, made, tap, api, rejoined>>
  BY DEF HandlerStep, ReceiveConfig, ReceiveError, Receive, Check, SetConfig, Callback,
         ConfigUpdate, Save, Deny
<1>2. PICK v : /\ handler' = [handler EXCEPT ![h] = v]
               /\ v.at # "idle" => v.net \in Object /\ v.net <= made
               /\ v.at \notin {"idle", "deny"} => v.rev \in Revision
  <2>1. w \in Work /\ \A k \in {"net", "rev"} : k \in DOMAIN w
    BY DEF LifeTypeOK, Work
  <2>2. CASE \E r \in Revision : ReceiveConfig(h, r)
    <3>1. current \in Object /\ current <= made
      BY <2>2, NetworkLifeConstants DEF ReceiveConfig, Receive, LifeTypeOK, Object
    <3>2. PICK r \in Revision : ReceiveConfig(h, r)
      BY <2>2
    <3> DEFINE v == [[at |-> "check", net |-> 0, rev |-> r] EXCEPT !.net = current]
    <3>3. v.at = "check" /\ v.net = current /\ v.rev = r
      OBVIOUS
    <3>4. handler' = [handler EXCEPT ![h] = v]
      BY <3>2 DEF ReceiveConfig, Receive, Turn
    <3> HIDE DEF v
    <3> QED BY <3>1, <3>3, <3>4
  <2>3. CASE ReceiveError(h)
    <3>1. current \in Object /\ current <= made
      BY <2>3, NetworkLifeConstants DEF ReceiveError, Receive, LifeTypeOK, Object
    <3> DEFINE v == [[at |-> "deny", net |-> 0, rev |-> NoConfig] EXCEPT !.net = current]
    <3>2. v.at = "deny" /\ v.net = current
      OBVIOUS
    <3>3. handler' = [handler EXCEPT ![h] = v]
      BY <2>3 DEF ReceiveError, Receive, Turn
    <3> HIDE DEF v
    <3> QED BY <3>1, <3>2, <3>3
  <2>4. CASE Check(h) \/ SetConfig(h) \/ Callback(h)
    <3>1. w.net \in Object /\ w.net <= made /\ w.rev \in Revision
      BY <2>4 DEF Check, SetConfig, Callback, Steps, WorkOK, Busy
    <3>2. PICK s \in {"set", "callback", "save"} :
             \/ handler' = [handler EXCEPT ![h] = Idle]
             \/ handler' = [handler EXCEPT ![h] = [w EXCEPT !.at = s]]
      BY <2>4 DEF Check, SetConfig, Callback, Turn
    <3>3. [w EXCEPT !.at = s].net = w.net /\ [w EXCEPT !.at = s].rev = w.rev
      BY <2>1 DEF Work
    <3> QED BY <3>1, <3>2, <3>3 DEF Idle
  <2>5. CASE Save(h) \/ Deny(h)
    BY <2>5 DEF Save, Deny, Turn, Idle
  <2> QED BY <2>2, <2>3, <2>4, <2>5 DEF HandlerStep
<1>3. WorkOK'
  BY <1>1, <1>2 DEF Steps, WorkOK, Busy, LifeTypeOK
<1>4. OneJoins' /\ PortInStep'
  BY <1>1 DEF Steps, OneJoins, PortInStep, Joining
<1>5. CASE file' = file /\ late' = late
  BY <1>1, <1>3, <1>4, <1>5 DEF Steps, JoinedInStep, FileInStep, Joining, Leaving
<1>6. CASE Save(h)
  <2>1. file' \in Revision /\ file' # Absent
    BY <1>6, NetworkLifeConstants DEF Save, Steps, WorkOK, Busy
  <2>2. JoinedInStep'
    BY <1>1, <2>1 DEF Steps, JoinedInStep, Joining, Leaving
  <2>3. ~late' => w.net = current
    BY <1>6 DEF Save
  <2>4. w.net # 0
    BY <1>6 DEF Save, Steps, WorkOK, Busy, Object
  <2> QED BY <1>1, <1>3, <1>4, <2>2, <2>3, <2>4 DEF Steps, FileInStep
<1> QED BY <1>5, <1>6 DEF HandlerStep, ReceiveConfig, ReceiveError, Receive, Check,
                          SetConfig, Callback, Deny

LEMMA StepsRestart == ASSUME LifeTypeOK, Restart PROVE Steps'
<1>1. \A h \in Handler : ~Busy(h)'
  BY DEF Restart, Busy, Idle
<1>2. \A t \in Api : api'[t] \in {"list", "idle"}
  BY DEF Restart
<1>3. api'[Main] = "list" /\ current' = 0 /\ tap' = FALSE
  BY NetworkLifeConstants DEF Restart
<1>4. ~Joining' /\ ~Leaving'
  BY <1>2 DEF Joining, Leaving
<1>5. WorkOK' /\ OneJoins' /\ PortInStep' /\ JoinedInStep' /\ FileInStep'
  BY <1>1, <1>2, <1>3, <1>4
     DEF WorkOK, OneJoins, PortInStep, JoinedInStep, FileInStep, Joining
<1> QED BY <1>5 DEF Steps

LEMMA StepsNext == ASSUME LifeTypeOK, Steps, [LifeNext]_lifeVars PROVE Steps'
<1>1. CASE \E t \in Api : ApiStep(t)
  <2> PICK t \in Api : ApiStep(t)
    BY <1>1
  <2>1. CASE JoinAsked(t)
    BY <2>1, StepsJoin DEF JoinAsked
  <2> QED BY <2>1, StepsJoinPut, StepsJoinUp, StepsLeave DEF ApiStep
<1>2. CASE \E h \in Handler : HandlerStep(h)
  BY <1>2, StepsHandler
<1>3. CASE ListNetworks
  <2>1. PICK s \in {"idle", "join"} :
           /\ api[Main] = "list" /\ api' = [api EXCEPT ![Main] = s] /\ (s = "idle" => file = Absent)
           /\ UNCHANGED <<current, made, file, tap, handler, rejoined, late>>
    BY <1>3 DEF ListNetworks, Go
  <2>2. Joining' = Joining /\ Leaving' = Leaving
    BY <2>1, NetworkLifeConstants DEF Joining, Leaving, LifeTypeOK
  <2>3. WorkOK' /\ PortInStep'
    BY <2>1 DEF Steps, WorkOK, Busy, PortInStep, LifeTypeOK
  <2>4. OneJoins' /\ JoinedInStep'
    BY <2>1, <2>2 DEF Steps, OneJoins, JoinedInStep, LifeTypeOK
  <2>5. FileInStep'
    BY <2>1, <2>2, NetworkLifeConstants DEF Steps, FileInStep, LifeTypeOK
  <2> QED BY <2>3, <2>4, <2>5 DEF Steps
<1>4. CASE JoinListed
  BY <1>4, StepsJoin, NetworkLifeConstants DEF JoinListed
<1>5. CASE Restart
  BY <1>5, StepsRestart
<1>6. CASE UNCHANGED lifeVars
  BY <1>6 DEF lifeVars, Steps, WorkOK, OneJoins, PortInStep, JoinedInStep, FileInStep,
              Joining, Leaving, Busy
<1> QED BY <1>1, <1>2, <1>3, <1>4, <1>5, <1>6 DEF LifeNext

------------------------------------------------------------------------------
(* The port and the file have the configuration of the network. *)

LEMMA FollowsJoin ==
    ASSUME NEW t \in Api, LifeTypeOK, WorkOK, Follows, Join(t), api[t] \in {"idle", "join"} PROVE Follows'
<1> SUFFICES ASSUME ~crossed', ~stray' PROVE OneWrites' /\ PortFollows' /\ FileFollows'
  BY DEF Follows
<1>1. CASE current # 0
  <2>1. /\ api' = [api EXCEPT ![t] = "idle"]
        /\ UNCHANGED <<current, made, configs, file, tap, shown, handler, crossed, stray>>
    BY <1>1 DEF Join, Go
  <2>2. Joining' = Joining
    BY <2>1 DEF Joining, LifeTypeOK
  <2>3. OneWrites /\ PortFollows /\ FileFollows
    BY <2>1 DEF Follows
  <2>4. OneWrites'
    BY <2>1, <2>2, <2>3 DEF OneWrites, Writers, Configures
  <2>5. PortFollows' /\ FileFollows'
    BY <2>1, <2>3 DEF PortFollows, FileFollows, Writers, OnDisk, LifeTypeOK
  <2> QED BY <2>4, <2>5
<1>2. CASE current = 0
  <2>1. /\ current' = 0 /\ ~Joining
        /\ UNCHANGED <<file, handler>>
        /\ \A h \in Handler : ~Configures(h)
    BY <1>2 DEF Join
  <2>2. \A h \in Handler : ~Configures(h)' /\ ~Writers(h)'
    BY <2>1 DEF Configures, Writers
  <2>3. OneWrites' /\ PortFollows'
    BY <2>1, <2>2 DEF OneWrites, PortFollows
  <2>4. configs'[made'] = Loaded
    BY <1>2, NetworkLifeConstants DEF Join, LifeTypeOK, Object
  <2>5. PICK s : api' = [api EXCEPT ![t] = s] /\ s = IF file \in Revision THEN "up" ELSE "put"
    BY <1>2 DEF Join, Go
  <2>6. FileFollows'
    BY <2>1, <2>4, <2>5, NetworkLifeConstants
       DEF FileFollows, Loaded, OnDisk, Joining, LifeTypeOK
  <2> QED BY <2>3, <2>6
<1> QED BY <1>1, <1>2

LEMMA FollowsApi ==
    ASSUME NEW t \in Api, LifeTypeOK, Steps, Follows, ApiStep(t) PROVE Follows'
<1> SUFFICES ASSUME ~crossed', ~stray' PROVE OneWrites' /\ PortFollows' /\ FileFollows'
  BY DEF Follows
<1>1. CASE JoinAsked(t)
  BY <1>1, FollowsJoin DEF JoinAsked, Follows, Steps
<1>2. CASE ~JoinAsked(t)
  <2>1. UNCHANGED <<made, configs, handler, crossed, stray>>
    BY <1>2 DEF ApiStep, JoinPut, JoinUp, LeaveStart, LeaveDestroy, LeaveDelete
  <2>2. OneWrites /\ PortFollows /\ FileFollows
    BY <2>1 DEF Follows
  <2>3. CASE JoinPut(t)
    <3>1. /\ api[t] = "put" /\ api' = [api EXCEPT ![t] = "up"] /\ file' = Blank
          /\ UNCHANGED <<current, tap, shown>>
      BY <2>3 DEF JoinPut, Go
    <3>2. Joining /\ current = 0
      BY <3>1 DEF Joining, Steps, OneJoins
    <3>3. configs[made] = NoConfig
      BY <3>1, <2>2 DEF FileFollows
    <3>4. OneWrites'
      BY <2>1, <2>2, <3>1, <3>2 DEF OneWrites, Writers, Configures
    <3>5. PortFollows' /\ FileFollows'
      BY <2>1, <2>2, <3>1, <3>2, <3>3 DEF PortFollows, FileFollows, OnDisk, LifeTypeOK
    <3> QED BY <3>4, <3>5
  <2>4. CASE JoinUp(t)
    <3>1. /\ api[t] = "up" /\ api' = [api EXCEPT ![t] = "idle"] /\ shown' = configs[made]
          /\ current' = made /\ file' = file
      BY <2>4 DEF JoinUp, Up, Go
    <3>2. Joining /\ \A h \in Handler : ~Configures(h)
      BY <2>2, <3>1 DEF Joining, OneWrites
    <3>3. file # Absent => file = OnDisk(configs[made])
      BY <2>2, <3>1 DEF FileFollows
    <3>4. OneWrites'
      BY <2>1, <2>2, <3>2 DEF OneWrites, Writers, Configures
    <3>5. PortFollows'
      BY <2>1, <3>1 DEF PortFollows
    <3>6. FileFollows'
      BY <2>1, <2>2, <3>1, <3>3 DEF FileFollows, OnDisk, LifeTypeOK
    <3> QED BY <3>4, <3>5, <3>6
  <2>5. CASE LeaveStart(t) \/ LeaveDestroy(t) \/ LeaveDelete(t)
    <3>1. /\ current' \in {0, current} /\ (tap' = FALSE \/ (tap' = tap /\ shown' = shown))
          /\ file' \in {file, Absent}
      BY <2>5 DEF LeaveStart, LeaveDestroy, LeaveDelete, Destroy
    <3>2. PICK s \in {"destroy", "delete", "idle"} :
             api[t] \notin {"put", "up"} /\ api' = [api EXCEPT ![t] = s]
      BY <2>5 DEF LeaveStart, LeaveDestroy, LeaveDelete, Go
    <3>3. Joining' = Joining
      BY <3>2 DEF Joining, LifeTypeOK
    <3>4. OneWrites'
      BY <2>1, <2>2, <3>1, <3>3 DEF OneWrites, Writers, Configures
    <3>5. PortFollows'
      BY <2>1, <2>2, <3>1 DEF PortFollows
    <3>6. FileFollows'
      BY <2>1, <2>2, <3>1, <3>2 DEF FileFollows, OnDisk, Writers, LifeTypeOK
    <3> QED BY <3>4, <3>5, <3>6
  <2> QED BY <1>2, <2>3, <2>4, <2>5 DEF ApiStep
<1> QED BY <1>1, <1>2

LEMMA FollowsHandler ==
    ASSUME NEW h \in Handler, LifeTypeOK, Steps, Follows, HandlerStep(h) PROVE Follows'
<1> SUFFICES ASSUME ~crossed', ~stray' PROVE OneWrites' /\ PortFollows' /\ FileFollows'
  BY DEF Follows
<1> DEFINE w == handler[h]
<1>1. UNCHANGED <<current, made, tap, api>> /\ Joining' = Joining
  BY DEF HandlerStep, ReceiveConfig, ReceiveError, Receive, Check, SetConfig, Callback,
         ConfigUpdate, Save, Deny, Joining
<1>2. ~crossed /\ ~stray /\ OneWrites /\ PortFollows /\ FileFollows
  <2>1. crossed => crossed'
    BY DEF HandlerStep, ReceiveConfig, ReceiveError, Receive, Check, SetConfig, Callback,
           Save, Deny
  <2>2. stray => stray'
    <3>1. CASE Deny(h)
      BY <3>1 DEF Deny
    <3>2. CASE ~Deny(h)
      BY <3>2 DEF HandlerStep, ReceiveConfig, ReceiveError, Receive, Check, SetConfig,
                  Callback, Save
    <3> QED BY <3>1, <3>2
  <2> QED BY <2>1, <2>2 DEF Follows
<1>3. handler \in [Handler -> Work] /\ w \in Work
  BY DEF LifeTypeOK
<1>4. CASE (\E r \in Revision : ReceiveConfig(h, r)) \/ ReceiveError(h) \/ Check(h)
  <2>1. UNCHANGED <<file, shown, configs>>
    BY <1>4 DEF ReceiveConfig, ReceiveError, Receive, Check
  <2>2. ~Writers(h)
    <3>1. w = Idle \/ w.at = "check"
      BY <1>4 DEF ReceiveConfig, ReceiveError, Receive, Check
    <3> QED BY <3>1 DEF Writers, Idle
  <2>3. PICK v : /\ handler' = [handler EXCEPT ![h] = v] /\ v.at \in {"idle", "check", "set", "deny"}
                 /\ v.at = "set" => v.net = current /\ current # 0
    <3>1. CASE \E r \in Revision : ReceiveConfig(h, r)
      <4> PICK r \in Revision : ReceiveConfig(h, r)
        BY <3>1
      <4> DEFINE v == [[at |-> "check", net |-> 0, rev |-> r] EXCEPT !.net = current]
      <4>1. v.at = "check" /\ v.net = current
        OBVIOUS
      <4>2. handler' = [handler EXCEPT ![h] = v]
        BY DEF ReceiveConfig, Receive, Turn
      <4> HIDE DEF v
      <4> QED BY <4>1, <4>2
    <3>2. CASE ReceiveError(h)
      <4> DEFINE v == [[at |-> "deny", net |-> 0, rev |-> NoConfig] EXCEPT !.net = current]
      <4>1. v.at = "deny" /\ v.net = current
        OBVIOUS
      <4>2. handler' = [handler EXCEPT ![h] = v]
        BY <3>2 DEF ReceiveError, Receive, Turn
      <4> HIDE DEF v
      <4> QED BY <4>1, <4>2
    <3>3. CASE Check(h)
      <4> DEFINE v == [w EXCEPT !.at = "set"]
      <4>1. v.at = "set" /\ v.net = w.net /\ w.net # 0
        BY <1>3, <3>3 DEF Work, Check, Busy, Steps, WorkOK, Object
      <4>2. \/ handler' = [handler EXCEPT ![h] = v] /\ w.net = current
            \/ handler' = [handler EXCEPT ![h] = Idle]
        BY <3>3 DEF Check, Turn
      <4> HIDE DEF v
      <4>3. CASE handler' = [handler EXCEPT ![h] = v] /\ w.net = current
        BY <4>1, <4>3
      <4>4. CASE handler' = [handler EXCEPT ![h] = Idle]
        <5>1. Idle.at = "idle"
          BY DEF Idle
        <5> QED BY <4>4, <5>1
      <4> QED BY <4>2, <4>3, <4>4
    <3> QED BY <1>4, <3>1, <3>2, <3>3
  <2>4. \A o \in Handler : /\ Writers(o)' => o # h /\ Writers(o) /\ handler'[o] = handler[o]
                           /\ Writers(o) => Writers(o)' /\ o # h
                           /\ (handler'[o].at = "callback") = (handler[o].at = "callback")
    BY <1>3, <2>2, <2>3 DEF Writers
  <2>5. OneWrites'
    <3>1. \A o \in Handler :
             Configures(o)' => \/ Configures(o) /\ handler'[o] = handler[o]
                               \/ current # 0 /\ handler'[o].net = current
      BY <1>3, <2>3 DEF Configures
    <3>2. Joining => current = 0
      BY DEF Steps, OneJoins
    <3>3. Joining' => \A o \in Handler : ~Configures(o)'
      BY <1>1, <1>2, <3>1, <3>2 DEF OneWrites
    <3>4. current' # 0 => \A o \in Handler : Configures(o)' => handler'[o].net = current'
      BY <1>1, <1>2, <3>1 DEF OneWrites
    <3>5. \A o \in Handler : Writers(o)' => handler'[o].rev = configs'[handler'[o].net]
      BY <1>2, <2>1, <2>4 DEF OneWrites
    <3>6. \A o, g \in Handler : Writers(o)' /\ Writers(g)' => o = g
      BY <1>2, <2>4 DEF OneWrites
    <3> QED BY <3>3, <3>4, <3>5, <3>6 DEF OneWrites
  <2>6. PortFollows' /\ FileFollows'
    BY <1>1, <1>2, <2>1, <2>4 DEF PortFollows, FileFollows, OnDisk
  <2> QED BY <2>5, <2>6
<1>5. CASE SetConfig(h)
  <2> DEFINE v == [w EXCEPT !.at = "callback"]
  <2>1. /\ handler' = [handler EXCEPT ![h] = v] /\ configs' = [configs EXCEPT ![w.net] = w.rev]
        /\ v.at = "callback" /\ v.net = w.net /\ v.rev = w.rev
        /\ \A o \in Handler : ~Writers(o)
    BY <1>3, <1>5 DEF SetConfig, Turn, Work, Writers
  <2>2. w.net \in Object /\ Busy(h) /\ configs'[w.net] = w.rev
    BY <1>5, <2>1 DEF SetConfig, Busy, Steps, WorkOK, LifeTypeOK
  <2>3. ~Joining /\ (current # 0 => w.net = current)
    BY <1>2, <1>5 DEF OneWrites, SetConfig, Configures
  <2> HIDE DEF v
  <2>4. /\ handler'[h] = v
        /\ \A o \in Handler : o # h => handler'[o] = handler[o] /\ ~Writers(o)'
    BY <1>3, <2>1 DEF Writers
  <2>5. OneWrites'
    BY <1>1, <1>2, <2>1, <2>2, <2>3, <2>4 DEF OneWrites, Writers, Configures
  <2>6. PortFollows'
    BY <2>1, <2>4 DEF PortFollows
  <2>7. FileFollows'
    BY <1>1, <2>1, <2>3, <2>4 DEF FileFollows, Writers, Joining
  <2> QED BY <2>5, <2>6, <2>7
<1>6. CASE Callback(h)
  <2> DEFINE v == [w EXCEPT !.at = "save"]
  <2>1. /\ handler' = [handler EXCEPT ![h] = v] /\ UNCHANGED <<configs, file>>
        /\ v.at = "save" /\ v.net = w.net /\ v.rev = w.rev /\ w.at = "callback"
        /\ tap => shown' = w.rev
    BY <1>3, <1>6 DEF Callback, ConfigUpdate, Turn, Work
  <2>2. w.rev = configs[w.net] /\ (current # 0 => w.net = current) /\ ~Joining
    BY <1>2, <2>1 DEF OneWrites, Writers, Configures
  <2> HIDE DEF v
  <2>3. handler'[h] = v /\ \A o \in Handler : o # h => handler'[o] = handler[o]
    BY <1>3, <2>1
  <2>4. OneWrites'
    BY <1>1, <1>2, <2>1, <2>3 DEF OneWrites, Writers, Configures
  <2>5. PortFollows'
    BY <1>1, <2>1, <2>2 DEF PortFollows
  <2>6. FileFollows'
    BY <1>1, <2>1, <2>2, <2>3 DEF FileFollows, Writers, Joining
  <2> QED BY <2>4, <2>5, <2>6
<1>7. CASE Save(h)
  <2>1. /\ handler' = [handler EXCEPT ![h] = Idle] /\ UNCHANGED <<configs, shown>>
        /\ file' = w.rev /\ w.at = "save"
    BY <1>7 DEF Save, Turn
  <2>2. w.rev = configs[w.net] /\ (current # 0 => w.net = current) /\ ~Joining
    BY <1>2, <2>1 DEF OneWrites, Writers, Configures
  <2>3. w.rev # NoConfig
    BY <2>1, NetworkLifeConstants DEF Steps, WorkOK, Busy
  <2>4. handler'[h] = Idle /\ \A o \in Handler : o # h => handler'[o] = handler[o]
    BY <1>3, <2>1
  <2>5. OneWrites'
    BY <1>1, <1>2, <2>1, <2>4 DEF OneWrites, Writers, Configures, Idle
  <2>6. PortFollows'
    BY <1>1, <1>2, <2>1, <2>4 DEF PortFollows, Idle
  <2>7. FileFollows'
    BY <1>1, <2>1, <2>2, <2>3 DEF FileFollows, OnDisk, Joining
  <2> QED BY <2>5, <2>6, <2>7
<1>8. CASE Deny(h)
  <2>1. /\ handler' = [handler EXCEPT ![h] = Idle] /\ UNCHANGED <<configs, file>>
        /\ tap => shown' = configs[w.net]
        /\ w.at = "deny"
    BY <1>8 DEF Deny, ConfigUpdate, Turn
  <2>2. tap /\ current # 0 => w.net = current
    BY <1>8 DEF Deny
  <2>3. handler'[h] = Idle /\ \A o \in Handler : o # h => handler'[o] = handler[o]
    BY <1>3, <2>1
  <2>4. OneWrites'
    BY <1>1, <1>2, <2>1, <2>3 DEF OneWrites, Writers, Configures, Idle
  <2>5. PortFollows'
    BY <1>1, <2>1, <2>2 DEF PortFollows
  <2>6. FileFollows'
    BY <1>1, <1>2, <2>1, <2>3 DEF FileFollows, OnDisk, Writers
  <2> QED BY <2>4, <2>5, <2>6
<1> QED BY <1>4, <1>5, <1>6, <1>7, <1>8 DEF HandlerStep

LEMMA FollowsNext ==
    ASSUME LifeTypeOK, Steps, Follows, [LifeNext]_lifeVars PROVE Follows'
<1>1. CASE \E t \in Api : ApiStep(t)
  BY <1>1, FollowsApi
<1>2. CASE \E h \in Handler : HandlerStep(h)
  BY <1>2, FollowsHandler
<1>3. CASE ListNetworks
  <2>1. PICK s \in {"idle", "join"} :
           /\ api[Main] = "list" /\ api' = [api EXCEPT ![Main] = s]
           /\ UNCHANGED <<current, made, configs, file, tap, shown, handler, crossed, stray>>
    BY <1>3 DEF ListNetworks, Go
  <2>2. Joining' = Joining
    BY <2>1, NetworkLifeConstants DEF Joining, LifeTypeOK
  <2>3. Follows => Follows'
    BY <2>1, <2>2 DEF Follows, OneWrites, PortFollows, FileFollows, Writers, Busy, OnDisk,
                      LifeTypeOK, Configures
  <2> QED BY <2>3
<1>4. CASE JoinListed
  BY <1>4, FollowsJoin, NetworkLifeConstants DEF JoinListed, Steps
<1>5. CASE Restart
  <2>1. \A h \in Handler : ~Configures(h)' /\ ~Writers(h)'
    BY <1>5 DEF Restart, Configures, Writers, Idle
  <2>2. current' = 0 /\ \A t \in Api : api'[t] \in {"list", "idle"}
    BY <1>5 DEF Restart
  <2> QED BY <2>1, <2>2 DEF Follows, OneWrites, PortFollows, FileFollows
<1>6. CASE UNCHANGED lifeVars
  BY <1>6 DEF lifeVars, Follows, OneWrites, PortFollows, FileFollows, Writers, Configures,
              OnDisk, Joining
<1> QED BY <1>1, <1>2, <1>3, <1>4, <1>5, <1>6 DEF LifeNext

------------------------------------------------------------------------------

(* What every step of Node::join, Node::leave and of a packet thread keeps. *)
THEOREM LifeInvariant == LifeSpec => []LifeInv
<1>1. LifeInit => LifeInv
  BY LifeInvInit
<1>2. LifeInv /\ [LifeNext]_lifeVars => LifeInv'
  BY TypeNext, StepsNext, FollowsNext DEF LifeInv
<1> QED BY <1>1, <1>2, PTL DEF LifeSpec

(* The numbers of objects stay in their bound, and every thread is at one  *)
(* of the steps of the code.                                               *)
THEOREM LifeTypes == LifeSpec => []LifeTypeOK
<1>1. LifeInv => LifeTypeOK
  BY DEF LifeInv
<1> QED BY <1>1, LifeInvariant, PTL

(* The port and the file are there, when all threads are done, exactly     *)
(* while the network is joined, apart from a join during a leave and a     *)
(* configuration saved after one (Node::join, Node::leave,                 *)
(* Network::setConfiguration).                                             *)
THEOREM LifeInStep == LifeSpec => []InStep
<1>1. LifeInv => InStep
  <2> SUFFICES ASSUME LifeInv, Quiet PROVE InStep
    BY DEF InStep
  <2>1. ~Joining /\ ~Leaving /\ api[Main] = "idle"
    BY NetworkLifeConstants DEF Quiet, Joining, Leaving
  <2>2. \A t \in Api : api[t] # "destroy"
    BY DEF Quiet
  <2> QED BY <2>1, <2>2 DEF LifeInv, Steps, PortInStep, JoinedInStep, FileInStep, InStep
<1> QED BY <1>1, LifeInvariant, PTL

(* The port and the file have the configuration of the network when all    *)
(* threads are done, with the two exceptions that ServiceFollows names: a  *)
(* configuration crossed another one or a join, or a refusal of an object  *)
(* that was left reached the port of the next one (setConfiguration of     *)
(* Network.cpp, the error setters of Network.hpp, and the constructor).    *)
THEOREM LifeServiceFollows == LifeSpec => []ServiceFollows
<1>1. LifeInv => ServiceFollows
  <2> SUFFICES ASSUME LifeInv, Quiet, current # 0, ~crossed, ~stray
               PROVE  /\ tap => shown = configs[current]
                      /\ file # Absent => file = OnDisk(configs[current])
    BY DEF ServiceFollows
  <2>1. \A h \in Handler : ~Writers(h) /\ handler[h].at # "callback"
    BY DEF Quiet, Busy, Writers
  <2> QED BY <2>1 DEF LifeInv, Follows, PortFollows, FileFollows
<1> QED BY <1>1, LifeInvariant, PTL
=============================================================================
