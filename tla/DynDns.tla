------------------------------- MODULE DynDns -------------------------------
(***************************************************************************)
(* service/OneService.cpp: the dynamic-DNS layer.  The service's main loop *)
(* watches the worlds that have a domain, wakes a resolver thread through  *)
(* a condition variable when one of them cannot be reached, and applies    *)
(* what the resolver published.  The two threads share _zgalaxyDns_m,      *)
(* which neither holds across a query; the condition variable has no       *)
(* predicate, and notify_one is called without its mutex.                  *)
(***************************************************************************)
EXTENDS Naturals, FiniteSets

CONSTANTS
    Planet,      \* the planet
    Moon,        \* the moons
    Domain,      \* the names local.conf may give
    OwnerOf,     \* the world whose root a name belongs to
    Ip,
    Configs,     \* the contents of local.conf: a domain or None for each world
    Installed,   \* the worlds loaded at startup
    Validates,   \* whether zgalaxyValidateIntervalMinutes > 0
    None,
    MaxChanges,  \* bound on what the environment does
    MaxSpurious  \* bound on spurious wakeups

World == {Planet} \cup Moon

ASSUME DynDnsConstants ==
    /\ Planet \notin Moon
    /\ OwnerOf \in [Domain -> World]
    /\ Configs \subseteq [World -> Domain \cup {None}]
    /\ Installed \subseteq World
    /\ Ip # {}
    /\ None \notin Domain \cup Ip \cup [ip : Ip, of : Domain]
    /\ MaxChanges \in Nat /\ MaxSpurious \in Nat

VARIABLES
    (* service state under _zgalaxyDns_m *)
    domain,      \* _zgalaxyDomain and the domains in _zgalaxyMoons
    answer,      \* _zgalaxyResolvedIps and resolvedIps: [ip, of], or None
    gate,        \* now - _zgalaxyLastDnsCheck and now - lastResolved
    validation,  \* whether a bounded validation is due
    (* the main loop *)
    main, seen, want,
    (* the resolver thread *)
    dns, todo, query,
    run,         \* _zgalaxyDnsRun
    stop,        \* ~ _run
    (* the node *)
    eps,         \* the public endpoint of the world's primary root
    link,        \* the worlds with an alive path to a root
    (* the environment *)
    conf,        \* local.conf
    edited,      \* whether it was written since it was last read
    home,        \* where the primary root of a world listens
    record,      \* the A record of a name
    online,
    changes, spurious,
    (* history *)
    redundant    \* passes begun although nothing was due

shared == <<domain, answer, gate, validation>>
mainVars == <<main, seen, want>>
dnsVars == <<dns, todo, query>>
node == <<eps, link>>
env == <<conf, edited, home, record, online, changes>>
vars == <<shared, mainVars, dnsVars, run, stop, node, env, spurious, redundant>>

Nothing == [w \in World |-> None]
Configured(d) == { w \in World : d[w] # None }

(* The retry interval of a world has passed, has not, or never will: the   *)
(* lastResolved of a moon is not initialized when local.conf is read.      *)
Gate == {"open", "closed", "never"}
Answer == [ip : Ip, of : Domain]
Query == [world : World, of : Domain, ip : Ip \cup {None}]
Snapshot == [domain : [World -> Domain \cup {None}],
             due : SUBSET World,
             answer : [World -> Answer \cup {None}]]

TypeOK ==
    /\ domain \in [World -> Domain \cup {None}]
    /\ answer \in [World -> Answer \cup {None}]
    /\ gate \in [World -> Gate] /\ gate[Planet] # "never"
    /\ validation \in {"off", "due", "waiting"}
    /\ main \in {"boot", "top", "moons", "snapshot", "decide", "notify", "apply",
                 "stop", "wake", "join", "done"}
    /\ seen \in Snapshot
    /\ want \in BOOLEAN
    /\ dns \in {"check", "enter", "wait", "woken", "next", "publish", "done"}
    /\ todo \in [World -> Domain \cup {None}]
    /\ query \in Query \cup {None}
    /\ run \in BOOLEAN /\ stop \in BOOLEAN
    /\ eps \in [World -> Ip \cup {None}]
    /\ link \subseteq World
    /\ conf \in Configs /\ edited \in BOOLEAN
    /\ home \in [World -> Ip] /\ record \in [Domain -> Ip]
    /\ online \in BOOLEAN
    /\ changes \in 0..MaxChanges /\ spurious \in 0..MaxSpurious

------------------------------------------------------------------------------
(* The condition variable *)

(* notify_one reaches a thread that waits, and nobody otherwise. *)
Notify == dns' = IF dns = "wait" THEN "woken" ELSE dns

------------------------------------------------------------------------------
(* The main loop *)

(* Startup, with local.conf read and the thread started *)
Boot ==
    /\ main = "boot"
    /\ IF domain[Planet] # None THEN Notify ELSE UNCHANGED dns
    /\ main' = "top"
    /\ UNCHANGED <<shared, seen, want, todo, query, run, stop, node, env, spurious, redundant>>

(* readLocalSettings, some time after the file was written, stores the     *)
(* planet's domain and, in another critical section, the moons.            *)
Top ==
    /\ main = "top"
    /\ \/ stop /\ main' = "stop" /\ UNCHANGED <<domain, edited, redundant>>
       \/ ~ stop /\ main' = "snapshot" /\ UNCHANGED <<domain, edited, redundant>>
       \/ /\ ~ stop
          /\ edited
          /\ edited' = FALSE
          /\ domain' = [domain EXCEPT ![Planet] = conf[Planet]]
          /\ main' = "moons"
          /\ redundant' = 0
    /\ UNCHANGED <<answer, gate, validation, seen, want, dnsVars, run, stop, node, conf, home,
                   record, online, changes, spurious>>

(* lastResolved of every moon is whatever the memory held. *)
Uninitialized == { g \in [World -> Gate] : g[Planet] = gate[Planet] }

(* _zgalaxyMoons is replaced whole: nothing in it is resolved. *)
ReloadMoons ==
    /\ main = "moons"
    /\ domain' = [w \in World |-> IF w \in Moon THEN conf[w] ELSE domain[w]]
    /\ answer' = [w \in World |-> IF w \in Moon THEN None ELSE answer[w]]
    /\ gate' \in Uninitialized
    /\ main' = "snapshot"
    /\ redundant' = 0
    /\ UNCHANGED <<validation, seen, want, dnsVars, run, stop, node, env, spurious>>

TakeSnapshot ==
    /\ main = "snapshot"
    /\ seen' = [domain |-> domain,
                due |-> { w \in Configured(domain) : gate[w] = "open" },
                answer |-> answer]
    /\ main' = IF Configured(domain) = {} THEN "top" ELSE "decide"
    /\ UNCHANGED <<shared, want, dnsVars, run, stop, node, env, spurious, redundant>>

ReachableIfKnown(w) == eps[w] # None

(* Node::isWorldReachable; the planet is looked up by the id it had when   *)
(* the service started, which is 0 if there was none.                      *)
Reachable(w) == w \in link /\ (w = Planet => Planet \in Installed)

FallbackUngated(due) == \E w \in Configured(seen.domain) : ~ Reachable(w)

FallbackByTime(due) == due # {}

(* Some world whose retry gate is open cannot be reached. *)
Fallback(due) == \E w \in due : ~ Reachable(w)

DecideOnce ==
    /\ main = "decide"
    /\ want' = (validation = "due" \/ Fallback(seen.due))
    /\ validation' = "off"
    /\ main' = "notify"
    /\ UNCHANGED <<domain, answer, gate, seen, dnsVars, run, stop, node, env, spurious, redundant>>

Decide ==
    /\ main = "decide"
    /\ want' = (validation = "due" \/ Fallback(seen.due))
    /\ validation' = IF validation = "due" THEN "waiting" ELSE validation
    /\ main' = "notify"
    /\ UNCHANGED <<domain, answer, gate, seen, dnsVars, run, stop, node, env, spurious, redundant>>

NotifyAndReread ==
    /\ main = "notify"
    /\ IF want THEN Notify ELSE UNCHANGED dns
    /\ main' = "apply"
    /\ IF edited THEN domain' = conf /\ edited' = FALSE ELSE UNCHANGED <<domain, edited>>
    /\ UNCHANGED <<answer, gate, validation, seen, want, todo, query, run, stop, node, conf, home,
                   record, online, changes, spurious, redundant>>

NotifyResolver ==
    /\ main = "notify"
    /\ IF want THEN Notify ELSE UNCHANGED dns
    /\ main' = "apply"
    /\ UNCHANGED <<shared, seen, want, todo, query, run, stop, node, env, spurious, redundant>>

(* setPlanetEndpoints and setMoonEndpoints of what the snapshot holds *)
Applies(w) == seen.domain[w] # None /\ seen.answer[w] # None /\ eps[w] # None

(* A changed endpoint costs the world its link: the peer is made anew. *)
Apply ==
    /\ main = "apply"
    /\ eps' = [w \in World |-> IF Applies(w) THEN seen.answer[w].ip ELSE eps[w]]
    /\ link' = { w \in link : eps'[w] = eps[w] }
    /\ main' = "top"
    /\ UNCHANGED <<shared, seen, want, dnsVars, run, stop, env, spurious, redundant>>

(* The end of run(): store, notify, join *)
StopResolver ==
    /\ main = "stop"
    /\ run' = FALSE
    /\ main' = "wake"
    /\ UNCHANGED <<shared, seen, want, dnsVars, stop, node, env, spurious, redundant>>

WakeToStop ==
    /\ main = "wake"
    /\ Notify
    /\ main' = "join"
    /\ UNCHANGED <<shared, seen, want, todo, query, run, stop, node, env, spurious, redundant>>

Join ==
    /\ main = "join"
    /\ dns = "done"
    /\ main' = "done"
    /\ UNCHANGED <<shared, seen, want, dnsVars, run, stop, node, env, spurious, redundant>>

MainStep ==
    \/ Boot \/ Top \/ ReloadMoons \/ TakeSnapshot \/ Decide \/ NotifyResolver \/ Apply
    \/ StopResolver \/ WakeToStop \/ Join

------------------------------------------------------------------------------
(* The resolver thread *)

CheckRun ==
    /\ dns = "check"
    /\ dns' = IF run THEN "enter" ELSE "done"
    /\ UNCHANGED <<shared, mainVars, todo, query, run, stop, node, env, spurious, redundant>>

Wait ==
    /\ dns = "enter"
    /\ dns' = "wait"
    /\ UNCHANGED <<shared, mainVars, todo, query, run, stop, node, env, spurious, redundant>>

SpuriousWakeup ==
    /\ dns = "wait"
    /\ spurious < MaxSpurious
    /\ dns' = "woken"
    /\ spurious' = spurious + 1
    /\ UNCHANGED <<shared, mainVars, todo, query, run, stop, node, env, redundant>>

(* Whether a pass that begins now was called for *)
AnyDue == validation # "off" \/ \E w \in Configured(domain) : gate[w] = "open"

(* A pass starts from a copy of the configuration. *)
BeginPass ==
    /\ dns = "woken"
    /\ dns' = IF run THEN "next" ELSE "done"
    /\ todo' = IF run THEN domain ELSE todo
    /\ redundant' = IF ~ run \/ Configured(domain) = {} THEN redundant
                    ELSE IF AnyDue THEN 0
                    ELSE redundant + 1
    /\ UNCHANGED <<shared, mainVars, query, run, stop, node, env, spurious>>

(* getaddrinfo of the planet's name, then of the moons' *)
Resolve(w) ==
    /\ dns = "next"
    /\ todo[w] # None
    /\ w # Planet => todo[Planet] = None
    /\ query' = [world |-> w, of |-> todo[w], ip |-> IF online THEN record[todo[w]] ELSE None]
    /\ todo' = [todo EXCEPT ![w] = None]
    /\ dns' = "publish"
    /\ UNCHANGED <<shared, mainVars, run, stop, node, env, spurious, redundant>>

FoundOrNothing(w) == IF query.ip = None THEN None ELSE [ip |-> query.ip, of |-> query.of]

(* A failure leaves the last answer. *)
Found(w) == IF query.ip = None THEN answer[w] ELSE [ip |-> query.ip, of |-> query.of]

(* The result goes to the world with this id, whatever its domain is now.  *)
(* The time recorded is that of the start of the pass, so a slow query     *)
(* leaves the gate open.                                                   *)
Publish ==
    LET w == query.world
        listed == w = Planet \/ domain[w] # None
    IN  /\ dns = "publish"
        /\ answer' = IF listed THEN [answer EXCEPT ![w] = Found(w)] ELSE answer
        /\ IF listed
           THEN \E g \in {"open", "closed"} : gate' = [gate EXCEPT ![w] = g]
           ELSE UNCHANGED gate
        /\ dns' = "next"
        /\ query' = None
        /\ UNCHANGED <<domain, validation, mainVars, todo, run, stop, node, env, spurious,
                       redundant>>

EndPass ==
    /\ dns = "next"
    /\ todo = Nothing
    /\ dns' = "check"
    /\ UNCHANGED <<shared, mainVars, todo, query, run, stop, node, env, spurious, redundant>>

DnsStep == CheckRun \/ Wait \/ BeginPass \/ (\E w \in World : Resolve(w)) \/ Publish \/ EndPass

------------------------------------------------------------------------------
(* Time, the network and the operator *)

GateOpens(w) ==
    /\ gate[w] = "closed"
    /\ gate' = [gate EXCEPT ![w] = "open"]
    /\ redundant' = 0
    /\ UNCHANGED <<domain, answer, validation, mainVars, dnsVars, run, stop, node, env, spurious>>

ValidationDue ==
    /\ validation = "waiting"
    /\ validation' = "due"
    /\ UNCHANGED <<domain, answer, gate, mainVars, dnsVars, run, stop, node, env, spurious, redundant>>

Connect(w) ==
    /\ online
    /\ eps[w] = home[w]
    /\ w \notin link
    /\ link' = link \cup {w}
    /\ UNCHANGED <<shared, mainVars, dnsVars, run, stop, eps, env, spurious, redundant>>

Disconnect(w) ==
    /\ ~ online \/ eps[w] # home[w]
    /\ w \in link
    /\ link' = link \ {w}
    /\ UNCHANGED <<shared, mainVars, dnsVars, run, stop, eps, env, spurious, redundant>>

(* The owner of a name updates its record. *)
UpdateRecord(d) ==
    /\ record[d] # home[OwnerOf[d]]
    /\ record' = [record EXCEPT ![d] = home[OwnerOf[d]]]
    /\ UNCHANGED <<shared, mainVars, dnsVars, run, stop, node, conf, edited, home, online, changes,
                   spurious, redundant>>

GoOnline ==
    /\ ~ online
    /\ online' = TRUE
    /\ UNCHANGED <<shared, mainVars, dnsVars, run, stop, node, conf, edited, home, record, changes,
                   spurious, redundant>>

(* What may happen and need not *)
Change ==
    /\ changes < MaxChanges
    /\ changes' = changes + 1
    /\ \/ \E w \in World, i \in Ip :
             /\ i # home[w]
             /\ home' = [home EXCEPT ![w] = i]
             /\ UNCHANGED <<conf, edited, online, eps>>
       \/ online /\ online' = FALSE /\ UNCHANGED <<conf, edited, home, eps>>
       \/ conf' \in Configs /\ edited' = TRUE /\ UNCHANGED <<home, online, eps>>
       \/ \E w \in World :
             /\ eps[w] = None
             /\ eps' = [eps EXCEPT ![w] = home[w]]
             /\ UNCHANGED <<conf, edited, home, online>>
    /\ UNCHANGED <<shared, mainVars, dnsVars, run, stop, link, record, spurious, redundant>>

Terminate ==
    /\ ~ stop
    /\ stop' = TRUE
    /\ UNCHANGED <<shared, mainVars, dnsVars, run, node, env, spurious, redundant>>

Init ==
    /\ conf \in Configs
    /\ edited = FALSE
    /\ domain = conf
    /\ answer = Nothing
    /\ gate \in { g \in [World -> Gate] : g[Planet] = "open" }
    /\ validation = IF Validates THEN "due" ELSE "off"
    /\ main = "boot"
    /\ seen = [domain |-> Nothing, due |-> {}, answer |-> Nothing]
    /\ want = FALSE
    /\ dns = "check"
    /\ todo = Nothing
    /\ query = None
    /\ run = TRUE
    /\ stop = FALSE
    /\ home = [w \in World |-> CHOOSE i \in Ip : TRUE]
    /\ record = [d \in Domain |-> home[OwnerOf[d]]]
    /\ eps = [w \in World |-> IF w \in Installed THEN home[w] ELSE None]
    /\ link = {}
    /\ online = TRUE
    /\ changes = 0
    /\ spurious = 0
    /\ redundant = 0

Next ==
    \/ MainStep
    \/ DnsStep
    \/ SpuriousWakeup
    \/ \E w \in World : GateOpens(w) \/ Connect(w) \/ Disconnect(w)
    \/ ValidationDue
    \/ \E d \in Domain : UpdateRecord(d)
    \/ GoOnline
    \/ Change
    \/ Terminate

(* Both threads keep running, a query returns, timers run out, a root that *)
(* can be reached is, one that cannot is noticed, and owners mend their    *)
(* records and the network.                                                *)
Fairness ==
    /\ WF_vars(MainStep)
    /\ WF_vars(DnsStep)
    /\ \A w \in World :
          WF_vars(GateOpens(w)) /\ WF_vars(Connect(w)) /\ WF_vars(Disconnect(w))
    /\ WF_vars(ValidationDue)
    /\ \A d \in Domain : WF_vars(UpdateRecord(d))
    /\ WF_vars(GoOnline)

Spec == Init /\ [][Next]_vars /\ Fairness

------------------------------------------------------------------------------
(* Properties *)

(* At most one pass beyond those that a retry interval or a new local.conf *)
(* called for (and one for each spurious wakeup): the main loop may notify *)
(* on a snapshot taken before the last attempt was recorded, but only      *)
(* once.                                                                   *)
SaneCadence == redundant <= 1 + spurious

(* A failed query never takes the planet's last known addresses away.      *)
PlanetAnswerKept == [][answer[Planet] # None => answer'[Planet] # None]_vars

(* No zgalaxyDomain configured: the endpoints of a world without a domain  *)
(* are left alone, also when the domain went away while the resolver was   *)
(* still asking for it.                                                    *)
DisabledMeansStock ==
    [][ \A w \in World : (domain[w] = None /\ eps[w] # None) => eps'[w] = eps[w] ]_vars

Heals(w) ==
    <>[](~ stop /\ domain[w] # None /\ eps[w] # None) => <>[](w \in link)

(* A client self-heals: however the root's address, the record, the        *)
(* network and local.conf changed before, once they settle the planet is   *)
(* reached again, whatever notifications were lost.                        *)
PlanetHeals == Heals(Planet)

(* So are the moons that have a domain. *)
MoonsHeal == \A m \in Moon : Heals(m)

(* Stable connection, no DNS queries: once every configured world stays    *)
(* reachable, the resolver stays idle.                                     *)
QuietWhenStable ==
    <>[](~ stop /\ Configured(domain) \subseteq link) => <>[](dns \notin {"next", "publish"})

(* The resolver thread is stopped and joined in run() cleanup: a request   *)
(* to stop ends the service.                                               *)
StopsOnRequest == stop ~> main = "done"
=============================================================================
