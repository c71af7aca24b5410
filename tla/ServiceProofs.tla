---------------------------- MODULE ServiceProofs ----------------------------
(***************************************************************************)
(* The two parts of service/OneService.cpp that follow local.conf.  For    *)
(* every planet, set of moons, names, addresses and contents of local.conf *)
(* the dynamic-DNS layer keeps its types, touches no endpoint of a world   *)
(* that has no domain, never loses the planet's last answer and does not   *)
(* query without a cause; and for every interval, resolution and delay,    *)
(* which changes of local.conf the service is certain to read.             *)
(***************************************************************************)
EXTENDS DynDns, ConfWatch, TLAPS

(* While it decides and applies, the main loop's snapshot has the domains  *)
(* in force: only the main loop itself reads local.conf, and it does so at *)
(* the top.                                                                *)
SnapshotInForce == main \in {"decide", "notify", "apply"} => seen.domain = domain

(* A resolver that is about to publish has asked. *)
QueryInHand == dns = "publish" => query \in Query

NothingTyped == Nothing \in [World -> Domain \cup {None}] /\ Nothing \in [World -> Answer \cup {None}]

LEMMA NothingIsTyped == NothingTyped
BY DEF NothingTyped, Nothing

LEMMA InitTypes == Init => TypeOK
<1> SUFFICES ASSUME Init PROVE TypeOK
  OBVIOUS
<1>1. domain \in [World -> Domain \cup {None}] /\ conf \in Configs
  BY DynDnsConstants DEF Init
<1>2. /\ Nothing \in [World -> Domain \cup {None}]
      /\ Nothing \in [World -> Answer \cup {None}]
  BY NothingIsTyped DEF NothingTyped
<1>3. (CHOOSE i \in Ip : TRUE) \in Ip
  BY DynDnsConstants
<1>4. home \in [World -> Ip]
  BY <1>3 DEF Init
<1>5. OwnerOf \in [Domain -> World]
  BY DynDnsConstants
<1>6. record \in [Domain -> Ip]
  <2>1. \A d \in Domain : home[OwnerOf[d]] \in Ip
    BY <1>4, <1>5
  <2>2. record = [d \in Domain |-> home[OwnerOf[d]]]
    BY DEF Init
  <2> QED BY <2>1, <2>2
<1>7. eps \in [World -> Ip \cup {None}]
  <2>1. eps = [w \in World |-> IF w \in Installed THEN home[w] ELSE None]
    BY DEF Init
  <2> QED BY <2>1, <1>4
<1>8. gate \in [World -> Gate] /\ gate[Planet] # "never"
  BY DEF Init
<1>9. seen \in Snapshot
  <2>1. seen = [domain |-> Nothing, due |-> {}, answer |-> Nothing]
    BY DEF Init
  <2> QED BY <2>1, <1>2 DEF Snapshot
<1>10. validation \in {"off", "due", "waiting"}
  BY DEF Init
<1>11. changes \in 0..MaxChanges /\ spurious \in 0..MaxSpurious
  BY DynDnsConstants DEF Init
<1> QED BY <1>1, <1>2, <1>4, <1>6, <1>7, <1>8, <1>9, <1>10, <1>11 DEF Init, TypeOK

------------------------------------------------------------------------------
(* The main loop *)

LEMMA MainTypes == TypeOK /\ MainStep => TypeOK'
<1> SUFFICES ASSUME TypeOK, MainStep PROVE TypeOK'
  OBVIOUS
<1> USE DEF shared, mainVars, dnsVars, node, env
<1>1. CASE Boot
  BY <1>1 DEF Boot, Notify, TypeOK
<1>2. CASE Top
  <2>1. conf \in [World -> Domain \cup {None}] /\ Planet \in World
    BY DynDnsConstants DEF TypeOK, World
  <2>2. domain' \in [World -> Domain \cup {None}]
    BY <1>2, <2>1 DEF Top, TypeOK
  <2>3. main' \in {"stop", "snapshot", "moons"} /\ edited' \in BOOLEAN
    BY <1>2 DEF Top, TypeOK
  <2> QED BY <1>2, <2>2, <2>3 DEF Top, TypeOK
<1>3. CASE ReloadMoons
  <2>1. conf \in [World -> Domain \cup {None}]
    BY DynDnsConstants DEF TypeOK
  <2>2. domain' \in [World -> Domain \cup {None}]
    BY <1>3, <2>1 DEF ReloadMoons, TypeOK
  <2>3. answer' \in [World -> Answer \cup {None}]
    BY <1>3 DEF ReloadMoons, TypeOK
  <2>4. gate' \in [World -> Gate] /\ gate'[Planet] # "never"
    BY <1>3 DEF ReloadMoons, Uninitialized, TypeOK
  <2> QED BY <1>3, <2>2, <2>3, <2>4 DEF ReloadMoons, TypeOK
<1>4. CASE TakeSnapshot
  <2>1. seen' \in Snapshot
    BY <1>4 DEF TakeSnapshot, Configured, Snapshot, TypeOK
  <2>2. main' \in {"top", "decide"}
    BY <1>4 DEF TakeSnapshot
  <2> QED BY <1>4, <2>1, <2>2 DEF TakeSnapshot, TypeOK
<1>5. CASE Decide
  <2>1. want' \in BOOLEAN
    <3>1. want' = (validation = "due" \/ Fallback(seen.due))
      BY <1>5 DEF Decide
    <3>2. (validation = "due" \/ Fallback(seen.due)) \in BOOLEAN
      BY Zenon DEF Fallback
    <3> QED BY <3>1, <3>2
  <2>2. validation' \in {"off", "due", "waiting"}
    BY <1>5 DEF Decide, TypeOK
  <2> QED BY <1>5, <2>1, <2>2 DEF Decide, TypeOK
<1>6. CASE NotifyResolver
  BY <1>6 DEF NotifyResolver, Notify, TypeOK
<1>7. CASE Apply
  <2>1. eps' \in [World -> Ip \cup {None}]
    <3>1. eps' = [w \in World |-> IF Applies(w) THEN seen.answer[w].ip ELSE eps[w]]
      BY <1>7 DEF Apply
    <3>2. ASSUME NEW w \in World, Applies(w) PROVE seen.answer[w].ip \in Ip
      <4>1. seen.answer[w] \in Answer
        BY <3>2 DEF Applies, TypeOK, Snapshot
      <4> QED BY <4>1 DEF Answer
    <3> QED BY <3>1, <3>2 DEF TypeOK
  <2>2. link' \subseteq World
    BY <1>7 DEF Apply, TypeOK
  <2> QED BY <1>7, <2>1, <2>2 DEF Apply, TypeOK
<1>8. CASE StopResolver
  BY <1>8 DEF StopResolver, TypeOK
<1>9. CASE WakeToStop
  BY <1>9 DEF WakeToStop, Notify, TypeOK
<1>10. CASE Join
  BY <1>10 DEF Join, TypeOK
<1> QED BY <1>1, <1>2, <1>3, <1>4, <1>5, <1>6, <1>7, <1>8, <1>9, <1>10 DEF MainStep

------------------------------------------------------------------------------
(* The resolver *)

LEMMA DnsTypes == TypeOK /\ QueryInHand /\ DnsStep => TypeOK'
<1> SUFFICES ASSUME TypeOK, QueryInHand, DnsStep PROVE TypeOK'
  OBVIOUS
<1> USE DEF shared, mainVars, dnsVars, node, env
<1>1. CASE CheckRun
  BY <1>1 DEF CheckRun, TypeOK
<1>2. CASE Wait
  BY <1>2 DEF Wait, TypeOK
<1>3. CASE BeginPass
  BY <1>3 DEF BeginPass, TypeOK
<1>4. ASSUME NEW w \in World, Resolve(w) PROVE TypeOK'
  <2>1. todo' \in [World -> Domain \cup {None}] /\ todo[w] \in Domain
    BY <1>4 DEF Resolve, TypeOK
  <2>2. (IF online THEN record[todo[w]] ELSE None) \in Ip \cup {None}
    BY <2>1 DEF TypeOK
  <2>3. query' \in Query
    BY <1>4, <2>1, <2>2 DEF Resolve, Query
  <2> QED BY <1>4, <2>1, <2>3 DEF Resolve, TypeOK
<1>5. CASE Publish
  <2> DEFINE w == query.world
  <2>1. query \in Query
    BY <1>5 DEF Publish, QueryInHand
  <2>2. w \in World
    BY <2>1 DEF Query
  <2>3. Found(w) \in Answer \cup {None}
    <3>1. CASE query.ip = None
      BY <3>1, <2>2 DEF Found, TypeOK
    <3>2. CASE query.ip # None
      <4>1. query.ip \in Ip /\ query.of \in Domain
        BY <2>1, <3>2 DEF Query
      <4> QED BY <3>2, <4>1 DEF Found, Answer
    <3> QED BY <3>1, <3>2
  <2>4. answer' = answer \/ answer' = [answer EXCEPT ![w] = Found(w)]
    BY <1>5 DEF Publish
  <2>5. answer' \in [World -> Answer \cup {None}]
    BY <2>2, <2>3, <2>4 DEF TypeOK
  <2>6. gate' = gate \/ \E g \in {"open", "closed"} : gate' = [gate EXCEPT ![w] = g]
    BY <1>5 DEF Publish
  <2>7. gate' \in [World -> Gate] /\ gate'[Planet] # "never"
    <3>1. Planet \in World
      BY DEF World
    <3>2. CASE gate' = gate
      BY <3>2 DEF TypeOK
    <3>3. ASSUME NEW g \in {"open", "closed"}, gate' = [gate EXCEPT ![w] = g]
          PROVE  gate' \in [World -> Gate] /\ gate'[Planet] # "never"
      BY <2>2, <3>1, <3>3 DEF TypeOK, Gate
    <3> QED BY <2>6, <3>2, <3>3
  <2>8. /\ dns' = "next" /\ query' = None
        /\ UNCHANGED <<domain, validation, main, seen, want, todo, run, stop, eps, link, conf,
                       edited, home, record, online, changes, spurious>>
    BY <1>5 DEF Publish
  <2> QED BY <2>5, <2>7, <2>8 DEF TypeOK
<1>6. CASE EndPass
  BY <1>6 DEF EndPass, TypeOK
<1> QED BY <1>1, <1>2, <1>3, <1>4, <1>5, <1>6 DEF DnsStep

------------------------------------------------------------------------------
(* The environment *)

Environment ==
    \/ SpuriousWakeup
    \/ \E w \in World : GateOpens(w) \/ Connect(w) \/ Disconnect(w)
    \/ ValidationDue
    \/ \E d \in Domain : UpdateRecord(d)
    \/ GoOnline
    \/ Change
    \/ Terminate

LEMMA EnvironmentTypes == TypeOK /\ Environment => TypeOK'
<1> SUFFICES ASSUME TypeOK, Environment PROVE TypeOK'
  OBVIOUS
<1> USE DEF shared, mainVars, dnsVars, node, env
<1>1. CASE SpuriousWakeup
  BY <1>1, DynDnsConstants DEF SpuriousWakeup, TypeOK
<1>2. ASSUME NEW w \in World, GateOpens(w) PROVE TypeOK'
  BY <1>2 DEF GateOpens, TypeOK, Gate
<1>3. ASSUME NEW w \in World, Connect(w) PROVE TypeOK'
  BY <1>3 DEF Connect, TypeOK
<1>4. ASSUME NEW w \in World, Disconnect(w) PROVE TypeOK'
  BY <1>4 DEF Disconnect, TypeOK
<1>5. CASE ValidationDue
  BY <1>5 DEF ValidationDue, TypeOK
<1>6. ASSUME NEW d \in Domain, UpdateRecord(d) PROVE TypeOK'
  <2>1. home[OwnerOf[d]] \in Ip
    BY DynDnsConstants DEF TypeOK
  <2>2. record' \in [Domain -> Ip]
    BY <1>6, <2>1 DEF UpdateRecord, TypeOK
  <2> QED BY <1>6, <2>2 DEF UpdateRecord, TypeOK
<1>7. CASE GoOnline
  BY <1>7 DEF GoOnline, TypeOK
<1>8. CASE Change
  <2>1. changes' \in 0..MaxChanges
    BY <1>8, DynDnsConstants DEF Change, TypeOK
  <2>2. home' \in [World -> Ip] /\ eps' \in [World -> Ip \cup {None}]
    BY <1>8 DEF Change, TypeOK
  <2>3. conf' \in Configs /\ edited' \in BOOLEAN /\ online' \in BOOLEAN
    BY <1>8 DEF Change, TypeOK
  <2> QED BY <1>8, <2>1, <2>2, <2>3 DEF Change, TypeOK
<1>9. CASE Terminate
  BY <1>9 DEF Terminate, TypeOK
<1> QED BY <1>1, <1>2, <1>3, <1>4, <1>5, <1>6, <1>7, <1>8, <1>9 DEF Environment

------------------------------------------------------------------------------
(* The inductive invariant *)

IInv == TypeOK /\ QueryInHand /\ SnapshotInForce

LEMMA NextCases == Next => MainStep \/ DnsStep \/ Environment
BY DEF Next, Environment

LEMMA QueryStays == TypeOK /\ QueryInHand /\ Next => QueryInHand'
<1> SUFFICES ASSUME TypeOK, QueryInHand, Next PROVE QueryInHand'
  OBVIOUS
<1> USE DEF shared, mainVars, dnsVars, node, env, QueryInHand
<1>1. CASE MainStep
  BY <1>1 DEF MainStep, Boot, Top, ReloadMoons, TakeSnapshot, Decide, NotifyResolver, Apply,
              StopResolver, WakeToStop, Join, Notify
<1>2. CASE DnsStep
  <2>1. ASSUME NEW w \in World, Resolve(w) PROVE QueryInHand'
    <3>1. todo[w] \in Domain
      BY <2>1 DEF Resolve, TypeOK
    <3>2. (IF online THEN record[todo[w]] ELSE None) \in Ip \cup {None}
      BY <3>1 DEF TypeOK
    <3>3. query' \in Query
      BY <2>1, <3>1, <3>2 DEF Resolve, Query
    <3> QED BY <3>3
  <2>2. CASE CheckRun \/ Wait \/ BeginPass \/ Publish \/ EndPass
    BY <2>2 DEF CheckRun, Wait, BeginPass, Publish, EndPass
  <2> QED BY <1>2, <2>1, <2>2 DEF DnsStep
<1>3. CASE Environment
  BY <1>3 DEF Environment, SpuriousWakeup, GateOpens, Connect, Disconnect, ValidationDue,
              UpdateRecord, GoOnline, Change, Terminate
<1> QED BY <1>1, <1>2, <1>3, NextCases

LEMMA SnapshotStays == SnapshotInForce /\ Next => SnapshotInForce'
<1> SUFFICES ASSUME SnapshotInForce, Next PROVE SnapshotInForce'
  OBVIOUS
<1> USE DEF shared, mainVars, dnsVars, node, env, SnapshotInForce
<1>1. CASE MainStep
  BY <1>1 DEF MainStep, Boot, Top, ReloadMoons, TakeSnapshot, Decide, NotifyResolver, Apply,
              StopResolver, WakeToStop, Join
<1>2. CASE DnsStep
  BY <1>2 DEF DnsStep, CheckRun, Wait, BeginPass, Resolve, Publish, EndPass
<1>3. CASE Environment
  BY <1>3 DEF Environment, SpuriousWakeup, GateOpens, Connect, Disconnect, ValidationDue,
              UpdateRecord, GoOnline, Change, Terminate
<1> QED BY <1>1, <1>2, <1>3, NextCases

LEMMA Invariance == Spec => []IInv
<1>1. Init => IInv
  BY InitTypes DEF Init, IInv, QueryInHand, SnapshotInForce
<1>2. IInv /\ [Next]_vars => IInv'
  <2> SUFFICES ASSUME IInv, [Next]_vars PROVE IInv'
    OBVIOUS
  <2>1. CASE Next
    BY <2>1, NextCases, MainTypes, DnsTypes, EnvironmentTypes, QueryStays, SnapshotStays DEF IInv
  <2>2. CASE UNCHANGED vars
    BY <2>2 DEF vars, shared, mainVars, dnsVars, node, env, IInv, TypeOK, QueryInHand,
                SnapshotInForce
  <2> QED BY <2>1, <2>2
<1> QED BY <1>1, <1>2, PTL DEF Spec

(* The types, for every set of moons and names: whatever the resolver      *)
(* publishes for a world that local.conf no longer has, and whatever the   *)
(* memory of a new moon held, the state stays one the code can read.       *)
THEOREM DynDnsTypes == Spec => []TypeOK
BY Invariance, PTL DEF IInv

(* Only a root whose world has a domain is rewritten: the answers that are *)
(* applied belong to domains in force, even when they were asked for       *)
(* before the configuration changed.                                       *)
THEOREM DisabledStaysStock == Spec => DisabledMeansStock
<1> DEFINE Stock == \A w \in World : (domain[w] = None /\ eps[w] # None) => eps'[w] = eps[w]
<1>1. IInv /\ Next => Stock
  <2> SUFFICES ASSUME IInv, Next,
                      NEW w \in World, domain[w] = None, eps[w] # None
               PROVE  eps'[w] = eps[w]
    OBVIOUS
  <2> USE DEF shared, mainVars, dnsVars, node, env
  <2>1. CASE Apply
    <3>1. ~ Applies(w)
      BY <2>1 DEF Apply, Applies, IInv, SnapshotInForce
    <3> QED BY <2>1, <3>1 DEF Apply
  <2>2. CASE Change
    BY <2>2 DEF Change, IInv, TypeOK
  <2>3. CASE Boot \/ Top \/ ReloadMoons \/ TakeSnapshot \/ Decide \/ NotifyResolver
             \/ StopResolver \/ WakeToStop \/ Join
    BY <2>3 DEF Boot, Top, ReloadMoons, TakeSnapshot, Decide, NotifyResolver,
                StopResolver, WakeToStop, Join
  <2>4. CASE DnsStep
    BY <2>4 DEF DnsStep, CheckRun, Wait, BeginPass, Resolve, Publish, EndPass
  <2>5. CASE Environment /\ ~ Change
    BY <2>5 DEF Environment, SpuriousWakeup, GateOpens, Connect, Disconnect, ValidationDue,
                UpdateRecord, GoOnline, Terminate
  <2> QED BY <2>1, <2>2, <2>3, <2>4, <2>5, NextCases DEF MainStep
<1>2. IInv /\ [Next]_vars => [Stock]_vars
  BY <1>1
<1>3. Spec => [][Stock]_vars
  BY <1>2, Invariance, PTL DEF Spec
<1> QED BY <1>3 DEF DisabledMeansStock

(* A failed or late query never takes the planet's last answer away.       *)
THEOREM PlanetAnswerStays == Spec => PlanetAnswerKept
<1> DEFINE Kept == answer[Planet] # None => answer'[Planet] # None
<1>1. IInv /\ Next => Kept
  <2> SUFFICES ASSUME IInv, Next, answer[Planet] # None
               PROVE  answer'[Planet] # None
    OBVIOUS
  <2> USE DEF shared, mainVars, dnsVars, node, env
  <2>1. CASE ReloadMoons
    <3>1. Planet \in World /\ Planet \notin Moon
      BY DynDnsConstants DEF World
    <3> QED BY <2>1, <3>1 DEF ReloadMoons
  <2>2. CASE Publish
    <3> DEFINE w == query.world
    <3>1. query \in Query
      BY <2>2 DEF Publish, IInv, QueryInHand
    <3>2. Found(Planet) # None
      <4>1. CASE query.ip = None
        BY <4>1 DEF Found
      <4>2. CASE query.ip # None
        <5>1. Found(Planet) \in [ip : Ip, of : Domain]
          BY <3>1, <4>2 DEF Found, Query
        <5> QED BY <5>1, DynDnsConstants
      <4> QED BY <4>1, <4>2
    <3>3. answer' = answer \/ answer' = [answer EXCEPT ![w] = Found(w)]
      BY <2>2 DEF Publish
    <3>4. answer \in [World -> Answer \cup {None}] /\ Planet \in World
      BY DEF IInv, TypeOK, World
    <3> QED BY <3>2, <3>3, <3>4
  <2>3. CASE MainStep /\ ~ ReloadMoons
    BY <2>3 DEF MainStep, Boot, Top, TakeSnapshot, Decide, NotifyResolver, Apply,
                StopResolver, WakeToStop, Join
  <2>4. CASE DnsStep /\ ~ Publish
    BY <2>4 DEF DnsStep, CheckRun, Wait, BeginPass, Resolve, EndPass
  <2>5. CASE Environment
    BY <2>5 DEF Environment, SpuriousWakeup, GateOpens, Connect, Disconnect, ValidationDue,
                UpdateRecord, GoOnline, Change, Terminate
  <2> QED BY <2>1, <2>2, <2>3, <2>4, <2>5, NextCases
<1>2. IInv /\ [Next]_vars => [Kept]_vars
  BY <1>1
<1>3. Spec => [][Kept]_vars
  BY <1>2, Invariance, PTL DEF Spec
<1> QED BY <1>3 DEF PlanetAnswerKept

------------------------------------------------------------------------------
(* How often the resolver asks *)

Pending ==
    \/ main = "boot" /\ domain[Planet] # None
    \/ main = "decide" /\ seen.due # {}
    \/ main = "notify" /\ want

Woken == dns = "woken" /\ run

One(b) == IF b THEN 1 ELSE 0

(* A world the pass has still to ask about, or is asking about *)
InPass(w) ==
    \/ dns \in {"next", "publish"} /\ todo[w] # None
    \/ dns = "publish" /\ query.world = w

(* While nothing is due, what the main loop is about to notify of and the  *)
(* wakeup on its way each stand for a pass without a cause.  Something     *)
(* that is due excuses them, and only a pass that began with a cause can   *)
(* take that away.                                                         *)
Cadence ==
    /\ redundant \in Nat
    /\ SaneCadence
    /\ ~AnyDue => redundant + One(Pending) + One(Woken) <= 1 + spurious
    /\ (\E w \in Configured(domain) : gate[w] = "open" /\ InPass(w)) => redundant = 0
    /\ dns = "publish" => todo[query.world] = None
    /\ main = "wake" => ~run

LEMMA CadenceInitially == Init => Cadence
<1> SUFFICES ASSUME Init PROVE Cadence
  OBVIOUS
<1>1. domain[Planet] # None => AnyDue
  BY DEF Init, AnyDue, Configured, World
<1>2. ~Woken /\ (Pending => domain[Planet] # None)
  BY DEF Init, Woken, Pending
<1>3. \A w \in World : ~InPass(w)
  BY DEF Init, InPass
<1> QED BY <1>1, <1>2, <1>3 DEF Init, Cadence, SaneCadence, One, Configured

(* A step that changes no cause and makes no pass pending without one *)
Quiet ==
    /\ UNCHANGED <<redundant, run, gate, validation, domain, spurious>>
    /\ Woken' => Woken \/ (Pending /\ ~Pending')
    /\ Pending' => Pending \/ AnyDue
    /\ \A w \in World : InPass(w)' => InPass(w)
    /\ dns' = "publish" => \/ dns = "publish" /\ UNCHANGED <<todo, query>>
                           \/ todo'[query'.world] = None
    /\ main' = "wake" => main = "wake" \/ ~run

LEMMA QuietKeeps == TypeOK /\ Cadence /\ Quiet => Cadence'
<1> SUFFICES ASSUME TypeOK, Cadence, Quiet PROVE Cadence'
  OBVIOUS
<1>0. UNCHANGED <<redundant, run, gate, validation, domain, spurious>>
  BY DEF Quiet
<1>1. AnyDue' = AnyDue /\ Configured(domain)' = Configured(domain)
  BY <1>0 DEF AnyDue, Configured
<1>2. spurious \in Nat /\ redundant \in Nat
  BY DynDnsConstants DEF TypeOK, Cadence
<1>3. (~AnyDue => redundant + One(Pending) + One(Woken) <= 1 + spurious)'
  <2> SUFFICES ASSUME ~AnyDue PROVE redundant + One(Pending') + One(Woken') <= 1 + spurious
    BY <1>0, <1>1 DEF One
  <2>1. redundant + One(Pending) + One(Woken) <= 1 + spurious
    BY DEF Cadence
  <2>2. (Pending' => Pending) /\ (Woken' => Woken \/ (Pending /\ ~Pending'))
    BY DEF Quiet
  <2> QED BY <1>2, <2>1, <2>2 DEF One
<1>4. ((\E w \in Configured(domain) : gate[w] = "open" /\ InPass(w)) => redundant = 0)'
  <2>1. ASSUME NEW w \in Configured(domain), gate[w] = "open", InPass(w)' PROVE redundant = 0
    BY <2>1 DEF Quiet, Cadence, Configured
  <2> QED BY <1>0, <1>1, <2>1
<1>5. (dns = "publish" => todo[query.world] = None)'
  BY DEF Quiet, Cadence
<1>6. SaneCadence'
  BY <1>0 DEF Cadence, SaneCadence
<1> QED BY <1>0, <1>2, <1>3, <1>4, <1>5, <1>6 DEF Cadence, Quiet

(* A new cause, or nothing pending, goes with a count of zero. *)
Resets ==
    /\ redundant' = 0
    /\ UNCHANGED <<spurious, run, dns, todo, query>>
    /\ Pending' => AnyDue' \/ (Pending /\ ~AnyDue)
    /\ main' = "wake" => main = "wake"

LEMMA ResetKeeps == TypeOK /\ Cadence /\ Resets => Cadence'
<1> SUFFICES ASSUME TypeOK, Cadence, Resets PROVE Cadence'
  OBVIOUS
<1>1. spurious \in Nat /\ redundant \in Nat
  BY DynDnsConstants DEF TypeOK, Cadence
<1>2. Woken' <=> Woken
  BY DEF Resets, Woken
<1>3. (~AnyDue => redundant + One(Pending) + One(Woken) <= 1 + spurious)'
  <2> SUFFICES ASSUME ~AnyDue' PROVE One(Pending') + One(Woken') <= 1 + spurious
    BY <1>1 DEF One, Resets
  <2>1. Pending' => Pending /\ ~AnyDue
    BY DEF Resets
  <2>2. ~AnyDue => redundant + One(Pending) + One(Woken) <= 1 + spurious
    BY DEF Cadence
  <2> QED BY <1>1, <1>2, <2>1, <2>2 DEF One
<1> QED BY <1>1, <1>3 DEF Cadence, SaneCadence, Resets

LEMMA CadenceMain == TypeOK /\ Cadence /\ MainStep => Cadence'
<1> SUFFICES ASSUME TypeOK, Cadence, MainStep PROVE Cadence'
  OBVIOUS
<1> USE DEF shared, mainVars, dnsVars, node, env
<1>1. CASE Boot
  <2>1. /\ UNCHANGED <<redundant, run, gate, validation, domain, spurious, todo, query>>
        /\ main' = "top" /\ main = "boot"
        /\ dns' = dns \/ (domain[Planet] # None /\ dns = "wait" /\ dns' = "woken")
    BY <1>1 DEF Boot, Notify
  <2>2. Woken' => Woken \/ (Pending /\ ~Pending')
    BY <2>1 DEF Woken, Pending
  <2>3. \A w \in World : InPass(w)' => InPass(w)
    BY <2>1 DEF InPass
  <2>4. Quiet
    BY <2>1, <2>2, <2>3 DEF Quiet, Pending
  <2> QED BY <2>4, QuietKeeps
<1>2. CASE Top
  <2>1. CASE edited /\ main' = "moons"
    <3>1. redundant' = 0 /\ UNCHANGED <<spurious, run, dns, todo, query>>
      BY <1>2, <2>1 DEF Top
    <3>2. Resets
      BY <2>1, <3>1 DEF Resets, Woken, Pending
    <3> QED BY <3>2, ResetKeeps
  <2>2. CASE ~(edited /\ main' = "moons")
    <3>1. /\ UNCHANGED <<redundant, run, gate, validation, domain, spurious, dns, todo, query>>
          /\ main' \in {"stop", "snapshot"}
      BY <1>2, <2>2 DEF Top
    <3>2. Quiet
      BY <3>1 DEF Quiet, Woken, Pending, InPass
    <3> QED BY <3>2, QuietKeeps
  <2> QED BY <2>1, <2>2
<1>3. CASE ReloadMoons
  <2>1. redundant' = 0 /\ main' = "snapshot" /\ UNCHANGED <<spurious, run, dns, todo, query>>
    BY <1>3 DEF ReloadMoons
  <2>2. Resets
    BY <2>1 DEF Resets, Woken, Pending
  <2> QED BY <2>2, ResetKeeps
<1>4. CASE TakeSnapshot
  <2>1. /\ UNCHANGED <<redundant, run, gate, validation, domain, spurious, dns, todo, query>>
        /\ main' \in {"top", "decide"}
        /\ seen'.due = { w \in Configured(domain) : gate[w] = "open" }
    BY <1>4 DEF TakeSnapshot
  <2>2. Pending' => AnyDue
    BY <2>1 DEF Pending, AnyDue
  <2>3. Quiet
    BY <2>1, <2>2 DEF Quiet, Woken, InPass
  <2> QED BY <2>3, QuietKeeps
<1>5. CASE Decide
  <2>1. /\ UNCHANGED <<redundant, run, gate, domain, spurious, dns, todo, query>>
        /\ main = "decide" /\ main' = "notify"
        /\ want' => validation = "due" \/ seen.due # {}
        /\ validation' = "off" <=> validation = "off"
    BY <1>5 DEF Decide, Fallback
  <2>2. AnyDue' <=> AnyDue
    BY <2>1 DEF AnyDue, Configured
  <2>3. Pending' => Pending \/ AnyDue
    BY <2>1 DEF Pending, AnyDue
  <2>4. Woken' <=> Woken
    BY <2>1 DEF Woken
  <2>5. \A w \in World : InPass(w)' <=> InPass(w)
    BY <2>1 DEF InPass
  <2>6. (~AnyDue => redundant + One(Pending) + One(Woken) <= 1 + spurious)'
    <3>1. SUFFICES ASSUME ~AnyDue' PROVE redundant + One(Pending') + One(Woken') <= 1 + spurious
      BY <2>1 DEF One
    <3>2. spurious \in Nat
      BY DynDnsConstants DEF TypeOK
    <3> QED BY <2>2, <2>3, <2>4, <3>1, <3>2 DEF One, Cadence
  <2> QED BY <2>1, <2>5, <2>6 DEF Cadence, SaneCadence, Configured
<1>6. CASE NotifyResolver
  <2>1. /\ UNCHANGED <<redundant, run, gate, validation, domain, spurious, todo, query>>
        /\ main = "notify" /\ main' = "apply"
        /\ dns' = dns \/ (want /\ dns = "wait" /\ dns' = "woken")
    BY <1>6 DEF NotifyResolver, Notify
  <2>2. Quiet
    BY <2>1 DEF Quiet, Woken, Pending, InPass
  <2> QED BY <2>2, QuietKeeps
<1>7. CASE WakeToStop
  <2>1. /\ UNCHANGED <<redundant, run, gate, validation, domain, spurious, todo, query>>
        /\ main = "wake" /\ main' = "join" /\ ~run
        /\ dns' = dns \/ (dns = "wait" /\ dns' = "woken")
    BY <1>7 DEF WakeToStop, Notify, Cadence
  <2>2. Quiet
    BY <2>1 DEF Quiet, Woken, Pending, InPass
  <2> QED BY <2>2, QuietKeeps
<1>8. CASE Apply \/ Join
  <2>1. /\ UNCHANGED <<redundant, run, gate, validation, domain, spurious, dns, todo, query>>
        /\ main' \in {"top", "done"}
    BY <1>8 DEF Apply, Join
  <2>2. Quiet
    BY <2>1 DEF Quiet, Woken, Pending, InPass
  <2> QED BY <2>2, QuietKeeps
<1>9. CASE StopResolver
  <2>1. /\ UNCHANGED <<redundant, gate, validation, domain, spurious, dns, todo, query>>
        /\ main' = "wake" /\ ~run'
    BY <1>9 DEF StopResolver
  <2>2. ~Woken' /\ ~Pending'
    BY <2>1 DEF Woken, Pending
  <2>3. \A w \in World : InPass(w)' <=> InPass(w)
    BY <2>1 DEF InPass
  <2>4. (~AnyDue => redundant + One(Pending) + One(Woken) <= 1 + spurious)'
    BY <2>1, <2>2, DynDnsConstants DEF One, Cadence, SaneCadence, TypeOK
  <2> QED BY <2>1, <2>3, <2>4 DEF Cadence, SaneCadence, Configured
<1> QED BY <1>1, <1>2, <1>3, <1>4, <1>5, <1>6, <1>7, <1>8, <1>9 DEF MainStep

LEMMA CadenceDns == TypeOK /\ QueryInHand /\ Cadence /\ DnsStep => Cadence'
<1> SUFFICES ASSUME TypeOK, QueryInHand, Cadence, DnsStep PROVE Cadence'
  OBVIOUS
<1> USE DEF shared, mainVars, dnsVars, node, env
<1>1. CASE CheckRun \/ Wait \/ EndPass
  <2>1. /\ UNCHANGED <<redundant, run, gate, validation, domain, spurious, main, seen, want,
                       todo, query>>
        /\ dns' \in {"enter", "done", "wait", "check"}
    BY <1>1 DEF CheckRun, Wait, EndPass
  <2>2. Quiet
    BY <2>1 DEF Quiet, Woken, Pending, InPass
  <2> QED BY <2>2, QuietKeeps
<1>2. ASSUME NEW w \in World, Resolve(w) PROVE Cadence'
  <2>1. /\ UNCHANGED <<redundant, run, gate, validation, domain, spurious, main, seen, want>>
        /\ dns = "next" /\ dns' = "publish" /\ query'.world = w
        /\ todo[w] # None /\ todo' = [todo EXCEPT ![w] = None]
    BY <1>2 DEF Resolve
  <2>2. \A v \in World : InPass(v)' => InPass(v)
    BY <2>1 DEF InPass, TypeOK
  <2>3. Quiet
    BY <2>1, <2>2 DEF Quiet, Woken, Pending, TypeOK
  <2> QED BY <2>3, QuietKeeps
<1>3. CASE BeginPass
  <2>1. /\ UNCHANGED <<run, gate, validation, domain, spurious, main, seen, want>>
        /\ dns = "woken" /\ dns' = IF run THEN "next" ELSE "done"
        /\ redundant' = IF ~ run \/ Configured(domain) = {} THEN redundant
                        ELSE IF AnyDue THEN 0
                        ELSE redundant + 1
    BY <1>3 DEF BeginPass
  <2>2. ~Woken' /\ (Pending' <=> Pending) /\ (AnyDue' <=> AnyDue)
    BY <2>1 DEF Woken, Pending, AnyDue, Configured
  <2>3. spurious \in Nat
    BY DynDnsConstants DEF TypeOK
  <2>4. CASE ~run \/ Configured(domain) = {}
    <3>1. redundant' = redundant
      BY <2>1, <2>4
    <3>2. \A w \in Configured(domain) : ~InPass(w)'
      BY <2>1, <2>4 DEF InPass
    <3>3. (~AnyDue => redundant + One(Pending) + One(Woken) <= 1 + spurious)'
      BY <2>1, <2>2, <2>3, <3>1 DEF One, Cadence
    <3> QED BY <2>1, <3>1, <3>2, <3>3 DEF Cadence, SaneCadence, Configured
  <2>5. CASE run /\ Configured(domain) # {} /\ AnyDue
    <3>1. redundant' = 0
      BY <2>1, <2>5
    <3> QED BY <2>1, <2>2, <2>3, <2>5, <3>1 DEF Cadence, SaneCadence
  <2>6. CASE run /\ Configured(domain) # {} /\ ~AnyDue
    <3>1. redundant' = redundant + 1
      BY <2>1, <2>6
    <3>2. Woken
      BY <2>1, <2>6 DEF Woken
    <3>3. redundant + 1 + One(Pending) <= 1 + spurious
      BY <2>3, <2>6, <3>2 DEF One, Cadence
    <3>4. (~AnyDue => redundant + One(Pending) + One(Woken) <= 1 + spurious)'
      BY <2>1, <2>2, <2>3, <3>1, <3>3 DEF One, Cadence
    <3>5. ~\E w \in Configured(domain)' : gate'[w] = "open"
      BY <2>1, <2>6 DEF AnyDue, Configured
    <3> QED BY <2>1, <2>3, <3>1, <3>3, <3>4, <3>5 DEF One, Cadence, SaneCadence, Configured
  <2> QED BY <2>4, <2>5, <2>6
<1>4. CASE Publish
  <2> DEFINE w == query.world
  <2>1. /\ UNCHANGED <<redundant, run, validation, domain, spurious, main, seen, want, todo>>
        /\ dns = "publish" /\ dns' = "next"
        /\ gate' = gate \/ \E g \in {"open", "closed"} : gate' = [gate EXCEPT ![w] = g]
    BY <1>4 DEF Publish
  <2>2. w \in World
    BY <2>1 DEF QueryInHand, Query
  <2>3. ~Woken' /\ (Pending' <=> Pending) /\ spurious \in Nat
    BY <2>1, DynDnsConstants DEF Woken, Pending, TypeOK
  <2>4. (~AnyDue => redundant + One(Pending) + One(Woken) <= 1 + spurious)'
    <3>1. CASE ~AnyDue
      BY <2>1, <2>3, <3>1 DEF One, Cadence
    <3>2. CASE AnyDue /\ ~AnyDue'
      <4>1. PICK v \in Configured(domain) : gate[v] = "open"
        BY <2>1, <3>2 DEF AnyDue
      <4>2. gate'[v] # "open"
        BY <2>1, <3>2 DEF AnyDue, Configured
      <4>3. v = w
        BY <2>1, <2>2, <4>1, <4>2 DEF Configured, TypeOK
      <4>4. redundant = 0
        BY <2>1, <4>1, <4>3 DEF InPass, Cadence
      <4> QED BY <2>1, <2>3, <4>4 DEF One
    <3> QED BY <3>1, <3>2
  <2>5. (\E v \in Configured(domain) : gate[v] = "open" /\ InPass(v))' => redundant = 0
    <3>1. SUFFICES ASSUME NEW v \in Configured(domain), gate'[v] = "open", InPass(v)'
                   PROVE  redundant = 0
      BY <2>1 DEF Configured
    <3>2. todo[v] # None /\ v \in World
      BY <2>1, <3>1 DEF InPass, Configured
    <3>3. CASE v # w
      BY <2>1, <2>2, <3>1, <3>2, <3>3 DEF InPass, Cadence, TypeOK
    <3>4. CASE v = w
      BY <2>1, <3>1, <3>4 DEF InPass, Cadence
    <3> QED BY <3>3, <3>4
  <2> QED BY <2>1, <2>4, <2>5 DEF Cadence, SaneCadence
<1> QED BY <1>1, <1>2, <1>3, <1>4 DEF DnsStep

LEMMA CadenceEnvironment == TypeOK /\ Cadence /\ Environment => Cadence'
<1> SUFFICES ASSUME TypeOK, Cadence, Environment PROVE Cadence'
  OBVIOUS
<1> USE DEF shared, mainVars, dnsVars, node, env
<1>1. CASE SpuriousWakeup
  <2>1. /\ UNCHANGED <<redundant, run, gate, validation, domain, main, seen, want, todo, query>>
        /\ spurious' = spurious + 1 /\ dns = "wait" /\ dns' = "woken"
    BY <1>1 DEF SpuriousWakeup
  <2>2. (Pending' <=> Pending) /\ (AnyDue' <=> AnyDue) /\ ~Woken
    BY <2>1 DEF Pending, AnyDue, Configured, Woken
  <2>3. spurious \in Nat
    BY DynDnsConstants DEF TypeOK
  <2>4. (~AnyDue => redundant + One(Pending) + One(Woken) <= 1 + spurious)'
    BY <2>1, <2>2, <2>3 DEF One, Cadence
  <2>5. \A w \in World : ~InPass(w)'
    BY <2>1 DEF InPass
  <2> QED BY <2>1, <2>3, <2>4, <2>5 DEF Cadence, SaneCadence, Configured
<1>2. ASSUME NEW w \in World, GateOpens(w) PROVE Cadence'
  <2>1. /\ redundant' = 0 /\ gate' = [gate EXCEPT ![w] = "open"]
        /\ UNCHANGED <<domain, validation, mainVars, dnsVars, run, spurious>>
    BY <1>2 DEF GateOpens
  <2>2. (Pending' <=> Pending) /\ (Woken' <=> Woken)
    BY <2>1 DEF Pending, Woken
  <2>3. AnyDue => AnyDue'
    BY <2>1 DEF AnyDue, Configured, TypeOK
  <2>4. Pending' => AnyDue' \/ (Pending /\ ~AnyDue)
    BY <2>2, <2>3
  <2>5. Resets
    BY <2>1, <2>2, <2>4 DEF Resets
  <2> QED BY <2>5, ResetKeeps
<1>3. CASE ValidationDue
  <2>1. /\ UNCHANGED <<redundant, run, gate, domain, spurious, main, seen, want, dns, todo, query>>
        /\ validation' = "due" /\ validation = "waiting"
    BY <1>3 DEF ValidationDue
  <2>2. AnyDue' /\ \A w \in World : InPass(w)' <=> InPass(w)
    BY <2>1 DEF AnyDue, InPass
  <2> QED BY <2>1, <2>2 DEF Cadence, SaneCadence, Configured
<1>4. CASE \/ \E w \in World : Connect(w) \/ Disconnect(w)
           \/ \E d \in Domain : UpdateRecord(d)
           \/ GoOnline \/ Change \/ Terminate
  <2>1. UNCHANGED <<redundant, spurious, shared, mainVars, dnsVars, run>>
    BY <1>4 DEF Connect, Disconnect, UpdateRecord, GoOnline, Change, Terminate
  <2>2. Quiet
    BY <2>1 DEF Quiet, Woken, Pending, InPass
  <2> QED BY <2>2, QuietKeeps
<1> QED BY <1>1, <1>2, <1>3, <1>4 DEF Environment

(* The resolver asks at most once more than the retry intervals and new    *)
(* contents of local.conf call for, spurious wakeups apart: a snapshot the *)
(* main loop took before an attempt was recorded is worth one pass.        *)
THEOREM NoIdleQueries == Spec => []SaneCadence
<1>1. IInv /\ Cadence /\ [Next]_vars => Cadence'
  <2> SUFFICES ASSUME IInv, Cadence, [Next]_vars PROVE Cadence'
    OBVIOUS
  <2>1. CASE Next
    BY <2>1, NextCases, CadenceMain, CadenceDns, CadenceEnvironment DEF IInv
  <2>2. CASE UNCHANGED vars
    <3>1. UNCHANGED <<redundant, spurious, shared, mainVars, dnsVars, run>>
      BY <2>2 DEF vars
    <3>2. Quiet
      BY <3>1 DEF Quiet, Woken, Pending, InPass, shared, mainVars, dnsVars
    <3> QED BY <3>2, QuietKeeps DEF IInv
  <2> QED BY <2>1, <2>2
<1>2. Cadence => SaneCadence
  BY DEF Cadence
<1> QED BY <1>1, <1>2, CadenceInitially, Invariance, PTL DEF Spec

------------------------------------------------------------------------------
(* The check of local.conf *)

(* Checks are at most Interval + Delay apart, and the file's time is less  *)
(* than a second before that of the change.                                *)
WatchInv ==
    /\ ConfTypeOK
    /\ prev <= last /\ last <= now /\ now <= last + Interval + Delay
    /\ written <= now
    /\ mtime <= written /\ written - mtime <= Second - 1
    /\ LateEditsRead

(* A modification time is the second the change fell in. *)
LEMMA StampEffect ==
    ASSUME NEW t \in Nat
    PROVE  Stamp(t) \in Nat /\ Stamp(t) <= t /\ t - Stamp(t) <= Second - 1
<1>1. t % Second \in 0..(Second - 1)
  BY ConfWatchConstants, SMT
<1>2. t % Second <= t
  BY ConfWatchConstants, SMT
<1> QED BY <1>1, <1>2, ConfWatchConstants DEF Stamp

(* A change that was made a second and the loop's delay after a check is   *)
(* read by the next one; only earlier ones can go unnoticed.               *)
THEOREM LateEditsAreRead == ConfSpec => []LateEditsRead
<1>1. ConfInit => WatchInv
  <2> SUFFICES ASSUME ConfInit PROVE WatchInv
    OBVIOUS
  <2>1. now \in Nat
    BY ConfWatchConstants DEF ConfInit
  <2> QED BY <2>1, StampEffect, ConfWatchConstants DEF ConfInit, WatchInv, ConfTypeOK, LateEditsRead
<1>2. WatchInv /\ [ConfNext]_confVars => WatchInv'
  <2> SUFFICES ASSUME WatchInv, [ConfNext]_confVars PROVE WatchInv'
    OBVIOUS
  <2>1. CASE Tick
    BY <2>1, ConfWatchConstants DEF Tick, WatchInv, ConfTypeOK, LateEditsRead
  <2>2. CASE Check
    <3>1. /\ last' = now /\ prev' = last /\ UNCHANGED <<now, mtime, written>>
          /\ read' = (read \/ Recent(mtime))
      BY <2>2 DEF Check
    <3>2. read' \in BOOLEAN
      BY <3>1, Zenon
    <3>3. (written' < last' /\ written' >= prev' + Delay + Second - 1) => Recent(mtime)
      BY <3>1, ConfWatchConstants DEF Recent, WatchInv, ConfTypeOK
    <3>4. LateEditsRead'
      BY <3>1, <3>3 DEF LateEditsRead
    <3> QED BY <3>1, <3>2, <3>4, ConfWatchConstants DEF WatchInv, ConfTypeOK
  <2>3. CASE Write
    <3>1. /\ written' = now /\ mtime' = Stamp(now) /\ UNCHANGED <<now, last, prev>>
          /\ read' = FALSE
      BY <2>3 DEF Write
    <3>2. now \in Nat
      BY DEF WatchInv, ConfTypeOK
    <3>3. mtime' \in Nat /\ mtime' <= written' /\ written' - mtime' <= Second - 1
      BY <3>1, <3>2, StampEffect
    <3>4. ~ (written' < last')
      BY <3>1 DEF WatchInv, ConfTypeOK
    <3>5. LateEditsRead'
      BY <3>4 DEF LateEditsRead
    <3>6. ConfTypeOK'
      BY <3>1, <3>3 DEF WatchInv, ConfTypeOK
    <3> QED BY <3>1, <3>2, <3>3, <3>5, <3>6 DEF WatchInv, ConfTypeOK
  <2>4. CASE UNCHANGED confVars
    BY <2>4 DEF confVars, WatchInv, ConfTypeOK, LateEditsRead
  <2> QED BY <2>1, <2>2, <2>3, <2>4 DEF ConfNext
<1>3. WatchInv => LateEditsRead
  BY DEF WatchInv
<1> QED BY <1>1, <1>2, <1>3, PTL DEF ConfSpec
=============================================================================
