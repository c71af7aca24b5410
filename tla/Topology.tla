------------------------------ MODULE Topology ------------------------------
(***************************************************************************)
(* node/Topology.cpp: the planet and the moons a node follows, the peers   *)
(* it knows, the memoized list of its upstreams, and the files it restores *)
(* them from.  Two kinds of callers meet here: packet handlers (in-band    *)
(* world updates, path learning) and the service's main loop (dynamic-DNS  *)
(* refreshes, orbit and deorbit, periodic tasks).  A method that holds     *)
(* _peers_m and _upstreams_m from beginning to end is one action; what     *)
(* goes on without them in between is several: Peer::received, and addMoon *)
(* of a moon that is in a file, which is read with no lock held.           *)
(***************************************************************************)
EXTENDS WorldEndpoints, FiniteSets

CONSTANTS
    Addr,        \* the node addresses the instance distinguishes
    Self,        \* this node's own address
    Key,         \* world signing keys
    PlanetId,    \* ids of worlds of TYPE_PLANET
    MoonId,      \* ids of worlds of TYPE_MOON
    EpLists,     \* the endpoint lists a root can have
    Published,   \* the pairs <<key, world>> such that key signed world
    Offered,     \* the worlds other nodes and operators hand to this node
    Answers,     \* the address lists a configured domain can resolve to
    Sources,     \* the pairs <<address, ip>> packets arrive from
    Caller,      \* the threads that call orbit: the main loop, the API's
    None,        \* no world, no peer, no file, no handler
    Torn         \* the content of a file that cannot be deserialized

Root == [addr : Addr, eps : EpLists]
World == [id : PlanetId \cup MoonId, ts : Nat, by : Key, roots : Seq(Root)]

ASSUME TopologyConstants ==
    /\ Self \in Addr
    /\ PlanetId \cap MoonId = {}
    /\ \A w \in Offered : w \in World
    /\ Answers \subseteq EpLists
    /\ Sources \subseteq (Addr \ {Self}) \X Ip
    /\ Torn \notin World \cup {None}

(* The endpoint lists are closed under the merge. *)
ASSUME MergeClosed == \A c, e \in EpLists : Merge(c, e) \in EpLists

VARIABLES
    up,          \* the process runs
    planet,      \* _planet, None while it is TYPE_NULL
    moons,       \* _moons, as a function from the moon's id
    seeds,       \* _moonSeeds: pairs <<moon id, seed address>>
    upstreams,   \* _upstreamAddresses
    amUpstream,  \* _amUpstream
    peers,       \* _peers
    rx,          \* a packet handler inside Peer::received
    orbiting,    \* the moon each caller inside addMoon has read from its file
    planetFile,  \* <home>/planet
    moonFile,    \* <home>/moons.d/<id>.moon
    peerFile,    \* the addresses with a cached identity in <home>/peers.d
    writing,     \* the world file written by the last step, if any
    saved        \* history: the planet last in force, which its file is to
                 \* hold; None once others replaced the file or a crash tore it

worlds == <<planet, moons, seeds>>
memo == <<upstreams, amUpstream>>
files == <<planetFile, moonFile, peerFile>>
aside == <<orbiting, saved>>
vars == <<up, worlds, memo, peers, rx, files, writing, aside>>

(* A peer: the IPs in its _paths array, those of them whose path is alive, *)
(* and whether it was heard within ZT_PEER_ACTIVITY_TIMEOUT.               *)
Peer == [paths : SUBSET Ip, alive : SUBSET Ip, heard : BOOLEAN]
ASSUME NoneIsNoPeer == None \notin Peer
ASSUME NoneIsNoWorld == None \notin World

FreshPeer == [paths |-> {}, alive |-> {}, heard |-> FALSE]

(* A handler that is about to learn a path: it has yet to ask whether the  *)
(* endpoint is prohibited, or has been told that it is not.  It holds a    *)
(* reference to a Peer object; orphan says that the object has since been  *)
(* taken out of _peers.                                                    *)
Handler == [src : Addr, ip : Ip, checked : BOOLEAN, orphan : BOOLEAN]

File == World \cup {None, Torn}

------------------------------------------------------------------------------
(* Worlds *)

RootAddrs(w) == IF w = None THEN {} ELSE { w.roots[i].addr : i \in DOMAIN w.roots }

AllRoots(pl, ms) == RootAddrs(pl) \cup UNION { RootAddrs(ms[m]) : m \in DOMAIN ms }

ReplacedByUnsigned(cur, w) ==
    cur # None => cur.id = w.id /\ cur.ts < w.ts

(* World::shouldBeReplacedBy: anything replaces the null world, and only a *)
(* newer revision signed by the key this one names replaces a real one.    *)
ReplacedBy(cur, w) ==
    cur # None => /\ cur.id = w.id
                  /\ cur.ts < w.ts
                  /\ <<cur.by, w>> \in Published

(* Topology::isProhibitedEndpoint, negated: a root may only be reached at  *)
(* an address one of its worlds lists for it.                              *)
Permitted(a, ip) ==
    \/ a \notin upstreams
    \/ \E w \in {planet} \cup { moons[m] : m \in MoonId } :
          /\ w # None
          /\ \E i \in DOMAIN w.roots :
                /\ w.roots[i].addr = a
                /\ \/ w.roots[i].eps = <<>>
                   \/ \E e \in ToSet(w.roots[i].eps) : e.ip = ip

(* Topology::shouldAcceptWorldUpdateFrom *)
AcceptsUpdateFrom(a) == a \in upstreams \/ \E s \in seeds : s[2] = a

(* World::deserialize of a file *)
Loaded(f) ==
    IF f \in {None, Torn} \/ \E i \in DOMAIN f.roots : ~ Loadable(f.roots[i].eps)
    THEN None
    ELSE f

------------------------------------------------------------------------------
(* What several methods do *)

MemoizeForgetful(pl, ms, ps) ==
    /\ upstreams' = AllRoots(pl, ms) \ {Self}
    /\ amUpstream' = (Self \in AllRoots(pl, ms))
    /\ peers' = ps

MemoizeUncleared(pl, ms, ps) ==
    /\ upstreams' = upstreams \cup (AllRoots(pl, ms) \ {Self})
    /\ amUpstream' = (Self \in AllRoots(pl, ms))
    /\ peers' = [a \in Addr |-> IF a \in upstreams' /\ ps[a] = None THEN FreshPeer ELSE ps[a]]

(* Topology::_memoizeUpstreams, from the worlds pl and ms and the peers ps *)
Memoize(pl, ms, ps) ==
    LET roots == AllRoots(pl, ms)
    IN  /\ upstreams' = roots \ {Self}
        /\ amUpstream' = (Self \in roots)
        /\ peers' = [a \in Addr |->
                        IF a \in roots \ {Self} /\ ps[a] = None THEN FreshPeer ELSE ps[a]]

PutNothing(w) == writing' = None /\ UNCHANGED files

(* stateObjectPut of a world: the file is rewritten unless it is identical *)
PutPlanet(w) ==
    /\ planetFile' = w
    /\ writing' = IF planetFile = w THEN None ELSE w.id
    /\ UNCHANGED <<moonFile, peerFile>>

PutMoon(w) ==
    /\ moonFile' = [moonFile EXCEPT ![w.id] = w]
    /\ writing' = IF moonFile[w.id] = w THEN None ELSE w.id
    /\ UNCHANGED <<planetFile, peerFile>>

DroppedNone(ps, as) == ps

(* Peer objects of these addresses leave the table *)
Dropped(ps, as) == [a \in Addr |-> IF a \in as THEN None ELSE ps[a]]
OrphanHandler(as) ==
    rx' = IF rx # None /\ rx.src \in as THEN [rx EXCEPT !.orphan = TRUE] ELSE rx

------------------------------------------------------------------------------
(* In-band updates: IncomingPacket::_doOK(HELLO) and Topology::addWorld    *)

AcceptPlanetAnyType(w) ==
    /\ ReplacedBy(planet, w)
    /\ planet' = w
    /\ saved' = w
    /\ PutPlanet(w)
    /\ Memoize(w, moons, peers)
    /\ UNCHANGED <<moons, seeds>>

AcceptPlanet(w) ==
    /\ w.id \in PlanetId
    /\ ReplacedBy(planet, w)
    /\ planet' = w
    /\ saved' = w
    /\ PutPlanet(w)
    /\ Memoize(w, moons, peers)
    /\ UNCHANGED <<moons, seeds>>

ReplaceMoon(w) ==
    /\ w.id \in MoonId
    /\ moons[w.id] # None
    /\ ReplacedBy(moons[w.id], w)
    /\ moons' = [moons EXCEPT ![w.id] = w]
    /\ PutMoon(w)
    /\ Memoize(planet, moons', peers)
    /\ UNCHANGED <<planet, seeds, saved>>

JoinAnyMoon(w) ==
    /\ w.id \in MoonId
    /\ moons[w.id] = None
    /\ moons' = [moons EXCEPT ![w.id] = w]
    /\ PutMoon(w)
    /\ Memoize(planet, moons', peers)
    /\ UNCHANGED <<planet, seeds, saved>>

(* A moon this node waits for is taken from any upstream or seed, unsigned *)
(* or not, if one of its roots is the seed; the seed has then served.      *)
JoinWantedMoon(w) ==
    /\ w.id \in MoonId
    /\ moons[w.id] = None
    /\ \E s \in seeds :
          /\ s[1] = w.id
          /\ s[2] \in RootAddrs(w)
          /\ seeds' = seeds \ {s}
    /\ moons' = [moons EXCEPT ![w.id] = w]
    /\ PutMoon(w)
    /\ Memoize(planet, moons', peers)
    /\ UNCHANGED <<planet, saved>>

(* A peer that may send world updates sends w with its OK(HELLO). *)
ReceiveWorld(a, w) ==
    /\ up
    /\ peers[a] # None
    /\ AcceptsUpdateFrom(a)
    /\ AcceptPlanet(w) \/ ReplaceMoon(w) \/ JoinWantedMoon(w)
    /\ UNCHANGED <<up, rx, orbiting>>

------------------------------------------------------------------------------
(* Dynamic-DNS refreshes *)

(* Topology::setPlanetEndpoints: only the first root is refreshed; its     *)
(* peer leaves the table and _memoizeUpstreams puts a new one in.          *)
SetPlanetEndpoints(eps) ==
    /\ up
    /\ planet # None
    /\ planet.roots # <<>>
    /\ Refreshes(planet.roots[1].eps, eps)
    /\ LET w == [planet EXCEPT !.roots[1].eps = Merge(planet.roots[1].eps, eps)]
           root == planet.roots[1].addr
       IN  /\ planet' = w
           /\ saved' = w
           /\ PutPlanet(w)
           /\ Memoize(w, moons, Dropped(peers, {root}))
           /\ OrphanHandler({root})
    /\ UNCHANGED <<up, moons, seeds, orbiting>>

(* Topology::setMoonEndpoints *)
SetMoonEndpoints(m, eps) ==
    /\ up
    /\ moons[m] # None
    /\ moons[m].roots # <<>>
    /\ Refreshes(moons[m].roots[1].eps, eps)
    /\ LET w == [moons[m] EXCEPT !.roots[1].eps = Merge(moons[m].roots[1].eps, eps)]
           root == moons[m].roots[1].addr
       IN  /\ moons' = [moons EXCEPT ![m] = w]
           /\ PutMoon(w)
           /\ Memoize(planet, moons', Dropped(peers, {root}))
           /\ OrphanHandler({root})
    /\ UNCHANGED <<up, planet, seeds, aside>>

------------------------------------------------------------------------------
(* Orbit and deorbit *)

(* Topology::addMoon of a moon whose file is readable: the file is read    *)
(* with no lock held ...                                                   *)
ReadMoonFile(c, m) ==
    /\ up
    /\ orbiting[c] = None
    /\ Loaded(moonFile[m]) # None
    /\ orbiting' = [orbiting EXCEPT ![c] = Loaded(moonFile[m])]
    /\ writing' = None
    /\ UNCHANGED <<up, worlds, memo, peers, rx, files, saved>>

(* ... and what was read is handed to addWorld with alwaysAcceptNew, which *)
(* also saves it.  The moon, its file and its seeds may have gone between. *)
OrbitRead(c) ==
    /\ up
    /\ orbiting[c] # None
    /\ LET w == orbiting[c]
       IN  \/ JoinAnyMoon(w)
           \/ ReplaceMoon(w)
           \/ /\ moons[w.id] # None
              /\ ~ ReplacedBy(moons[w.id], w)
              /\ writing' = None
              /\ UNCHANGED <<worlds, memo, peers, files, saved>>
    /\ orbiting' = [orbiting EXCEPT ![c] = None]
    /\ UNCHANGED <<up, rx>>

(* Topology::addMoon of a moon that has to be fetched from a seed.  That   *)
(* no file could be read was found before, with no lock held, and need not *)
(* be true any more.                                                       *)
OrbitFromSeed(m, a) ==
    /\ up
    /\ seeds' = seeds \cup {<<m, a>>}
    /\ writing' = None
    /\ UNCHANGED <<up, planet, moons, memo, peers, rx, files, aside>>

(* Topology::removeMoon; the file goes only if the moon was loaded. *)
Deorbit(m) ==
    /\ up
    /\ moons' = [moons EXCEPT ![m] = None]
    /\ seeds' = { s \in seeds : s[1] # m }
    /\ moonFile' = IF moons[m] # None THEN [moonFile EXCEPT ![m] = None] ELSE moonFile
    /\ writing' = None
    /\ Memoize(planet, moons', peers)
    /\ UNCHANGED <<up, planet, rx, planetFile, peerFile, aside>>

------------------------------------------------------------------------------
(* Peers: addPeer, getPeer, Peer::received                                 *)

(* Topology::addPeer of an address not in the table: a WHOIS answer or the *)
(* HELLO of an unknown node.                                               *)
AddPeer(a) ==
    /\ up
    /\ a # Self
    /\ peers[a] = None
    /\ peers' = [peers EXCEPT ![a] = FreshPeer]
    /\ writing' = None
    /\ UNCHANGED <<up, worlds, memo, rx, files, aside>>

(* Topology::getPeer of an address that only the cache knows *)
LoadPeer(a) ==
    /\ up
    /\ a # Self
    /\ peers[a] = None
    /\ a \in peerFile
    /\ peers' = [peers EXCEPT ![a] = FreshPeer]
    /\ writing' = None
    /\ UNCHANGED <<up, worlds, memo, rx, files, aside>>

(* A packet from a arrives on a path that is in the peer's array.  The     *)
(* path comes back to life without a look at the world's endpoints.        *)
ReceiveOnPath(a, ip) ==
    /\ up
    /\ peers[a] # None
    /\ ip \in peers[a].paths
    /\ peers' = [peers EXCEPT ![a].alive = @ \cup {ip}, ![a].heard = TRUE]
    /\ writing' = None
    /\ UNCHANGED <<up, worlds, memo, rx, files, aside>>

(* A packet from a arrives on an unknown path.  Only an OK goes on to      *)
(* learn it; anything else sends a HELLO there.                            *)
ReceiveElsewhere(a, ip) ==
    /\ up
    /\ peers[a] # None
    /\ ip \notin peers[a].paths
    /\ peers' = [peers EXCEPT ![a].heard = TRUE]
    /\ \/ UNCHANGED rx
       \/ /\ rx = None
          /\ rx' = [src |-> a, ip |-> ip, checked |-> FALSE, orphan |-> FALSE]
    /\ writing' = None
    /\ UNCHANGED <<up, worlds, memo, files, aside>>

(* Node::shouldUsePathForZeroTierTraffic, under _upstreams_m only *)
CheckPath ==
    /\ rx # None
    /\ ~ rx.checked
    /\ rx' = IF Permitted(rx.src, rx.ip) THEN [rx EXCEPT !.checked = TRUE] ELSE None
    /\ writing' = None
    /\ UNCHANGED <<up, worlds, memo, peers, files, aside>>

(* The path goes into the array of the Peer object the handler holds,      *)
(* which need not be the one in the table any more.                        *)
LearnPath ==
    /\ rx # None
    /\ rx.checked
    /\ peers' = IF rx.orphan THEN peers
                ELSE [peers EXCEPT ![rx.src].paths = @ \cup {rx.ip},
                                   ![rx.src].alive = @ \cup {rx.ip}]
    /\ rx' = None
    /\ writing' = None
    /\ UNCHANGED <<up, worlds, memo, files, aside>>

(* Nothing came over the path for ZT_PATH_HEARTBEAT_PERIOD + 5 s. *)
PathDies(a, ip) ==
    /\ up
    /\ peers[a] # None
    /\ ip \in peers[a].alive
    /\ peers' = [peers EXCEPT ![a].alive = @ \ {ip}]
    /\ writing' = None
    /\ UNCHANGED <<up, worlds, memo, rx, files, aside>>

(* Peer::doPingAndKeepalive removes a path that expired. *)
ExpirePath(a, ip) ==
    /\ up
    /\ peers[a] # None
    /\ ip \in peers[a].paths \ peers[a].alive
    /\ peers' = [peers EXCEPT ![a].paths = @ \ {ip}]
    /\ writing' = None
    /\ UNCHANGED <<up, worlds, memo, rx, files, aside>>

(* ZT_PEER_ACTIVITY_TIMEOUT, longer than the life of a path *)
FallSilent(a) ==
    /\ up
    /\ peers[a] # None
    /\ peers[a].heard
    /\ peers[a].alive = {}
    /\ peers' = [peers EXCEPT ![a].heard = FALSE]
    /\ writing' = None
    /\ UNCHANGED <<up, worlds, memo, rx, files, aside>>

(* Topology::doPeriodicTasks *)
DoPeriodicTasks ==
    LET idle == { a \in Addr : peers[a] # None /\ ~ peers[a].heard /\ a \notin upstreams }
    IN  /\ up
        /\ idle # {}
        /\ peers' = Dropped(peers, idle)
        /\ peerFile' = peerFile \cup idle
        /\ OrphanHandler(idle)
        /\ writing' = None
        /\ UNCHANGED <<up, worlds, memo, planetFile, moonFile, aside>>

------------------------------------------------------------------------------
(* Process and files *)

Forget ==
    /\ up' = FALSE
    /\ planet' = None
    /\ moons' = [m \in MoonId |-> None]
    /\ seeds' = {}
    /\ upstreams' = {}
    /\ amUpstream' = FALSE
    /\ peers' = [a \in Addr |-> None]
    /\ rx' = None
    /\ orbiting' = [c \in Caller |-> None]
    /\ writing' = None

(* Topology::~Topology saves every peer. *)
Shutdown ==
    /\ up
    /\ Forget
    /\ peerFile' = peerFile \cup { a \in Addr : peers[a] # None }
    /\ UNCHANGED <<planetFile, moonFile, saved>>

(* fopen(p, "wb") truncates, so a crash may leave the file that was being  *)
(* written torn.                                                           *)
Crash ==
    /\ up
    /\ Forget
    /\ \/ UNCHANGED <<planetFile, moonFile, saved>>
       \/ /\ writing \in PlanetId
          /\ planetFile' = Torn
          /\ saved' = None
          /\ UNCHANGED moonFile
       \/ /\ writing \in MoonId
          /\ moonFile' = [moonFile EXCEPT ![writing] = Torn]
          /\ UNCHANGED <<planetFile, saved>>
    /\ UNCHANGED peerFile

(* Whatever was downloaded becomes the planet file: by                     *)
(* OneServiceImpl::_zgalaxyImportFromEngine before the node is made, or by *)
(* the companion module client/zgalaxy-planet-sync.sh, which renames it    *)
(* over the file of a node that runs and restarts it afterwards.           *)
ImportPlanet ==
    /\ planetFile' \in { w \in Offered : w.id \in PlanetId } \cup {Torn}
    /\ saved' = None
    /\ writing' = None
    /\ UNCHANGED <<up, worlds, memo, peers, rx, orbiting, moonFile, peerFile>>

(* An operator drops a moon file into moons.d or takes one out. *)
EditMoonFile(m) ==
    /\ moonFile' \in { [moonFile EXCEPT ![m] = f] :
                          f \in { w \in Offered : w.id = m } \cup {None, Torn} }
    /\ writing' = None
    /\ UNCHANGED <<up, worlds, memo, peers, rx, planetFile, peerFile, aside>>

(* The constructor loads the planet file, run() orbits every .moon file.   *)
Start ==
    /\ ~ up
    /\ up' = TRUE
    /\ planet' = Loaded(planetFile)
    /\ moons' = [m \in MoonId |-> Loaded(moonFile[m])]
    /\ saved' = IF saved # None THEN saved ELSE planet'
    /\ Memoize(planet', moons', peers)
    /\ writing' = None
    /\ UNCHANGED <<seeds, rx, orbiting, files>>

Init ==
    /\ up = FALSE
    /\ planet = None
    /\ moons = [m \in MoonId |-> None]
    /\ seeds = {}
    /\ upstreams = {}
    /\ amUpstream = FALSE
    /\ peers = [a \in Addr |-> None]
    /\ rx = None
    /\ orbiting = [c \in Caller |-> None]
    /\ planetFile \in { w \in Offered : w.id \in PlanetId } \cup {None}
    /\ moonFile = [m \in MoonId |-> None]
    /\ peerFile = {}
    /\ writing = None
    /\ saved = None

(* Worlds are received, refreshed, joined and left, ... *)
ChangeWorlds ==
    \/ \E a \in Addr, w \in Offered : ReceiveWorld(a, w)
    \/ \E eps \in Answers : SetPlanetEndpoints(eps)
    \/ \E m \in MoonId, eps \in Answers : SetMoonEndpoints(m, eps)
    \/ \E m \in MoonId : Deorbit(m)
    \/ \E c \in Caller : OrbitRead(c) \/ \E m \in MoonId : ReadMoonFile(c, m)
    \/ \E m \in MoonId, a \in Addr \ {Self} : OrbitFromSeed(m, a)

(* ... peers come, go and learn paths, ... *)
ChangePeers ==
    \/ \E a \in Addr : AddPeer(a) \/ LoadPeer(a) \/ FallSilent(a)
    \/ \E s \in Sources : ReceiveOnPath(s[1], s[2]) \/ ReceiveElsewhere(s[1], s[2])
    \/ \E a \in Addr, ip \in Ip : PathDies(a, ip) \/ ExpirePath(a, ip)
    \/ CheckPath
    \/ LearnPath
    \/ DoPeriodicTasks

(* ... others edit the files, and the process starts and ends. *)
ChangeFiles == ImportPlanet \/ \E m \in MoonId : EditMoonFile(m)

StartOrEnd == Shutdown \/ Crash \/ Start

Next == ChangeWorlds \/ ChangePeers \/ ChangeFiles \/ StartOrEnd

Spec == Init /\ [][Next]_vars

------------------------------------------------------------------------------
(* Properties *)

TypeOK ==
    /\ up \in BOOLEAN
    /\ planet # None => planet \in World /\ planet.id \in PlanetId
    /\ moons \in [MoonId -> World \cup {None}]
    /\ \A m \in MoonId : moons[m] # None => moons[m].id = m
    /\ seeds \subseteq MoonId \X Addr
    /\ upstreams \subseteq Addr
    /\ amUpstream \in BOOLEAN
    /\ peers \in [Addr -> Peer \cup {None}]
    /\ rx \in Handler \cup {None}
    /\ orbiting \in [Caller -> World \cup {None}]
    /\ \A c \in Caller : orbiting[c] # None => orbiting[c].id \in MoonId
    /\ planetFile \in File
    /\ planetFile \notin {None, Torn} => planetFile.id \in PlanetId
    /\ moonFile \in [MoonId -> File]
    /\ \A m \in MoonId : moonFile[m] \notin {None, Torn} => moonFile[m].id = m
    /\ peerFile \subseteq Addr
    /\ writing \in PlanetId \cup MoonId \cup {None}
    /\ saved # None => saved \in World /\ saved.id \in PlanetId

(* The memoized upstreams are exactly the roots of the worlds this node    *)
(* follows, less itself, whatever mix of updates, refreshes, orbits and    *)
(* deorbits led here.                                                      *)
MemoConsistent ==
    /\ upstreams = AllRoots(planet, moons) \ {Self}
    /\ amUpstream <=> Self \in AllRoots(planet, moons)

(* Every upstream has a Peer object, in every state: neither a re-link nor *)
(* eviction leaves Node's ping loop or getUpstreamPeer without one.        *)
UpstreamsHavePeers == \A a \in upstreams : peers[a] # None

(* A handler whose Peer object is still in the table finds it there. *)
HandlerHoldsPeer == (rx # None /\ ~ rx.orphan) => peers[rx.src] # None

(* The planet last in force, accepted from an upstream or refreshed by the *)
(* dynamic-DNS layer, is what its file holds, while the node runs and when *)
(* it has ended, and what a node that runs follows, this one or the next:  *)
(* no change is lost by a shutdown or a crash between two steps.  It is    *)
(* so until others replace the file (ImportPlanet, also under a node that  *)
(* runs) or a crash tears it (Crash); then it is again after the next      *)
(* change or start.  A world with a root too long for World::deserialize   *)
(* is excepted: it is saved and cannot be read back.                       *)
PlanetPersisted ==
    saved # None => /\ planetFile = saved
                    /\ (up /\ Loaded(saved) # None) => planet = saved

(* No moon is joined that nobody asked for: one that appears has a seed or *)
(* a file, or a call of orbit read its file before.  So one that was       *)
(* deorbited stays away until asked for again, whatever its roots still    *)
(* send; but a call that read the file just before the deorbit joins it    *)
(* afterwards, and even saves it back, as addMoon holds no lock between.   *)
MoonsWereWanted ==
    [][ \A m \in MoonId :
          (up /\ moons[m] = None /\ moons'[m] # None)
             => \/ moonFile[m] # None
                \/ \E s \in seeds : s[1] = m
                \/ \E c \in Caller : orbiting[c] # None /\ orbiting[c].id = m ]_vars

(* What the signing key vouches for in a world, as WorldTrust has it; the  *)
(* endpoints are not part of it, because the dynamic-DNS layer rewrites    *)
(* them without a signature.                                               *)
HeadOf(w) ==
    IF w = None THEN None
    ELSE [id |-> w.id, ts |-> w.ts, by |-> w.by, roots |-> RootAddrs(w)]

PlanetSlot == "planet"
ASSUME PlanetSlotIsNoMoon == PlanetSlot \notin MoonId

WorldHead == [id : PlanetId \cup MoonId, ts : Nat, by : Key, roots : SUBSET Addr]
ASSUME NoneIsNoHead == None \notin WorldHead

Heads == [s \in {PlanetSlot} \cup MoonId |->
             IF s \in MoonId THEN HeadOf(moons[s]) ELSE HeadOf(planet)]

(* No root has a path, and no handler is about to learn one, at an address *)
(* that the worlds do not list for it.                                     *)
PathsPermitted ==
    /\ \A a \in Addr : peers[a] # None => \A ip \in peers[a].paths : Permitted(a, ip)
    /\ (rx # None /\ rx.checked /\ ~ rx.orphan) => Permitted(rx.src, rx.ip)

(* As long as no world is replaced, joined or left, roots are reached only *)
(* where their worlds list them: a dynamic-DNS refresh drops the peer of   *)
(* the root it moves, and the handler that was told before the refresh     *)
(* that the old address is fine learns it into a peer nobody uses.         *)
PathsStayPermitted ==
    [][ (PathsPermitted /\ Heads' = Heads) => PathsPermitted' ]_vars

Trust == INSTANCE WorldTrust WITH
    Slot <- {PlanetSlot} \cup MoonId,
    Optional <- MoonId,
    Signed <- { <<q[1], HeadOf(q[2])>> : q \in Published },
    running <- up,
    head <- Heads

(* The topology keeps the promise: whatever refreshes, orbits, deorbits,   *)
(* crashes and in-band updates are interleaved, the head of a world moves  *)
(* only along the chain of its signatures.                                 *)
KeepsTrust == Trust!TrustSpec
=============================================================================
