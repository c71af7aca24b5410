--------------------------- MODULE TopologyProofs ---------------------------
(***************************************************************************)
(* Proofs about Topology, for every set of addresses, keys, worlds,        *)
(* endpoint lists and packets.                                             *)
(***************************************************************************)
EXTENDS Topology, SequenceTheorems, TLAPS

(* Each method keeps the memoized upstreams in step with the worlds; that  *)
(* is inductive only together with what the methods assume of each other:  *)
(* a handler's Peer object is in the table unless it was orphaned, a       *)
(* process that is down remembers nothing, and no call of orbit outlives   *)
(* it.                                                                     *)
Down == ~ up => /\ planet = None
                /\ moons = [m \in MoonId |-> None]
                /\ rx = None
                /\ orbiting = [c \in Caller |-> None]

IInv ==
    /\ TypeOK
    /\ MemoConsistent
    /\ UpstreamsHavePeers
    /\ HandlerHoldsPeer
    /\ PlanetPersisted
    /\ Down

MaybeWorld == World \cup {None}
Peers == [Addr -> Peer \cup {None}]

------------------------------------------------------------------------------
(* Lemmas about worlds *)

(* The roots of a world have node addresses. *)
LEMMA RootAddrsType ==
    ASSUME NEW w \in MaybeWorld
    PROVE  RootAddrs(w) \subseteq Addr
<1>1. CASE w = None
  BY <1>1 DEF RootAddrs
<1>2. CASE w # None
  <2>1. w.roots \in Seq(Root)
    BY <1>2 DEF MaybeWorld, World
  <2>2. \A i \in DOMAIN w.roots : w.roots[i] \in Root
    BY <2>1, ElementOfSeq, LenProperties
  <2>3. \A i \in DOMAIN w.roots : w.roots[i].addr \in Addr
    BY <2>2 DEF Root
  <2> QED BY <1>2, <2>3 DEF RootAddrs
<1> QED BY <1>1, <1>2

(* So do those of all the worlds a node follows. *)
LEMMA AllRootsType ==
    ASSUME NEW pl \in MaybeWorld, NEW ms \in [MoonId -> MaybeWorld]
    PROVE  AllRoots(pl, ms) \subseteq Addr
BY RootAddrsType DEF AllRoots

(* A refresh changes the endpoints of the first root and nothing that the  *)
(* signing key vouches for.                                                *)
LEMMA RefreshKeepsHead ==
    ASSUME NEW w \in World, w.roots # <<>>, NEW l \in EpLists
    PROVE  LET v == [w EXCEPT !.roots[1].eps = l]
           IN  /\ v \in World
               /\ v.id = w.id /\ v.ts = w.ts /\ v.by = w.by
               /\ RootAddrs(v) = RootAddrs(w)
<1> DEFINE v == [w EXCEPT !.roots[1].eps = l]
           rs == [w.roots EXCEPT ![1].eps = l]
<1>1. w.roots \in Seq(Root) /\ 1 \in 1..Len(w.roots)
  <2>1. w.roots \in Seq(Root)
    BY DEF World
  <2> QED BY <2>1, EmptySeq
<1>2. rs \in Seq(Root)
  <2>1. w.roots[1] \in Root
    BY <1>1
  <2>2. [w.roots[1] EXCEPT !.eps = l] \in Root
    BY <2>1 DEF Root
  <2> QED BY <1>1, <2>2, ExceptSeq
<1>3. v = [w EXCEPT !.roots = rs] /\ v \in World
  BY <1>1, <1>2 DEF World
<1>4. v.id = w.id /\ v.ts = w.ts /\ v.by = w.by /\ v.roots = rs
  BY <1>3 DEF World
<1>5. DOMAIN rs = DOMAIN w.roots /\ \A i \in DOMAIN rs : rs[i].addr = w.roots[i].addr
  BY <1>1 DEF Root
<1>6. RootAddrs(v) = RootAddrs(w)
  <2>1. RootAddrs(v) = { rs[i].addr : i \in DOMAIN rs }
    BY <1>3, <1>4, NoneIsNoWorld DEF RootAddrs
  <2>2. RootAddrs(w) = { w.roots[i].addr : i \in DOMAIN w.roots }
    BY NoneIsNoWorld DEF RootAddrs
  <2> HIDE DEF rs
  <2> QED BY <2>1, <2>2, <1>5
<1> QED BY <1>3, <1>4, <1>6

(* The list a refresh gives the first root is one a root can have. *)
LEMMA MergedType ==
    ASSUME NEW w \in World, w.roots # <<>>, NEW eps \in Answers
    PROVE  Merge(w.roots[1].eps, eps) \in EpLists
<1>1. w.roots \in Seq(Root) /\ 1 \in 1..Len(w.roots)
  BY EmptySeq DEF World
<1>2. w.roots[1] \in Root
  BY <1>1, ElementOfSeq
<1>3. w.roots[1].eps \in EpLists
  BY <1>2 DEF Root
<1> QED BY <1>3, MergeClosed, TopologyConstants

(* What can be read from a world file is a world. *)
LEMMA LoadedType ==
    ASSUME NEW f \in File
    PROVE  Loaded(f) \in MaybeWorld /\ (Loaded(f) # None => Loaded(f) = f /\ f \notin {None, Torn})
BY DEF File, Loaded, MaybeWorld

(* _memoizeUpstreams gives every upstream a peer and takes none away. *)
LEMMA MemoizeEffect ==
    ASSUME NEW pl \in MaybeWorld, NEW ms \in [MoonId -> MaybeWorld], NEW ps \in Peers,
           Memoize(pl, ms, ps)
    PROVE  /\ upstreams' = AllRoots(pl, ms) \ {Self}
           /\ upstreams' \subseteq Addr
           /\ amUpstream' \in BOOLEAN
           /\ amUpstream' <=> Self \in AllRoots(pl, ms)
           /\ peers' \in Peers
           /\ \A a \in upstreams' : peers'[a] # None
           /\ \A a \in Addr : ps[a] # None => peers'[a] # None
<1>1. AllRoots(pl, ms) \subseteq Addr
  BY AllRootsType
<1>2. FreshPeer \in Peer
  BY DEF FreshPeer, Peer
<1>3. /\ upstreams' = AllRoots(pl, ms) \ {Self}
      /\ amUpstream' = (Self \in AllRoots(pl, ms))
      /\ peers' = [a \in Addr |-> IF a \in AllRoots(pl, ms) \ {Self} /\ ps[a] = None
                                  THEN FreshPeer ELSE ps[a]]
  BY DEF Memoize
<1>4. peers' \in Peers
  BY <1>2, <1>3 DEF Peers
<1>5. \A a \in upstreams' : peers'[a] # None
  BY <1>1, <1>2, <1>3, NoneIsNoPeer
<1>6. \A a \in Addr : ps[a] # None => peers'[a] # None
  BY <1>3
<1>7. upstreams' \subseteq Addr
  BY <1>1, <1>3
<1>8. amUpstream' \in BOOLEAN /\ (amUpstream' <=> Self \in AllRoots(pl, ms))
  <2>1. CASE Self \in AllRoots(pl, ms)
    <3>1. amUpstream' = TRUE
      BY <1>3, <2>1
    <3> QED BY <2>1, <3>1
  <2>2. CASE Self \notin AllRoots(pl, ms)
    <3>1. (Self \in AllRoots(pl, ms)) = FALSE
      BY <2>2
    <3>2. amUpstream' = FALSE
      BY <1>3, <3>1, Zenon
    <3> QED BY <2>2, <3>2
  <2> QED BY <2>1, <2>2
<1>9. upstreams' = AllRoots(pl, ms) \ {Self}
  BY <1>3
<1> QED BY <1>4, <1>5, <1>6, <1>7, <1>8, <1>9

------------------------------------------------------------------------------
(* The inductive invariant *)

(* A process that has never run remembers nothing and holds the invariant. *)
LEMMA InitIInv == Init => IInv
<1> SUFFICES ASSUME Init PROVE IInv
  OBVIOUS
<1>1. AllRoots(planet, moons) = {}
  BY DEF Init, AllRoots, RootAddrs
<1>2. planetFile \in File /\ (planetFile \notin {None, Torn} => planetFile.id \in PlanetId)
  BY TopologyConstants DEF Init, File
<1>3. TypeOK
  BY <1>2 DEF Init, TypeOK, File
<1> QED BY <1>1, <1>3 DEF Init, IInv, MemoConsistent, UpstreamsHavePeers, HandlerHoldsPeer,
           PlanetPersisted, Down

(* Steps that leave worlds, memo and files alone and keep the peers of the *)
(* upstreams and of the handler.                                           *)
LEMMA PeerStep ==
    ASSUME IInv,
           UNCHANGED <<up, worlds, memo, planetFile, moonFile, aside>>,
           peers' \in Peers,
           \A a \in upstreams : peers'[a] # None,
           rx' \in Handler \cup {None},
           (rx' # None /\ ~ rx'.orphan) => peers'[rx'.src] # None,
           ~ up => rx' = None,
           peerFile' \subseteq Addr,
           writing' = None
    PROVE  IInv'
<1>1. TypeOK'
  BY DEF IInv, TypeOK, worlds, memo, aside, Peers
<1>2. MemoConsistent'
  BY DEF IInv, MemoConsistent, worlds, memo, AllRoots
<1>3. UpstreamsHavePeers' /\ HandlerHoldsPeer'
  BY DEF UpstreamsHavePeers, HandlerHoldsPeer, memo
<1>4. PlanetPersisted' /\ Down'
  BY DEF IInv, PlanetPersisted, Down, worlds, aside
<1> QED BY <1>1, <1>2, <1>3, <1>4 DEF IInv

(* Steps that change the worlds and memoize. *)
LEMMA WorldStep ==
    ASSUME IInv, up', up' \in BOOLEAN,
           planet' # None => planet' \in World /\ planet'.id \in PlanetId,
           moons' \in [MoonId -> MaybeWorld],
           \A m \in MoonId : moons'[m] # None => moons'[m].id = m,
           seeds' \subseteq MoonId \X Addr,
           NEW ps \in Peers, Memoize(planet', moons', ps),
           rx' \in Handler \cup {None},
           (rx' # None /\ ~ rx'.orphan) => ps[rx'.src] # None,
           planetFile' \in File,
           planetFile' \notin {None, Torn} => planetFile'.id \in PlanetId,
           orbiting' \in [Caller -> MaybeWorld],
           \A c \in Caller : orbiting'[c] # None => orbiting'[c].id \in MoonId,
           saved' # None => saved' \in World /\ saved'.id \in PlanetId,
           PlanetPersisted',
           moonFile' \in [MoonId -> File],
           \A m \in MoonId : moonFile'[m] \notin {None, Torn} => moonFile'[m].id = m,
           peerFile' \subseteq Addr,
           writing' \in PlanetId \cup MoonId \cup {None}
    PROVE  IInv'
<1>1. /\ upstreams' = AllRoots(planet', moons') \ {Self}
      /\ upstreams' \subseteq Addr
      /\ amUpstream' \in BOOLEAN
      /\ amUpstream' <=> Self \in AllRoots(planet', moons')
      /\ peers' \in Peers
      /\ \A a \in upstreams' : peers'[a] # None
      /\ \A a \in Addr : ps[a] # None => peers'[a] # None
  <2>1. planet' \in MaybeWorld
    BY DEF MaybeWorld
  <2> QED BY <2>1, MemoizeEffect
<1>2. TypeOK'
  BY <1>1 DEF TypeOK, Peers, MaybeWorld
<1>3. MemoConsistent' /\ UpstreamsHavePeers'
  BY <1>1 DEF MemoConsistent, UpstreamsHavePeers, AllRoots
<1>4. HandlerHoldsPeer'
  BY <1>1 DEF HandlerHoldsPeer, Handler
<1>5. Down'
  BY DEF Down
<1> QED BY <1>2, <1>3, <1>4, <1>5 DEF IInv

(* The peers that are left when some have been dropped *)
LEMMA DroppedEffect ==
    ASSUME NEW as, NEW ps \in Peers
    PROVE  /\ Dropped(ps, as) \in Peers
           /\ \A a \in Addr \ as : Dropped(ps, as)[a] = ps[a]
BY DEF Dropped, Peers

(* The handler's peer survives the dropping, or the handler is orphaned.   *)
LEMMA OrphanEffect ==
    ASSUME IInv, NEW as, OrphanHandler(as)
    PROVE  /\ rx' \in Handler \cup {None}
           /\ (rx' # None /\ ~ rx'.orphan) => Dropped(peers, as)[rx'.src] # None
           /\ rx = None => rx' = None
<1>1. rx \in Handler \cup {None}
  BY DEF IInv, TypeOK
<1>2. CASE rx # None /\ rx.src \in as
  <2>1. rx' \in Handler /\ rx'.orphan
    BY <1>1, <1>2 DEF OrphanHandler, Handler
  <2> QED BY <1>2, <2>1
<1>3. CASE ~ (rx # None /\ rx.src \in as)
  <2>1. rx' = rx
    BY <1>3 DEF OrphanHandler
  <2>2. (rx # None /\ ~ rx.orphan) => rx.src \in Addr \ as /\ peers[rx.src] # None
    BY <1>1, <1>3 DEF IInv, HandlerHoldsPeer, Handler
  <2>3. peers \in Peers
    BY DEF IInv, TypeOK, Peers
  <2> QED BY <1>1, <2>1, <2>2, <2>3, DroppedEffect
<1> QED BY <1>2, <1>3

(* A save of the planet or of a moon *)
LEMMA PutPlanetEffect ==
    ASSUME IInv, NEW w \in World, w.id \in PlanetId, PutPlanet(w)
    PROVE  /\ planetFile' = w /\ planetFile' \in File
           /\ UNCHANGED <<moonFile, peerFile>>
           /\ writing' \in PlanetId \cup MoonId \cup {None}
BY DEF PutPlanet, File

(* The same for the save of a moon *)
LEMMA PutMoonEffect ==
    ASSUME IInv, NEW w \in World, w.id \in MoonId, PutMoon(w)
    PROVE  /\ UNCHANGED <<planetFile, peerFile>>
           /\ moonFile' \in [MoonId -> File]
           /\ \A m \in MoonId : moonFile'[m] \notin {None, Torn} => moonFile'[m].id = m
           /\ writing' \in PlanetId \cup MoonId \cup {None}
BY DEF PutMoon, File, IInv, TypeOK

(* What the world steps below assume of the state before *)
LEMMA Known ==
    ASSUME IInv
    PROVE  /\ peers \in Peers
           /\ moons \in [MoonId -> MaybeWorld]
           /\ rx \in Handler \cup {None}
           /\ (rx # None /\ ~ rx.orphan) => peers[rx.src] # None
           /\ orbiting \in [Caller -> MaybeWorld]
           /\ \A c \in Caller : orbiting[c] # None => orbiting[c].id \in MoonId
BY DEF IInv, TypeOK, Peers, MaybeWorld, HandlerHoldsPeer

(* addWorld of a planet keeps the invariant. *)
LEMMA NextAcceptPlanet ==
    ASSUME IInv, up, NEW w \in World, AcceptPlanet(w), UNCHANGED <<up, rx, orbiting>>
    PROVE  IInv'
<1>1. /\ w.id \in PlanetId /\ planet' = w /\ saved' = w /\ PutPlanet(w)
      /\ moons' = moons /\ seeds' = seeds /\ Memoize(planet', moons', peers)
  BY DEF AcceptPlanet
<1>2. PlanetPersisted'
  BY <1>1, PutPlanetEffect DEF PlanetPersisted
<1> QED BY <1>1, <1>2, Known, PutPlanetEffect, WorldStep DEF IInv, TypeOK

(* Whatever sets a moon, saves it and memoizes keeps the invariant. *)
LEMMA NextMoon ==
    ASSUME IInv, up, NEW w \in World, w.id \in MoonId,
           moons' = [moons EXCEPT ![w.id] = w], PutMoon(w),
           seeds' \subseteq MoonId \X Addr,
           NEW ps \in Peers, Memoize(planet, moons', ps),
           rx' \in Handler \cup {None},
           (rx' # None /\ ~ rx'.orphan) => ps[rx'.src] # None,
           orbiting' \in [Caller -> MaybeWorld],
           \A c \in Caller : orbiting'[c] # None => orbiting'[c].id \in MoonId,
           UNCHANGED <<up, planet, saved>>
    PROVE  IInv'
<1>1. /\ moons' \in [MoonId -> MaybeWorld]
      /\ \A m \in MoonId : moons'[m] # None => moons'[m].id = m
  BY DEF IInv, TypeOK, MaybeWorld
<1>2. PlanetPersisted'
  BY PutMoonEffect DEF IInv, PlanetPersisted
<1> QED BY <1>1, <1>2, PutMoonEffect, WorldStep DEF IInv, TypeOK

(* So does an in-band update of any world. *)
LEMMA NextReceiveWorld ==
    ASSUME IInv, NEW a \in Addr, NEW w \in Offered, ReceiveWorld(a, w)
    PROVE  IInv'
<1>1. w \in World /\ up /\ UNCHANGED <<up, rx, orbiting>>
  BY TopologyConstants DEF ReceiveWorld
<1>2. CASE AcceptPlanet(w)
  BY <1>1, <1>2, NextAcceptPlanet
<1>3. CASE ReplaceMoon(w)
  BY <1>1, <1>3, Known, NextMoon DEF ReplaceMoon, IInv, TypeOK
<1>4. CASE JoinWantedMoon(w)
  BY <1>1, <1>4, Known, NextMoon DEF JoinWantedMoon, IInv, TypeOK
<1> QED BY <1>2, <1>3, <1>4 DEF ReceiveWorld

(* setPlanetEndpoints keeps the invariant: the peer it drops comes back. *)
LEMMA NextSetPlanetEndpoints ==
    ASSUME IInv, NEW eps \in Answers, SetPlanetEndpoints(eps)
    PROVE  IInv'
<1> DEFINE l == Merge(planet.roots[1].eps, eps)
           w == [planet EXCEPT !.roots[1].eps = l]
           root == planet.roots[1].addr
<1>1. /\ planet \in World /\ planet.id \in PlanetId /\ planet.roots # <<>>
      /\ up /\ UNCHANGED <<up, moons, seeds, orbiting>>
      /\ planet' = w /\ saved' = w /\ PutPlanet(w)
      /\ Memoize(planet', moons', Dropped(peers, {root})) /\ OrphanHandler({root})
  BY DEF SetPlanetEndpoints, IInv, TypeOK
<1>2. l \in EpLists
  <2>1. planet.roots \in Seq(Root) /\ 1 \in 1..Len(planet.roots)
    BY <1>1, EmptySeq DEF World
  <2>2. planet.roots[1] \in Root
    BY <2>1, ElementOfSeq
  <2>3. planet.roots[1].eps \in EpLists
    BY <2>2 DEF Root
  <2> QED BY <2>3, MergeClosed, TopologyConstants
<1>3. w \in World /\ w.id \in PlanetId
  BY <1>1, <1>2, RefreshKeepsHead
<1>4. Dropped(peers, {root}) \in Peers
  BY Known, DroppedEffect
<1> HIDE DEF w, root
<1>5. PlanetPersisted'
  BY <1>1, <1>3, PutPlanetEffect DEF PlanetPersisted
<1> QED BY <1>1, <1>3, <1>4, <1>5, Known, OrphanEffect, PutPlanetEffect, WorldStep
        DEF IInv, TypeOK

(* setMoonEndpoints likewise *)
LEMMA NextSetMoonEndpoints ==
    ASSUME IInv, NEW m \in MoonId, NEW eps \in Answers, SetMoonEndpoints(m, eps)
    PROVE  IInv'
<1> DEFINE l == Merge(moons[m].roots[1].eps, eps)
           w == [moons[m] EXCEPT !.roots[1].eps = l]
           root == moons[m].roots[1].addr
<1>1. /\ moons[m] \in World /\ moons[m].id = m /\ moons[m].roots # <<>>
      /\ up /\ UNCHANGED <<up, planet, seeds, orbiting, saved>>
      /\ moons' = [moons EXCEPT ![m] = w] /\ PutMoon(w)
      /\ Memoize(planet, moons', Dropped(peers, {root})) /\ OrphanHandler({root})
  BY DEF SetMoonEndpoints, aside, IInv, TypeOK
<1>2. l \in EpLists
  <2>1. moons[m].roots \in Seq(Root) /\ 1 \in 1..Len(moons[m].roots)
    BY <1>1, EmptySeq DEF World
  <2>2. moons[m].roots[1] \in Root
    BY <2>1, ElementOfSeq
  <2>3. moons[m].roots[1].eps \in EpLists
    BY <2>2 DEF Root
  <2> QED BY <2>3, MergeClosed, TopologyConstants
<1>3. w \in World /\ w.id = m
  BY <1>1, <1>2, RefreshKeepsHead
<1>4. Dropped(peers, {root}) \in Peers
  BY Known, DroppedEffect
<1> HIDE DEF w, root
<1> QED BY <1>1, <1>3, <1>4, Known, OrphanEffect, NextMoon DEF IInv, TypeOK

(* Steps that change nothing but the seeds and what calls of orbit hold *)
LEMMA CallStep ==
    ASSUME IInv, up,
           UNCHANGED <<up, planet, moons, memo, peers, rx, files, saved>>,
           seeds' \subseteq MoonId \X Addr,
           orbiting' \in [Caller -> MaybeWorld],
           \A c \in Caller : orbiting'[c] # None => orbiting'[c].id \in MoonId,
           writing' = None
    PROVE  IInv'
<1>1. TypeOK'
  BY DEF IInv, TypeOK, memo, files, MaybeWorld
<1>2. MemoConsistent' /\ UpstreamsHavePeers' /\ HandlerHoldsPeer' /\ PlanetPersisted' /\ Down'
  BY DEF IInv, MemoConsistent, UpstreamsHavePeers, HandlerHoldsPeer, PlanetPersisted, Down,
         memo, files, AllRoots
<1> QED BY <1>1, <1>2 DEF IInv

(* addMoon of a moon that is in a file: the read keeps the invariant, *)
LEMMA NextReadMoonFile ==
    ASSUME IInv, NEW c \in Caller, NEW m \in MoonId, ReadMoonFile(c, m)
    PROVE  IInv'
<1> DEFINE w == Loaded(moonFile[m])
<1>1. /\ up /\ w # None /\ orbiting' = [orbiting EXCEPT ![c] = w] /\ writing' = None
      /\ UNCHANGED <<up, worlds, memo, peers, rx, files, saved>>
  BY DEF ReadMoonFile
<1>2. w \in World /\ w.id = m
  <2>1. moonFile[m] \in File
    BY DEF IInv, TypeOK
  <2> QED BY <1>1, <2>1, LoadedType DEF MaybeWorld, IInv, TypeOK
<1> HIDE DEF w
<1>3. /\ orbiting' \in [Caller -> MaybeWorld]
      /\ \A d \in Caller : orbiting'[d] # None => orbiting'[d].id \in MoonId
  BY <1>1, <1>2, Known DEF MaybeWorld
<1>4. seeds' \subseteq MoonId \X Addr
  BY <1>1 DEF IInv, TypeOK, worlds
<1> QED BY <1>1, <1>3, <1>4, CallStep DEF worlds

(* and so does the addWorld of what was read, however long ago. *)
LEMMA NextOrbitRead ==
    ASSUME IInv, NEW c \in Caller, OrbitRead(c)
    PROVE  IInv'
<1> DEFINE w == orbiting[c]
<1>1. /\ up /\ UNCHANGED <<up, rx>> /\ w # None
      /\ orbiting' = [orbiting EXCEPT ![c] = None]
      /\ \/ JoinAnyMoon(w)
         \/ ReplaceMoon(w)
         \/ writing' = None /\ UNCHANGED <<worlds, memo, peers, files, saved>>
  BY DEF OrbitRead
<1>2. w \in World /\ w.id \in MoonId
  BY <1>1, Known DEF MaybeWorld
<1>3. /\ orbiting' \in [Caller -> MaybeWorld]
      /\ \A d \in Caller : orbiting'[d] # None => orbiting'[d].id \in MoonId
  BY <1>1, Known DEF MaybeWorld
<1> HIDE DEF w
<1>4. CASE JoinAnyMoon(w)
  BY <1>1, <1>2, <1>3, <1>4, Known, NextMoon DEF JoinAnyMoon, IInv, TypeOK
<1>5. CASE ReplaceMoon(w)
  BY <1>1, <1>2, <1>3, <1>5, Known, NextMoon DEF ReplaceMoon, IInv, TypeOK
<1>6. CASE writing' = None /\ UNCHANGED <<worlds, memo, peers, files, saved>>
  <2>1. seeds' \subseteq MoonId \X Addr
    BY <1>6 DEF IInv, TypeOK, worlds
  <2> QED BY <1>1, <1>3, <1>6, <2>1, CallStep DEF worlds
<1> QED BY <1>1, <1>4, <1>5, <1>6

(* addMoon of a moon to be fetched changes the seeds only. *)
LEMMA NextOrbitFromSeed ==
    ASSUME IInv, NEW m \in MoonId, NEW a \in Addr, OrbitFromSeed(m, a)
    PROVE  IInv'
<1>1. seeds' \subseteq MoonId \X Addr
  BY DEF OrbitFromSeed, IInv, TypeOK
<1> QED BY <1>1, Known, CallStep DEF OrbitFromSeed, aside

(* removeMoon keeps the invariant. *)
LEMMA NextDeorbit ==
    ASSUME IInv, NEW m \in MoonId, Deorbit(m)
    PROVE  IInv'
<1>1. /\ up /\ UNCHANGED <<up, planet, rx, planetFile, peerFile, orbiting, saved>>
      /\ moons' = [moons EXCEPT ![m] = None]
      /\ seeds' \subseteq MoonId \X Addr
      /\ Memoize(planet', moons', peers)
      /\ writing' = None
  BY DEF Deorbit, aside, IInv, TypeOK
<1>2. /\ moons' \in [MoonId -> MaybeWorld]
      /\ \A k \in MoonId : moons'[k] # None => moons'[k].id = k
  BY <1>1 DEF IInv, TypeOK, MaybeWorld
<1>3. /\ moonFile' \in [MoonId -> File]
      /\ \A k \in MoonId : moonFile'[k] \notin {None, Torn} => moonFile'[k].id = k
  BY DEF Deorbit, IInv, TypeOK, File
<1>4. PlanetPersisted'
  BY <1>1 DEF IInv, PlanetPersisted
<1> QED BY <1>1, <1>2, <1>3, <1>4, Known, WorldStep DEF IInv, TypeOK

(* Peers and paths that come and go keep the invariant. *)
LEMMA NextPeers ==
    ASSUME IInv,
           \/ \E a \in Addr : AddPeer(a) \/ LoadPeer(a) \/ FallSilent(a)
           \/ \E s \in Sources : ReceiveOnPath(s[1], s[2]) \/ ReceiveElsewhere(s[1], s[2])
           \/ \E a \in Addr, ip \in Ip : PathDies(a, ip) \/ ExpirePath(a, ip)
           \/ CheckPath
           \/ LearnPath
    PROVE  IInv'
<1>1. /\ peers \in Peers /\ rx \in Handler \cup {None} /\ None \notin Peer
      /\ \A a \in upstreams : peers[a] # None
      /\ (rx # None /\ ~ rx.orphan) => peers[rx.src] # None
      /\ ~ up => rx = None
      /\ peerFile \subseteq Addr /\ upstreams \subseteq Addr
  BY NoneIsNoPeer DEF IInv, TypeOK, Peers, UpstreamsHavePeers, HandlerHoldsPeer, Down
<1>2. FreshPeer \in Peer
  BY DEF FreshPeer, Peer
<1>3. ASSUME NEW a \in Addr, AddPeer(a) \/ LoadPeer(a)
      PROVE  IInv'
  <2>1. peers' = [peers EXCEPT ![a] = FreshPeer] /\ UNCHANGED <<up, worlds, memo, rx, files, aside>>
        /\ writing' = None
    BY <1>3 DEF AddPeer, LoadPeer
  <2>2. peers' \in Peers /\ \A b \in Addr : peers[b] # None => peers'[b] # None
    BY <1>1, <1>2, <2>1 DEF Peers
  <2> QED BY <1>1, <2>1, <2>2, PeerStep DEF files, Handler
<1>4. ASSUME NEW a \in Addr, FallSilent(a)
      PROVE  IInv'
  <2>1. peers[a] \in Peer
    BY <1>1, <1>4 DEF FallSilent, Peers
  <2>2. peers' \in Peers /\ \A b \in Addr : peers[b] # None => peers'[b] # None
    BY <1>1, <1>4, <2>1 DEF FallSilent, Peers, Peer
  <2> QED BY <1>1, <1>4, <2>2, PeerStep DEF FallSilent, files, Handler
<1>5. ASSUME NEW s \in Sources, ReceiveOnPath(s[1], s[2])
      PROVE  IInv'
  <2>1. s[1] \in Addr /\ s[2] \in Ip
    BY TopologyConstants
  <2>2. peers[s[1]] \in Peer
    BY <1>1, <1>5, <2>1 DEF ReceiveOnPath, Peers
  <2> DEFINE q == [peers[s[1]] EXCEPT !.alive = @ \cup {s[2]}, !.heard = TRUE]
  <2>q. q \in Peer
    BY <2>1, <2>2 DEF Peer
  <2>r. peers' = [peers EXCEPT ![s[1]] = q]
    BY <1>1, <1>5, <2>1, <2>2 DEF ReceiveOnPath, Peers, Peer
  <2> HIDE DEF q
  <2>3. peers' \in Peers /\ \A b \in Addr : peers[b] # None => peers'[b] # None
    BY <1>1, <2>1, <2>q, <2>r DEF Peers
  <2> QED BY <1>1, <1>5, <2>3, PeerStep DEF ReceiveOnPath, files, Handler
<1>6. ASSUME NEW s \in Sources, ReceiveElsewhere(s[1], s[2])
      PROVE  IInv'
  <2>1. s[1] \in Addr /\ s[2] \in Ip
    BY TopologyConstants
  <2>2. peers[s[1]] \in Peer
    BY <1>1, <1>6, <2>1 DEF ReceiveElsewhere, Peers
  <2>3. peers' \in Peers /\ \A b \in Addr : peers[b] # None => peers'[b] # None
    BY <1>1, <1>6, <2>1, <2>2 DEF ReceiveElsewhere, Peers, Peer
  <2>4. /\ rx' \in Handler \cup {None}
        /\ (rx' # None /\ ~ rx'.orphan) => peers'[rx'.src] # None
    <3>1. CASE UNCHANGED rx
      BY <1>1, <2>3, <3>1 DEF Handler
    <3>2. CASE rx' = [src |-> s[1], ip |-> s[2], checked |-> FALSE, orphan |-> FALSE]
      BY <1>6, <2>1, <2>3, <3>2 DEF ReceiveElsewhere, Handler
    <3> QED BY <1>6, <3>1, <3>2 DEF ReceiveElsewhere
  <2> QED BY <1>1, <1>6, <2>3, <2>4, PeerStep DEF ReceiveElsewhere, files
<1>7. ASSUME NEW a \in Addr, NEW ip \in Ip, PathDies(a, ip) \/ ExpirePath(a, ip)
      PROVE  IInv'
  <2>1. peers[a] \in Peer
    BY <1>1, <1>7 DEF PathDies, ExpirePath, Peers
  <2>2. peers' \in Peers /\ \A b \in Addr : peers[b] # None => peers'[b] # None
    BY <1>1, <1>7, <2>1 DEF PathDies, ExpirePath, Peers, Peer
  <2> QED BY <1>1, <1>7, <2>2, PeerStep DEF PathDies, ExpirePath, files, Handler
<1>8. CASE CheckPath
  <2>1. rx' \in Handler \cup {None} /\ (rx' # None => rx'.src = rx.src /\ rx'.orphan = rx.orphan)
    BY <1>1, <1>8 DEF CheckPath, Handler
  <2> QED BY <1>1, <1>8, <2>1, PeerStep DEF CheckPath, files
<1>9. CASE LearnPath
  <2>1. CASE rx.orphan
    BY <1>1, <1>9, <2>1, PeerStep DEF LearnPath, files
  <2>2. CASE ~ rx.orphan
    <3>1. rx.src \in Addr /\ rx.ip \in Ip /\ peers[rx.src] \in Peer
      BY <1>1, <1>9, <2>2 DEF LearnPath, Handler, Peers
    <3>2. peers' \in Peers /\ \A b \in Addr : peers[b] # None => peers'[b] # None
      BY <1>1, <1>9, <2>2, <3>1 DEF LearnPath, Peers, Peer
    <3> QED BY <1>1, <1>9, <3>2, PeerStep DEF LearnPath, files
  <2> QED BY <2>1, <2>2
<1> QED BY <1>3, <1>4, <1>5, <1>6, <1>7, <1>8, <1>9

(* doPeriodicTasks evicts no upstream. *)
LEMMA NextDoPeriodicTasks ==
    ASSUME IInv, DoPeriodicTasks
    PROVE  IInv'
<1> DEFINE idle == { a \in Addr : peers[a] # None /\ ~ peers[a].heard /\ a \notin upstreams }
<1>1. /\ up /\ UNCHANGED <<up, worlds, memo, planetFile, moonFile, aside>>
      /\ peers' = Dropped(peers, idle) /\ OrphanHandler(idle)
      /\ peerFile' = peerFile \cup idle /\ writing' = None
  BY DEF DoPeriodicTasks
<1>2. idle \subseteq Addr /\ \A a \in upstreams : a \in Addr \ idle
  BY DEF IInv, TypeOK
<1> HIDE DEF idle
<1>3. peers' \in Peers /\ \A a \in upstreams : peers'[a] # None
  BY <1>1, <1>2, Known, DroppedEffect DEF IInv, UpstreamsHavePeers
<1>4. peerFile' \subseteq Addr
  BY <1>1, <1>2 DEF IInv, TypeOK
<1> QED BY <1>1, <1>3, <1>4, OrphanEffect, PeerStep DEF IInv, TypeOK

(* Stopping, crashing and edited files keep the invariant. *)
LEMMA NextProcess ==
    ASSUME IInv, Shutdown \/ Crash \/ ImportPlanet \/ \E m \in MoonId : EditMoonFile(m)
    PROVE  IInv'
<1>1. ASSUME Forget,
             peerFile' \subseteq Addr,
             planetFile' \in File,
             planetFile' \notin {None, Torn} => planetFile'.id \in PlanetId,
             moonFile' \in [MoonId -> File],
             \A m \in MoonId : moonFile'[m] \notin {None, Torn} => moonFile'[m].id = m,
             saved' = None \/ UNCHANGED <<planetFile, saved>>
      PROVE  IInv'
  <2>1. AllRoots(planet', moons') = {}
    BY <1>1 DEF Forget, AllRoots, RootAddrs
  <2>2. TypeOK'
    BY <1>1 DEF Forget, TypeOK, IInv
  <2>3. PlanetPersisted'
    BY <1>1 DEF Forget, IInv, PlanetPersisted
  <2> QED BY <1>1, <2>1, <2>2, <2>3 DEF Forget, IInv, MemoConsistent, UpstreamsHavePeers,
             HandlerHoldsPeer, Down, AllRoots
<1>2. CASE Shutdown
  BY <1>1, <1>2 DEF Shutdown, IInv, TypeOK
<1>3. CASE Crash
  <2>1. planetFile' \in File /\ (planetFile' \notin {None, Torn} => planetFile'.id \in PlanetId)
    BY <1>3 DEF Crash, IInv, TypeOK, File
  <2>2. /\ moonFile' \in [MoonId -> File]
        /\ \A m \in MoonId : moonFile'[m] \notin {None, Torn} => moonFile'[m].id = m
    BY <1>3 DEF Crash, IInv, TypeOK, File
  <2>3. saved' = None \/ UNCHANGED <<planetFile, saved>>
    BY <1>3 DEF Crash
  <2>4. Forget /\ peerFile' \subseteq Addr
    BY <1>3 DEF Crash, IInv, TypeOK
  <2> QED BY <1>1, <2>1, <2>2, <2>3, <2>4
<1>4. CASE ImportPlanet
  <2>1. planetFile' \in File /\ (planetFile' \notin {None, Torn} => planetFile'.id \in PlanetId)
    BY <1>4, TopologyConstants DEF ImportPlanet, File
  <2>2. TypeOK'
    BY <1>4, <2>1 DEF ImportPlanet, IInv, TypeOK, worlds, memo
  <2> QED BY <1>4, <2>2 DEF ImportPlanet, IInv, MemoConsistent, UpstreamsHavePeers,
             HandlerHoldsPeer, PlanetPersisted, Down, worlds, memo, AllRoots
<1>5. ASSUME NEW m \in MoonId, EditMoonFile(m)
      PROVE  IInv'
  <2>1. PICK f \in { w \in Offered : w.id = m } \cup {None, Torn} :
           moonFile' = [moonFile EXCEPT ![m] = f]
    BY <1>5 DEF EditMoonFile
  <2>2. f \in File /\ (f \notin {None, Torn} => f.id = m)
    BY TopologyConstants DEF File
  <2>3. /\ moonFile' \in [MoonId -> File]
        /\ \A k \in MoonId : moonFile'[k] \notin {None, Torn} => moonFile'[k].id = k
    BY <2>1, <2>2 DEF IInv, TypeOK
  <2>4. TypeOK'
    BY <1>5, <2>3 DEF EditMoonFile, IInv, TypeOK, worlds, memo, aside
  <2> QED BY <1>5, <2>4 DEF EditMoonFile, IInv, MemoConsistent, UpstreamsHavePeers,
             HandlerHoldsPeer, PlanetPersisted, Down, worlds, memo, aside, AllRoots
<1> QED BY <1>2, <1>3, <1>4, <1>5

(* The constructor establishes it from whatever the files hold. *)
LEMMA NextStart ==
    ASSUME IInv, Start
    PROVE  IInv'
<1>1. /\ up' /\ up' \in BOOLEAN /\ Memoize(planet', moons', peers)
      /\ UNCHANGED <<seeds, rx, orbiting, files>> /\ writing' = None
      /\ planet' = Loaded(planetFile)
      /\ saved' = IF saved # None THEN saved ELSE planet'
  BY DEF Start
<1>2. /\ planet' # None => planet' \in World /\ planet'.id \in PlanetId
      /\ planet' # None => planetFile' = planet'
  BY <1>1, LoadedType DEF files, MaybeWorld, IInv, TypeOK
<1>3. /\ moons' \in [MoonId -> MaybeWorld]
      /\ \A m \in MoonId : moons'[m] # None => moons'[m].id = m
  BY LoadedType DEF Start, IInv, TypeOK, MaybeWorld
<1>4. saved' # None => saved' \in World /\ saved'.id \in PlanetId
  BY <1>1, <1>2 DEF IInv, TypeOK
<1>5. PlanetPersisted'
  <2>1. CASE saved # None
    <3>1. saved' = saved /\ planetFile' = saved /\ planet' = Loaded(saved)
      BY <1>1, <2>1 DEF IInv, PlanetPersisted, files
    <3>2. saved \in File
      BY <2>1 DEF IInv, TypeOK, File
    <3> QED BY <3>1, <3>2, LoadedType DEF PlanetPersisted
  <2>2. CASE saved = None
    BY <1>1, <1>2, <2>2 DEF PlanetPersisted
  <2> QED BY <2>1, <2>2
<1> QED BY <1>1, <1>2, <1>3, <1>4, <1>5, Known, WorldStep DEF IInv, TypeOK, files

(* The invariant is inductive: every step of the topology keeps it. *)
THEOREM NextIInv == IInv /\ [Next]_vars => IInv'
<1> SUFFICES ASSUME IInv, [Next]_vars PROVE IInv'
  OBVIOUS
<1>1. CASE UNCHANGED vars
  <2>1. TypeOK'
    BY <1>1 DEF IInv, TypeOK, vars, worlds, memo, files, aside
  <2> QED BY <1>1, <2>1 DEF IInv, MemoConsistent, UpstreamsHavePeers, HandlerHoldsPeer,
             PlanetPersisted, Down, vars, worlds, memo, files, aside, AllRoots
<1>2. CASE Next
  BY <1>2, NextReceiveWorld, NextSetPlanetEndpoints, NextSetMoonEndpoints, NextReadMoonFile,
     NextOrbitRead, NextDeorbit, NextOrbitFromSeed, NextPeers, NextDoPeriodicTasks, NextProcess, NextStart
     DEF Next, ChangeWorlds, ChangePeers, ChangeFiles, StartOrEnd
<1> QED BY <1>1, <1>2

------------------------------------------------------------------------------
(* Safety *)

(* IInv holds in every reachable state. *)
LEMMA Invariance == Spec => []IInv
BY InitIInv, NextIInv, PTL DEF Spec

(* Type correctness: ids stay in the slot of their kind, handlers, files   *)
(* and peers keep their shapes.                                            *)
THEOREM TypeCorrect == Spec => []TypeOK
<1>1. IInv => TypeOK
  BY DEF IInv
<1> QED BY <1>1, Invariance, PTL

(* _upstreamAddresses and _amUpstream never drift from the worlds that     *)
(* in-band updates, refreshes, orbits and deorbits leave behind.           *)
THEOREM MemoSafe == Spec => []MemoConsistent
<1>1. IInv => MemoConsistent
  BY DEF IInv
<1> QED BY <1>1, Invariance, PTL

(* Every upstream has a Peer object: the re-link of setPlanetEndpoints and *)
(* the eviction of doPeriodicTasks leave no hole in _peers.                *)
THEOREM UpstreamsSafe == Spec => []UpstreamsHavePeers
<1>1. IInv => UpstreamsHavePeers
  BY DEF IInv
<1> QED BY <1>1, Invariance, PTL

(* Unless others replaced its file or a crash tore it, the planet last in  *)
(* force is the one in the file, while the node runs and after it ended,   *)
(* and the one that the next start follows.                                *)
THEOREM PlanetSafe == Spec => []PlanetPersisted
<1>1. IInv => PlanetPersisted
  BY DEF IInv
<1> QED BY <1>1, Invariance, PTL

------------------------------------------------------------------------------
(* The topology implements WorldTrust *)

(* The head of a world is a head, and only the null world has none. *)
LEMMA HeadOfType ==
    ASSUME NEW w \in MaybeWorld
    PROVE  IF w = None THEN HeadOf(w) = None ELSE HeadOf(w) \in WorldHead /\ HeadOf(w) # None
<1>1. CASE w = None
  BY <1>1 DEF HeadOf
<1>2. CASE w # None
  <2>1. w \in World /\ RootAddrs(w) \subseteq Addr
    BY <1>2, RootAddrsType DEF MaybeWorld
  <2>2. HeadOf(w) \in WorldHead
    BY <1>2, <2>1 DEF HeadOf, World, WorldHead
  <2> QED BY <1>2, <2>2, NoneIsNoHead
<1> QED BY <1>1, <1>2

(* A newer revision signed by the key of the present one succeeds it. *)
LEMMA ReplacedSucceeds ==
    ASSUME NEW cur \in World, NEW w \in World, ReplacedBy(cur, w)
    PROVE  Trust!Succeeds(HeadOf(cur), HeadOf(w))
<1>1. cur # None /\ w # None
  BY NoneIsNoWorld
<1>2. HeadOf(cur).id = cur.id /\ HeadOf(cur).ts = cur.ts /\ HeadOf(cur).by = cur.by
  BY <1>1 DEF HeadOf
<1>3. HeadOf(w).id = w.id /\ HeadOf(w).ts = w.ts
  BY <1>1 DEF HeadOf
<1>4. cur.id = w.id /\ cur.ts < w.ts /\ <<cur.by, w>> \in Published
  BY <1>1 DEF ReplacedBy
<1>5. <<cur.by, HeadOf(w)>> \in { <<q[1], HeadOf(q[2])>> : q \in Published }
  <2>1. <<cur.by, w>>[1] = cur.by /\ <<cur.by, w>>[2] = w
    OBVIOUS
  <2> QED BY <1>4, <2>1
<1>6. cur.ts \in Nat /\ w.ts \in Nat
  BY DEF World
<1> QED BY <1>2, <1>3, <1>4, <1>5, <1>6 DEF Trust!Succeeds

(* A step that changes the planet alone changes one head. *)
LEMMA PlanetChange ==
    ASSUME up, UNCHANGED <<up, moons>>
    PROVE  /\ Trust!Change(PlanetSlot)
           /\ Heads[PlanetSlot] = HeadOf(planet) /\ Heads'[PlanetSlot] = HeadOf(planet')
<1>1. /\ Heads[PlanetSlot] = HeadOf(planet) /\ Heads'[PlanetSlot] = HeadOf(planet')
      /\ \A t \in MoonId : Heads'[t] = Heads[t]
      /\ DOMAIN Heads' = {PlanetSlot} \cup MoonId
  BY PlanetSlotIsNoMoon DEF Heads
<1> QED BY <1>1 DEF Trust!Change

(* A step that changes a moon alone changes one head. *)
LEMMA MoonChange ==
    ASSUME IInv, up, UNCHANGED <<up, planet>>, NEW m \in MoonId, NEW w \in MaybeWorld,
           moons' = [moons EXCEPT ![m] = w]
    PROVE  /\ Trust!Change(m)
           /\ Heads[m] = HeadOf(moons[m]) /\ Heads'[m] = HeadOf(w)
<1>1. moons'[m] = w /\ \A t \in MoonId \ {m} : moons'[t] = moons[t]
  BY Known
<1>2. Heads[m] = HeadOf(moons[m]) /\ Heads'[m] = HeadOf(w)
  BY <1>1 DEF Heads
<1>3. \A t \in ({PlanetSlot} \cup MoonId) \ {m} : Heads'[t] = Heads[t]
  BY <1>1, PlanetSlotIsNoMoon DEF Heads
<1>4. DOMAIN Heads' = {PlanetSlot} \cup MoonId
  BY DEF Heads
<1> QED BY <1>2, <1>3, <1>4 DEF Trust!Change

(* A moon that changes step by step is a step of WorldTrust. *)
LEMMA MoonTrust ==
    ASSUME IInv, up, UNCHANGED <<up, planet>>, NEW w \in World, w.id \in MoonId,
           moons' = [moons EXCEPT ![w.id] = w],
           moons[w.id] # None => ReplacedBy(moons[w.id], w)
    PROVE  Trust!TrustNext
<1>1. /\ Trust!Change(w.id)
      /\ Heads[w.id] = HeadOf(moons[w.id]) /\ Heads'[w.id] = HeadOf(w)
  <2>1. w \in MaybeWorld
    BY DEF MaybeWorld
  <2> QED BY <2>1, MoonChange
<1>2. HeadOf(w) \in WorldHead /\ HeadOf(w) # None
  BY HeadOfType, NoneIsNoWorld DEF MaybeWorld
<1>3. CASE moons[w.id] = None
  <2>1. Heads[w.id] = None
    BY <1>1, <1>3 DEF HeadOf
  <2> QED BY <1>1, <1>2, <2>1 DEF Trust!TrustNext, Trust!Adopt
<1>4. CASE moons[w.id] # None
  <2>1. moons[w.id] \in World
    BY <1>4, Known DEF MaybeWorld
  <2>2. HeadOf(moons[w.id]) # None
    BY <1>4, <2>1, HeadOfType DEF MaybeWorld
  <2>3. Trust!Succeeds(HeadOf(moons[w.id]), HeadOf(w))
    BY <1>4, <2>1, ReplacedSucceeds
  <2> QED BY <1>1, <1>2, <2>2, <2>3 DEF Trust!TrustNext, Trust!Succeed
<1> QED BY <1>3, <1>4

(* A planet that is accepted is adopted or succeeds the one in force. *)
LEMMA PlanetTrust ==
    ASSUME IInv, up, UNCHANGED <<up, moons>>, NEW w \in World, planet' = w,
           planet # None => ReplacedBy(planet, w)
    PROVE  Trust!TrustNext
<1>1. /\ Trust!Change(PlanetSlot)
      /\ Heads[PlanetSlot] = HeadOf(planet) /\ Heads'[PlanetSlot] = HeadOf(w)
  BY PlanetChange
<1>2. HeadOf(w) \in WorldHead /\ HeadOf(w) # None
  BY HeadOfType, NoneIsNoWorld DEF MaybeWorld
<1>3. CASE planet = None
  <2>1. Heads[PlanetSlot] = None
    BY <1>1, <1>3 DEF HeadOf
  <2> QED BY <1>1, <1>2, <2>1 DEF Trust!TrustNext, Trust!Adopt
<1>4. CASE planet # None
  <2>1. planet \in World
    BY <1>4 DEF IInv, TypeOK
  <2>2. HeadOf(planet) # None
    BY <1>4, <2>1, HeadOfType DEF MaybeWorld
  <2>3. Trust!Succeeds(HeadOf(planet), HeadOf(w))
    BY <1>4, <2>1, ReplacedSucceeds
  <2> QED BY <1>1, <1>2, <2>2, <2>3 DEF Trust!TrustNext, Trust!Succeed
<1> QED BY <1>3, <1>4

(* Steps that leave the process and the heads alone stutter. *)
LEMMA HeadsKept ==
    ASSUME UNCHANGED <<up, planet, moons>>
    PROVE  UNCHANGED <<up, Heads>>
BY DEF Heads, HeadOf, RootAddrs

(* A refresh of the planet or of a moon stutters: no head changes. *)
LEMMA RefreshTrust ==
    ASSUME IInv,
           \/ \E eps \in Answers : SetPlanetEndpoints(eps)
           \/ \E m \in MoonId, eps \in Answers : SetMoonEndpoints(m, eps)
    PROVE  UNCHANGED <<up, Heads>>
<1>1. ASSUME NEW w \in World, w.roots # <<>>, NEW eps \in Answers
      PROVE  LET v == [w EXCEPT !.roots[1].eps = Merge(w.roots[1].eps, eps)]
             IN  v # None /\ HeadOf(v) = HeadOf(w)
  <2>1. w.roots[1] \in Root
    <3>1. w.roots \in Seq(Root) /\ 1 \in 1..Len(w.roots)
      BY <1>1, EmptySeq DEF World
    <3> QED BY <3>1, ElementOfSeq
  <2>2. Merge(w.roots[1].eps, eps) \in EpLists
    BY <2>1, MergeClosed, TopologyConstants DEF Root
  <2> DEFINE l == Merge(w.roots[1].eps, eps)
  <2>3. l \in EpLists
    BY <2>2
  <2> HIDE DEF l
  <2> DEFINE v == [w EXCEPT !.roots[1].eps = l]
  <2>4. v \in World /\ v.id = w.id /\ v.ts = w.ts /\ v.by = w.by /\ RootAddrs(v) = RootAddrs(w)
    BY <1>1, <2>3, RefreshKeepsHead
  <2> HIDE DEF v
  <2>5. v # None /\ HeadOf(v) = HeadOf(w)
    BY <2>4, NoneIsNoWorld DEF HeadOf
  <2> QED BY <2>5 DEF v, l
<1>2. ASSUME NEW eps \in Answers, SetPlanetEndpoints(eps)
      PROVE  UNCHANGED <<up, Heads>>
  <2> DEFINE v == [planet EXCEPT !.roots[1].eps = Merge(planet.roots[1].eps, eps)]
  <2>1. planet \in World /\ planet.roots # <<>> /\ planet' = v /\ UNCHANGED <<up, moons>>
    BY <1>2 DEF SetPlanetEndpoints, IInv, TypeOK
  <2>2. HeadOf(planet') = HeadOf(planet)
    BY <1>1, <2>1
  <2>3. \A m \in MoonId : HeadOf(moons'[m]) = HeadOf(moons[m])
    BY <2>1
  <2> QED BY <2>1, <2>2, <2>3 DEF Heads
<1>3. ASSUME NEW m \in MoonId, NEW eps \in Answers, SetMoonEndpoints(m, eps)
      PROVE  UNCHANGED <<up, Heads>>
  <2> DEFINE v == [moons[m] EXCEPT !.roots[1].eps = Merge(moons[m].roots[1].eps, eps)]
  <2>1. moons[m] \in World /\ moons[m].roots # <<>> /\ UNCHANGED <<up, planet>>
        /\ moons' = [moons EXCEPT ![m] = v]
    BY <1>3 DEF SetMoonEndpoints, IInv, TypeOK
  <2>2. HeadOf(v) = HeadOf(moons[m])
    BY <1>1, <2>1
  <2> HIDE DEF v
  <2>3. \A k \in MoonId : HeadOf(moons'[k]) = HeadOf(moons[k])
    BY <2>1, <2>2, Known
  <2>4. HeadOf(planet') = HeadOf(planet)
    BY <2>1
  <2> QED BY <2>1, <2>3, <2>4 DEF Heads
<1> QED BY <1>2, <1>3

(* Every step of the topology is a step of WorldTrust or a stutter. *)
LEMMA TrustStep == IInv /\ [Next]_vars => [Trust!TrustNext]_<<up, Heads>>
<1> SUFFICES ASSUME IInv, [Next]_vars PROVE Trust!TrustNext \/ UNCHANGED <<up, Heads>>
  OBVIOUS
<1>1. ASSUME NEW a \in Addr, NEW w \in Offered, ReceiveWorld(a, w)
      PROVE  Trust!TrustNext
  <2>1. w \in World /\ up /\ up' = up
    BY <1>1, TopologyConstants DEF ReceiveWorld
  <2>2. CASE AcceptPlanet(w)
    BY <2>1, <2>2, PlanetTrust DEF AcceptPlanet
  <2>3. CASE ReplaceMoon(w)
    BY <2>1, <2>3, MoonTrust DEF ReplaceMoon
  <2>4. CASE JoinWantedMoon(w)
    BY <2>1, <2>4, MoonTrust DEF JoinWantedMoon
  <2> QED BY <1>1, <2>2, <2>3, <2>4 DEF ReceiveWorld
<1>2. ASSUME NEW c \in Caller, OrbitRead(c)
      PROVE  Trust!TrustNext \/ UNCHANGED <<up, Heads>>
  <2> DEFINE w == orbiting[c]
  <2>1. /\ up /\ up' = up /\ w # None
        /\ JoinAnyMoon(w) \/ ReplaceMoon(w) \/ UNCHANGED worlds
    BY <1>2 DEF OrbitRead
  <2>2. w \in World
    BY <2>1, Known DEF MaybeWorld
  <2> HIDE DEF w
  <2>3. CASE UNCHANGED worlds
    BY <2>1, <2>3, HeadsKept DEF worlds
  <2> QED BY <2>1, <2>2, <2>3, MoonTrust DEF JoinAnyMoon, ReplaceMoon
<1>3. ASSUME NEW m \in MoonId, Deorbit(m)
      PROVE  Trust!TrustNext
  <2>1. up /\ UNCHANGED <<up, planet>> /\ moons' = [moons EXCEPT ![m] = None]
    BY <1>3 DEF Deorbit
  <2>2. Trust!Change(m) /\ Heads'[m] = HeadOf(None)
    BY <2>1, MoonChange DEF MaybeWorld
  <2>3. HeadOf(None) = None
    BY DEF HeadOf
  <2> QED BY <2>2, <2>3 DEF Trust!TrustNext, Trust!Leave
<1>4. CASE Shutdown \/ Crash
  <2>1. up /\ up' = FALSE /\ planet' = None /\ moons' = [m \in MoonId |-> None]
    BY <1>4 DEF Shutdown, Crash, Forget
  <2>2. Heads' = [s \in {PlanetSlot} \cup MoonId |-> None]
    BY <2>1 DEF Heads, HeadOf
  <2> QED BY <2>1, <2>2 DEF Trust!TrustNext, Trust!Stop
<1>5. CASE Start
  <2>1. ~ up /\ up' = TRUE /\ planet' = Loaded(planetFile)
        /\ moons' = [m \in MoonId |-> Loaded(moonFile[m])]
    BY <1>5 DEF Start
  <2>2. planet' \in MaybeWorld /\ \A m \in MoonId : moons'[m] \in MaybeWorld
    BY <2>1, LoadedType DEF IInv, TypeOK
  <2>3. \A s \in {PlanetSlot} \cup MoonId : Heads'[s] \in WorldHead \cup {None}
    BY <2>2, HeadOfType DEF Heads
  <2>4. Heads' \in [{PlanetSlot} \cup MoonId -> WorldHead \cup {None}]
    BY <2>3 DEF Heads
  <2> QED BY <2>1, <2>4 DEF Trust!TrustNext, Trust!Begin
<1>6. ASSUME UNCHANGED <<up, worlds>>
      PROVE  UNCHANGED <<up, Heads>>
  BY <1>6, HeadsKept DEF worlds
<1>7. CASE UNCHANGED vars
  BY <1>6, <1>7 DEF vars
<1>8. ASSUME \/ \E a \in Addr : AddPeer(a) \/ LoadPeer(a) \/ FallSilent(a)
             \/ \E s \in Sources : ReceiveOnPath(s[1], s[2]) \/ ReceiveElsewhere(s[1], s[2])
             \/ \E a \in Addr, ip \in Ip : PathDies(a, ip) \/ ExpirePath(a, ip)
             \/ CheckPath \/ LearnPath \/ DoPeriodicTasks \/ ImportPlanet
             \/ \E m \in MoonId : EditMoonFile(m)
      PROVE  UNCHANGED <<up, Heads>>
  <2>1. UNCHANGED <<up, worlds>>
    BY <1>8 DEF AddPeer, LoadPeer, FallSilent, ReceiveOnPath, ReceiveElsewhere, PathDies,
       ExpirePath, CheckPath, LearnPath, DoPeriodicTasks, ImportPlanet, EditMoonFile
  <2> QED BY <1>6, <2>1
<1>9. ASSUME NEW m \in MoonId, NEW a \in Addr, OrbitFromSeed(m, a)
      PROVE  UNCHANGED <<up, Heads>>
  BY <1>9, HeadsKept DEF OrbitFromSeed
<1>10. ASSUME NEW c \in Caller, NEW m \in MoonId, ReadMoonFile(c, m)
       PROVE  UNCHANGED <<up, Heads>>
  BY <1>6, <1>10 DEF ReadMoonFile
<1> QED BY <1>1, <1>2, <1>3, <1>4, <1>5, <1>7, <1>8, <1>9, <1>10, RefreshTrust
        DEF Next, ChangeWorlds, ChangePeers, ChangeFiles, StartOrEnd

(* The topology implements WorldTrust: in any interleaving of refreshes,   *)
(* orbits, deorbits, crashes and in-band updates, the id, revision, next   *)
(* key and roots of a world it follows change only to a newer revision     *)
(* that the present key signed.                                            *)
THEOREM ImplementsTrust == Spec => KeepsTrust
<1>1. Init => Trust!TrustInit
  <2>1. Init => Heads = [s \in {PlanetSlot} \cup MoonId |-> None]
    BY DEF Init, Heads, HeadOf
  <2> QED BY <2>1 DEF Init, Trust!TrustInit
<1>2. IInv /\ [Next]_vars => [Trust!TrustNext]_(Trust!trustVars)
  BY TrustStep DEF Trust!trustVars
<1> QED BY <1>1, <1>2, Invariance, PTL DEF Spec, KeepsTrust, Trust!TrustSpec
------------------------------------------------------------------------------
(* What steps may not do *)

(* A moon appears only where a file, a seed or a call of orbit asked for it. *)
LEMMA MoonStep ==
    ASSUME IInv, [Next]_vars, NEW m \in MoonId, up, moons[m] = None, moons'[m] # None
    PROVE  \/ moonFile[m] # None
           \/ \E s \in seeds : s[1] = m
           \/ \E c \in Caller : orbiting[c] # None /\ orbiting[c].id = m
<1>0. moons \in [MoonId -> MaybeWorld]
  BY Known
<1>1. CASE UNCHANGED moons
  BY <1>1
<1>2. ASSUME NEW a \in Addr, NEW w \in Offered, ReceiveWorld(a, w)
      PROVE  \E s \in seeds : s[1] = m
  <2>1. CASE AcceptPlanet(w)
    BY <2>1 DEF AcceptPlanet
  <2>2. CASE ReplaceMoon(w)
    BY <1>0, <2>2 DEF ReplaceMoon
  <2>3. CASE JoinWantedMoon(w)
    <3>1. m = w.id
      BY <1>0, <2>3 DEF JoinWantedMoon
    <3> QED BY <2>3, <3>1 DEF JoinWantedMoon
  <2> QED BY <1>2, <2>1, <2>2, <2>3 DEF ReceiveWorld
<1>3. ASSUME NEW c \in Caller, OrbitRead(c)
      PROVE  orbiting[c] # None /\ orbiting[c].id = m
  <2>1. orbiting[c] # None /\ (JoinAnyMoon(orbiting[c]) \/ ReplaceMoon(orbiting[c]))
    BY <1>1, <1>3 DEF OrbitRead, worlds
  <2>2. orbiting[c].id \in MoonId
    BY <2>1, Known
  <2>3. moons' = [moons EXCEPT ![orbiting[c].id] = orbiting[c]]
    BY <2>1 DEF JoinAnyMoon, ReplaceMoon
  <2> QED BY <1>0, <2>1, <2>2, <2>3
<1>4. ASSUME NEW k \in MoonId, NEW eps \in Answers, SetMoonEndpoints(k, eps)
      PROVE  FALSE
  BY <1>0, <1>4 DEF SetMoonEndpoints
<1>5. ASSUME NEW k \in MoonId, Deorbit(k)
      PROVE  FALSE
  BY <1>0, <1>5 DEF Deorbit
<1>6. CASE Shutdown \/ Crash
  BY <1>6 DEF Shutdown, Crash, Forget
<1>7. CASE Start
  BY <1>7 DEF Start
<1>8. ASSUME \/ \E a \in Addr : AddPeer(a) \/ LoadPeer(a) \/ FallSilent(a)
             \/ \E s \in Sources : ReceiveOnPath(s[1], s[2]) \/ ReceiveElsewhere(s[1], s[2])
             \/ \E a \in Addr, ip \in Ip : PathDies(a, ip) \/ ExpirePath(a, ip)
             \/ CheckPath \/ LearnPath \/ DoPeriodicTasks \/ ImportPlanet
             \/ \E k \in MoonId : EditMoonFile(k)
             \/ \E k \in MoonId, a \in Addr : OrbitFromSeed(k, a)
             \/ \E c \in Caller, k \in MoonId : ReadMoonFile(c, k)
             \/ \E eps \in Answers : SetPlanetEndpoints(eps)
      PROVE  UNCHANGED moons
  BY <1>8 DEF AddPeer, LoadPeer, FallSilent, ReceiveOnPath, ReceiveElsewhere, PathDies,
     ExpirePath, CheckPath, LearnPath, DoPeriodicTasks, ImportPlanet, EditMoonFile,
     OrbitFromSeed, ReadMoonFile, SetPlanetEndpoints, worlds
<1>9. CASE UNCHANGED vars
  BY <1>1, <1>9 DEF vars, worlds
<1> QED BY <1>1, <1>2, <1>3, <1>4, <1>5, <1>6, <1>7, <1>8, <1>9
        DEF Next, ChangeWorlds, ChangePeers, ChangeFiles, StartOrEnd

(* No step of a running node joins a moon that has neither a file nor a    *)
(* seed nor a call of orbit that read its file before it went: one that    *)
(* was deorbited stays away otherwise, whatever its roots still send.      *)
THEOREM MoonsWanted == Spec => MoonsWereWanted
<1> DEFINE Wanted == \A m \in MoonId : (up /\ moons[m] = None /\ moons'[m] # None)
                         => \/ moonFile[m] # None
                            \/ \E s \in seeds : s[1] = m
                            \/ \E c \in Caller : orbiting[c] # None /\ orbiting[c].id = m
<1>1. IInv /\ [Next]_vars => Wanted
  BY MoonStep
<1>2. IInv /\ [Next]_vars => [Wanted]_vars
  BY <1>1
<1> QED BY <1>2, Invariance, PTL DEF Spec, MoonsWereWanted
------------------------------------------------------------------------------
(* Where roots are reached *)

(* Steps that leave the worlds and upstreams alone and add no path but a   *)
(* permitted one keep the paths permitted.                                 *)
LEMMA PathsKept ==
    ASSUME PathsPermitted, UNCHANGED <<planet, moons, upstreams>>,
           \A a \in Addr : peers'[a] # None =>
              \A ip \in peers'[a].paths :
                 \/ peers[a] # None /\ ip \in peers[a].paths
                 \/ Permitted(a, ip),
           (rx' # None /\ rx'.checked /\ ~ rx'.orphan) =>
              \/ rx # None /\ rx.checked /\ ~ rx.orphan /\ rx'.src = rx.src /\ rx'.ip = rx.ip
              \/ Permitted(rx'.src, rx'.ip)
    PROVE  PathsPermitted'
<1>1. \A a, ip : Permitted(a, ip)' <=> Permitted(a, ip)
  BY DEF Permitted
<1> QED BY <1>1 DEF PathsPermitted

(* _memoizeUpstreams adds no path. *)
LEMMA MemoizePaths ==
    ASSUME NEW pl, NEW ms, NEW ps \in Peers, Memoize(pl, ms, ps), NEW a \in Addr, peers'[a] # None
    PROVE  peers'[a].paths = {} \/ peers'[a] = ps[a]
<1>1. peers'[a] = FreshPeer \/ peers'[a] = ps[a]
  BY DEF Memoize
<1> QED BY <1>1 DEF FreshPeer

(* A refresh of the first root leaves the entries of the others alone. *)
LEMMA RefreshKeepsOthers ==
    ASSUME NEW w \in World, w.roots # <<>>, NEW l \in EpLists
    PROVE  LET v == [w EXCEPT !.roots[1].eps = l]
           IN  /\ DOMAIN v.roots = DOMAIN w.roots
               /\ \A i \in DOMAIN w.roots :
                     w.roots[i].addr # w.roots[1].addr => v.roots[i] = w.roots[i]
<1> DEFINE v == [w EXCEPT !.roots[1].eps = l]
           rs == [w.roots EXCEPT ![1].eps = l]
<1>1. w.roots \in Seq(Root)
  BY DEF World
<1>2. v.roots = rs
  BY DEF World
<1>3. DOMAIN rs = DOMAIN w.roots /\ \A i \in DOMAIN w.roots : i # 1 => rs[i] = w.roots[i]
  BY <1>1
<1> HIDE DEF rs, v
<1>4. \A i \in DOMAIN w.roots : w.roots[i].addr # w.roots[1].addr => i # 1
  OBVIOUS
<1> QED BY <1>2, <1>3, <1>4 DEF v

(* What a refresh does to the paths, for a world that is the planet or a   *)
(* moon: the root that moved starts without one.                           *)
LEMMA RefreshPaths ==
    ASSUME IInv, PathsPermitted,
           NEW w \in World, w.roots # <<>>, NEW l \in EpLists, NEW v \in World,
           v = [w EXCEPT !.roots[1].eps = l],
           \A x \in {planet} \cup { moons[m] : m \in MoonId } :
              x = w \/ x \in {planet'} \cup { moons'[m] : m \in MoonId },
           v \in {planet'} \cup { moons'[m] : m \in MoonId },
           upstreams' = upstreams,
           Memoize(planet', moons', Dropped(peers, {w.roots[1].addr})),
           OrphanHandler({w.roots[1].addr})
    PROVE  PathsPermitted'
<1> DEFINE root == w.roots[1].addr
<1>1. ASSUME NEW a \in Addr, a # root, NEW ip, Permitted(a, ip)
      PROVE  Permitted(a, ip)'
  <2>1. CASE a \notin upstreams
    BY <2>1 DEF Permitted
  <2>2. CASE a \in upstreams
    <3>1. PICK x \in {planet} \cup { moons[m] : m \in MoonId } :
             /\ x # None
             /\ \E i \in DOMAIN x.roots : /\ x.roots[i].addr = a
                                          /\ \/ x.roots[i].eps = <<>>
                                             \/ \E e \in ToSet(x.roots[i].eps) : e.ip = ip
      BY <1>1, <2>2 DEF Permitted
    <3>2. PICK i \in DOMAIN x.roots : /\ x.roots[i].addr = a
                                      /\ \/ x.roots[i].eps = <<>>
                                         \/ \E e \in ToSet(x.roots[i].eps) : e.ip = ip
      BY <3>1
    <3>3. CASE x # w
      <4>1. x \in {planet'} \cup { moons'[m] : m \in MoonId }
        BY <3>3
      <4> QED BY <3>1, <3>2, <4>1 DEF Permitted
    <3>4. CASE x = w
      <4>1. i \in DOMAIN v.roots /\ v.roots[i] = w.roots[i]
        BY <1>1, <3>2, <3>4, RefreshKeepsOthers
      <4> QED BY <3>2, <3>4, <4>1, NoneIsNoWorld DEF Permitted
    <3> QED BY <3>3, <3>4
  <2> QED BY <2>1, <2>2
<1>2. Dropped(peers, {root}) \in Peers
  BY Known, DroppedEffect
<1>3. ASSUME NEW a \in Addr, peers'[a] # None, NEW ip \in peers'[a].paths
      PROVE  a # root /\ peers[a] # None /\ ip \in peers[a].paths
  <2>1. peers'[a] = Dropped(peers, {root})[a]
    BY <1>2, <1>3, MemoizePaths
  <2> QED BY <1>3, <2>1 DEF Dropped
<1>4. ASSUME rx' # None, rx'.checked, ~ rx'.orphan
      PROVE  rx' = rx /\ rx.src \in Addr /\ rx.src # root
  <2>1. rx \in Handler \cup {None}
    BY Known
  <2>2. CASE rx # None /\ rx.src \in {root}
    <3>1. rx' = [rx EXCEPT !.orphan = TRUE] /\ rx \in Handler
      BY <2>1, <2>2 DEF OrphanHandler
    <3>2. rx'.orphan
      BY <3>1 DEF Handler
    <3> QED BY <1>4, <3>2
  <2>3. CASE ~ (rx # None /\ rx.src \in {root})
    <3>1. rx' = rx
      BY <2>3 DEF OrphanHandler
    <3> QED BY <1>4, <2>1, <2>3, <3>1 DEF Handler
  <2> QED BY <2>2, <2>3
<1> HIDE DEF root
<1>5. \A a \in Addr : peers'[a] # None => \A ip \in peers'[a].paths : Permitted(a, ip)'
  BY <1>1, <1>3 DEF PathsPermitted
<1>6. (rx' # None /\ rx'.checked /\ ~ rx'.orphan) => Permitted(rx.src, rx.ip)' /\ rx' = rx
  BY <1>1, <1>4 DEF PathsPermitted
<1> QED BY <1>5, <1>6 DEF PathsPermitted, Permitted
(* The upstreams follow from the heads. *)
LEMMA UpstreamsFromWorlds ==
    ASSUME IInv, UNCHANGED <<planet, moons>>, NEW ps, Memoize(planet', moons', ps)
    PROVE  upstreams' = upstreams
BY DEF IInv, MemoConsistent, Memoize

(* An accepted world changes a head. *)
LEMMA AcceptedChangesHead ==
    ASSUME NEW cur \in MaybeWorld, NEW w \in World, cur # None => ReplacedBy(cur, w)
    PROVE  HeadOf(w) # HeadOf(cur)
<1>1. HeadOf(w) \in WorldHead /\ HeadOf(w) # None /\ HeadOf(w).ts = w.ts
  BY HeadOfType, NoneIsNoWorld DEF MaybeWorld, HeadOf
<1>2. CASE cur = None
  BY <1>1, <1>2 DEF HeadOf
<1>3. CASE cur # None
  <2>1. cur.ts \in Nat /\ w.ts \in Nat /\ cur.ts < w.ts
    BY <1>3 DEF ReplacedBy, MaybeWorld, World
  <2>2. HeadOf(cur).ts = cur.ts
    BY <1>3 DEF HeadOf
  <2> QED BY <1>1, <2>1, <2>2
<1> QED BY <1>2, <1>3

(* No step that keeps the heads gives a root a path its worlds do not list. *)
LEMMA PathStep ==
    ASSUME IInv, [Next]_vars, PathsPermitted, Heads' = Heads
    PROVE  PathsPermitted'
<1>0. /\ planet \in MaybeWorld /\ moons \in [MoonId -> MaybeWorld] /\ peers \in Peers
      /\ rx \in Handler \cup {None}
      /\ HeadOf(planet') = HeadOf(planet)
      /\ \A m \in MoonId : HeadOf(moons'[m]) = HeadOf(moons[m])
  <2>1. Heads[PlanetSlot] = HeadOf(planet) /\ Heads'[PlanetSlot] = HeadOf(planet')
    BY PlanetSlotIsNoMoon DEF Heads
  <2>2. \A m \in MoonId : Heads[m] = HeadOf(moons[m]) /\ Heads'[m] = HeadOf(moons'[m])
    BY DEF Heads
  <2>3. planet \in MaybeWorld
    BY DEF IInv, TypeOK, MaybeWorld
  <2> QED BY <2>1, <2>2, <2>3, Known
<1>1. ASSUME NEW a \in Addr, NEW w \in Offered, ReceiveWorld(a, w)
      PROVE  FALSE
  <2>1. w \in World
    BY TopologyConstants
  <2>2. CASE AcceptPlanet(w)
    <3>1. planet' = w /\ ReplacedBy(planet, w)
      BY <2>2 DEF AcceptPlanet
    <3> QED BY <1>0, <2>1, <3>1, AcceptedChangesHead
  <2>3. CASE ReplaceMoon(w) \/ JoinWantedMoon(w)
    <3>1. /\ w.id \in MoonId /\ moons' = [moons EXCEPT ![w.id] = w]
          /\ moons[w.id] # None => ReplacedBy(moons[w.id], w)
      BY <2>3 DEF ReplaceMoon, JoinWantedMoon
    <3>2. moons'[w.id] = w
      BY <1>0, <3>1
    <3> QED BY <1>0, <2>1, <3>1, <3>2, AcceptedChangesHead
  <2> QED BY <1>1, <2>2, <2>3 DEF ReceiveWorld
<1>2. ASSUME NEW c \in Caller, OrbitRead(c)
      PROVE  PathsPermitted'
  <2> DEFINE w == orbiting[c]
  <2>1. w \in World /\ w.id \in MoonId
    BY <1>2, Known DEF OrbitRead, MaybeWorld
  <2>2. /\ rx' = rx
        /\ JoinAnyMoon(w) \/ ReplaceMoon(w) \/ UNCHANGED <<worlds, memo, peers>>
    BY <1>2 DEF OrbitRead
  <2> HIDE DEF w
  <2>3. CASE JoinAnyMoon(w) \/ ReplaceMoon(w)
    <3>1. /\ moons' = [moons EXCEPT ![w.id] = w]
          /\ moons[w.id] # None => ReplacedBy(moons[w.id], w)
      BY <2>3 DEF JoinAnyMoon, ReplaceMoon
    <3>2. moons'[w.id] = w
      BY <1>0, <2>1, <3>1
    <3> QED BY <1>0, <2>1, <3>1, <3>2, AcceptedChangesHead
  <2>4. CASE UNCHANGED <<worlds, memo, peers>>
    <3>1. UNCHANGED <<planet, moons, upstreams, peers, rx>>
      BY <2>2, <2>4 DEF worlds, memo
    <3> QED BY <3>1, PathsKept
  <2> QED BY <2>2, <2>3, <2>4
<1>3. ASSUME NEW eps \in Answers, SetPlanetEndpoints(eps)
      PROVE  PathsPermitted'
  <2> DEFINE l == Merge(planet.roots[1].eps, eps)
             v == [planet EXCEPT !.roots[1].eps = l]
             root == planet.roots[1].addr
  <2>1. /\ planet \in World /\ planet.roots # <<>> /\ planet' = v /\ moons' = moons
        /\ Memoize(planet', moons', Dropped(peers, {root})) /\ OrphanHandler({root})
    BY <1>3 DEF SetPlanetEndpoints, IInv, TypeOK
  <2>2. l \in EpLists
    BY <2>1, MergedType
  <2> HIDE DEF l
  <2>3. v \in World /\ RootAddrs(v) = RootAddrs(planet)
    BY <2>1, <2>2, RefreshKeepsHead
  <2>4. upstreams' = upstreams
    BY <2>1, <2>3 DEF IInv, MemoConsistent, Memoize, AllRoots
  <2>5. \A x \in {planet} \cup { moons[m] : m \in MoonId } :
           x = planet \/ x \in {planet'} \cup { moons'[m] : m \in MoonId }
    BY <2>1
  <2>6. v \in {planet'} \cup { moons'[m] : m \in MoonId }
    BY <2>1
  <2> QED BY <2>1, <2>2, <2>3, <2>4, <2>5, <2>6, RefreshPaths
<1>4. ASSUME NEW k \in MoonId, NEW eps \in Answers, SetMoonEndpoints(k, eps)
      PROVE  PathsPermitted'
  <2> DEFINE l == Merge(moons[k].roots[1].eps, eps)
             v == [moons[k] EXCEPT !.roots[1].eps = l]
             root == moons[k].roots[1].addr
  <2>1. /\ moons[k] \in World /\ moons[k].roots # <<>> /\ planet' = planet
        /\ moons' = [moons EXCEPT ![k] = v]
        /\ Memoize(planet', moons', Dropped(peers, {root})) /\ OrphanHandler({root})
    BY <1>4 DEF SetMoonEndpoints, IInv, TypeOK
  <2>2. l \in EpLists
    BY <2>1, MergedType
  <2> HIDE DEF l
  <2>3. v \in World /\ RootAddrs(v) = RootAddrs(moons[k])
    BY <2>1, <2>2, RefreshKeepsHead
  <2>4. upstreams' = upstreams
    <3>1. DOMAIN moons' = DOMAIN moons /\ \A m \in DOMAIN moons : RootAddrs(moons'[m]) = RootAddrs(moons[m])
      BY <1>0, <2>1, <2>3
    <3>2. AllRoots(planet', moons') = AllRoots(planet, moons)
      BY <2>1, <3>1 DEF AllRoots
    <3> QED BY <2>1, <3>2 DEF IInv, MemoConsistent, Memoize
  <2>5. \A x \in {planet} \cup { moons[m] : m \in MoonId } :
           x = moons[k] \/ x \in {planet'} \cup { moons'[m] : m \in MoonId }
    BY <1>0, <2>1
  <2>6. v \in {planet'} \cup { moons'[m] : m \in MoonId }
    BY <1>0, <2>1
  <2> QED BY <2>1, <2>2, <2>3, <2>4, <2>5, <2>6, RefreshPaths
<1>5. ASSUME NEW k \in MoonId, Deorbit(k)
      PROVE  PathsPermitted'
  <2>1. /\ planet' = planet /\ rx' = rx /\ moons' = [moons EXCEPT ![k] = None]
        /\ Memoize(planet', moons', peers)
    BY <1>5 DEF Deorbit
  <2>2. moons[k] = None
    <3>1. HeadOf(moons[k]) = None
      BY <1>0, <2>1 DEF HeadOf
    <3> QED BY <1>0, <3>1, HeadOfType
  <2>3. moons' = moons
    BY <1>0, <2>1, <2>2
  <2>4. upstreams' = upstreams
    BY <2>1, <2>3, UpstreamsFromWorlds
  <2>5. \A a \in Addr : peers'[a] # None => peers'[a].paths = {} \/ peers'[a] = peers[a]
    BY <1>0, <2>1, MemoizePaths
  <2> QED BY <2>1, <2>3, <2>4, <2>5, PathsKept
<1>6. CASE Shutdown \/ Crash
  <2>1. rx' = None /\ \A a \in Addr : peers'[a] = None
    BY <1>6 DEF Shutdown, Crash, Forget
  <2> QED BY <2>1 DEF PathsPermitted
<1>7. CASE Start
  <2>1. /\ planet = None /\ moons = [m \in MoonId |-> None] /\ rx = None /\ rx' = rx
        /\ Memoize(planet', moons', peers)
        /\ planet' = Loaded(planetFile) /\ moons' = [m \in MoonId |-> Loaded(moonFile[m])]
    BY <1>7 DEF Start, IInv, Down
  <2>2. planet' = None
    <3>1. planet' \in MaybeWorld
      BY <2>1, LoadedType DEF IInv, TypeOK
    <3>2. HeadOf(planet') = None
      BY <1>0, <2>1 DEF HeadOf
    <3> QED BY <3>1, <3>2, HeadOfType
  <2>3. \A m \in MoonId : moons'[m] = None
    <3> SUFFICES ASSUME NEW m \in MoonId PROVE moons'[m] = None
      OBVIOUS
    <3>1. moons'[m] \in MaybeWorld
      BY <2>1, LoadedType DEF IInv, TypeOK
    <3>2. HeadOf(moons'[m]) = None
      BY <1>0, <2>1 DEF HeadOf
    <3> QED BY <3>1, <3>2, HeadOfType
  <2>4. moons' = moons
    BY <2>1, <2>3
  <2>5. upstreams' = upstreams
    BY <2>1, <2>2, <2>4, UpstreamsFromWorlds
  <2>6. \A a \in Addr : peers'[a] # None => peers'[a].paths = {} \/ peers'[a] = peers[a]
    BY <1>0, <2>1, MemoizePaths
  <2> QED BY <2>1, <2>2, <2>4, <2>5, <2>6, PathsKept
<1>8. ASSUME \/ \E a \in Addr : AddPeer(a) \/ LoadPeer(a) \/ FallSilent(a)
             \/ \E s \in Sources : ReceiveOnPath(s[1], s[2]) \/ ReceiveElsewhere(s[1], s[2])
             \/ \E a \in Addr, ip \in Ip : PathDies(a, ip) \/ ExpirePath(a, ip)
             \/ CheckPath \/ LearnPath \/ DoPeriodicTasks \/ ImportPlanet
             \/ \E k \in MoonId : EditMoonFile(k)
             \/ \E k \in MoonId, a \in Addr : OrbitFromSeed(k, a)
             \/ \E c \in Caller, k \in MoonId : ReadMoonFile(c, k)
      PROVE  PathsPermitted'
  <2>1. UNCHANGED <<planet, moons, upstreams>>
    BY <1>8 DEF AddPeer, LoadPeer, FallSilent, ReceiveOnPath, ReceiveElsewhere, PathDies,
       ExpirePath, CheckPath, LearnPath, DoPeriodicTasks, ImportPlanet, EditMoonFile,
       OrbitFromSeed, ReadMoonFile, worlds, memo
  <2>2. CASE LearnPath
    <3>1. /\ rx' = None /\ rx # None /\ rx \in Handler /\ rx.checked
          /\ peers' = IF rx.orphan THEN peers
                      ELSE [peers EXCEPT ![rx.src].paths = @ \cup {rx.ip},
                                         ![rx.src].alive = @ \cup {rx.ip}]
      BY <1>0, <2>2 DEF LearnPath
    <3>2. \A a \in Addr : peers'[a] # None => \A ip \in peers'[a].paths :
             (peers[a] # None /\ ip \in peers[a].paths) \/ Permitted(a, ip)
      <4> SUFFICES ASSUME NEW a \in Addr, peers'[a] # None, NEW ip \in peers'[a].paths
                   PROVE  (peers[a] # None /\ ip \in peers[a].paths) \/ Permitted(a, ip)
        OBVIOUS
      <4>1. CASE rx.orphan \/ a # rx.src
        <5>1. peers'[a] = peers[a]
          BY <1>0, <3>1, <4>1 DEF Peers
        <5> QED BY <5>1
      <4>2. CASE ~ rx.orphan /\ a = rx.src
        <5>1. peers[a] \in Peer /\ Permitted(rx.src, rx.ip)
          BY <1>0, <3>1, <4>2 DEF IInv, HandlerHoldsPeer, Peers, PathsPermitted
        <5>2. peers'[a].paths = peers[a].paths \cup {rx.ip}
          BY <1>0, <3>1, <4>2, <5>1 DEF Peer, Peers
        <5> QED BY <4>2, <5>1, <5>2, NoneIsNoPeer
      <4> QED BY <4>1, <4>2
    <3> QED BY <2>1, <3>1, <3>2, PathsKept
  <2>3. CASE CheckPath
    <3>1. peers' = peers /\ rx \in Handler
          /\ rx' = IF Permitted(rx.src, rx.ip) THEN [rx EXCEPT !.checked = TRUE] ELSE None
      BY <1>0, <2>3 DEF CheckPath
    <3>2. rx' # None => rx'.src = rx.src /\ rx'.ip = rx.ip /\ Permitted(rx.src, rx.ip)
      BY <3>1 DEF Handler
    <3> QED BY <2>1, <3>1, <3>2, PathsKept
  <2>4. CASE DoPeriodicTasks
    <3>1. PICK idle : peers' = Dropped(peers, idle) /\ OrphanHandler(idle)
      BY <2>4 DEF DoPeriodicTasks
    <3>2. \A a \in Addr : peers'[a] # None => peers'[a] = peers[a]
      BY <3>1 DEF Dropped
    <3>3. (rx' # None /\ ~ rx'.orphan) => rx' = rx
      BY <1>0, <3>1 DEF OrphanHandler, Handler
    <3> QED BY <2>1, <3>2, <3>3, PathsKept
  <2>5. ASSUME NEW s \in Sources, ReceiveElsewhere(s[1], s[2])
        PROVE  PathsPermitted'
    <3>1. s[1] \in Addr /\ peers[s[1]] \in Peer
      BY <1>0, <2>5, TopologyConstants DEF ReceiveElsewhere, Peers
    <3>2. /\ peers' = [peers EXCEPT ![s[1]].heard = TRUE]
          /\ rx' = rx \/ ~ rx'.checked
      BY <2>5 DEF ReceiveElsewhere
    <3>3. \A a \in Addr : peers'[a] # None => peers[a] # None /\ peers'[a].paths = peers[a].paths
      BY <1>0, <3>1, <3>2, NoneIsNoPeer DEF Peers, Peer
    <3> QED BY <2>1, <3>2, <3>3, PathsKept
  <2>6. ASSUME \/ \E a \in Addr : AddPeer(a) \/ LoadPeer(a) \/ FallSilent(a)
               \/ \E s \in Sources : ReceiveOnPath(s[1], s[2])
               \/ \E a \in Addr, ip \in Ip : PathDies(a, ip) \/ ExpirePath(a, ip)
               \/ ImportPlanet
               \/ \E k \in MoonId : EditMoonFile(k)
               \/ \E k \in MoonId, a \in Addr : OrbitFromSeed(k, a)
               \/ \E c \in Caller, k \in MoonId : ReadMoonFile(c, k)
        PROVE  PathsPermitted'
    <3>1. rx' = rx
      BY <2>6 DEF AddPeer, LoadPeer, FallSilent, ReceiveOnPath, PathDies, ExpirePath,
         ImportPlanet, EditMoonFile, OrbitFromSeed, ReadMoonFile
    <3>2. \/ peers' = peers
          \/ \E a \in Addr : peers' = [peers EXCEPT ![a] = FreshPeer]
          \/ \E a \in Addr : /\ peers[a] # None
                             /\ \/ peers' = [peers EXCEPT ![a].heard = FALSE]
                                \/ \E ip : peers' = [peers EXCEPT ![a].alive = @ \cup {ip},
                                                                  ![a].heard = TRUE]
                                \/ \E ip : peers' = [peers EXCEPT ![a].alive = @ \ {ip}]
                                \/ \E ip : peers' = [peers EXCEPT ![a].paths = @ \ {ip}]
      BY <2>6, TopologyConstants DEF AddPeer, LoadPeer, FallSilent, ReceiveOnPath, PathDies,
         ExpirePath, ImportPlanet, EditMoonFile, OrbitFromSeed, ReadMoonFile
    <3>3. \A a \in Addr : peers'[a] # None =>
             \/ peers'[a].paths = {}
             \/ peers[a] # None /\ peers'[a].paths \subseteq peers[a].paths
      <4>1. CASE peers' = peers
        BY <4>1
      <4>2. ASSUME NEW b \in Addr, peers' = [peers EXCEPT ![b] = FreshPeer],
                   NEW a \in Addr
            PROVE  peers'[a].paths = {} \/ peers'[a] = peers[a]
        BY <1>0, <4>2 DEF Peers, FreshPeer
      <4>3. ASSUME NEW b \in Addr, peers[b] # None, NEW a \in Addr, peers'[a] # None,
                   \/ peers' = [peers EXCEPT ![b].heard = FALSE]
                   \/ \E ip : peers' = [peers EXCEPT ![b].alive = @ \cup {ip}, ![b].heard = TRUE]
                   \/ \E ip : peers' = [peers EXCEPT ![b].alive = @ \ {ip}]
                   \/ \E ip : peers' = [peers EXCEPT ![b].paths = @ \ {ip}]
            PROVE  peers[a] # None /\ peers'[a].paths \subseteq peers[a].paths
        <5>1. peers[b] \in Peer
          BY <1>0, <4>3 DEF Peers
        <5>2. CASE a # b
          <6>1. peers'[a] = peers[a]
            BY <1>0, <4>3, <5>2 DEF Peers
          <6> QED BY <4>3, <6>1
        <5>3. CASE a = b
          <6>1. \/ peers'[b] = [peers[b] EXCEPT !.heard = FALSE]
                \/ \E ip : peers'[b] = [peers[b] EXCEPT !.alive = @ \cup {ip}, !.heard = TRUE]
                \/ \E ip : peers'[b] = [peers[b] EXCEPT !.alive = @ \ {ip}]
                \/ \E ip : peers'[b] = [peers[b] EXCEPT !.paths = @ \ {ip}]
            <7>1. CASE peers' = [peers EXCEPT ![b].heard = FALSE]
              BY <1>0, <7>1 DEF Peers
            <7>2. ASSUME NEW ip, peers' = [peers EXCEPT ![b].alive = @ \cup {ip}, ![b].heard = TRUE]
                  PROVE  peers'[b] = [peers[b] EXCEPT !.alive = @ \cup {ip}, !.heard = TRUE]
              BY <1>0, <7>2 DEF Peers
            <7>3. ASSUME NEW ip, peers' = [peers EXCEPT ![b].alive = @ \ {ip}]
                  PROVE  peers'[b] = [peers[b] EXCEPT !.alive = @ \ {ip}]
              BY <1>0, <7>3 DEF Peers
            <7>4. ASSUME NEW ip, peers' = [peers EXCEPT ![b].paths = @ \ {ip}]
                  PROVE  peers'[b] = [peers[b] EXCEPT !.paths = @ \ {ip}]
              BY <1>0, <7>4 DEF Peers
            <7> QED BY <4>3, <7>1, <7>2, <7>3, <7>4
          <6>2. peers'[b].paths \subseteq peers[b].paths
            BY <5>1, <6>1 DEF Peer
          <6> QED BY <4>3, <5>3, <6>2
        <5> QED BY <5>2, <5>3
      <4> QED BY <3>2, <4>1, <4>2, <4>3
    <3> QED BY <2>1, <3>1, <3>3, PathsKept
  <2> QED BY <1>8, <2>2, <2>3, <2>4, <2>5, <2>6
<1>9. CASE UNCHANGED vars
  BY <1>9 DEF vars, worlds, memo, PathsPermitted, Permitted
<1> QED BY <1>1, <1>2, <1>3, <1>4, <1>5, <1>6, <1>7, <1>8, <1>9
        DEF Next, ChangeWorlds, ChangePeers, ChangeFiles, StartOrEnd

(* No interleaving of refreshes, packets, orbits and deorbits gives a root *)
(* a path its worlds do not list, unless a step replaces, joins or leaves  *)
(* a world: for that reason setPlanetEndpoints drops the peer, and a       *)
(* handler between check and learning keeps only an orphan.                *)
THEOREM PathsStaySafe == Spec => PathsStayPermitted
<1> DEFINE Stay == (PathsPermitted /\ Heads' = Heads) => PathsPermitted'
<1>1. IInv /\ [Next]_vars => Stay
  BY PathStep
<1>2. IInv /\ [Next]_vars => [Stay]_vars
  BY <1>1
<1> QED BY <1>2, Invariance, PTL DEF Spec, PathsStayPermitted
=============================================================================
