# zgalaxy-core: a TLA+ verification project

zgalaxy-core is a fork of ZeroTierOne: an overlay-network node (`node/`), the
service that runs it (`service/`), an operating-system layer (`osdep/`) and a
network controller (`nonfree/controller/`). The fork removed the built-in
planet and added a *dynamic-DNS layer*: the service resolves the domain of a
planet's or moon's primary root and rewrites that root's endpoints in memory
and on disk, without a signature, so that clients follow a root whose address
changes. This project models that layer, the parts of the node it leans on, and
the queues and tables through which the node's threads and the network's
members meet: packets in pieces, packets that wait for an identity, networks
that are joined and left, configurations in chunks, credentials and revocations,
multicasts.

Paths below are relative to `src/`.

## 1. Inventory

| Component | Source | State | Operations | Hard behaviour |
|---|---|---|---|---|
| World endpoints | `node/Topology.cpp:25-87`, `node/World.hpp` | a root's `stableEndpoints` | merge, compare | re-application, order of the answer, limit on load |
| Topology | `node/Topology.cpp` | `_planet`, `_moons`, `_moonSeeds`, `_upstreamAddresses`, `_amUpstream`, `_peers`; files `planet`, `moons.d`, `peers.d` | `addWorld`, `set{Planet,Moon}Endpoints`, `addMoon`, `removeMoon`, `addPeer`, `getPeer`, `doPeriodicTasks`, constructor, destructor | packet threads against the main loop, two locks, orphaned `Peer` objects, crash while a file is written |
| Dynamic-DNS layer | `service/OneService.cpp:924-944, 1116-1151, 1271-1349, 1734-1820` | domains, resolved addresses, retry times, condition variable | main-loop block, resolver pass, reload, shutdown | lost and spurious wakeups, stale snapshots, failing queries, changes in flight |
| moons.d watcher | `service/OneService.cpp:1211-1269` | `_zgalaxyKnownMoons`, the directory | scan | four writers of one directory |
| local.conf check | `service/OneService.cpp:1653-1664` | time of the last check | compare `st_mtime` | resolution and drift of two clocks |
| Peer paths | `node/Peer.cpp` | `_paths` with `lr` and `priority` | `received`, `clusterRedirect`, `doPingAndKeepalive`, `resetWithinScope` | check and learning in two critical sections, priorities against expiry |
| Switch: receive queue | `node/Switch.cpp:64-265`, `node/Switch.hpp:225-260` | the ring `_rxQueue`, `_rxQueuePtr` | `onRemotePacket`, retries by `doAnythingWaitingForPeer` and `doTimerTasks` | entries looked up without their lock and reused under a handler's feet |
| Switch: transmit queue | `node/Switch.cpp:893-1048, 1061-1100` | `_txQueue`, `_lastSentWhoisRequest` | `send`, `requestWhois`, `doAnythingWaitingForPeer`, `doTimerTasks` | answer between the attempt and the queue, questions and packets in one queue |
| Network: configurations | `node/Network.cpp:1050-1220` | `_incomingConfigChunks` | `handleConfigChunk` | chunks out of order, repeated, of several versions; three slots |
| Network: life | `node/Node.cpp:461-512`, `node/Network.cpp:651-718, 1222-1275`, `service/OneService.cpp:1580-1587, 4023-4155` | `_networks`, `_config`, `_destroyed`; the service's `_nets`; the files of `networks.d` | join, leave, `setConfiguration`, refusals, start | callbacks and files outside the locks, a handler that keeps a network that was left |
| Membership, credentials | `node/Membership.cpp`, `node/Network.cpp:1465-1625`, `node/IncomingPacket.cpp:1069-1236` | credentials and revocation thresholds of each member | add, revoke, pass on, gate, clean | credentials and revocations in any order, flooding, loss |
| Multicaster | `node/Multicaster.cpp`, `node/OutboundMulticast.cpp` | members of a group, multicasts that wait | send, add, remove, gather, clean | limits, expiry, members named again by late answers |
| Engine import, companion scripts | `service/OneService.cpp:1153-1209`, `client/*.sh` | the planet and moon files | download, overwrite, restart | unverified content, torn files |
| Packet handlers | `node/IncomingPacket.cpp` | none of their own | one per verb | world updates, credentials, order of arrival |
| Packet multiplexer | `node/PacketMultiplexer.cpp`, `osdep/BlockingQueue.hpp` | queues per flow | post, get, stop | stopping with threads waiting |
| Self-awareness, bonds, controller, UI, crypto, formats, OS layer | see `PROJECT.json` | | | |

How they interact: the service's main loop calls the node's background tasks
and, in the same thread, the apply step of the dynamic-DNS layer; the resolver
thread and the main loop share the layer's state under `_zgalaxyDns_m`. Packet
threads enter the node through `Switch::onRemotePacket`, which hands whole
packets to `IncomingPacket`; its handlers call `Topology`, `Peer::received`,
`Network` (chunks, credentials), `Multicaster`, and, when an identity arrives,
`Switch::doAnythingWaitingForPeer`, which goes over both queues again. They
share `_peers_m`, `_upstreams_m`, each peer's `_paths_m`, each network's `_lock`
and `_groups_m` with the main loop, whose timer calls `doTimerTasks` and every
housekeeping period the `clean` of networks and groups. `Topology` writes and
reads files through the service's state callbacks, and operators, the control
API and the companion scripts write the same files.

What makes each part correct:

* endpoints: the merge settles, keeps private addresses and nothing stale, and
  what is written can be read;
* topology: memo, peer table and files follow the worlds; worlds follow their
  signatures; roots are only reached where their worlds say; moons are followed
  only when wanted;
* dynamic DNS: heals, quiet when stable, no effect when switched off, stops;
* watcher and configuration: what the operator does takes effect;
* peer paths: the array has no holes, no twins, and cleaning neither stalls nor
  takes the last working path;
* receive queue: what is decoded comes from one packet; what waits is decoded;
* transmit queue: a packet has one fate; what can be sent is sent;
* life of a network: port and file are there while it is joined, and only then,
  with its configuration;
* chunks: a configuration is one update, put together once;
* credentials: a revocation wins whichever comes first, whatever the order, and
  reaches all members;
* multicasts: to each member once, to all within the limit, not to the origin.

`PROJECT.json` lists the hazards line by line with the properties for each.

## 2. Modules

| Module | Models | Used by |
|---|---|---|
| `WorldEndpoints` | the merge and compare functions as operators; an endpoint is an address and a port | `RootEndpoints`, `Topology` |
| `RootEndpoints` | one root's list under resolve, apply, signed update | `MCAddresses`, `AddressProofs` |
| `WorldTrust` | the abstract promise about worlds: ids, revisions, keys and sets of roots move only along signatures | `Topology` |
| `Topology` | all methods of `Topology` that change worlds, memo, peers or files, one packet handler in `Peer::received`, process and files | `MCTopology`, `TopologyProofs` |
| `DynDns` | main loop, resolver thread, condition variable, environment | `MCDynDns`, `ServiceProofs` |
| `MoonsDir` | the watcher with operator, API and topology as writers | `MCServiceFiles` |
| `ConfWatch` | the mtime check | `MCServiceFiles`, `ServiceProofs` |
| `PeerPaths` | the path array of one peer | `MCAddresses`, `AddressProofs` |
| `RxQueue` | the ring of received packets and several threads at it | `MCRxQueue`, `RxQueueProofs` |
| `TxQueue` | the transmit queue, the WHOIS requests, senders, receiver and timer | `MCTxQueue`, `TxQueueProofs` |
| `NetworkLife` | one network at one node: join, leave, configurations, the service's port and file | `MCNetworkLife`, `MCOneNetwork`, `NetworkLifeProofs` |
| `Membership` | what the nodes of a network know of one member, and the revocations on their way | `MCNetwork`, `MemberProofs` |
| `ConfigChunks` | the slots of one network's configuration updates | `MCNetwork`, `MemberProofs` |
| `Multicast` | one multicast group of one network at one node | `MCMulticast`, `MCOneNetwork`, `MulticastProofs` |
| `*Proofs` | theorems: `ServiceProofs` about `DynDns` and `ConfWatch`, `AddressProofs` about `RootEndpoints` and `PeerPaths`, `MemberProofs` about `Membership` and `ConfigChunks`, the others about the module they are named after | |

`MC*` modules hold the constants of the instances. Operators that end up in no
action (`MergeNoDedup`, `MemoizeForgetful`, `TakenMeansMine`, ...) are faulty
versions of their neighbours: with one put in the place of the right one, the
property named in `PROJECT.json` is violated.

Four instances put two modules side by side: `MCNetwork` has `Membership` and
`ConfigChunks`, `MCServiceFiles` has `MoonsDir` and `ConfWatch`, `MCAddresses`
has `RootEndpoints` and `PeerPaths`, `MCOneNetwork` has `NetworkLife` and
`Multicast`. Neither half reads or writes the other's variables, so nothing would
be seen in their product that is not seen in one of them; `busy` or `part`, fixed
at the start of a behaviour, says which of them moves. In `MCNetwork` it also says
which revocations may be issued: two of the COM, or one of it and two of a tag.
`MCTopology` has two parts for another reason, the number of states: in
`"packets"` the peer table changes and files are edited only while the node is
down, in `"files"` they are edited at any time and no packets come but those that
bring worlds. The theorems are about `Spec`, where both happen together.

### Topology

A method that changes worlds, memo or the table of peers holds `_upstreams_m`,
`_peers_m` or both from its first to its last look at them, so it is one action;
but what it was given may be old. `addMoon` reads the moon's file with no lock and
calls `addWorld` afterwards: `ReadMoonFile` and `OrbitRead`, with `orbiting` what
a caller (`Caller`: the control API's threads, the watcher) has read. `addPeer`
and the two sections of `getPeer` (it lets go of `_peers_m` while it reads the
cache, and looks again) hold `_peers_m` alone; a peer that another thread added
meanwhile stays, so the second section is the action (`AddPeer`, `LoadPeer`).
`Peer::received` looks for the path, asks `isProhibitedEndpoint`, and learns in
three critical sections, so it is `ReceiveElsewhere`, `CheckPath`, `LearnPath`
with `rx` the handler between them. A handler keeps its `Peer` object when the
table drops it (`orphan`); what it learns then is lost with the object.
Others replace the planet file under the node: `ImportPlanet` is enabled at any
time, as `client/zgalaxy-planet-sync.sh:59` renames what it downloaded over the
file of a node it restarts at `:65`. `saved` is history: the planet the node last
put in force, until others replace its file or a crash tears it.
`_memoizeUpstreams` is `Memoize`, a part
of each action that calls it. `writing` remembers which world file the last step
wrote, because only a crash at that point can tear it; a torn file, and one
with more endpoints in a root than `World::deserialize` accepts, load as no
world. Signatures are the relation `Published`; a world is its id, revision,
next key and roots. A refresh alters the endpoints of a world and leaves id and
revision, so its signature would not verify any more, and nothing in the node
looks: that is why `WorldTrust` is about `HeadOf(w)`, the world less its
endpoints.

### DynDns

One action per critical section or unguarded step of each thread. A retry
interval is `gate` of a world: open once it has passed, closed after an attempt,
*never* for a moon whose uninitialized `lastResolved` lies in the future. A
pass records the time it began, so a slow query leaves its gate open
(`Publish` chooses). The condition variable is the state of the waiting
thread: `Notify` reaches a thread in `wait` and nobody otherwise. Merging is
reduced to the one public endpoint of a world's primary root; `RootEndpoints`
covers the lists.

### MoonsDir, ConfWatch, PeerPaths

`MoonsDir` splits the scan into the listing, one orbit or deorbit per moon, and
the end. An orbit is two steps: `OrbitNew` reads the file (`inHand`), `JoinRead`
follows the moon and writes its file, since `addWorld` saves what it takes: a file
removed between the two is back (`revived`). `others` is chosen at the start of a behaviour and says what the other
writers do in it.
`ConfWatch` has a clock in units smaller than the second of `st_mtime`; the
loop comes round up to `Delay` late. `PeerPaths` has the whole array logic with
alive (`Path::alive`) and fresh (`lr`) as flags that time clears; a packet
thread is free, or between look and learning. The loops that stop at the first
empty slot are `Visited`. `busy` remembers which threads handled a packet. A `Path` object is shared by
all peers behind it, so packets of another peer (`Overhear`) make it alive too. Bonds,
IPv6 prefixes and several local sockets are left out.

### RxQueue

A packet is a head (part 0) and fragments. `onRemotePacket` finds an entry
without its lock (`ReceivePart`), counts the ring's pointer up if there was none
(`TakeNext`, with the value it loaded before), then locks the entry and looks
again (`Handle`); between these steps another thread may do the same. A packet
in one piece is decoded on the spot or takes an entry (`TakeEntry`) and is
written there (`Store`). An entry's contents are kept as *whose* part is at each
place, since the buffers of an entry that starts over keep what they had: a
mixture can be seen. `timestamp` is free, recent or old, as 0 and the timeout are
all it is compared with. `Retry` is the body of both loops that go over waiting
entries, one entry at a time as each has its lock. `known` stands for every
reason why `tryDecode` has to wait: a sender whose identity, or the credentials
of a network, are missing.

### TxQueue

`send` tries (`Send`), queues (`Push`) and asks (`Ask`) in three steps; the
thread that gets an OK(WHOIS) adds the peer, erases the record of the question
and goes over the queue (`AddPeer`, `EraseWhois`, `Flush`); the timer goes over
the queue and then asks about what is left (`CheckQueue`, `TimerAsk`,
`TimerEnd`). A pass over the queue says which positions go (`Leaving`, `Goes`,
`GivenUp`); the entries at the others stay, in order (`EntriesAt`). A WHOIS that has no path to the upstream is itself a packet in the
queue and may push another out. `up` is the path to the upstream and through it
to every known peer.

### NetworkLife

One network. `Node::join` holds `_networks_m` from beginning to end, the callback
to the service included, so nobody finds the new object before `JoinUp`, but
others see the file that `JoinPut` writes. `Node::leave` holds it for
`LeaveStart` only; the port goes with `LeaveDestroy` and the file with
`LeaveDelete`, while others may join again. Objects are numbered: a packet thread
keeps the one it found, and `_destroyed` is that it is not `current` any more.
`setConfiguration` is four steps, `Check` (no lock), `SetConfig` (under `_lock`),
`Callback` and `Save`; a refusal (`Deny`) calls the service under `_lock`, so it is
one. An update for a port that is not there leaves no entry in `_nets`. A restart
comes at any point, in the middle of writing the file too, and joins what it
finds. `rejoined`, `late`, `crossed` and `stray` are history: the races the
properties except. A configuration that is only received when the network is left
does no harm, since `Check` drops it; one that has passed `Check` does (`crossed`).
Refusals never look at `_destroyed`, so one held for the old object shows that
object's configuration on the port of the next (`stray`).

### Membership

One member, the Target, as all nodes of a private network see it: `com`, other
credentials `cred`, thresholds `comThr` and `thr`. A credential is its timestamp,
and one whose signature fails only leaves an entry. `AddRevocation` is the whole
of `Network::addCredential` for a revocation: threshold, the COM's threshold
(which a revocation of another credential sets to *its* value), and the copies
that go to the members the node knows (`PassedOn`). A packet that waits for the
controller's identity leaves the entry made and stays in flight
(`DeferForWhois`). `Clean` is `Network::clean`, with the loss of whole entries of
peers the topology dropped; `heard` is cleared with the entry, so the properties
speak of what a node can remember. Revocations of credentials other than the COM
are accepted and passed on by nodes, but this tree's controller issues none; they
are in the model because the node's code handles them.

### ConfigChunks

`HandleChunk` is one chunk through `handleConfigChunk`: the slot that has the
update or else the one with the lowest counter (`SlotFor`), nothing for a
duplicate, the chunk stored and, when the bytes add up, the configuration handed
over; a chunk that is news is flooded to every member but its source.
`HandleLegacy` is a configuration in one packet of an old controller: it looks
at no slot's id. Contents are kept as whose chunk is at each place, as in
`RxQueue`. Chunks have the length 1 and parsing never fails, so that a mixture
would be used and be seen.

### Multicast

One group of one network. Every method holds `_groups_m`, so each is one action:
`send` in its three ways (`SendToReplicator`, `SendOnce` when there are members
enough, `SendQueued` otherwise), `Add` for a member heard of by MULTICAST_LIKE or
gathered, `Remove`, `Clean`. The walk over members and bridges in an order the
code shuffles is `Picks`. `gather` and `getMembers` change nothing and are no
action; a question that is lost or answered late is an `Add` that does not come
or comes at any time. The configuration (limit, bridges, replicators) may change
at any step.

## 3. Runs

| Run | Expect | Instance and what it shows |
|---|---|---|
| `addresses` | pass | all answers of 1-3 of four IPv4 addresses, five published lists: at most three resets per answer, private endpoints kept, answer in force and fit to be read; or two packet threads at three slots of paths: no holes, cleaning progresses, one thread makes no twins |
| `topology` | pass | three nodes, three planet revisions over two keys, two moon revisions, all actions, with packets or with files edited under the node: `MemoConsistent`, `UpstreamsHavePeers`, `PlanetPersisted`, `MoonsWereWanted`, `PathsStayPermitted` and the refinement `KeepsTrust` |
| `dyn_dns` | pass | planet, two addresses, two changes, one spurious wakeup, domain on and off: heals, quiet, cadence, answers kept, no effect on a world without a domain |
| `dyn_dns_moons` | pass | a moon with a domain, validation on: it heals, whatever its uninitialized retry time held |
| `dyn_dns_shutdown` | violation | a lost wakeup leaves the service joining for ever: `StopsOnRequest` |
| `service_files` | pass | two moons and every combination of four habits of the other writers: moons are followed and left, but for a file removed inside `orbit`; or edits of `local.conf`: which of them the next check reads |
| `rx_queue` | pass | two threads, two packets in two parts and one whole, a ring of two entries, four arrivals: no packet is put together from two, every order assembles, what waits is decoded |
| `tx_queue` | pass | one sender, two packets for two unknown peers, a queue of two entries, a link that comes and goes: one fate for each packet, and what can be sent is |
| `network` | pass | three nodes in a line and revocations of the COM, or of it and of a tag: revocations win, in any order, and reach all (of the COM: while no other credential is revoked); or four configurations over two slots: no mixture, each used once, each put together |
| `one_network` | pass | a node as sender, replicator and bridge, two multicasts, two members: to each once, to all that join while it waits, within the limit, never without asking; or two threads that join and leave, two that bring configurations and refusals, a restart: port and file in step with the network, and with its configuration, but for the named races |
| `network_left` | violation | a configuration saved after its network was left brings it back at the next start: `LeftForGood` |
| `multicast_origin` | violation | a multicast that is forwarded goes back to its origin: `OriginSpared` |

The findings in `PROJECT.json` quote the sentence each violation contradicts.

The type invariants (`TypeOK`, `ChunkTypeOK`, `LifeTypeOK`) of `DynDns`,
`RxQueue`, `TxQueue`, `Membership`, `ConfigChunks`, `Multicast` and `NetworkLife`
are proved and so have no run; that of `Topology` has both. `NoneForgotten` of
`TxQueue` (no step loses a packet) is proved and has no run either: it needs no
more than the invariant of `OneFate`.

The models show more disagreements between the code and its documents, or
behaviour worth a maintainer's look, which have no run of their own:

*Worlds and dynamic DNS*

* The merge is not idempotent: it moves private endpoints to the front and
  takes the port of new addresses from whatever endpoint comes first, so an
  answer applied again can change the list and reset the peer again
  (`node/Topology.hpp:227` promises a no-op). `Stabilises` says that this ends.
* An address that resolves to a private range is kept by every later merge
  (`node/Topology.cpp:51`), and nothing bounds how many collect. A planet
  written with more than `ZT_WORLD_MAX_STABLE_ENDPOINTS_PER_ROOT` of them is
  refused by `World::deserialize` (`node/World.hpp:265-267`) at the next start,
  though `docs/DYNAMIC-IP-IMPLEMENTATION.md:53` says that it is persisted.
  `AnswerInForce` says that the list fits where the private endpoints and the
  answer together do.
* `zgSameEndpoints` compares by position, so a resolver that rotates its records
  makes every validation rewrite the world (`docs/DYNAMIC-IP-IMPLEMENTATION.md:222-223`).
* `setPlanetEndpoints` of an empty list reduces a root with private endpoints to
  those (`node/Topology.hpp:231`); the main loop never passes one.
* `addWorld` keeps the `Peer` objects of roots whose paths are alive at addresses
  that no world lists any more (`node/Topology.cpp:378`), where the comment of
  `:287` says that for roots only the listed addresses are
  permitted. Only a
  refresh drops the peer: `PathsStayPermitted` excludes replacing a world.
* The `lastResolved` of a configured moon is uninitialized
  (`service/OneService.cpp:2042`). A value in the future closes the moon's retry
  gate, so without validation it need not heal: that is why `MoonsHeal` is
  checked with validation on.
* The planet's id is read once at startup (`service/OneService.cpp:1607`). One
  that arrives later is looked up as world 0, is never reachable to the main
  loop, and keeps the resolver asking every five seconds on a stable connection
  (`docs/DYNAMIC-IP-IMPLEMENTATION.md:119` promises no queries).
  `QuietWhenStable` is checked with the planet in `Installed`.
* The main loop decides on a snapshot, so it may notify although the resolver has
  recorded an attempt since, and one pass follows that nothing calls for.
  `SaneCadence` counts these since the last pass with a cause, retry interval or
  new `local.conf`, and bounds them by one.
* `readLocalSettings` replaces the domain and leaves the resolved addresses, so
  those of the previous name are applied until the next pass.
* A refresh or an in-band update that comes between `:59` and `:65` of
  `client/zgalaxy-planet-sync.sh` writes the planet in force over the one that was
  downloaded, and the restart then loads the old one. `PlanetPersisted` speaks of a
  planet again from that write on.
* A crash while the planet's file is rewritten (`service/OneService.cpp:4316`
  truncates it) leaves a torn file, and the next start has no planet.
* `Topology::addMoon` reads the file with no lock (`node/Topology.cpp:579`): a
  deorbit between that and `addWorld` (`:585`) is undone, and the moon is saved
  back. `MoonsWereWanted` and `RemovedMoonsDeorbited` except it.
* `_zgalaxyScanMoonsD` marks a moon known before its file was read: one found
  half copied, or removed since the listing and dropped again, is not read
  later. A moon saved after its file was removed is back before the next scan. A
  file dropped again between listing and deorbit is deleted by `removeMoon`.
  `NewMoonsOrbited` and `RemovedMoonsDeorbited` name the habits under which they
  hold.
* An edit of `local.conf` just after a check, its time cut to the second, is
  older than the interval at the next check and never read
  (`service/OneService.cpp:1659`); `LateEditsRead` gives the window.

*Peers and queues*

* A pass of `doPingAndKeepalive` does not look at the entry that refills a
  cleaned slot, and judges priorities with expired entries included, so a
  working path can go together with the expired one that outranks it
  (`node/Peer.cpp:556-592`). `PassProgresses` is what remains.
* With two packet threads, a redirection between the look and the learning
  leaves two entries for one address (`node/Peer.cpp:137`, against the comment
  of `:121`), and so does a packet of another peer that makes a dead `Path` alive
  in between (`node/Switch.cpp:71`). `OneThreadOneEntry` says that it takes two.
* The timer sends what waits in `_txQueue` with network id 0 instead of the
  packet's own (`node/Switch.cpp:989`), and `doAnythingWaitingForPeer` is called
  for OK(WHOIS) only (`node/IncomingPacket.cpp:609`), where its comment in
  `node/Switch.hpp` names HELLO too: packets for a peer met by HELLO wait for
  the timer. `ReachableIsSent` rests on the timer for these.
* WHOIS requests queued while the upstream is out of reach push the packets
  they are about out of the queue: `OneFate` allows a packet to be evicted.

*Networks*

* The counter of a slot of chunks (`node/Network.cpp:1178`, "newer is higher,
  that's all we need") counts the chunks the slot took, not time, so the slot
  given away may be the one in use most recently. `UsedOnce` and
  `UpdatesAssembled` ask for a slot for each update.
* A configuration is put together under `_lock` and set after it was released,
  and its revision is compared with none (`node/Network.cpp:1211`): of two
  complete at the same time the older may win, and since the callback and the
  file come after the lock is let go (`:1252, 1263`), port, file and `_config` may
  end with different ones. `ServiceFollows` excepts this (`crossed`).
* `setAccessDenied` and `setNotFound` do not look at `_destroyed`
  (`node/Network.hpp:229-246`), so a refusal that a packet thread holds for a
  network that was left, and delivers after it was joined again, gives the new
  port the configuration of the old object. `ServiceFollows` excepts this (`stray`).
* A network that is joined while it is being left loses its port and its file to
  the rest of `Node::leave` (`node/Node.cpp:499-509`), though it is a new one, as
  the comment of `:493-495` says, and stays in `_networks`: it has no interface
  until it is left and joined once more, and is gone after a restart. `InStep`
  excepts this (`rejoined`).
* A revocation of a tag or capability sets `_comRevocationThreshold` to its own
  value, which may be lower than the one in force (`node/Membership.cpp:200`).
  So two nodes that accepted the same revocations in different orders refuse
  different COMs. `ComRevocationsHold`, `SameRevocations` for the COM and
  `RumourReachesAll` for revocations of it are about revocations of the COM only.
* `Network::clean` erases a member's entry when the topology dropped the peer,
  its revocations with it (`node/Network.cpp:1528`).
* `Multicaster::send` skips the queue "if we already have enough members to
  complete the send operation" (`node/Multicaster.cpp:221`), but the origin and
  the bridges count as members: with the origin as the only member and a limit
  of 1 it sends to nobody and asks nobody. `SomeoneIsAsked` is about queued
  multicasts.
* A multicast that waits is sent to late members after
  `ZT_MULTICAST_TRANSMIT_TIMEOUT` too, until `clean` runs
  (`node/Constants.hpp:354-359`).

### Bounds

* `topology`: three node addresses (self, two others) are the least with a root
  that moves between worlds while another stays; three planet revisions let a key
  be handed on and its old holder try again; two moon revisions show replacement.
  `EpLists` are the lists of up to three endpoints without repetition, closed
  under the merge (an assumption TLC checks). One `Caller` at a time has read a
  moon file; deorbit, edits and in-band updates come in between. 371 000 states.
* `addresses`: `MaxEndpoints` is 4, 32 in the code; answers of up to three
  addresses with private ones besides get there. `MaxPaths` = 3 and three paths of
  two addresses are the least array with a beginning, a middle and an end;
  `MaxPriority` = 3 admits one redirection on top of a learned path.
* `dyn_dns*`: `MaxChanges` bounds what the environment does. Two changes are
  enough for "move, then move back" or "off, then move"; the number of
  resolutions, passes and timer expiries is not bounded. `MaxSpurious` bounds
  spurious wakeups; without a bound, liveness could rest on them.
* `service_files`: `MaxEdits` = 4 allows remove, drop, remove, drop; an interval
  of 6, seconds of 3 and a delay of 1 keep the ratios that matter, `MaxTime` = 24
  is four intervals. The theorem has no bound.
* `rx_queue`: two entries for three packets, so that an entry is reused while
  its packet is incomplete; two threads; `MaxComing` = 4 parts are both packets
  complete, or one of them and two of the other's parts out of order or repeated.
  The theorems hold for any of these.
* `tx_queue`: a queue of two entries for two packets and their two WHOIS
  requests overflows; `RetryDelay` and `Timeout` are one tick; `MaxForgets` = 1
  peer is dropped by the topology after it was known.
* `network`: nodes in a line make a revocation travel by way of another;
  `Stamps` {2, 3}, `ConfStamps` {2, 4}, thresholds 1 and 2 and `Delta` 1 put a
  credential on both sides of every comparison, and two revocations of either kind
  come in both orders; one entry is forgotten. Two
  slots (3 in the code) for three updates and a legacy configuration; `MaxTs` = 3
  bounds the chunks a slot takes, one more than an update has.
* `one_network`, `multicast_origin`, `network_left`: a queue of one multicast for
  two, two members besides the node, limits of 1 and 2, and a clock on which a
  multicast expires (1), may be asked about again (1), and a member expires (2),
  in that order; `MaxTime` = 3. Two threads of either kind, two configurations and
  two objects (`MaxJoins`) are the least with a leave between two joins and a
  packet thread that has the first object; one restart. The theorems hold for any
  of these.

### Fairness

`DynDns` assumes weak fairness of both threads as wholes (the main loop's wait
is bounded by `_nextBackgroundTaskDeadline`, `getaddrinfo` returns), of timers
running out, of a reachable root answering and an unreachable one falling
silent, and of owners mending their records and the network. It assumes none of
notifications, edits, moves or spurious wakeups. The healing properties ask for
the environment to settle only in the sense of `<>[]` on configuration and an
installed world. `MoonsDir` assumes fairness of the scan (every ten seconds in
the main loop) and of the end of a copy.

`RxQueue` assumes that a thread goes on with a packet it began (nothing blocks
in these functions but locks held for a few lines), that waiting entries are gone
over and get old (`doTimerTasks`); not that anything arrives or is learned.
`TxQueue` assumes the same of senders, the receiving thread and the timer, and
that time passes; not that the link comes up or a question is answered.
`Membership` assumes that each node in the end takes a revocation that is in
flight to it, which is the hypothesis of `RumourReachesAll` (no packet of them is
lost for ever); `ConfigChunks` the same for the chunks of the updates `Arriving`.
`Topology`, `Multicast`, `NetworkLife`, `RootEndpoints`, `PeerPaths`, `ConfWatch`
state safety only.

`CHECK_DEADLOCK FALSE` is in the configurations of `DynDns` (the service stops,
rightly or, in `dyn_dns_shutdown`, not), and of `rx_queue`, `tx_queue`,
`network` and `network_left`, where the bounded arrivals, sends and joins come to
an end. In `one_network` that end is the action `AtRest`, and any other deadlock
would be found: join, leave and packet threads never wait for each other.

## 4. Proofs

All theorems hold for every value of the constants that satisfies the `ASSUME`s
of the modules, which the runs evaluate. Each safety theorem follows from an
inductive invariant `IInv` whose parts have one lemma per action or group of
actions.

`TopologyProofs`:

* `TypeCorrect`, `MemoSafe`, `UpstreamsSafe`, `PlanetSafe`: the four invariants
  of the run `topology`. The inductive invariant adds two facts to them.
  `Down`: a stopped process has no worlds, peers or handler and no call of orbit
  under way; without it `Start` could not establish the memo. `HandlerHoldsPeer`: a
  handler whose object is not orphaned finds its peer; without it `LearnPath` would
  give paths to a missing peer. `PlanetSafe` is inductive as it stands because it
  speaks of a stopped process too: what `Start` loads is what was saved. `NextIInv`
  combines the lemmas on what `Memoize`, `Dropped`, `PutPlanet` and `PutMoon` do.
* `MoonsWanted`: no step of a running node joins a moon without a file, a seed or a
  call of orbit that had read its file (`MoonStep`, one case per action that changes
  a moon).
* `PathsStaySafe`: a step that keeps the heads of the worlds keeps
  `PathsPermitted`, which says of each path in the table, and of each path a
  handler was told it may learn, that a world lists it. The second half is what
  makes it inductive: a refresh between `CheckPath` and `LearnPath` would break
  the first half if the handler's peer were not orphaned with it. Steps that
  replace, join or leave a world are excluded; section 3 says why.
* `ImplementsTrust`: `Spec` implies `WorldTrust`'s specification under the
  mapping of a world to its head. A refresh is a stutter, since
  `RefreshKeepsHead`; replacing a world is `Succeed`; joining, leaving, starting
  and stopping are the abstract actions of the same kind. The proof needs `IInv`
  for the types of the heads.

`MergeClosed` (the endpoint lists are closed under the merge) is an assumption
since an instance for TLC needs a finite set of lists; `MergeCloses` of
`AddressProofs` proves it of the set of all lists.

`AddressProofs`, about a root's endpoints: `SettlesInThree`, `LanSurvives`,
`AnswerServed`. What a loop of the code computes is taken pass by pass: the
recursive functions of `WorldEndpoints` are shown to be the states of a loop
(`LanLoop`, `JoinedLoop`), and an induction over its passes (`Upward`) gives what
the merge keeps, adds and leaves out (`LanHolds`, `LanPrefix`, `Adds`). Why three
passes: any merge puts a private endpoint that supplies the port first if there
is one (`Leads`); a merge of such a list gives the private addresses of the answer
that port for good (`Holds`); after one more there is nothing new that is private,
so the next merge starts from the same endpoints with the same port and ends where
it was (`Fixed`). `RootInv` says which of these holds after how many changes, and
keeps the private endpoints and what the answer in force requires (`Served`). The
assumption `RootConstants` is what the resolver and signed worlds give: IPv4
addresses without a port, and endpoints with one.

`AddressProofs`, about a peer's paths: `StaysCompact`, `PassesShorten`,
`AloneOneEntry`. A cleaning pass is a loop over the slots, so its proof goes slot
by slot: what was judged stays in front, what is not judged yet is where it was or
moved forward (`Moved`, `PassStep`), and the number of entries in the first slots
decides where an entry goes (`UptoCounts`). `PathInv` says that the used slots are
the first ones; `PassesShorten` is then the fact that a pass either keeps all of
them or ends one slot earlier. `OneThread` has what a thread between look and
learning knows: as long as it is alone (nobody else handles packets of this peer or
of others on the same paths), the entries of the address it is about to
learn are of other paths, and dead ones (`Unlisted`).

`ServiceProofs`, about `local.conf`: `LateEditsAreRead` for every interval, resolution and
delay: checks are at most `Interval + Delay` apart and a stamp loses at most
`Second - 1`, so an edit later than that after a check is within the interval
at the next.

`ServiceProofs`, about the dynamic-DNS layer: `DynDnsTypes`, `DisabledStaysStock`
(a world without a domain keeps its endpoints), `PlanetAnswerStays` and
`NoIdleQueries`. `DisabledStaysStock` needs
`SnapshotInForce`: while the main loop decides and applies, its snapshot has the
domains in force, because only the main loop reads `local.conf`, at its top. The
resolver may publish what it was asked before a reload; what keeps that from
being applied is that the snapshot is taken after. `NoIdleQueries` (`SaneCadence`)
follows a notification from the snapshot it rests on to the pass it causes
(`Cadence`): while nothing is due, the passes without a cause, the notification
the main loop is deciding on and the wakeup on its way are together at most one
(beside spurious wakeups). The proof covers a planet and moons that have domains at once, which
is more than a run with liveness can.

`RxQueueProofs`: `RxQueueTypes`, `PacketsAreWhole` and `PartsAssemble`, for any
number of threads, packets and entries. `Sound` of an entry says that each part it
counts is of the packet it names; no thread needs to be right about the entry it
found, because `Handle` asks again under the lock, and this is why the proof of
`PacketsAreWhole` needs nothing of the threads but that they hold a part that
exists (`Works`). `PartsAssemble` needs more, since a part that goes to the wrong
entry is lost: `InOrder` says that as long as no two threads
were at work together (`Alone`), each packet that is neither decoded nor lost its
entry to the ring has an entry once a part of it arrived, and only one, with just
those parts (`Gathered`), and the entry a thread found is its packet's, or the packet has none
yet (`RightEntry`).

`TxQueueProofs`: `TxTypes`, `OnePlace` (`OneFate`) and `NothingLost`
(`NoneForgotten`), for any number of senders, packets, destinations and any size of
the queue. The invariant says of the queue that each packet is in it once (`Once`),
of the senders that no two are about to queue the same packet (`SendersOK`), and of
the five places a packet can be at that no two have one in common (`Apart`). Every
step is a move between two of them: `PushedIs` and `EntriesAtIs` say which packets
the queue has after an entry was pushed or some were taken out.

`MemberProofs`, about the chunks: `ConfigChunksTypes` (the bound on a slot included),
`NeverMixed` and `EachUsedOnce`. `Sound` of a slot relates its count to its chunks
(`have = Cardinality(Positions)`) and these to its data; a slot with as many
chunks as its update has then holds them all, whatever was left in the buffer. With
a slot for each update no slot is given away, so the slot of an update has the
chunks that came, which is what `EachUsedOnce` needs (`OneSlotEach`).

`MemberProofs`, about credentials: `MembershipTypes`, `RevokedIsOut`, `OrderIrrelevant`,
`ComRevocationsAreHeld`. A threshold is at least that of each accepted revocation
(`Bounds`) and is that of one of them, or 0 (`Witness`): together it is their
maximum, which no order changes. For the COM the first half (`ComBounds`) holds
only where all revocations were of the COM; the second (`ComWitness`) always, but
the revocation may be of any credential. Where all were of the COM the two make its
threshold the maximum as well, and that is the part of `OrderIrrelevant` about it.

`MulticastProofs`: `MulticastTypes`, `SentOnce`, `NobodyMissed`, `LimitKept`,
`AlwaysAsked`. `Sound` of a queued multicast says that its log is its receivers
and its origin and counts them right (`Logged`), that below its limit it has
reached all who were members since (`Reached`), and that its receivers are within
the limit (`Bounded`).

`NetworkLifeProofs`: `LifeTypes`, `LifeInStep` and `LifeServiceFollows`, for any
number of threads, objects and restarts. The properties speak of quiet states
only; the invariant says what holds in between. `Steps`: while one thread joins,
nothing is in `_networks` and no other joins (`OneJoins`); a port without a network
has a thread about to take it (`PortInStep`); a network without a join during a
leave has both port and file and nobody leaving (`JoinedInStep`); a file without a
network has a thread about to delete it or to join (`FileInStep`). `Follows`, as
long as nothing crossed and no refusal strayed: one packet thread at most is between `SetConfig` and
`Save`, with the configuration it has set, and whoever has passed `Check` is at the
network that is current (`OneWrites`), so port and file lag behind `_config` only while it is on its way
(`PortFollows`, `FileFollows`).

With this every safety invariant and every action property of the runs is a
theorem. Only model-checked is liveness, which the prover does not reach (it has
neither `ENABLED` nor a rule for fairness): `PlanetHeals`, `QuietWhenStable`,
`MoonsHeal`, `NewMoonsOrbited` and `RemovedMoonsDeorbited` of `MoonsDir`,
`WaitingIsDecoded`, `ReachableIsSent`, `RumourReachesAll`, `UpdatesAssembled`. The
three properties the code violates have no theorem, of course.

## 5. Not modelled

* Bonds, self-awareness, crypto, packet formats, OS layer, UI: no protocol state,
  or state dominated by measurements. The `Path` table of the topology and the
  physical path configuration: caches without influence on the properties. HTTP
  and systemd in the import scripts: their effect is `ImportPlanet`.
* Relaying, introductions and traffic classes of `Switch`; the rules engine and
  bridging routes of `Network`; frames in `IncomingPacket`: decisions about single
  packets that leave little state behind.
* The vendored libraries under `ext/`, which are most of the repository's lines,
  and the controller's databases.

## 6. Plan

Done: every module of section 2. Left, in order:

1. `WorldGossip`: several nodes running `Topology`, HELLO and OK carrying
   worlds, one of them a root that rewrites endpoints; the ping loop over
   `getRootsToContact`.
2. `LockOrder`: the lock-acquisition graph of `Topology`, `Peer`, `Switch`, with
   `Peer::introduce` holding the path locks of two peers.
3. `PacketQueues`: `PacketMultiplexer` over `BlockingQueue`, whose threads nothing
   stops.
4. Join `RxQueue` and `TxQueue` to the topology's peers, in the place of `known`.
5. The controller's `DB` and member deauthorization.
6. Proofs: types and safety of `MoonsDir`; that `TxQueue` and `RxQueue` implement a
   specification of what they promise together.
