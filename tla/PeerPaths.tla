----------------------------- MODULE PeerPaths -----------------------------
(***************************************************************************)
(* node/Peer.cpp: the array of the paths to a peer.  Packet threads learn  *)
(* paths into it (received), the peer may redirect to another address      *)
(* (clusterRedirect), and the ping loop drops expired and lower-priority   *)
(* paths (doPingAndKeepalive).  Every loop over the array stops at the     *)
(* first empty slot.  There is no bond, and paths are of one local socket  *)
(* and of IPv4, so that ipsEqual and ipsEqual2 agree.                      *)
(***************************************************************************)
EXTENDS Naturals, FiniteSets

CONSTANTS
    Path,        \* the paths: a remote address and port
    AddressOf,   \* the IP of a path, without the port
    ScopeOf,     \* the IP scope of a path
    Thread,      \* the threads that receive packets
    MaxPaths,    \* ZT_MAX_PEER_NETWORK_PATHS
    MaxPriority, \* bound on the priority of redirections
    None

(* fresh: now - lr < ZT_PEER_PATH_EXPIRATION *)
Entry == [p : Path, fresh : BOOLEAN, priority : 1..MaxPriority]

ASSUME PeerPathsConstants ==
    /\ None \notin Path /\ None \notin Entry
    /\ MaxPaths \in Nat \ {0} /\ MaxPriority \in Nat \ {0}

VARIABLES
    paths,       \* _paths
    alive,       \* the paths something came over lately
    learning,    \* per thread: the path it found unknown and may learn
    busy         \* history: the threads that handled a packet on these paths

pathsVars == <<paths, alive, learning, busy>>

Slot == 1..MaxPaths

Used(ps) == { i \in Slot : ps[i] # None }
FirstOf(S) == CHOOSE i \in S : \A j \in S : i <= j

(* The slots a loop with "else break" visits *)
Visited(ps) == { i \in Slot : \A j \in 1..i : ps[j] # None }

------------------------------------------------------------------------------
(* Peer::received of a direct packet *)

(* The entries that keep a path from being learned: the path itself, or    *)
(* the same address on the same interface while it is alive.               *)
Holders(path) ==
    { i \in Visited(paths) :
        \/ paths[i].p = path
        \/ AddressOf[paths[i].p] = AddressOf[path] /\ paths[i].p \in alive }

Handles(t) == busy' = busy \cup {t}

Receive(t, path) ==
    /\ learning[t] = None
    /\ Handles(t)
    /\ alive' = alive \cup {path}
    /\ IF Holders(path) # {}
       THEN LET i == FirstOf(Holders(path))
            IN  /\ paths' = IF paths[i].p = path THEN [paths EXCEPT ![i].fresh = TRUE] ELSE paths
                /\ UNCHANGED learning
       ELSE /\ learning' = [learning EXCEPT ![t] = path]
            /\ UNCHANGED paths

(* A Path is shared: the packet of another peer makes it alive as well. *)
Overhear(t, path) ==
    /\ learning[t] = None
    /\ Handles(t)
    /\ alive' = alive \cup {path}
    /\ UNCHANGED <<paths, learning>>

(* The packet is no OK, or the path is not to be used. *)
Decline(t) ==
    /\ learning[t] # None
    /\ learning' = [learning EXCEPT ![t] = None]
    /\ UNCHANGED <<paths, alive, busy>>

CandidatesUntwinned(path) ==
    LET empty == { i \in Slot : paths[i] = None }
    IN  IF empty # {} THEN { FirstOf(empty) } ELSE Slot

(* The slots a new path may take: a dead entry of the same address or an   *)
(* empty slot, whichever comes first, else that of the oldest path.        *)
DeadTwins(path) ==
    { i \in Visited(paths) :
        AddressOf[paths[i].p] = AddressOf[path] /\ paths[i].p \notin alive }

Candidates(path) ==
    LET empty == { i \in Slot : paths[i] = None }
        dead == { i \in Slot : paths[i].p \notin alive }
    IN  IF DeadTwins(path) # {} THEN { FirstOf(DeadTwins(path)) }
        ELSE IF empty # {} THEN { FirstOf(empty) }
        ELSE IF dead # {} THEN dead
        ELSE Slot

Learn(t) ==
    /\ learning[t] # None
    /\ \E i \in Candidates(learning[t]) :
          paths' = [paths EXCEPT ![i] = [p |-> learning[t], fresh |-> TRUE, priority |-> 1]]
    /\ learning' = [learning EXCEPT ![t] = None]
    /\ UNCHANGED <<alive, busy>>

------------------------------------------------------------------------------
(* Peer::clusterRedirect, as a thread handles PUSH_DIRECT_PATHS *)

RedirectPriority(from) ==
    LET at == { i \in Visited(paths) : paths[i].p = from }
    IN  2 + IF at # {} THEN paths[FirstOf(at)].priority ELSE 1

(* The entries of S, moved to the front in their order *)
Packed(ps, S) ==
    [k \in Slot |-> IF \E i \in S : Cardinality({ j \in S : j <= i }) = k
                    THEN ps[CHOOSE i \in S : Cardinality({ j \in S : j <= i }) = k]
                    ELSE None]

Redirect(t, from, to) ==
    LET priority == RedirectPriority(from)
        kept == { i \in Used(paths) : /\ paths[i].priority >= priority
                                      /\ AddressOf[paths[i].p] # AddressOf[to] }
        n == Cardinality(kept) + 1
    IN  /\ learning[t] = None
        /\ priority <= MaxPriority
        /\ Handles(t)
        /\ paths' = IF n <= MaxPaths
                    THEN [Packed(paths, kept) EXCEPT
                             ![n] = [p |-> to, fresh |-> TRUE, priority |-> priority]]
                    ELSE Packed(paths, kept)
        /\ UNCHANGED <<alive, learning>>

------------------------------------------------------------------------------
(* Peer::doPingAndKeepalive *)

HighestPriority(ps) ==
    IF Visited(ps) = {} THEN 0
    ELSE CHOOSE k \in { ps[i].priority : i \in Visited(ps) } :
            \A i \in Visited(ps) : ps[i].priority <= k

KeepsExpired(e, highest) == e.priority = highest

Keeps(e, highest) == e.fresh /\ e.priority = highest

(* The first used slot after i moves into slot i. *)
Refilled(ps, i) ==
    LET later == { j \in Used(ps) : j > i }
    IN  IF later = {} THEN ps
        ELSE [ps EXCEPT ![i] = ps[FirstOf(later)], ![FirstOf(later)] = None]

StepDeletionsOnly(ps, i, highest) ==
    IF ps[i] # None /\ ~ Keeps(ps[i], highest) THEN Refilled([ps EXCEPT ![i] = None], i)
    ELSE ps

(* What the loop does at slot i; what moves into the slot is not looked at *)
(* again in this pass.                                                     *)
Step(ps, i, highest) ==
    IF ps[i] = None THEN Refilled(ps, i)
    ELSE IF Keeps(ps[i], highest) THEN ps
    ELSE Refilled([ps EXCEPT ![i] = None], i)

Cleaned(ps) ==
    LET highest == HighestPriority(ps)
        pass[i \in 0..MaxPaths] == IF i = 0 THEN ps ELSE Step(pass[i - 1], i, highest)
    IN  pass[MaxPaths]

DoPingAndKeepalive ==
    /\ paths' = Cleaned(paths)
    /\ UNCHANGED <<alive, learning, busy>>

------------------------------------------------------------------------------
(* Peer::resetWithinScope, when the external address a trusted peer        *)
(* reports changes: the paths will not be used unless they speak again.    *)
ResetWithinScope(t, scope) ==
    /\ learning[t] = None
    /\ Handles(t)
    /\ paths' = [i \in Slot |-> IF i \in Visited(paths) /\ ScopeOf[paths[i].p] = scope
                                THEN [paths[i] EXCEPT !.fresh = FALSE] ELSE paths[i]]
    /\ UNCHANGED <<alive, learning>>

(* ZT_PATH_HEARTBEAT_PERIOD + 5 s without a packet *)
FallSilent(path) ==
    /\ path \in alive
    /\ alive' = alive \ {path}
    /\ UNCHANGED <<paths, learning, busy>>

(* ZT_PEER_PATH_EXPIRATION since the packet that set lr: the path is dead, *)
(* or an earlier slot takes its packets.                                   *)
Expire(i) ==
    /\ paths[i] # None
    /\ \/ paths[i].p \notin alive
       \/ \E j \in 1..(i - 1) : paths[j] # None /\ paths[j].p = paths[i].p
    /\ paths' = [paths EXCEPT ![i].fresh = FALSE]
    /\ UNCHANGED <<alive, learning, busy>>

PathsInit ==
    /\ paths = [i \in Slot |-> None]
    /\ alive = {}
    /\ learning = [t \in Thread |-> None]
    /\ busy = {}

PathsNext ==
    \/ \E t \in Thread, path \in Path : Receive(t, path) \/ Overhear(t, path)
    \/ \E t \in Thread : Decline(t) \/ Learn(t)
    \/ \E t \in Thread, from, to \in Path : Redirect(t, from, to)
    \/ DoPingAndKeepalive
    \/ \E t \in Thread, p \in Path : ResetWithinScope(t, ScopeOf[p])
    \/ \E path \in Path : FallSilent(path)
    \/ \E i \in Slot : Expire(i)

PathsSpec == PathsInit /\ [][PathsNext]_pathsVars

------------------------------------------------------------------------------
(* Properties *)

(* The array stays compact, which every loop that stops at the first empty *)
(* slot relies on: no path is behind a hole, where hasAlivePath,           *)
(* getAppropriatePath and received would not find it.                      *)
Compact == Used(paths) = Visited(paths)

(* As long as a path has expired or is outranked, a pass of the ping loop  *)
(* shortens the array, so that none of them stays for ever.                *)
PassProgresses ==
    (\E i, j \in Used(paths) : ~ paths[i].fresh \/ paths[i].priority < paths[j].priority)
        => Cardinality(Used(Cleaned(paths))) < Cardinality(Used(paths))

(* No two entries have the same address (Peer.cpp: "If same address on     *)
(* same interface then don't learn unless existing path isn't alive").     *)
OneEntryPerAddress ==
    \A i, j \in Used(paths) :
        AddressOf[paths[i].p] = AddressOf[paths[j].p] => i = j

(* It takes two packet threads to break that: received looks for the path  *)
(* and learns it in two critical sections, but what one thread learns,     *)
(* redirects, replaces and cleans never leaves two entries for an address. *)
OneThreadOneEntry == Cardinality(busy) <= 1 => OneEntryPerAddress
=============================================================================
