---------------------------- MODULE RootEndpoints ----------------------------
(***************************************************************************)
(* One root's endpoint list over time: the service re-applies the last     *)
(* resolved answer on every pass of its main loop, the resolver replaces   *)
(* the answer, and a signed world update replaces the list.                *)
(***************************************************************************)
EXTENDS WorldEndpoints

CONSTANTS
    Answers,     \* the lists the domain may resolve to
    Listed       \* the lists a signed world may give the root

(* The resolver returns IPv4 addresses and no ports; an endpoint a signed  *)
(* world gives a root has one.                                             *)
ASSUME RootConstants ==
    /\ Answers \subseteq Seq([ip : V4, port : {0}])
    /\ Listed \subseteq Seq([ip : Ip, port : Port \ {0}])

VARIABLES
    cur,         \* root.stableEndpoints
    answer,      \* _zgalaxyResolvedIps: <<>> until the first resolution
    applied,     \* the answer of the last pass since cur was last replaced
    relinks,     \* passes that changed cur since the answer arrived
    lan          \* the private endpoints of the last signed list

vars == <<cur, answer, applied, relinks, lan>>

(* The first answer is already in the list when the process starts. *)
Init ==
    /\ cur \in Listed
    /\ answer = <<>>
    /\ applied = <<>>
    /\ relinks = 0
    /\ lan = ToSet(Lan(cur))

(* _zgalaxyDnsLoop publishes a non-empty answer. *)
Resolve ==
    /\ answer' \in Answers \ {<<>>}
    /\ relinks' = 0
    /\ UNCHANGED <<cur, applied, lan>>

(* The apply step of the main loop; it skips an empty answer. *)
Apply ==
    /\ answer # <<>>
    /\ cur' = Refreshed(cur, answer)
    /\ applied' = answer
    /\ relinks' = IF Refreshes(cur, answer) THEN relinks + 1 ELSE relinks
    /\ UNCHANGED <<answer, lan>>

(* addWorld replaces the whole world. *)
Update ==
    /\ cur' \in Listed
    /\ lan' = ToSet(Lan(cur'))
    /\ applied' = <<>>
    /\ relinks' = 0
    /\ UNCHANGED answer

Next == Resolve \/ Apply \/ Update

Spec == Init /\ [][Next]_vars

------------------------------------------------------------------------------
(* The merge is not idempotent (it moves private endpoints to the front,   *)
(* the first endpoint supplies the port, and an address can appear under   *)
(* two ports), so the same answer may change the list on several passes.   *)
(* It settles nevertheless: one answer resets the root peer at most three  *)
(* times, however often the main loop re-applies it.                       *)
Stabilises == relinks <= 3

(* The private endpoints a signed world lists survive every re-resolution  *)
(* of the domain, so LAN clients keep their direct address.                *)
LanKept == lan \subseteq ToSet(cur)

(* After a pass the root lists every IPv4 address of the answer, with a    *)
(* port that is not zero, and nothing that is neither private nor in the   *)
(* answer: no address of an earlier answer outlives the next one unless it *)
(* is private.  If the answer and the private endpoints fit in a root, so  *)
(* does the merge, and World::deserialize can read it back; resolved       *)
(* addresses that are private join those of the signed world, later merges *)
(* keep them, and nothing bounds how many of them there are.               *)
AnswerInForce ==
    (applied # <<>> /\ applied = answer) =>
        /\ \A i \in DOMAIN answer : answer[i].ip \in V4 =>
              \E e \in ToSet(cur) : e.ip = answer[i].ip /\ e.port # 0
        /\ \A e \in ToSet(cur) :
              e.ip \in Private \/ \E i \in DOMAIN answer : answer[i].ip = e.ip
        /\ Len(Lan(cur)) + Len(answer) <= MaxEndpoints => Loadable(cur)
=============================================================================
