---------------------------- MODULE ConfigChunks ----------------------------
(***************************************************************************)
(* Network::handleConfigChunk of node/Network.cpp: a node puts together    *)
(* the configuration updates of one network from the chunks of Node::      *)
(* ncSendConfig.  Chunks come from the controller or, flooded, from other  *)
(* members, in any order and any number of times, and there is room for a  *)
(* few updates at once.  Chunks all have the length 1; every one is signed *)
(* and parsing never fails, so that a mixture of updates would be taken.   *)
(***************************************************************************)
EXTENDS Naturals, FiniteSets

CONSTANTS
    Update,      \* updates the controller has sent, by configUpdateId
    Length,      \* for each update, its number of chunks: totalLength
    Fast,        \* updates whose chunks have the fastPropagate flag
    Legacy,      \* whole configurations in one packet, by packet id
    Member,      \* addresses in _memberships
    NetController,
    Slots,       \* ZT_NETWORK_MAX_INCOMING_UPDATES
    MaxChunks,   \* ZT_NETWORK_MAX_UPDATE_CHUNKS
    NoUpdate,    \* the updateId of a slot never used
    Arriving,    \* updates whose chunks are not lost for ever
    MaxTs        \* bound on the counters of the slots

ASSUME ConfigChunksConstants ==
    /\ Length \in [Update -> Nat \ {0}] /\ Fast \subseteq Update
    /\ Legacy \cap Update = {} /\ NoUpdate \notin Update \cup Legacy
    /\ NetController \notin Member /\ Arriving \subseteq Update
    /\ Slots \in Nat \ {0} /\ MaxChunks \in Nat /\ MaxTs \in Nat
    /\ \A u \in Update : Length[u] <= MaxChunks

VARIABLES
    slot,    \* _incomingConfigChunks
    (* history *)
    got,     \* chunks put into a slot
    made,    \* configurations handed to setConfiguration
    sent,    \* chunks flooded, and to whom
    twice    \* updates made, or flooded to the same member, a second time

chunkVars == <<slot, got, made, sent, twice>>

Slot == 1..Slots
Id == Update \cup Legacy
Total(u) == IF u \in Update THEN Length[u] ELSE 1
Index == UNION { 1..Total(u) : u \in Id }
Chunk == { c \in Id \X Index : c[2] <= Total(c[1]) }

SlotState == [ts : Nat, updateId : Id \cup {NoUpdate}, haveChunkIds : SUBSET Chunk,
              have : 0..MaxChunks, data : [Index -> Id \cup {NoUpdate}]]

ChunkTypeOK ==
    /\ slot \in [Slot -> SlotState]
    /\ got \subseteq Chunk
    /\ \A d \in made : \E u \in Id : d \in [1..Total(u) -> Id \cup {NoUpdate}]
    /\ sent \subseteq Member \X Chunk
    /\ twice \subseteq Id

------------------------------------------------------------------------------

(* The first slot with the smallest counter *)
Lowest(s) ==
    \A o \in Slot \ {s} :
        slot[s].ts < slot[o].ts \/ (slot[s].ts = slot[o].ts /\ s < o)

Has(s, u) == slot[s].updateId = u

NoMatch(s, u) == Lowest(s)

(* The first slot that has the update, or else the one to reuse for it *)
SlotFor(s, u) ==
    IF \E o \in Slot : Has(o, u)
    THEN Has(s, u) /\ \A o \in 1..(s - 1) : ~Has(o, u)
    ELSE Lowest(s)

NeverDuplicate(s, u, i) == FALSE

Duplicate(s, u, i) == Has(s, u) /\ <<u, i>> \in slot[s].haveChunkIds

KeepsCount(s, u) ==
    IF Has(s, u)
    THEN [slot[s] EXCEPT !.ts = @ + 1]
    ELSE [slot[s] EXCEPT !.ts = @ + 1, !.updateId = u, !.haveChunkIds = {}]

(* A slot that changes hands forgets the chunks it had; their data stays,  *)
(* to be overwritten.                                                      *)
Claimed(s, u) ==
    IF Has(s, u)
    THEN [slot[s] EXCEPT !.ts = @ + 1]
    ELSE [slot[s] EXCEPT !.ts = @ + 1, !.updateId = u, !.haveChunkIds = {}, !.have = 0]

Full(c) == c.have >= MaxChunks

With(c, u, i) ==
    [ts |-> c.ts, updateId |-> u, haveChunkIds |-> c.haveChunkIds \cup {<<u, i>>},
     have |-> c.have + 1, data |-> [c.data EXCEPT ![i] = u]]

Whole(u) == [i \in 1..Total(u) |-> u]

(* Chunk i of u goes into the slot s.  haveBytes is the number of chunks,  *)
(* as long as each has the length 1; it is compared with the total that    *)
(* came with this chunk, and a full slot is left as it is.                 *)
Store(s, u, i, flooded) ==
    LET claimed == Claimed(s, u)
        c == IF Full(claimed) THEN claimed ELSE With(claimed, u, i)
        complete == ~Full(claimed) /\ c.have = Total(u)
    IN /\ slot' = [slot EXCEPT ![s] = c]
       /\ got' = got \cup {<<u, i>>}
       /\ made' = made \cup (IF complete THEN {[j \in 1..Total(u) |-> c.data[j]]} ELSE {})
       /\ sent' = sent \cup flooded
       /\ twice' = twice \cup (IF (complete /\ Whole(u) \in made) \/ sent \cap flooded # {}
                               THEN {u} ELSE {})

(* A chunk that is news is flooded through the network. *)
HandleChunk(source, u, i) ==
    \E s \in Slot :
       /\ SlotFor(s, u)
       /\ ~Duplicate(s, u, i)
       /\ slot[s].ts < MaxTs
       /\ Store(s, u, i, IF u \in Fast THEN (Member \ {source}) \X {<<u, i>>} ELSE {})

(* An old controller sends nothing but the configuration: neither the id   *)
(* of a slot nor the chunks it has are looked at.                          *)
HandleLegacy(u) ==
    \E s \in Slot :
       /\ Lowest(s)
       /\ slot[s].ts < MaxTs
       /\ Store(s, u, 1, {})

ChunkInit ==
    /\ slot = [s \in Slot |-> [ts |-> 0, updateId |-> NoUpdate, haveChunkIds |-> {}, have |-> 0,
                               data |-> [i \in Index |-> NoUpdate]]]
    /\ got = {} /\ made = {} /\ sent = {} /\ twice = {}

ChunkNext ==
    \/ \E source \in Member \cup {NetController} : \E u \in Update : \E i \in 1..Length[u] :
           HandleChunk(source, u, i)
    \/ \E u \in Legacy : HandleLegacy(u)

(* The chunks of some updates all arrive in the end, from whomever. *)
ChunkFairness ==
    \A u \in Arriving : \A i \in 1..Length[u] :
        WF_chunkVars(\E source \in Member \cup {NetController} : HandleChunk(source, u, i))

ChunkSpec == ChunkInit /\ [][ChunkNext]_chunkVars /\ ChunkFairness

------------------------------------------------------------------------------
(* Properties *)

(* A configuration is never put together from the chunks of two updates,   *)
(* whatever slots change hands in between.                                 *)
NoMixture == \A d \in made : \E u \in Id : d = Whole(u)

Heard == { c[1] : c \in got }
Room == Heard \subseteq Update /\ Cardinality(Heard) <= Slots

(* As long as there is a slot for each update, the slots amount to a set   *)
(* of chunks: an update is used when all have come, once, and its chunks   *)
(* are flooded to a member once.                                           *)
UsedOnce ==
    Room => /\ twice = {}
            /\ \A u \in Update :
                   Whole(u) \in made <=> {u} \X (1..Length[u]) \subseteq got

(* With a slot for each update, and no chunk lost for ever, each is used. *)
AllAssembled == []Room => \A u \in Arriving : <>(Whole(u) \in made)
=============================================================================
