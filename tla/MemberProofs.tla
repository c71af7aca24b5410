---------------------------- MODULE MemberProofs -----------------------------
(***************************************************************************)
(* What a member of a network holds.  For every set of nodes, credentials  *)
(* and revocations: a revocation wins whichever comes first.  For any      *)
(* number of slots, updates and members: a configuration is never put      *)
(* together from two updates, and with a slot for each update every one is *)
(* used once.                                                              *)
(***************************************************************************)
EXTENDS Membership, ConfigChunks, FiniteSetTheorems, TLAPS

(* A threshold is at least that of every revocation a node accepted ...    *)
Bounds ==
    \A n \in Node : \A r \in heard[n] : r.key \in Key => r.thr <= thr[n][r.key]

(* ... and no more: it is that of one of them, or 0.                       *)
Witness ==
    \A n \in Node, k \in Key :
        thr[n][k] = 0 \/ \E r \in heard[n] : r.key = k /\ r.thr = thr[n][k]

(* The threshold of the COM, as long as nothing else was revoked *)
ComBounds ==
    \A n \in Node : (\A r \in heard[n] : r.key = Com) => \A r \in heard[n] : r.thr <= comThr[n]

(* The threshold of the COM is that of a revocation the node accepted, or  *)
(* 0: of which credential, RaiseThreshold does not ask.                    *)
ComWitness ==
    \A n \in Node : comThr[n] = 0 \/ \E r \in heard[n] : r.thr = comThr[n]

IInv == TypeOK /\ Bounds /\ Witness /\ ComBounds /\ ComWitness

LEMMA RevocationTypes ==
    ASSUME NEW r \in Revocations
    PROVE  r.key \in Key \cup {Com} /\ r.thr \in Nat \ {0} /\ Com \notin Key
BY MembershipConstants

------------------------------------------------------------------------------
(* Taking a revocation *)

LEMMA AddRevocationTypes == TypeOK /\ (\E m \in flight : AddRevocation(m)) => TypeOK'
<1> SUFFICES ASSUME TypeOK, NEW m \in flight, AddRevocation(m) PROVE TypeOK'
  OBVIOUS
<1> DEFINE n == m.to
           r == m.rev
<1>1. n \in Node /\ m.from \in Node \cup {Controller} /\ r \in Revocations
  BY DEF TypeOK, Message
<1>2. entries' \in [Node -> SUBSET Node]
  BY <1>1, MembershipConstants DEF AddRevocation, KnowTarget, TypeOK
<1>3. r.thr \in Nat /\ r.key \in Key \cup {Com} /\ Com \notin Key
  BY <1>1, RevocationTypes
<1>4. comThr' \in [Node -> Nat]
  BY <1>1, <1>3 DEF AddRevocation, RaiseThreshold, TypeOK
<1>5. thr' \in [Node -> [Key -> Nat]]
  <2>1. thr \in [Node -> [Key -> Nat]]
    BY DEF TypeOK
  <2>2. CASE thr' = thr
    BY <2>1, <2>2
  <2>3. CASE r.key \in Key /\ thr' = [thr EXCEPT ![n][r.key] = r.thr]
    <3>1. [thr[n] EXCEPT ![r.key] = r.thr] \in [Key -> Nat]
      BY <1>1, <1>3, <2>1, <2>3
    <3> QED BY <2>1, <2>3, <3>1
  <2> QED BY <1>3, <2>2, <2>3 DEF AddRevocation, RaiseThreshold
<1>6. heard' \in [Node -> SUBSET Revocations]
  BY <1>1 DEF AddRevocation, TypeOK
<1>7. PassedOn(n, m.from, r) \subseteq Message
  <2>1. \A a \in (entries[n] \cup {Target}) \ {m.from, n} : a \in Node
    BY <1>1, MembershipConstants DEF TypeOK
  <2> QED BY <1>1, <2>1 DEF PassedOn, Message
<1>8. flight' \subseteq Message
  BY <1>7 DEF AddRevocation, TypeOK
<1> QED BY <1>2, <1>4, <1>5, <1>6, <1>8 DEF AddRevocation, TypeOK

LEMMA AddRevocationKeeps ==
    IInv /\ (\E m \in flight : AddRevocation(m)) => Bounds' /\ Witness' /\ ComBounds' /\ ComWitness'
<1> SUFFICES ASSUME IInv, NEW m \in flight, AddRevocation(m) PROVE Bounds' /\ Witness' /\ ComBounds' /\ ComWitness'
  OBVIOUS
<1> DEFINE n == m.to
           r == m.rev
<1>1. n \in Node /\ r \in Revocations
  BY DEF IInv, TypeOK, Message
<1>2. r.thr \in Nat \ {0} /\ r.key \in Key \cup {Com} /\ Com \notin Key
  BY <1>1, RevocationTypes
<1>3. heard' = [heard EXCEPT ![n] = @ \cup {r}]
  BY DEF AddRevocation
<1>4. thr' = IF New(n, r) /\ r.key \in Key THEN [thr EXCEPT ![n][r.key] = r.thr] ELSE thr
  BY <1>1, <1>2 DEF AddRevocation, RaiseThreshold
<1>5. heard \in [Node -> SUBSET Revocations] /\ thr \in [Node -> [Key -> Nat]]
  BY DEF IInv, TypeOK
<1>6. \A o \in Node, k \in Key : thr[o][k] \in Nat /\ thr'[o][k] \in Nat /\ thr[o][k] <= thr'[o][k]
  BY <1>1, <1>2, <1>4, <1>5 DEF New
<1>7. r.key \in Key => r.thr <= thr'[n][r.key]
  BY <1>1, <1>2, <1>4, <1>5 DEF New
<1>8. Bounds'
  <2> SUFFICES ASSUME NEW o \in Node, NEW q \in heard'[o], q.key \in Key
               PROVE  q.thr <= thr'[o][q.key]
    BY DEF Bounds
  <2>1. CASE q \in heard[o]
    <3>1. q.thr <= thr[o][q.key] /\ q \in Revocations
      BY <2>1, <1>5 DEF IInv, Bounds
    <3>2. q.thr \in Nat
      BY <3>1, RevocationTypes
    <3> QED BY <3>1, <3>2, <1>6
  <2>2. CASE q \notin heard[o]
    <3>1. o = n /\ q = r
      BY <2>2, <1>1, <1>3, <1>5
    <3> QED BY <3>1, <1>7
  <2> QED BY <2>1, <2>2
<1>9. Witness'
  <2> SUFFICES ASSUME NEW o \in Node, NEW k \in Key, thr'[o][k] # 0
               PROVE  \E q \in heard'[o] : q.key = k /\ q.thr = thr'[o][k]
    BY DEF Witness
  <2>1. CASE thr'[o][k] = thr[o][k]
    <3>1. PICK q \in heard[o] : q.key = k /\ q.thr = thr[o][k]
      BY <2>1 DEF IInv, Witness
    <3>2. q \in heard'[o]
      BY <1>1, <1>3, <1>5, <3>1
    <3> QED BY <2>1, <3>1, <3>2
  <2>2. CASE thr'[o][k] # thr[o][k]
    <3>1. o = n /\ k = r.key /\ thr'[o][k] = r.thr
      BY <2>2, <1>1, <1>2, <1>4, <1>5
    <3>2. r \in heard'[o]
      BY <3>1, <1>1, <1>3, <1>5
    <3> QED BY <3>1, <3>2
  <2> QED BY <2>1, <2>2
<1>10. ComBounds'
  <2> SUFFICES ASSUME NEW o \in Node, \A q \in heard'[o] : q.key = Com, NEW q \in heard'[o]
               PROVE  q.thr <= comThr'[o]
    BY DEF ComBounds
  <2>1. \A p \in heard[o] : p \in heard'[o]
    BY <1>1, <1>3, <1>5
  <2>2. \A p \in heard[o] : p.thr <= comThr[o]
    BY <2>1 DEF IInv, ComBounds
  <2>3. comThr' = IF New(n, r) THEN [comThr EXCEPT ![n] = r.thr] ELSE comThr
    BY DEF AddRevocation, RaiseThreshold
  <2>4. comThr \in [Node -> Nat]
    BY DEF IInv, TypeOK
  <2>5. CASE o # n
    <3>1. q \in heard[o] /\ comThr'[o] = comThr[o]
      BY <2>3, <2>4, <2>5, <1>1, <1>3, <1>5
    <3> QED BY <3>1, <2>2
  <2>6. CASE o = n
    <3>1. r.key = Com
      BY <2>6, <1>1, <1>3, <1>5
    <3>2. r.thr <= comThr'[n] /\ comThr[n] <= comThr'[n] /\ comThr'[n] \in Nat
      BY <3>1, <2>3, <2>4, <1>1, <1>2 DEF New
    <3>3. q = r \/ q \in heard[n]
      BY <2>6, <1>1, <1>3, <1>5
    <3>4. CASE q \in heard[n]
      <4>1. q \in Revocations /\ q.thr <= comThr[n]
        BY <3>4, <2>2, <2>6, <1>1, <1>5
      <4>2. q.thr \in Nat
        BY <4>1, RevocationTypes
      <4> QED BY <4>1, <4>2, <3>2, <2>4, <2>6, <1>1
    <3> QED BY <3>2, <3>3, <3>4, <2>6
  <2> QED BY <2>5, <2>6
<1>11. ComWitness'
  <2> SUFFICES ASSUME NEW o \in Node, comThr'[o] # 0
               PROVE  \E q \in heard'[o] : q.thr = comThr'[o]
    BY DEF ComWitness
  <2>1. comThr \in [Node -> Nat]
        /\ comThr' = IF New(n, r) THEN [comThr EXCEPT ![n] = r.thr] ELSE comThr
    BY DEF AddRevocation, RaiseThreshold, IInv, TypeOK
  <2>2. CASE comThr'[o] = comThr[o]
    <3>1. PICK q \in heard[o] : q.thr = comThr[o]
      BY <2>2 DEF IInv, ComWitness
    <3>2. q \in heard'[o]
      BY <1>1, <1>3, <1>5, <3>1
    <3> QED BY <2>2, <3>1, <3>2
  <2>3. CASE comThr'[o] # comThr[o]
    <3>1. o = n /\ comThr'[o] = r.thr
      BY <2>1, <2>3, <1>1
    <3>2. r \in heard'[o]
      BY <3>1, <1>1, <1>3, <1>5
    <3> QED BY <3>1, <3>2
  <2> QED BY <2>2, <2>3
<1> QED BY <1>8, <1>9, <1>10, <1>11

------------------------------------------------------------------------------
(* Network::clean *)

LEMMA CleanKeeps ==
    ASSUME NEW n \in Node, NEW gone \in SUBSET Node, IInv, Clean(n, gone)
    PROVE  IInv'
<1>1. entries' \in [Node -> SUBSET Node]
  BY DEF Clean, IInv, TypeOK
<1>2. forgets' \in 0..MaxForgets
  <2>1. forgets' = forgets + Cardinality(gone) /\ forgets' <= MaxForgets /\ forgets \in Nat
    BY DEF Clean, IInv, TypeOK
  <2>2. Cardinality(gone) \in Nat
    BY FS_Subset, FS_CardinalityType, MembershipConstants
  <2> QED BY <2>1, <2>2, MembershipConstants
<1>3. UNCHANGED <<conf, flight, issued>>
  BY DEF Clean
<1>4. CASE Target \in gone
  <2>1. /\ com' = [com EXCEPT ![n] = 0] /\ comThr' = [comThr EXCEPT ![n] = 0]
        /\ thr' = [thr EXCEPT ![n] = [k \in Key |-> 0]]
        /\ cred' = [cred EXCEPT ![n] = [k \in Key |-> 0]]
        /\ heard' = [heard EXCEPT ![n] = {}]
    BY <1>4 DEF Clean
  <2>2. TypeOK'
    BY <1>1, <1>2, <1>3, <2>1 DEF IInv, TypeOK
  <2>3. Bounds' /\ Witness' /\ ComBounds' /\ ComWitness'
    BY <2>1 DEF IInv, TypeOK, Bounds, Witness, ComBounds, ComWitness
  <2> QED BY <2>2, <2>3 DEF IInv
<1>5. CASE Target \notin gone
  <2>1. /\ cred' = [cred EXCEPT ![n] = [k \in Key |-> IF Valid(n, k) THEN cred[n][k] ELSE 0]]
        /\ UNCHANGED <<com, comThr, thr, heard>>
    BY <1>5 DEF Clean
  <2>2. cred' \in [Node -> [Key -> Nat]]
    BY <2>1 DEF IInv, TypeOK
  <2> QED BY <1>1, <1>2, <1>3, <2>1, <2>2 DEF IInv, TypeOK, Bounds, Witness, ComBounds, ComWitness
<1> QED BY <1>4, <1>5

------------------------------------------------------------------------------
(* The rest *)

LEMMA ThresholdsKept ==
    ASSUME IInv, UNCHANGED <<thr, comThr, heard>> PROVE Bounds' /\ Witness' /\ ComBounds' /\ ComWitness'
BY DEF IInv, Bounds, Witness, ComBounds, ComWitness

LEMMA OthersKeep ==
    ASSUME IInv, NEW n \in Node
    PROVE  /\ \A ts \in Stamps : AddCom(n, ts) => IInv'
           /\ \A k \in Key, ts \in Stamps : AddCredential(n, k, ts) => IInv'
           /\ BadCredential(n) => IInv'
           /\ \A ts \in ConfStamps : SetConfiguration(n, ts) => IInv'
<1> USE DEF entry
<1>1. KnowTarget(n) => entries' \in [Node -> SUBSET Node]
  BY MembershipConstants DEF KnowTarget, IInv, TypeOK
<1>2. Stamps \subseteq Nat /\ ConfStamps \subseteq Nat
  BY MembershipConstants
<1>3. ASSUME NEW ts \in Stamps, AddCom(n, ts) PROVE IInv'
  <2>1. com' \in [Node -> Nat]
    BY <1>2, <1>3 DEF AddCom, IInv, TypeOK
  <2>2. TypeOK'
    BY <1>1, <1>3, <2>1 DEF AddCom, IInv, TypeOK
  <2> QED BY <1>3, <2>2, ThresholdsKept DEF AddCom, IInv
<1>4. ASSUME NEW k \in Key, NEW ts \in Stamps, AddCredential(n, k, ts) PROVE IInv'
  <2>1. cred' \in [Node -> [Key -> Nat]]
    <3>1. cred \in [Node -> [Key -> Nat]]
      BY DEF IInv, TypeOK
    <3>2. CASE cred' = cred
      BY <3>1, <3>2
    <3>3. CASE cred' = [cred EXCEPT ![n][k] = ts]
      <4>1. [cred[n] EXCEPT ![k] = ts] \in [Key -> Nat]
        BY <1>2, <3>1
      <4> QED BY <3>1, <3>3, <4>1
    <3> QED BY <1>4, <3>2, <3>3 DEF AddCredential
  <2>2. TypeOK'
    BY <1>1, <1>4, <2>1 DEF AddCredential, IInv, TypeOK
  <2> QED BY <1>4, <2>2, ThresholdsKept DEF AddCredential, IInv
<1>5. ASSUME BadCredential(n) PROVE IInv'
  BY <1>1, <1>5 DEF BadCredential, IInv, TypeOK, Bounds, Witness, ComBounds, ComWitness
<1>6. ASSUME NEW ts \in ConfStamps, SetConfiguration(n, ts) PROVE IInv'
  BY <1>2, <1>6 DEF SetConfiguration, IInv, TypeOK, Bounds, Witness, ComBounds, ComWitness
<1> QED BY <1>3, <1>4, <1>5, <1>6

LEMMA DeferKeeps == ASSUME IInv, NEW m \in flight, DeferForWhois(m) PROVE IInv'
<1>1. m.to \in Node
  BY DEF IInv, TypeOK, Message
<1>2. entries' \in [Node -> SUBSET Node]
  BY <1>1, MembershipConstants DEF DeferForWhois, KnowTarget, IInv, TypeOK
<1> QED BY <1>2 DEF DeferForWhois, entry, IInv, TypeOK, Bounds, Witness, ComBounds, ComWitness

LEMMA RevokeKeeps ==
    ASSUME IInv, NEW r \in Revocations, NEW to \in Online, Revoke(r, to) PROVE IInv'
<1>1. to \subseteq Node
  BY MembershipConstants
<1>2. { [to |-> n, from |-> Controller, rev |-> r] : n \in to } \subseteq Message
  BY <1>1 DEF Message
<1>3. flight' \subseteq Message /\ issued' \subseteq Revocations
  BY <1>2 DEF Revoke, IInv, TypeOK
<1> QED BY <1>3 DEF Revoke, entry, IInv, TypeOK, Bounds, Witness, ComBounds, ComWitness

LEMMA Invariance == Spec => []IInv
<1>1. Init => IInv
  BY MembershipConstants DEF Init, IInv, TypeOK, Bounds, Witness, ComBounds, ComWitness, Message
<1>2. IInv /\ [Next]_vars => IInv'
  <2> SUFFICES ASSUME IInv, [Next]_vars PROVE IInv'
    OBVIOUS
  <2>1. Watching \subseteq Node
    BY MembershipConstants
  <2>2. CASE UNCHANGED vars
    BY <2>2 DEF vars, entry, IInv, TypeOK, Bounds, Witness, ComBounds, ComWitness
  <2>3. ASSUME NEW n \in Watching,
               \/ \E ts \in Stamps : AddCom(n, ts)
               \/ \E k \in Key, ts \in Stamps : AddCredential(n, k, ts)
               \/ BadCredential(n)
               \/ \E ts \in ConfStamps : SetConfiguration(n, ts)
        PROVE  IInv'
    BY <2>1, <2>3, OthersKeep
  <2>4. ASSUME NEW n \in Watching, NEW gone \in SUBSET Node, Clean(n, gone) PROVE IInv'
    BY <2>1, <2>4, CleanKeeps
  <2>5. ASSUME NEW m \in flight, AddRevocation(m) PROVE IInv'
    BY <2>5, AddRevocationTypes, AddRevocationKeeps DEF IInv
  <2>6. ASSUME NEW m \in flight, DeferForWhois(m) PROVE IInv'
    BY <2>6, DeferKeeps
  <2>7. ASSUME NEW r \in Revocations, NEW to \in Online, Revoke(r, to) PROVE IInv'
    BY <2>7, RevokeKeeps
  <2> QED BY <2>2, <2>3, <2>4, <2>5, <2>6, <2>7 DEF Next
<1> QED BY <1>1, <1>2, PTL DEF Spec

(* The types: every message in flight is between members or from the       *)
(* controller, whoever passed it on.                                       *)
THEOREM MembershipTypes == Spec => []TypeOK
BY Invariance, PTL DEF IInv

(* Whatever came first, a credential a node goes by is newer than every    *)
(* revocation of it that the node accepted.                                *)
THEOREM RevokedIsOut == Spec => []RevokedStaysOut
<1>1. IInv => RevokedStaysOut
  <2> SUFFICES ASSUME IInv, NEW n \in Node, NEW r \in heard[n], r.key \in Key, Valid(n, r.key)
               PROVE  cred[n][r.key] > r.thr
    BY DEF RevokedStaysOut
  <2>1. r \in Revocations
    BY DEF IInv, TypeOK
  <2>2. r.thr \in Nat
    BY <2>1, RevocationTypes
  <2>3. r.thr <= thr[n][r.key] /\ cred[n][r.key] > thr[n][r.key]
    BY DEF IInv, Bounds, Valid
  <2>4. cred[n][r.key] \in Nat /\ thr[n][r.key] \in Nat
    BY DEF IInv, TypeOK
  <2> QED BY <2>2, <2>3, <2>4
<1> QED BY <1>1, Invariance, PTL

(* The order of revocations makes no difference to the credentials other   *)
(* than the COM: nodes that accepted the same ones have the same           *)
(* thresholds.  It makes none to the COM where all were of the COM.        *)
THEOREM OrderIrrelevant == Spec => []SameRevocations
<1>1. IInv => SameRevocations
  <2> SUFFICES ASSUME IInv, NEW n \in Node, NEW o \in Node, heard[n] = heard[o]
               PROVE  /\ thr[n] = thr[o]
                      /\ (\A r \in heard[n] : r.key = Com) => comThr[n] = comThr[o]
    BY DEF SameRevocations
  <2>1. thr[n] \in [Key -> Nat] /\ thr[o] \in [Key -> Nat]
    BY DEF IInv, TypeOK
  <2>2. ASSUME NEW i \in Node, NEW j \in Node, heard[i] = heard[j], NEW k \in Key
        PROVE  thr[i][k] <= thr[j][k]
    <3>1. thr[i][k] \in Nat /\ thr[j][k] \in Nat
      BY DEF IInv, TypeOK
    <3>2. CASE thr[i][k] = 0
      BY <3>1, <3>2
    <3>3. CASE thr[i][k] # 0
      <4>1. PICK r \in heard[i] : r.key = k /\ r.thr = thr[i][k]
        BY <3>3 DEF IInv, Witness
      <4>2. r \in heard[j]
        BY <4>1, <2>2
      <4> QED BY <4>1, <4>2 DEF IInv, Bounds
    <3> QED BY <3>2, <3>3
  <2>3. \A k \in Key : thr[n][k] = thr[o][k]
    <3> SUFFICES ASSUME NEW k \in Key PROVE thr[n][k] = thr[o][k]
      OBVIOUS
    <3>1. thr[n][k] <= thr[o][k] /\ thr[o][k] <= thr[n][k]
      BY <2>2
    <3> QED BY <3>1, <2>1
  <2>4. ASSUME NEW i \in Node, NEW j \in Node, heard[i] = heard[j],
               \A r \in heard[i] : r.key = Com
        PROVE  comThr[i] <= comThr[j]
    <3>1. comThr[i] \in Nat /\ comThr[j] \in Nat
      BY DEF IInv, TypeOK
    <3>2. CASE comThr[i] = 0
      BY <3>1, <3>2
    <3>3. CASE comThr[i] # 0
      <4>1. PICK r \in heard[i] : r.thr = comThr[i]
        BY <3>3 DEF IInv, ComWitness
      <4>2. r.thr <= comThr[j]
        BY <4>1, <2>4 DEF IInv, ComBounds
      <4> QED BY <4>1, <4>2
    <3> QED BY <3>2, <3>3
  <2>5. ASSUME \A r \in heard[n] : r.key = Com
        PROVE  comThr[n] = comThr[o]
    <3>1. comThr[n] \in Nat /\ comThr[o] \in Nat
      BY DEF IInv, TypeOK
    <3>2. comThr[n] <= comThr[o] /\ comThr[o] <= comThr[n]
      BY <2>4, <2>5
    <3> QED BY <3>1, <3>2
  <2>6. thr[n] = thr[o]
    BY <2>1, <2>3
  <2> QED BY <2>5, <2>6
<1> QED BY <1>1, Invariance, PTL

(* A node that heard of revocations of the COM only, which is all that the *)
(* controller issues, lets nobody in with a COM from before one of them.   *)
THEOREM ComRevocationsAreHeld == Spec => []ComRevocationsHold
<1>1. IInv => ComRevocationsHold
  <2> SUFFICES ASSUME IInv, NEW n \in Node, Allowed(n), \A r \in heard[n] : r.key = Com,
                      NEW r \in heard[n]
               PROVE  com[n] > r.thr
    BY DEF ComRevocationsHold
  <2>1. r \in Revocations /\ r.thr <= comThr[n] /\ com[n] > comThr[n]
    BY DEF IInv, TypeOK, ComBounds, Allowed
  <2>2. r.thr \in Nat /\ com[n] \in Nat /\ comThr[n] \in Nat
    BY <2>1, RevocationTypes DEF IInv, TypeOK
  <2> QED BY <2>1, <2>2
<1> QED BY <1>1, Invariance, PTL

------------------------------------------------------------------------------
(* Chunks of configurations *)

(* The positions of a slot's update that have been filled *)
Positions(c) == { i \in Index : <<c.updateId, i>> \in c.haveChunkIds }

(* The count of a slot is that of its chunks, and their data are there. *)
Sound(c) ==
    c.updateId \in Update =>
        /\ c.have = Cardinality(Positions(c))
        /\ \A i \in Positions(c) : c.data[i] = c.updateId

ChunkInv ==
    /\ ChunkTypeOK
    /\ \A s \in Slot : Sound(slot[s])
    /\ NoMixture

LEMMA TotalType == \A u \in Id : Total(u) \in Nat \ {0} /\ 1..Total(u) \subseteq Index
BY ConfigChunksConstants DEF Total, Id, Index

LEMMA ClaimedSound ==
    ASSUME ChunkTypeOK, NEW s \in Slot, NEW u \in Id, Sound(slot[s])
    PROVE  /\ Claimed(s, u) \in SlotState
           /\ Claimed(s, u).updateId = u
           /\ Sound(Claimed(s, u))
           /\ Claimed(s, u).haveChunkIds = IF Has(s, u) THEN slot[s].haveChunkIds ELSE {}
<1>1. slot[s] \in SlotState
  BY DEF ChunkTypeOK
<1>2. CASE Has(s, u)
  <2>1. Claimed(s, u) = [slot[s] EXCEPT !.ts = @ + 1]
    BY <1>2 DEF Claimed
  <2>2. /\ Claimed(s, u) \in SlotState
        /\ Claimed(s, u).updateId = u
        /\ Claimed(s, u).haveChunkIds = slot[s].haveChunkIds
        /\ Claimed(s, u).have = slot[s].have
        /\ Claimed(s, u).data = slot[s].data
    BY <1>1, <1>2, <2>1 DEF SlotState, Has
  <2>3. Positions(Claimed(s, u)) = Positions(slot[s])
    BY <1>2, <2>2 DEF Positions, Has
  <2> QED BY <1>2, <2>2, <2>3 DEF Sound, Has
<1>3. CASE ~Has(s, u)
  <2>1. Claimed(s, u) = [slot[s] EXCEPT !.ts = @ + 1, !.updateId = u,
                                        !.haveChunkIds = {}, !.have = 0]
    BY <1>3 DEF Claimed
  <2>2. /\ Claimed(s, u) \in SlotState
        /\ Claimed(s, u).updateId = u
        /\ Claimed(s, u).haveChunkIds = {}
        /\ Claimed(s, u).have = 0
    <3>1. Claimed(s, u) = [ts |-> slot[s].ts + 1, updateId |-> u, haveChunkIds |-> {},
                           have |-> 0, data |-> slot[s].data]
      BY <1>1, <2>1 DEF SlotState
    <3>2. slot[s].ts + 1 \in Nat /\ 0 \in 0..MaxChunks
      BY <1>1, ConfigChunksConstants DEF SlotState
    <3>3. slot[s].data \in [Index -> Id \cup {NoUpdate}]
      BY <1>1 DEF SlotState
    <3> QED BY <3>1, <3>2, <3>3 DEF SlotState
  <2>3. Positions(Claimed(s, u)) = {}
    BY <2>2 DEF Positions
  <2>4. Sound(Claimed(s, u))
    BY <2>2, <2>3, FS_EmptySet DEF Sound
  <2> QED BY <1>3, <2>2, <2>4
<1> QED BY <1>2, <1>3

(* Another chunk leaves a slot sound, and a slot with as many chunks as    *)
(* its update has holds the update.                                        *)
LEMMA WithSound ==
    ASSUME NEW c \in SlotState, NEW u \in Id, c.updateId = u, Sound(c),
           NEW i \in 1..Total(u), <<u, i>> \notin c.haveChunkIds \/ u \in Legacy, ~Full(c)
    PROVE  LET d == With(c, u, i)
           IN /\ d \in SlotState /\ Sound(d)
              /\ d.have = Total(u) => [j \in 1..Total(u) |-> d.data[j]] = Whole(u)
<1> DEFINE d == With(c, u, i)
<1>1. i \in Index /\ <<u, i>> \in Chunk
  BY TotalType DEF Chunk
<1>2. /\ d.updateId = u /\ d.have = c.have + 1
      /\ d.haveChunkIds = c.haveChunkIds \cup {<<u, i>>}
      /\ d.data = [c.data EXCEPT ![i] = u]
      /\ d = [ts |-> c.ts, updateId |-> d.updateId, haveChunkIds |-> d.haveChunkIds,
              have |-> d.have, data |-> d.data]
  BY DEF With
<1>3. d \in SlotState
  <2>1. c.have + 1 \in 0..MaxChunks
    BY ConfigChunksConstants DEF SlotState, Full
  <2>2. [c.data EXCEPT ![i] = u] \in [Index -> Id \cup {NoUpdate}]
    BY <1>1 DEF SlotState
  <2> QED BY <1>1, <1>2, <2>1, <2>2 DEF SlotState
<1>4. CASE u \in Legacy
  <2>1. u \notin Update /\ Total(u) = 1 /\ i = 1
    BY <1>4, ConfigChunksConstants DEF Total
  <2>2. d.data[1] = u
    BY <1>1, <1>2, <2>1 DEF SlotState
  <2> QED BY <1>2, <1>3, <2>1, <2>2 DEF Sound, Whole
<1>5. CASE u \in Update
  <2>1. /\ u \notin Legacy
        /\ Positions(d) = Positions(c) \cup {i} /\ i \notin Positions(c)
    BY <1>1, <1>2, <1>5, ConfigChunksConstants DEF Positions
  <2>2. \A j \in Positions(d) : d.data[j] = u
    BY <1>1, <1>2, <1>5, <2>1 DEF Sound, Positions, SlotState
  <2>3. IsFiniteSet(1..Total(u)) /\ Cardinality(1..Total(u)) = Total(u)
    BY FS_Interval, TotalType
  <2>4. Positions(d) \in SUBSET (1..Total(u)) /\ Positions(c) \in SUBSET (1..Total(u))
    <3>1. d.haveChunkIds \subseteq Chunk /\ c.haveChunkIds \subseteq Chunk
      BY <1>3 DEF SlotState
    <3>2. \A j \in Index : <<u, j>> \in Chunk => j \in 1..Total(u)
      BY TotalType DEF Chunk, Index
    <3> QED BY <1>2, <3>1, <3>2 DEF Positions
  <2>5. d.have = Cardinality(Positions(d))
    <3>1. IsFiniteSet(Positions(c))
      BY <2>3, <2>4, FS_Subset
    <3>2. Cardinality(Positions(c) \cup {i}) = Cardinality(Positions(c)) + 1
      BY <2>1, <3>1, FS_AddElement
    <3> QED BY <1>2, <1>5, <2>1, <3>2 DEF Sound
  <2>6. d.have = Total(u) => Positions(d) = 1..Total(u)
    BY <2>3, <2>4, <2>5, FS_Subset
  <2>7. d.have = Total(u) => [j \in 1..Total(u) |-> d.data[j]] = Whole(u)
    BY <2>2, <2>6 DEF Whole
  <2> QED BY <1>2, <1>3, <2>2, <2>5, <2>7 DEF Sound
<1> QED BY <1>4, <1>5 DEF Id

LEMMA StoreKeeps ==
    ASSUME ChunkInv, NEW s \in Slot, NEW u \in Id, NEW i \in 1..Total(u),
           NEW flooded \in SUBSET (Member \X Chunk),
           ~Duplicate(s, u, i) \/ u \in Legacy, Store(s, u, i, flooded)
    PROVE  ChunkInv'
<1> DEFINE claimed == Claimed(s, u)
           c == IF Full(claimed) THEN claimed ELSE With(claimed, u, i)
           complete == ~Full(claimed) /\ c.have = Total(u)
<1>1. /\ claimed \in SlotState /\ claimed.updateId = u /\ Sound(claimed)
      /\ <<u, i>> \notin claimed.haveChunkIds \/ u \in Legacy
  BY ClaimedSound DEF ChunkInv, Duplicate
<1>2. c \in SlotState /\ Sound(c)
  BY <1>1, WithSound
<1>3. complete => [j \in 1..Total(u) |-> c.data[j]] = Whole(u)
  BY <1>1, WithSound
<1>4. slot' = [slot EXCEPT ![s] = c]
  BY DEF Store
<1>5. made' \subseteq made \cup {Whole(u)}
  BY <1>3 DEF Store
<1>6. (\A o \in Slot : Sound(slot[o]))'
  BY <1>2, <1>4 DEF ChunkInv, ChunkTypeOK, Sound, Positions
<1>7. NoMixture'
  BY <1>5 DEF ChunkInv, NoMixture
<1>8. ChunkTypeOK'
  <2>1. (slot \in [Slot -> SlotState])'
    BY <1>2, <1>4 DEF ChunkInv, ChunkTypeOK
  <2>2. (got \subseteq Chunk)'
    BY TotalType DEF ChunkInv, ChunkTypeOK, Store, Chunk
  <2>3. Whole(u) \in [1..Total(u) -> Id \cup {NoUpdate}]
    BY DEF Whole
  <2>4. (\A d \in made : \E v \in Id : d \in [1..Total(v) -> Id \cup {NoUpdate}])'
    BY <1>5, <2>3 DEF ChunkInv, ChunkTypeOK
  <2>5. (sent \subseteq Member \X Chunk)'
    BY DEF ChunkInv, ChunkTypeOK, Store
  <2>6. (twice \subseteq Id)'
    BY DEF ChunkInv, ChunkTypeOK, Store
  <2> QED BY <2>1, <2>2, <2>4, <2>5, <2>6 DEF ChunkTypeOK
<1> QED BY <1>6, <1>7, <1>8 DEF ChunkInv

LEMMA ChunkInitially == ChunkInit => ChunkInv
<1> SUFFICES ASSUME ChunkInit PROVE ChunkInv
  OBVIOUS
<1>1. slot \in [Slot -> SlotState]
  BY ConfigChunksConstants DEF ChunkInit, SlotState
<1>2. ChunkTypeOK
  BY <1>1 DEF ChunkInit, ChunkTypeOK
<1>3. \A s \in Slot : Sound(slot[s])
  BY ConfigChunksConstants DEF ChunkInit, Sound
<1> QED BY <1>2, <1>3 DEF ChunkInit, ChunkInv, NoMixture

LEMMA ChunkStep == ChunkInv /\ [ChunkNext]_chunkVars => ChunkInv'
<1> SUFFICES ASSUME ChunkInv, [ChunkNext]_chunkVars PROVE ChunkInv'
  OBVIOUS
<1>1. ASSUME NEW source \in Member \cup {NetController}, NEW u \in Update, NEW i \in 1..Length[u],
             HandleChunk(source, u, i)
      PROVE  ChunkInv'
  <2>1. u \in Id /\ i \in 1..Total(u) /\ <<u, i>> \in Chunk
    BY TotalType DEF Id, Total, Chunk
  <2>2. (IF u \in Fast THEN (Member \ {source}) \X {<<u, i>>} ELSE {}) \in SUBSET (Member \X Chunk)
    BY <2>1
  <2> QED BY <1>1, <2>1, <2>2, StoreKeeps DEF HandleChunk
<1>2. ASSUME NEW u \in Legacy, HandleLegacy(u)
      PROVE  ChunkInv'
  <2>1. u \in Id /\ 1 \in 1..Total(u)
    BY TotalType DEF Id
  <2> QED BY <1>2, <2>1, StoreKeeps DEF HandleLegacy
<1>3. CASE UNCHANGED chunkVars
  BY <1>3 DEF chunkVars, ChunkInv, ChunkTypeOK, NoMixture, Sound, Positions
<1> QED BY <1>1, <1>2, <1>3 DEF ChunkNext

(* Slots, counts and data keep their types, and a slot never holds more    *)
(* chunks than fit.                                                        *)
THEOREM ConfigChunksTypes == ChunkSpec => []ChunkTypeOK
<1>1. ChunkInv => ChunkTypeOK
  BY DEF ChunkInv
<1> QED BY <1>1, ChunkInitially, ChunkStep, PTL DEF ChunkSpec

(* What is handed to setConfiguration is one update, whatever the order    *)
(* and the repetitions of the chunks and whichever slots change hands.     *)
THEOREM NeverMixed == ChunkSpec => []NoMixture
<1>1. ChunkInv => NoMixture
  BY DEF ChunkInv
<1> QED BY <1>1, ChunkInitially, ChunkStep, PTL DEF ChunkSpec

(* As long as there is room, a slot has been handed to each update that    *)
(* was heard of, and to nothing else; it has just the chunks that came,    *)
(* and a slot never used has the smallest counter.                         *)
OneSlotEach ==
    /\ \A s \in Slot : \/ slot[s].updateId = NoUpdate /\ slot[s].ts = 0
                       \/ slot[s].updateId \in Heard /\ slot[s].ts > 0
    /\ \A u \in Heard : \E s \in Slot : Has(s, u)
    /\ \A s, o \in Slot : slot[s].updateId \in Heard /\ Has(o, slot[s].updateId) => s = o
    /\ \A s \in Slot, i \in Index :
          slot[s].updateId \in Heard =>
             (<<slot[s].updateId, i>> \in slot[s].haveChunkIds
                <=> <<slot[s].updateId, i>> \in got)

Amounts ==
    /\ IsFiniteSet(Heard)
    /\ sent \subseteq Member \X got
    /\ Room => OneSlotEach /\ UsedOnce

LEMMA SlotsFinite == IsFiniteSet(Slot) /\ Cardinality(Slot) = Slots
BY FS_Interval, ConfigChunksConstants DEF Slot

LEMMA UpdateType == \A u \in Update : u \in Id /\ u # NoUpdate /\ Total(u) = Length[u]
BY ConfigChunksConstants DEF Id, Total

LEMMA WholeInjective ==
    ASSUME NEW u \in Id, NEW v \in Id, Whole(u) = Whole(v)
    PROVE  u = v
<1>1. 1 \in 1..Total(u) /\ 1 \in 1..Total(v)
  BY TotalType
<1>2. Whole(u)[1] = u /\ Whole(v)[1] = v
  BY <1>1 DEF Whole
<1> QED BY <1>2

LEMMA HeardGrows ==
    ASSUME NEW u, NEW i, got' = got \cup {<<u, i>>}
    PROVE  Heard' = Heard \cup {u}
<1>1. Heard' = {c[1] : c \in got \cup {<<u, i>>}}
  BY DEF Heard
<1>2. ASSUME NEW c \in got \cup {<<u, i>>} PROVE c[1] \in Heard \cup {u}
  BY <1>2 DEF Heard
<1>3. u \in {c[1] : c \in got \cup {<<u, i>>}}
  <2>1. <<u, i>> \in got \cup {<<u, i>>} /\ <<u, i>>[1] = u
    OBVIOUS
  <2> QED BY <2>1
<1>4. Heard \subseteq {c[1] : c \in got \cup {<<u, i>>}}
  BY DEF Heard
<1> QED BY <1>1, <1>2, <1>3, <1>4

LEMMA RoomBefore ==
    ASSUME NEW u, Heard' = Heard \cup {u}, IsFiniteSet(Heard), Room'
    PROVE  Room /\ u \in Update /\ (u \notin Heard => Cardinality(Heard) < Slots)
<1>1. /\ IsFiniteSet(Heard \cup {u})
      /\ Cardinality(Heard \cup {u}) =
            IF u \in Heard THEN Cardinality(Heard) ELSE Cardinality(Heard) + 1
  BY FS_AddElement
<1>2. Cardinality(Heard) \in Nat
  BY FS_CardinalityType
<1> QED BY <1>1, <1>2, ConfigChunksConstants DEF Room

(* The slot for an update is its own, or one that was never used.          *)
LEMMA SlotIsFree ==
    ASSUME ChunkInv, Amounts, NEW s \in Slot, NEW u \in Update, SlotFor(s, u),
           Room, u \notin Heard => Cardinality(Heard) < Slots
    PROVE  /\ u \in Heard => Has(s, u)
           /\ u \notin Heard => slot[s].updateId = NoUpdate /\ ~Has(s, u)
<1>0. OneSlotEach
  BY DEF Amounts
<1>1. CASE u \in Heard
  <2>1. \E o \in Slot : Has(o, u)
    BY <1>0, <1>1 DEF OneSlotEach
  <2> QED BY <1>1, <2>1 DEF SlotFor
<1>2. CASE u \notin Heard
  <2>1. \A o \in Slot : ~Has(o, u)
    BY <1>0, <1>2, UpdateType DEF OneSlotEach, Has
  <2>2. Lowest(s)
    BY <2>1 DEF SlotFor
  <2>3. PICK o \in Slot : slot[o].updateId \notin Heard
    <3> SUFFICES ASSUME \A o \in Slot : slot[o].updateId \in Heard PROVE FALSE
      OBVIOUS
    <3> DEFINE f == [o \in Slot |-> slot[o].updateId]
    <3>1. f \in [Slot -> Heard]
      OBVIOUS
    <3>2. Cardinality(Heard) < Cardinality(Slot)
      BY <1>2, SlotsFinite
    <3>3. IsFiniteSet(Heard)
      BY DEF Amounts
    <3> HIDE DEF f
    <3>4. \E x, y \in Slot : x # y /\ f[x] = f[y]
      BY <3>1, <3>2, <3>3, SlotsFinite, FS_PigeonHole
    <3> QED BY <1>0, <3>4 DEF f, OneSlotEach, Has
  <2>4. slot[o].ts = 0
    BY <1>0, <2>3 DEF OneSlotEach
  <2>5. slot[s].ts \in Nat
    BY DEF ChunkInv, ChunkTypeOK, SlotState
  <2>6. ~(slot[s].ts > 0)
    BY <2>2, <2>4, <2>5 DEF Lowest
  <2> QED BY <1>0, <1>2, <2>1, <2>6 DEF OneSlotEach
<1> QED BY <1>1, <1>2

(* A chunk that is news goes into a slot with the other chunks of its      *)
(* update that came, there is room for it, and it completes the update     *)
(* when all others are there.                                              *)
LEMMA NewsFits ==
    ASSUME ChunkInv, Amounts, NEW s \in Slot, NEW u \in Update, NEW i \in 1..Length[u],
           SlotFor(s, u), ~Duplicate(s, u, i),
           Room, u \notin Heard => Cardinality(Heard) < Slots
    PROVE  /\ <<u, i>> \notin got
           /\ \A j \in Index : <<u, j>> \in Claimed(s, u).haveChunkIds <=> <<u, j>> \in got
           /\ ~Full(Claimed(s, u))
           /\ Claimed(s, u).have + 1 = Total(u)
                <=> {u} \X (1..Length[u]) \subseteq got \cup {<<u, i>>}
<1> DEFINE c == Claimed(s, u)
<1>0. OneSlotEach /\ u \in Id /\ Total(u) = Length[u] /\ i \in Index
  BY UpdateType, TotalType DEF Amounts
<1>1. /\ c \in SlotState /\ c.updateId = u /\ Sound(c)
      /\ c.haveChunkIds = IF Has(s, u) THEN slot[s].haveChunkIds ELSE {}
  BY <1>0, ClaimedSound DEF ChunkInv
<1>2. u \notin Heard => \A j : <<u, j>> \notin got
  BY DEF Heard
<1>3. \A j \in Index : <<u, j>> \in c.haveChunkIds <=> <<u, j>> \in got
  <2>1. CASE u \in Heard
    <3>1. Has(s, u)
      BY <2>1, SlotIsFree
    <3> QED BY <1>0, <1>1, <2>1, <3>1 DEF OneSlotEach, Has
  <2>2. CASE u \notin Heard
    <3>1. ~Has(s, u)
      BY <2>2, SlotIsFree
    <3> QED BY <1>1, <1>2, <2>2, <3>1
  <2> QED BY <2>1, <2>2
<1>4. <<u, i>> \notin got
  <2>1. CASE Has(s, u)
    BY <1>0, <1>1, <1>3, <2>1 DEF Duplicate
  <2>2. CASE ~Has(s, u)
    BY <1>0, <1>1, <1>3, <2>2
  <2> QED BY <2>1, <2>2
<1>5. Positions(c) \in SUBSET (1..Total(u)) /\ i \notin Positions(c)
  <2>1. c.haveChunkIds \subseteq Chunk
    BY <1>1 DEF SlotState
  <2>2. \A j \in Index : <<u, j>> \in Chunk => j \in 1..Total(u)
    BY <1>0, TotalType DEF Chunk, Index
  <2> QED BY <1>0, <1>1, <1>3, <1>4, <2>1, <2>2 DEF Positions
<1>6. /\ IsFiniteSet(1..Total(u)) /\ Cardinality(1..Total(u)) = Total(u)
      /\ Total(u) \in Nat
  <2>1. Total(u) \in Nat /\ Total(u) >= 1
    BY <1>0, TotalType
  <2> QED BY <2>1, FS_Interval
<1>7. /\ IsFiniteSet(Positions(c)) /\ Cardinality(Positions(c)) \in Nat
      /\ c.have = Cardinality(Positions(c))
  BY <1>1, <1>5, <1>6, FS_Subset, FS_CardinalityType DEF Sound
<1> DEFINE P == Positions(c) \cup {i}
<1>8. IsFiniteSet(P) /\ Cardinality(P) = c.have + 1 /\ P \in SUBSET (1..Total(u))
  BY <1>0, <1>5, <1>7, FS_AddElement
<1>9. Cardinality(P) <= Total(u) /\ (Cardinality(P) = Total(u) <=> P = 1..Total(u))
  BY <1>6, <1>8, FS_Subset
<1>10. ~Full(c)
  BY <1>0, <1>6, <1>7, <1>8, <1>9, ConfigChunksConstants DEF Full
<1>11. P = 1..Total(u) <=> {u} \X (1..Length[u]) \subseteq got \cup {<<u, i>>}
  <2>1. \A j \in 1..Total(u) : j \in P <=> <<u, j>> \in got \cup {<<u, i>>}
    BY <1>0, <1>1, <1>3, TotalType DEF Positions
  <2>2. P = 1..Total(u) <=> \A j \in 1..Total(u) : j \in P
    BY <1>8
  <2>3. {u} \X (1..Length[u]) \subseteq got \cup {<<u, i>>}
          <=> \A j \in 1..Total(u) : <<u, j>> \in got \cup {<<u, i>>}
    BY <1>0
  <2> HIDE DEF P
  <2> QED BY <2>1, <2>2, <2>3
<1> QED BY <1>3, <1>4, <1>8, <1>9, <1>10, <1>11

LEMMA NewsKeepsAmounts ==
    ASSUME ChunkInv, Amounts, NEW s \in Slot, NEW u \in Update, NEW i \in 1..Length[u],
           SlotFor(s, u), ~Duplicate(s, u, i),
           NEW flooded \in SUBSET (Member \X {<<u, i>>}),
           Store(s, u, i, flooded)
    PROVE  Amounts'
<1> DEFINE claimed == Claimed(s, u)
           c == IF Full(claimed) THEN claimed ELSE With(claimed, u, i)
           complete == ~Full(claimed) /\ c.have = Total(u)
<1>1. /\ got' = got \cup {<<u, i>>} /\ sent' = sent \cup flooded
      /\ slot' = [slot EXCEPT ![s] = c]
      /\ made' = made \cup (IF complete THEN {[j \in 1..Total(u) |-> c.data[j]]} ELSE {})
      /\ twice' = twice \cup (IF (complete /\ Whole(u) \in made) \/ sent \cap flooded # {}
                              THEN {u} ELSE {})
  BY DEF Store
<1>2. Heard' = Heard \cup {u}
  BY <1>1, HeardGrows
<1>3. IsFiniteSet(Heard')
  BY <1>2, FS_AddElement DEF Amounts
<1>4. sent' \subseteq Member \X got'
  BY <1>1 DEF Amounts
<1>5. ASSUME Room' PROVE OneSlotEach' /\ UsedOnce'
  <2>1. Room /\ (u \notin Heard => Cardinality(Heard) < Slots)
    BY <1>2, <1>5, RoomBefore DEF Amounts
  <2>2. OneSlotEach /\ UsedOnce
    BY <2>1 DEF Amounts
  <2>3. /\ <<u, i>> \notin got
        /\ \A j \in Index : <<u, j>> \in claimed.haveChunkIds <=> <<u, j>> \in got
        /\ ~Full(claimed)
        /\ claimed.have + 1 = Total(u)
             <=> {u} \X (1..Length[u]) \subseteq got \cup {<<u, i>>}
    BY <2>1, NewsFits
  <2>4. /\ u \in Heard => Has(s, u)
        /\ u \notin Heard => slot[s].updateId = NoUpdate /\ ~Has(s, u)
    BY <2>1, SlotIsFree
  <2>5. /\ claimed \in SlotState /\ claimed.updateId = u /\ Sound(claimed)
        /\ u \in Id /\ Total(u) = Length[u] /\ i \in Index
    BY UpdateType, TotalType, ClaimedSound DEF ChunkInv
  <2>6. /\ c.updateId = u /\ c.have = claimed.have + 1 /\ c.ts = claimed.ts
        /\ c.haveChunkIds = claimed.haveChunkIds \cup {<<u, i>>}
    BY <2>3 DEF With
  <2>7. c.ts > 0
    <3>1. slot[s] \in SlotState
      BY DEF ChunkInv, ChunkTypeOK
    <3>2. claimed.ts = slot[s].ts + 1
      BY <3>1 DEF Claimed, SlotState
    <3> QED BY <2>6, <3>1, <3>2 DEF SlotState
  <2>8. complete => [j \in 1..Total(u) |-> c.data[j]] = Whole(u)
    BY <2>3, <2>5, WithSound
  <2>9. complete <=> {u} \X (1..Length[u]) \subseteq got'
    BY <1>1, <2>3, <2>6
  <2>10. Whole(u) \notin made
    BY <2>1, <2>2, <2>3 DEF UsedOnce
  <2>11. slot \in [Slot -> SlotState]
    BY DEF ChunkInv, ChunkTypeOK
  <2>12. \A o \in Slot : slot'[o] = IF o = s THEN c ELSE slot[o]
    BY <1>1, <2>11
  <2>13. \A o \in Slot \ {s} : ~Has(o, u)
    <3>1. CASE u \in Heard
      BY <2>2, <2>4, <3>1 DEF OneSlotEach, Has
    <3>2. CASE u \notin Heard
      BY <2>2, <3>2, UpdateType DEF OneSlotEach, Has
    <3> QED BY <3>1, <3>2
  <2> HIDE DEF c, claimed
  <2>14. OneSlotEach'
    <3>1. (\A o \in Slot : \/ slot[o].updateId = NoUpdate /\ slot[o].ts = 0
                           \/ slot[o].updateId \in Heard /\ slot[o].ts > 0)'
      BY <1>2, <2>2, <2>6, <2>7, <2>12 DEF OneSlotEach
    <3>2. (\A v \in Heard : \E o \in Slot : Has(o, v))'
      <4> SUFFICES ASSUME NEW v \in Heard \cup {u} PROVE \E o \in Slot : slot'[o].updateId = v
        BY <1>2 DEF Has
      <4>1. CASE v = u
        BY <2>6, <2>12, <4>1
      <4>2. CASE v # u
        <5>1. PICK o \in Slot : slot[o].updateId = v
          BY <2>2, <4>2 DEF OneSlotEach, Has
        <5>2. v # NoUpdate
          BY <4>2, <2>1, UpdateType DEF Room
        <5>3. o # s
          BY <2>4, <4>2, <5>1, <5>2 DEF Has
        <5> QED BY <2>12, <5>1, <5>3
      <4> QED BY <4>1, <4>2
    <3>3. (\A x, o \in Slot : slot[x].updateId \in Heard /\ Has(o, slot[x].updateId) => x = o)'
      <4> SUFFICES ASSUME NEW x \in Slot, NEW o \in Slot, slot'[x].updateId \in Heard \cup {u},
                          slot'[o].updateId = slot'[x].updateId
                   PROVE  x = o
        BY <1>2 DEF Has
      <4>1. CASE slot'[x].updateId = u
        BY <2>12, <2>13, <4>1 DEF Has
      <4>2. CASE slot'[x].updateId # u
        <5>1. x # s /\ o # s
          BY <2>6, <2>12, <4>2
        <5> QED BY <2>2, <2>12, <4>2, <5>1 DEF OneSlotEach, Has
      <4> QED BY <4>1, <4>2
    <3>4. (\A o \in Slot, j \in Index :
              slot[o].updateId \in Heard =>
                 (<<slot[o].updateId, j>> \in slot[o].haveChunkIds
                    <=> <<slot[o].updateId, j>> \in got))'
      <4> SUFFICES ASSUME NEW o \in Slot, NEW j \in Index, slot'[o].updateId \in Heard \cup {u}
                   PROVE  <<slot'[o].updateId, j>> \in slot'[o].haveChunkIds
                            <=> <<slot'[o].updateId, j>> \in got'
        BY <1>2
      <4>1. CASE o = s
        BY <1>1, <2>3, <2>6, <2>12, <4>1
      <4>2. CASE o # s
        <5>1. slot'[o] = slot[o] /\ slot[o].updateId # u
          BY <2>12, <2>13, <4>2 DEF Has
        <5> QED BY <1>1, <2>2, <5>1 DEF OneSlotEach
      <4> QED BY <4>1, <4>2
    <3> QED BY <3>1, <3>2, <3>3, <3>4 DEF OneSlotEach
  <2>15. twice' = {}
    <3>1. sent \cap flooded = {}
      BY <2>3 DEF Amounts
    <3>2. twice = {}
      BY <2>1, <2>2 DEF UsedOnce
    <3> QED BY <1>1, <2>10, <3>1, <3>2
  <2>16. ASSUME NEW v \in Update
         PROVE  Whole(v) \in made' <=> {v} \X (1..Length[v]) \subseteq got'
    <3>1. CASE v = u
      BY <1>1, <2>8, <2>9, <2>10, <3>1
    <3>2. CASE v # u
      <4>1. Whole(v) # Whole(u)
        BY <2>5, <3>2, UpdateType, WholeInjective
      <4>2. Whole(v) \in made' <=> Whole(v) \in made
        BY <1>1, <2>8, <4>1
      <4>3. {v} \X (1..Length[v]) \subseteq got' <=> {v} \X (1..Length[v]) \subseteq got
        BY <1>1, <3>2
      <4> QED BY <2>1, <2>2, <4>2, <4>3 DEF UsedOnce
    <3> QED BY <3>1, <3>2
  <2> QED BY <2>14, <2>15, <2>16 DEF UsedOnce
<1> QED BY <1>3, <1>4, <1>5 DEF Amounts

LEMMA ChunkStepAmounts == ChunkInv /\ Amounts /\ [ChunkNext]_chunkVars => Amounts'
<1> SUFFICES ASSUME ChunkInv, Amounts, [ChunkNext]_chunkVars PROVE Amounts'
  OBVIOUS
<1>1. ASSUME NEW source \in Member \cup {NetController}, NEW u \in Update, NEW i \in 1..Length[u],
             HandleChunk(source, u, i)
      PROVE  Amounts'
  <2>1. (IF u \in Fast THEN (Member \ {source}) \X {<<u, i>>} ELSE {})
          \in SUBSET (Member \X {<<u, i>>})
    OBVIOUS
  <2> QED BY <1>1, <2>1, NewsKeepsAmounts DEF HandleChunk
<1>2. ASSUME NEW u \in Legacy, HandleLegacy(u)
      PROVE  Amounts'
  <2>1. got' = got \cup {<<u, 1>>} /\ sent' = sent
    BY <1>2 DEF HandleLegacy, Store
  <2>2. Heard' = Heard \cup {u}
    BY <2>1, HeardGrows
  <2>3. ~Room'
    BY <2>2, ConfigChunksConstants DEF Room
  <2>4. IsFiniteSet(Heard') /\ sent' \subseteq Member \X got'
    BY <2>1, <2>2, FS_AddElement DEF Amounts
  <2> QED BY <2>3, <2>4 DEF Amounts
<1>3. CASE UNCHANGED chunkVars
  BY <1>3 DEF chunkVars, Amounts, Heard, Room, OneSlotEach, UsedOnce, Has
<1> QED BY <1>1, <1>2, <1>3 DEF ChunkNext

(* With a slot for each update that was heard of, the slots amount to the  *)
(* set of chunks that came: an update is used when its last chunk comes,   *)
(* and once, and no chunk is flooded to a member a second time.            *)
THEOREM EachUsedOnce == ChunkSpec => []UsedOnce
<1>1. ChunkInit => Amounts
  <2> SUFFICES ASSUME ChunkInit PROVE Amounts
    OBVIOUS
  <2>1. Heard = {} /\ IsFiniteSet(Heard) /\ got = {} /\ made = {} /\ twice = {} /\ sent = {}
    BY FS_EmptySet DEF ChunkInit, Heard
  <2>2. \A s \in Slot : slot[s].updateId = NoUpdate /\ slot[s].ts = 0
    BY DEF ChunkInit
  <2>3. OneSlotEach
    <3>1. \A s \in Slot : slot[s].updateId \notin Heard
      BY <2>1
    <3> QED BY <2>1, <2>2, <3>1 DEF OneSlotEach
  <2>4. UsedOnce
    <3>1. \A u \in Update : ~({u} \X (1..Length[u]) \subseteq got)
      <4> SUFFICES ASSUME NEW u \in Update PROVE <<u, 1>> \in {u} \X (1..Length[u])
        BY <2>1
      <4> QED BY ConfigChunksConstants
    <3> QED BY <2>1, <3>1 DEF UsedOnce
  <2> QED BY <2>1, <2>3, <2>4 DEF Amounts
<1>2. ChunkInv /\ Amounts => UsedOnce
  BY DEF Amounts, UsedOnce
<1> QED BY <1>1, <1>2, ChunkInitially, ChunkStep, ChunkStepAmounts, PTL DEF ChunkSpec
=============================================================================
