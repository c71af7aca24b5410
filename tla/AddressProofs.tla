---------------------------- MODULE AddressProofs ----------------------------
(* For any lists of addresses, answers of the resolver, paths and threads: *)
(* the path array of a peer stays compact and shrinks as long as it has to, *)
(* one thread leaves one entry for an address, and the endpoints of a root *)
(* settle on an answer in three passes, keep the private ones and serve    *)
(* the answer that was applied.                                            *)
EXTENDS RootEndpoints, PeerPaths, FiniteSetTheorems, WellFoundedInduction, TLAPS

------------------------------------------------------------------------------
(* Numbers and sets *)

LEMMA Least ==
    ASSUME NEW S \in SUBSET Nat, S # {}
    PROVE  \E m \in S : \A j \in S : m <= j
<1>1. PICK m \in S : \A j \in S : <<j, m>> \notin OpToRel(<, Nat)
  BY NatLessThanWellFounded, WFMin, Zenon
<1>2. ASSUME NEW j \in S PROVE m <= j
  <2>1. <<j, m>> \notin { ss \in Nat \X Nat : ss[1] < ss[2] }
    BY <1>1 DEF OpToRel
  <2>2. ~(j < m)
    BY <2>1
  <2> QED BY <2>2
<1> QED BY <1>2

LEMMA FirstIs ==
    ASSUME NEW S \in SUBSET Nat, S # {}
    PROVE  FirstOf(S) \in S /\ \A j \in S : FirstOf(S) <= j
BY Least DEF FirstOf

LEMMA FirstOfInterval ==
    ASSUME NEW a \in Nat, NEW b \in Nat, a <= b
    PROVE  a..b # {} /\ FirstOf(a..b) = a
<1>1. a \in a..b /\ \A j \in a..b : a <= j
  OBVIOUS
<1>2. \A i \in a..b : (\A j \in a..b : i <= j) => i = a
  BY <1>1
<1> QED BY <1>1, <1>2 DEF FirstOf

LEMMA AtMostOne ==
    ASSUME NEW S, IsFiniteSet(S), Cardinality(S) <= 1, NEW x \in S, NEW y \in S
    PROVE  x = y
<1>1. CASE Cardinality(S) = 1
  BY <1>1, FS_Singleton
<1>2. CASE Cardinality(S) = 0
  BY <1>2, FS_EmptySet
<1>3. Cardinality(S) \in Nat
  BY FS_CardinalityType
<1> QED BY <1>1, <1>2, <1>3

(* The number of the members of a set up to one of them *)
Upto(S, i) == Cardinality({ j \in S : j <= i })

LEMMA UptoCounts ==
    ASSUME NEW S \in SUBSET Nat, IsFiniteSet(S)
    PROVE  /\ Cardinality(S) \in Nat
           /\ \A i \in S : Upto(S, i) \in 1..Cardinality(S)
           /\ \A i, j \in S : Upto(S, i) = Upto(S, j) => i = j
           /\ \A k \in 1..Cardinality(S) : \E i \in S : Upto(S, i) = k
<1> DEFINE B(i) == { j \in S : j <= i }
<1>0. Cardinality(S) \in Nat
  BY FS_CardinalityType
<1>1. ASSUME NEW i \in S PROVE IsFiniteSet(B(i)) /\ Upto(S, i) \in 1..Cardinality(S)
  <2>1. B(i) \in SUBSET S /\ i \in B(i)
    OBVIOUS
  <2> HIDE DEF B
  <2>2. IsFiniteSet(B(i)) /\ Cardinality(B(i)) <= Cardinality(S)
    BY <2>1, FS_Subset
  <2>3. Cardinality(B(i)) \in Nat /\ Cardinality(B(i)) # 0
    BY <2>1, <2>2, FS_CardinalityType, FS_EmptySet
  <2> USE DEF B
  <2> QED BY <1>0, <2>2, <2>3 DEF Upto
<1>2. ASSUME NEW i \in S, NEW j \in S, i < j PROVE Upto(S, i) < Upto(S, j)
  <2>0. S \subseteq Nat /\ i \in Nat /\ j \in Nat
    OBVIOUS
  <2>1. B(i) \in SUBSET B(j) /\ j \in B(j) /\ j \notin B(i)
    <3>1. ASSUME NEW x \in S, x <= i PROVE x <= j
      <4>1. x \in Nat
        BY <2>0
      <4> QED BY <1>2, <2>0, <3>1, <4>1
    <3>2. j <= j /\ ~(j <= i)
      BY <1>2, <2>0
    <3> QED BY <3>1, <3>2
  <2>2. IsFiniteSet(B(j)) /\ IsFiniteSet(B(i))
    BY <1>1
  <2> HIDE DEF B
  <2>3. /\ Cardinality(B(i)) <= Cardinality(B(j))
        /\ Cardinality(B(j)) = Cardinality(B(i)) => B(j) = B(i)
    BY <2>1, <2>2, FS_Subset
  <2>4. Cardinality(B(i)) \in Nat /\ Cardinality(B(j)) \in Nat
    BY <2>2, FS_CardinalityType
  <2>5. Cardinality(B(i)) < Cardinality(B(j))
    BY <2>1, <2>3, <2>4
  <2> USE DEF B
  <2> QED BY <2>5 DEF Upto
<1>3. \A i, j \in S : Upto(S, i) = Upto(S, j) => i = j
  <2> SUFFICES ASSUME NEW i \in S, NEW j \in S, i # j PROVE Upto(S, i) # Upto(S, j)
    OBVIOUS
  <2>1. i \in Nat /\ j \in Nat
    OBVIOUS
  <2>2. i < j \/ j < i
    BY <2>1
  <2>3. Upto(S, i) \in 1..Cardinality(S) /\ Upto(S, j) \in 1..Cardinality(S)
    BY <1>1
  <2>4. Upto(S, i) < Upto(S, j) \/ Upto(S, j) < Upto(S, i)
    BY <1>2, <2>2
  <2> QED BY <1>0, <2>3, <2>4
<1>4. \A k \in 1..Cardinality(S) : \E i \in S : Upto(S, i) = k
  <2> DEFINE f == [i \in S |-> Upto(S, i)]
             N == 1..Cardinality(S)
  <2>1. f \in Injection(S, N)
    BY <1>1, <1>3 DEF Injection, IsInjective
  <2>2. IsFiniteSet(N) /\ Cardinality(N) = Cardinality(S)
    <3>1. 1 \in Int /\ Cardinality(S) \in Int
      BY <1>0
    <3>2. IsFiniteSet(N) /\ Cardinality(N) = IF 1 > Cardinality(S) THEN 0
                                             ELSE Cardinality(S) - 1 + 1
      BY <3>1, FS_Interval
    <3> HIDE DEF N
    <3> QED BY <1>0, <3>2
  <2> HIDE DEF f, N
  <2>3. f \in Surjection(S, N)
    BY <2>1, <2>2, FS_Injection
  <2>4. \A k \in N : \E i \in S : f[i] = k
    BY <2>3 DEF Surjection
  <2> QED BY <2>4 DEF f, N
<1> QED BY <1>0, <1>1, <1>3, <1>4

------------------------------------------------------------------------------
(* The array of paths *)

PathsType(ps) == ps \in [Slot -> Entry \cup {None}]

(* The entries are those of the slots up to n. *)
CompactTo(ps, n) == n \in 0..MaxPaths /\ \A i \in Slot : ps[i] # None <=> i <= n

LEMMA CompactUsed ==
    ASSUME NEW ps, NEW n, CompactTo(ps, n)
    PROVE  Used(ps) = 1..n /\ Visited(ps) = 1..n
BY PeerPathsConstants DEF CompactTo, Used, Visited, Slot

LEMMA CompactUpTo ==
    ASSUME NEW ps, Used(ps) = Visited(ps)
    PROVE  \E n \in 0..MaxPaths : CompactTo(ps, n)
<1> DEFINE E == { i \in Slot : ps[i] = None }
<1>0. E \in SUBSET Nat /\ MaxPaths \in Nat
  BY PeerPathsConstants DEF Slot
<1>1. CASE E = {}
  <2>1. MaxPaths \in 0..MaxPaths
    BY <1>0
  <2> QED BY <1>0, <1>1, <2>1 DEF CompactTo, Slot
<1>2. CASE E # {}
  <2>1. PICK m \in E : \A j \in E : m <= j
    BY <1>0, <1>2, Least
  <2>2. m \in Slot /\ m \in Nat /\ m - 1 \in 0..MaxPaths
    BY <1>0, <2>1 DEF Slot
  <2>3. ASSUME NEW i \in Slot PROVE ps[i] # None <=> i <= m - 1
    <3>1. i \in Nat
      BY DEF Slot
    <3>2. CASE i < m
      BY <2>1, <2>2, <3>1, <3>2
    <3>3. CASE i >= m
      <4>1. i \notin Visited(ps)
        BY <2>1, <2>2, <3>1, <3>3 DEF Visited, Slot
      <4> QED BY <2>2, <3>1, <3>3, <4>1 DEF Used
    <3> QED BY <2>2, <3>1, <3>2, <3>3
  <2> QED BY <2>2, <2>3 DEF CompactTo
<1> QED BY <1>1, <1>2

(* What the pass of the ping loop that drops the entry of slot r has done  *)
(* after slot i: the entries after r have moved by one, up to that slot.   *)
Moved(ps, r, i) ==
    [k \in Slot |-> IF i < r \/ k < r \/ k > i + 1 THEN ps[k]
                    ELSE IF k = i + 1 \/ k = MaxPaths THEN None
                    ELSE ps[k + 1]]

(* A slot takes the entry of the next one, if that is used. *)
LEMMA RefilledIs ==
    ASSUME NEW g, g = [k \in Slot |-> g[k]], NEW i \in Slot, NEW n \in 0..MaxPaths,
           \A k \in Slot : k > i => (g[k] # None <=> k <= n)
    PROVE  Refilled(g, i) = [k \in Slot |-> IF i >= n \/ k < i \/ k > i + 1 THEN g[k]
                                           ELSE IF k = i THEN g[i + 1] ELSE None]
<1> PICK later : later = { j \in Used(g) : j > i }
  OBVIOUS
<1>0. n \in Nat /\ i \in Nat /\ MaxPaths \in Nat /\ n <= MaxPaths /\ Slot = 1..MaxPaths
  BY PeerPathsConstants DEF Slot
<1>1. later = (i + 1)..n
  BY <1>0 DEF Used
<1>2. Refilled(g, i) = IF later = {} THEN g
                       ELSE [g EXCEPT ![i] = g[FirstOf(later)], ![FirstOf(later)] = None]
  BY DEF Refilled
<1>3. CASE i >= n
  <2>1. later = {}
    BY <1>0, <1>1, <1>3
  <2>2. Refilled(g, i) = [k \in Slot |-> g[k]]
    BY <1>2, <2>1
  <2> QED BY <1>3, <2>2
<1>4. CASE i < n
  <2>1. i + 1 \in Nat /\ i + 1 <= n
    BY <1>0, <1>4
  <2>2. later # {} /\ FirstOf(later) = i + 1
    BY <1>0, <1>1, <2>1, FirstOfInterval
  <2>3. Refilled(g, i) = [g EXCEPT ![i] = g[i + 1], ![i + 1] = None]
    BY <1>2, <2>2
  <2>4. [g EXCEPT ![i] = g[i + 1], ![i + 1] = None]
          = [k \in Slot |-> IF k = i + 1 THEN None ELSE IF k = i THEN g[i + 1] ELSE g[k]]
    BY <1>0, <1>4
  <2>5. \A k \in Slot :
           (IF k = i + 1 THEN None ELSE IF k = i THEN g[i + 1] ELSE g[k])
             = IF i >= n \/ k < i \/ k > i + 1 THEN g[k]
               ELSE IF k = i THEN g[i + 1] ELSE None
    BY <1>0, <1>4
  <2> QED BY <2>3, <2>4, <2>5
<1> QED BY <1>0, <1>3, <1>4

LEMMA PassStep ==
    ASSUME NEW ps, PathsType(ps), NEW n, CompactTo(ps, n), NEW h,
           NEW r \in 1..n, ~Keeps(ps[r], h), \A j \in 1..(r - 1) : Keeps(ps[j], h),
           NEW i \in Slot
    PROVE  Step(Moved(ps, r, i - 1), i, h) = Moved(ps, r, i)
<1> PICK before, after : before = Moved(ps, r, i - 1) /\ after = Moved(ps, r, i)
  OBVIOUS
<1>0. /\ n \in Nat /\ n <= MaxPaths /\ MaxPaths \in Nat /\ i \in Nat /\ i >= 1
      /\ r \in Nat /\ r >= 1 /\ r <= n /\ i <= MaxPaths /\ Slot = 1..MaxPaths
  BY PeerPathsConstants DEF CompactTo, Slot
<1>1. \A k \in Slot : ps[k] # None <=> k <= n
  BY DEF CompactTo
<1>2. /\ before = [k \in Slot |-> before[k]] /\ after = [k \in Slot |-> after[k]]
      /\ ps = [k \in Slot |-> ps[k]]
  BY DEF Moved, PathsType
<1>3. \A k \in Slot :
         /\ before[k] = IF i - 1 < r \/ k < r \/ k > i THEN ps[k]
                        ELSE IF k = i \/ k = MaxPaths THEN None ELSE ps[k + 1]
         /\ after[k] = IF i < r \/ k < r \/ k > i + 1 THEN ps[k]
                       ELSE IF k = i + 1 \/ k = MaxPaths THEN None ELSE ps[k + 1]
  BY <1>0 DEF Moved
<1>4. CASE i < r
  <2>1. before = ps /\ after = ps
    BY <1>0, <1>2, <1>3, <1>4
  <2>2. ps[i] # None /\ Keeps(ps[i], h)
    BY <1>0, <1>1, <1>4
  <2> QED BY <2>1, <2>2 DEF Step
<1>5. CASE i >= r
  <2> PICK hole : hole = [k \in Slot |-> IF k = i THEN None ELSE before[k]]
    OBVIOUS
  <2>1. Step(before, i, h) = Refilled(hole, i)
    <3>1. hole = [before EXCEPT ![i] = None]
      BY <1>2
    <3>2. CASE i = r
      <4>1. before[i] # None /\ ~Keeps(before[i], h)
        BY <1>0, <1>1, <1>3, <3>2
      <4> QED BY <3>1, <4>1 DEF Step
    <3>3. CASE i > r
      <4>1. before[i] = None
        BY <1>0, <1>3, <3>3
      <4>2. hole = before
        BY <1>2, <4>1
      <4> QED BY <4>1, <4>2 DEF Step
    <3> QED BY <1>0, <1>5, <3>2, <3>3
  <2>2. \A k \in Slot : k > i => hole[k] = ps[k]
    BY <1>0, <1>3, <1>5
  <2>3. Refilled(hole, i) = [k \in Slot |-> IF i >= n \/ k < i \/ k > i + 1 THEN hole[k]
                                           ELSE IF k = i THEN hole[i + 1] ELSE None]
    <3>1. \A k \in Slot : k > i => (hole[k] # None <=> k <= n)
      BY <1>1, <2>2
    <3>2. n \in 0..MaxPaths /\ hole = [k \in Slot |-> hole[k]]
      BY <1>0
    <3> QED BY <3>1, <3>2, RefilledIs
  <2>4. ASSUME NEW k \in Slot
        PROVE  after[k] = IF i >= n \/ k < i \/ k > i + 1 THEN hole[k]
                          ELSE IF k = i THEN hole[i + 1] ELSE None
    <3>0. k \in Nat /\ k >= 1 /\ k <= MaxPaths
      BY <1>0
    <3>1. CASE k < i
      BY <1>0, <1>3, <1>5, <3>0, <3>1
    <3>2. CASE k > i + 1
      BY <1>0, <1>3, <1>5, <3>0, <3>2
    <3>3. CASE k = i + 1
      BY <1>0, <1>1, <1>3, <1>5, <3>0, <3>3
    <3>4. CASE k = i
      <4>1. hole[k] = None
        BY <3>4
      <4>2. i < MaxPaths => i + 1 \in Slot /\ hole[i + 1] = ps[i + 1]
        BY <1>0, <2>2
      <4>3. after[k] = IF i = MaxPaths THEN None ELSE ps[i + 1]
        BY <1>0, <1>3, <1>5, <3>0, <3>4
      <4>4. i >= n /\ i < MaxPaths => ps[i + 1] = None
        BY <1>0, <1>1
      <4> QED BY <1>0, <3>4, <4>1, <4>2, <4>3, <4>4
    <3> QED BY <1>0, <3>0, <3>1, <3>2, <3>3, <3>4
  <2> QED BY <1>2, <2>1, <2>3, <2>4
<1> QED BY <1>0, <1>4, <1>5

LEMMA KeepingStep ==
    ASSUME NEW ps, PathsType(ps), NEW n, CompactTo(ps, n), NEW h,
           \A j \in 1..n : Keeps(ps[j], h), NEW i \in Slot
    PROVE  Step(ps, i, h) = ps
<1>1. CASE i <= n
  BY <1>1 DEF Step, CompactTo, Slot
<1>2. CASE i > n
  <2>1. ps[i] = None
    BY <1>2, PeerPathsConstants DEF CompactTo, Slot
  <2>2. { j \in Used(ps) : j > i } = {}
    <3>1. Used(ps) = 1..n /\ n \in Nat /\ i \in Nat
      BY CompactUsed, PeerPathsConstants DEF CompactTo, Slot
    <3> QED BY <1>2, <3>1
  <2> QED BY <2>1, <2>2 DEF Step, Refilled
<1> QED BY <1>1, <1>2, PeerPathsConstants DEF CompactTo, Slot

(* The pass is the function that goes on slot by slot. *)
LEMMA PassIs ==
    ASSUME NEW ps, NEW F, F = [i \in 0..MaxPaths |-> F[i]], F[0] = ps,
           \A i \in Slot : Step(F[i - 1], i, HighestPriority(ps)) = F[i]
    PROVE  Cleaned(ps) = F[MaxPaths]
<1> DEFINE h == HighestPriority(ps)
           Passes(g) == g = [i \in 0..MaxPaths |-> IF i = 0 THEN ps ELSE Step(g[i - 1], i, h)]
           pass == CHOOSE g : Passes(g)
<1>0. MaxPaths \in Nat /\ MaxPaths \in 0..MaxPaths /\ Slot = 1..MaxPaths
  BY PeerPathsConstants DEF Slot
<1>1. Cleaned(ps) = pass[MaxPaths]
  BY Zenon DEF Cleaned
<1>2. Passes(F)
  <2>1. \A i \in 0..MaxPaths : F[i] = IF i = 0 THEN ps ELSE Step(F[i - 1], i, h)
    <3> SUFFICES ASSUME NEW i \in 0..MaxPaths, i # 0 PROVE F[i] = Step(F[i - 1], i, h)
      OBVIOUS
    <3>1. i \in Slot
      BY <1>0
    <3> QED BY <3>1
  <2>2. [i \in 0..MaxPaths |-> F[i]]
          = [i \in 0..MaxPaths |-> IF i = 0 THEN ps ELSE Step(F[i - 1], i, h)]
    BY <2>1
  <2> QED BY <2>2
<1>3. Passes(pass)
  <2> HIDE DEF Passes
  <2> QED BY <1>2
<1>4. \A i \in 0..MaxPaths : pass[i] = IF i = 0 THEN ps ELSE Step(pass[i - 1], i, h)
  <2> PICK g : g = pass
    OBVIOUS
  <2>1. g = [i \in 0..MaxPaths |-> IF i = 0 THEN ps ELSE Step(g[i - 1], i, h)]
    <3> HIDE DEF pass
    <3> QED BY <1>3
  <2>2. \A i \in 0..MaxPaths : g[i] = IF i = 0 THEN ps ELSE Step(g[i - 1], i, h)
    BY <2>1
  <2> HIDE DEF pass, Passes
  <2> QED BY <2>2
<1> HIDE DEF pass
<1> DEFINE D == { i \in 0..MaxPaths : pass[i] # F[i] }
<1>5. D = {}
  <2> SUFFICES ASSUME D # {} PROVE FALSE
    OBVIOUS
  <2>1. PICK m \in D : \A j \in D : m <= j
    <3>1. D \in SUBSET Nat
      BY <1>0
    <3> QED BY <3>1, Least
  <2>2. m # 0 /\ m - 1 \in 0..MaxPaths /\ m \in Slot /\ m \in 0..MaxPaths
    BY <1>0, <1>4, <2>1
  <2>3. m - 1 \notin D
    BY <2>1, <2>2, <1>0
  <2>4. pass[m - 1] = F[m - 1]
    BY <2>2, <2>3
  <2>5. pass[m] = F[m]
    BY <1>4, <2>2, <2>4
  <2> QED BY <2>1, <2>5
<1> QED BY <1>0, <1>1, <1>5

(* A pass drops the first entry it does not keep and nothing else. *)
LEMMA CleanedIs ==
    ASSUME NEW ps, PathsType(ps), NEW n, CompactTo(ps, n)
    PROVE  \/ /\ \A j \in 1..n : Keeps(ps[j], HighestPriority(ps))
              /\ Cleaned(ps) = ps
           \/ \E r \in 1..n :
                 /\ Cleaned(ps) = Moved(ps, r, MaxPaths)
                 /\ CompactTo(Cleaned(ps), n - 1)
<1> DEFINE h == HighestPriority(ps)
           R == { r \in 1..n : ~Keeps(ps[r], h) }
<1>0. n \in Nat /\ n <= MaxPaths /\ MaxPaths \in Nat \ {0} /\ Slot = 1..MaxPaths
  BY PeerPathsConstants DEF CompactTo, Slot
<1>1. CASE R = {}
  <2>1. \A j \in 1..n : Keeps(ps[j], h)
    BY <1>1
  <2> DEFINE F == [i \in 0..MaxPaths |-> ps]
  <2>2. F = [i \in 0..MaxPaths |-> F[i]] /\ F[0] = ps /\ F[MaxPaths] = ps
    BY <1>0
  <2>3. ASSUME NEW i \in Slot PROVE Step(F[i - 1], i, h) = F[i]
    <3>1. F[i - 1] = ps /\ F[i] = ps
      BY <1>0
    <3> HIDE DEF F, h
    <3> QED BY <2>1, <3>1, KeepingStep
  <2> HIDE DEF F
  <2>4. Cleaned(ps) = F[MaxPaths]
    BY <2>2, <2>3, PassIs
  <2> QED BY <2>1, <2>2, <2>4
<1>2. CASE R # {}
  <2>1. PICK r \in R : \A j \in R : r <= j
    <3>1. R \in SUBSET Nat
      OBVIOUS
    <3> HIDE DEF R
    <3> QED BY <1>2, <3>1, Least
  <2>2. r \in 1..n /\ ~Keeps(ps[r], h) /\ \A j \in 1..(r - 1) : Keeps(ps[j], h)
    <3>1. r \in 1..n /\ ~Keeps(ps[r], h)
      BY <2>1
    <3>2. ASSUME NEW j \in 1..(r - 1) PROVE Keeps(ps[j], h)
      <4>1. j \in 1..n /\ ~(r <= j)
        BY <1>0, <3>1
      <4> QED BY <2>1, <4>1
    <3> QED BY <3>1, <3>2
  <2> DEFINE F == [i \in 0..MaxPaths |-> Moved(ps, r, i)]
  <2>3. F = [i \in 0..MaxPaths |-> F[i]] /\ F[MaxPaths] = Moved(ps, r, MaxPaths)
    BY <1>0
  <2>4. F[0] = ps
    <3>1. F[0] = Moved(ps, r, 0)
      BY <1>0
    <3>2. Moved(ps, r, 0) = [k \in Slot |-> ps[k]]
      BY <1>0, <2>2 DEF Moved
    <3> QED BY <3>1, <3>2 DEF PathsType
  <2>5. ASSUME NEW i \in Slot PROVE Step(F[i - 1], i, h) = F[i]
    <3>1. F[i - 1] = Moved(ps, r, i - 1) /\ F[i] = Moved(ps, r, i)
      BY <1>0
    <3> HIDE DEF F, h
    <3> QED BY <2>2, <3>1, PassStep
  <2> HIDE DEF F
  <2>6. Cleaned(ps) = F[MaxPaths]
    BY <2>3, <2>4, <2>5, PassIs
  <2>7. CompactTo(Moved(ps, r, MaxPaths), n - 1)
    <3>1. n - 1 \in 0..MaxPaths
      BY <1>0, <2>2
    <3>2. ASSUME NEW k \in Slot PROVE Moved(ps, r, MaxPaths)[k] # None <=> k <= n - 1
      <4>1. Moved(ps, r, MaxPaths)[k] = IF k < r THEN ps[k] ELSE IF k = MaxPaths THEN None
                                        ELSE ps[k + 1]
        BY <1>0, <2>2 DEF Moved
      <4>2. \A i \in Slot : ps[i] # None <=> i <= n
        BY DEF CompactTo
      <4>3. k # MaxPaths => k + 1 \in Slot
        BY <1>0
      <4> QED BY <1>0, <2>2, <4>1, <4>2, <4>3
    <3> QED BY <3>1, <3>2 DEF CompactTo
  <2> QED BY <2>2, <2>3, <2>6, <2>7
<1> QED BY <1>1, <1>2

(* Every entry after the pass is one from before, and no two are the same. *)
LEMMA CleanedEntries ==
    ASSUME NEW ps, PathsType(ps), NEW n, CompactTo(ps, n)
    PROVE  /\ PathsType(Cleaned(ps))
           /\ \E from \in [Used(Cleaned(ps)) -> Used(ps)] :
                 /\ \A k \in Used(Cleaned(ps)) : Cleaned(ps)[k] = ps[from[k]]
                 /\ \A k, j \in Used(Cleaned(ps)) : from[k] = from[j] => k = j
<1>1. CASE Cleaned(ps) = ps
  <2> DEFINE from == [k \in Used(ps) |-> k]
  <2>1. /\ from \in [Used(ps) -> Used(ps)] /\ \A k \in Used(ps) : ps[k] = ps[from[k]]
        /\ \A k, j \in Used(ps) : from[k] = from[j] => k = j
    OBVIOUS
  <2> HIDE DEF from
  <2> QED BY <1>1, <2>1
<1>2. ASSUME NEW r \in 1..n, Cleaned(ps) = Moved(ps, r, MaxPaths), CompactTo(Cleaned(ps), n - 1)
      PROVE  /\ PathsType(Cleaned(ps))
             /\ \E from \in [Used(Cleaned(ps)) -> Used(ps)] :
                   /\ \A k \in Used(Cleaned(ps)) : Cleaned(ps)[k] = ps[from[k]]
                   /\ \A k, j \in Used(Cleaned(ps)) : from[k] = from[j] => k = j
  <2>0. n \in Nat /\ n <= MaxPaths /\ MaxPaths \in Nat /\ Slot = 1..MaxPaths
    BY PeerPathsConstants DEF CompactTo, Slot
  <2> PICK c : c = Cleaned(ps)
    OBVIOUS
  <2>1. Used(c) = 1..(n - 1) /\ Used(ps) = 1..n
    BY <1>2, CompactUsed
  <2>2. /\ c = [k \in Slot |-> c[k]]
        /\ \A k \in Slot : c[k] = IF k < r THEN ps[k] ELSE IF k = MaxPaths THEN None
                                  ELSE ps[k + 1]
    BY <1>2, <2>0 DEF Moved
  <2>3. PathsType(c)
    <3>1. ASSUME NEW k \in Slot PROVE c[k] \in Entry \cup {None}
      <4>1. k # MaxPaths => k + 1 \in Slot
        BY <2>0
      <4> QED BY <2>2, <4>1 DEF PathsType
    <3> QED BY <2>2, <3>1 DEF PathsType
  <2> DEFINE from == [k \in Used(c) |-> IF k < r THEN k ELSE k + 1]
  <2>4. from \in [Used(c) -> Used(ps)]
    BY <2>0, <2>1
  <2>5. \A k \in Used(c) : c[k] = ps[from[k]]
    BY <2>0, <2>1, <2>2
  <2>6. \A k, j \in Used(c) : from[k] = from[j] => k = j
    BY <2>0, <2>1
  <2> HIDE DEF from
  <2> QED BY <2>3, <2>4, <2>5, <2>6
<1> QED BY <1>1, <1>2, CleanedIs

(* The entries of qs are those of ps in S, in front, each once. *)
InFront(qs, ps, S) ==
    /\ PathsType(qs) /\ CompactTo(qs, Cardinality(S))
    /\ \A k \in 1..Cardinality(S) : \E i \in S : qs[k] = ps[i] /\ Upto(S, i) = k

LEMMA PackedEntries ==
    ASSUME NEW ps, PathsType(ps), NEW S, S \subseteq Used(ps)
    PROVE  InFront(Packed(ps, S), ps, S)
<1>0. MaxPaths \in Nat /\ Slot = 1..MaxPaths
  BY PeerPathsConstants DEF Slot
<1>1. S \in SUBSET Slot /\ S \in SUBSET Nat
  BY <1>0 DEF Used
<1>2. IsFiniteSet(S) /\ Cardinality(S) \in Nat /\ Cardinality(S) <= MaxPaths
  <2>1. IsFiniteSet(Slot) /\ Cardinality(Slot) = MaxPaths
    BY <1>0, FS_Interval
  <2> QED BY <1>1, <2>1, FS_Subset, FS_CardinalityType
<1>3. /\ \A i \in S : Upto(S, i) \in 1..Cardinality(S)
      /\ \A i, j \in S : Upto(S, i) = Upto(S, j) => i = j
      /\ \A k \in 1..Cardinality(S) : \E i \in S : Upto(S, i) = k
  BY <1>1, <1>2, UptoCounts
<1>4. Packed(ps, S) = [k \in Slot |-> IF \E i \in S : Upto(S, i) = k
                                      THEN ps[CHOOSE i \in S : Upto(S, i) = k] ELSE None]
  BY DEF Packed, Upto
<1>5. ASSUME NEW k \in 1..Cardinality(S)
      PROVE  \E i \in S : Packed(ps, S)[k] = ps[i] /\ Upto(S, i) = k
  <2>1. k \in Slot /\ \E i \in S : Upto(S, i) = k
    BY <1>0, <1>2, <1>3
  <2>2. PICK i : i = CHOOSE j \in S : Upto(S, j) = k
    OBVIOUS
  <2>3. i \in S /\ Upto(S, i) = k
    BY <2>1, <2>2
  <2>4. Packed(ps, S)[k] = ps[i]
    BY <1>4, <2>1, <2>2
  <2> QED BY <2>3, <2>4
<1>6. ASSUME NEW k \in Slot, k > Cardinality(S) PROVE Packed(ps, S)[k] = None
  <2>1. ~ \E i \in S : Upto(S, i) = k
    BY <1>2, <1>3, <1>6
  <2> QED BY <1>4, <2>1
<1>7. ASSUME NEW k \in Slot
      PROVE  Packed(ps, S)[k] \in Entry \cup {None}
             /\ (Packed(ps, S)[k] # None <=> k <= Cardinality(S))
  <2>1. CASE k <= Cardinality(S)
    <3>1. k \in 1..Cardinality(S)
      BY <1>0, <1>2, <2>1
    <3>2. PICK i \in S : Packed(ps, S)[k] = ps[i]
      BY <1>5, <3>1
    <3> QED BY <1>1, <2>1, <3>2 DEF Used, PathsType
  <2>2. CASE k > Cardinality(S)
    BY <1>0, <1>2, <1>6, <2>2
  <2> QED BY <1>0, <1>2, <2>1, <2>2
<1>8. PathsType(Packed(ps, S))
  BY <1>4, <1>7 DEF PathsType
<1> QED BY <1>2, <1>5, <1>7, <1>8 DEF CompactTo, InFront
PathInv ==
    /\ PathsType(paths) /\ alive \subseteq Path
    /\ learning \in [Thread -> Path \cup {None}]
    /\ busy \subseteq Thread /\ IsFiniteSet(busy)
    /\ Compact

(* What a thread may learn has no entry, and neither has another path of   *)
(* the address that is alive: a thread that is alone found it so.          *)
Unlisted(path) ==
    \A i \in Used(paths) :
        AddressOf[paths[i].p] = AddressOf[path] => paths[i].p \notin alive /\ paths[i].p # path

OneThread ==
    /\ \A t \in Thread : learning[t] # None => t \in busy
    /\ Cardinality(busy) <= 1 =>
          /\ OneEntryPerAddress
          /\ \A t \in Thread : learning[t] # None => Unlisted(learning[t])

LEMMA NowCompact ==
    ASSUME NEW n, CompactTo(paths', n)
    PROVE  Compact'
BY CompactUsed DEF Compact

LEMMA CompactNow == ASSUME PathInv PROVE \E n \in 0..MaxPaths : CompactTo(paths, n)
BY CompactUpTo DEF PathInv, Compact

(* The paths stay where they are: an entry becomes fresh or expires. *)
SamePaths ==
    /\ PathsType(paths')
    /\ \A i \in Slot : (paths'[i] = None <=> paths[i] = None)
                       /\ (paths[i] # None => paths'[i].p = paths[i].p)

LEMMA SamePathsKeep ==
    ASSUME PathInv, SamePaths
    PROVE  /\ Compact' /\ Used(paths') = Used(paths)
           /\ OneEntryPerAddress => OneEntryPerAddress'
           /\ \A i \in Used(paths) : paths'[i].p = paths[i].p
<1>1. PICK n \in 0..MaxPaths : CompactTo(paths, n)
  BY CompactNow
<1>2. CompactTo(paths', n)
  BY <1>1 DEF CompactTo, SamePaths
<1>3. Compact' /\ Used(paths') = Used(paths)
  BY <1>1, <1>2, CompactUsed, NowCompact
<1>4. \A i \in Used(paths) : paths'[i].p = paths[i].p
  BY DEF SamePaths, Used
<1> QED BY <1>3, <1>4 DEF OneEntryPerAddress

LEMMA SlotNat == Slot \in SUBSET Nat /\ \A ps : Used(ps) \subseteq Slot /\ Visited(ps) \subseteq Used(ps)
BY PeerPathsConstants DEF Slot, Used, Visited

LEMMA SetFresh ==
    ASSUME PathInv, NEW i \in Used(paths), NEW b \in BOOLEAN,
           paths' = [paths EXCEPT ![i].fresh = b]
    PROVE  SamePaths
<1>1. i \in Slot /\ paths[i] \in Entry
  BY DEF Used, PathInv, PathsType
<1>2. [paths[i] EXCEPT !.fresh = b] \in Entry /\ [paths[i] EXCEPT !.fresh = b].p = paths[i].p
  BY <1>1 DEF Entry
<1>3. \A k \in Slot : paths'[k] = IF k = i THEN [paths[i] EXCEPT !.fresh = b] ELSE paths[k]
  BY <1>1 DEF PathInv, PathsType
<1>4. PathsType(paths')
  BY <1>1, <1>2, <1>3 DEF PathInv, PathsType
<1> QED BY <1>1, <1>2, <1>3, <1>4, PeerPathsConstants DEF SamePaths

(* A thread that handles a packet is the only one, or there are several.   *)
LEMMA BusyGrows ==
    ASSUME PathInv, OneThread, NEW t \in Thread, Handles(t)
    PROVE  /\ busy' \subseteq Thread /\ IsFiniteSet(busy') /\ t \in busy'
           /\ Cardinality(busy') <= 1 =>
                 /\ Cardinality(busy) <= 1
                 /\ \A o \in Thread : learning[o] # None => o = t
<1>1. busy' = busy \cup {t} /\ IsFiniteSet(busy')
  BY FS_AddElement DEF Handles, PathInv
<1>2. ASSUME Cardinality(busy') <= 1
      PROVE  Cardinality(busy) <= 1 /\ \A o \in Thread : learning[o] # None => o = t
  <2>1. Cardinality(busy) <= Cardinality(busy') /\ Cardinality(busy) \in Nat
        /\ Cardinality(busy') \in Nat
    BY <1>1, FS_Subset, FS_CardinalityType
  <2>2. \A o \in Thread : learning[o] # None => o = t
    BY <1>1, <1>2, AtMostOne DEF OneThread
  <2> QED BY <1>2, <2>1, <2>2
<1> QED BY <1>1, <1>2 DEF PathInv

LEMMA Receiving ==
    ASSUME PathInv, OneThread, NEW t \in Thread, NEW path \in Path, Receive(t, path)
    PROVE  PathInv' /\ OneThread'
<1>1. learning[t] = None /\ Handles(t) /\ alive' = alive \cup {path}
  BY DEF Receive
<1>2. CASE Holders(path) # {}
  <2>1. PICK i : i = FirstOf(Holders(path))
    OBVIOUS
  <2>2. i \in Holders(path) /\ i \in Used(paths)
    <3>1. Holders(path) \in SUBSET Nat /\ Holders(path) \subseteq Used(paths)
      BY SlotNat DEF Holders
    <3> QED BY <1>2, <2>1, <3>1, FirstIs
  <2>3. /\ paths' = IF paths[i].p = path THEN [paths EXCEPT ![i].fresh = TRUE] ELSE paths
        /\ learning' = learning
    BY <1>2, <2>1 DEF Receive
  <2>4. SamePaths
    BY <2>2, <2>3, SetFresh DEF SamePaths, PathInv
  <2>5. PathInv'
    BY <1>1, <2>3, <2>4, SamePathsKeep, BusyGrows DEF PathInv, SamePaths
  <2>6. OneThread'
    BY <1>1, <2>3, <2>4, SamePathsKeep, BusyGrows DEF OneThread, Handles
  <2> QED BY <2>5, <2>6
<1>3. CASE Holders(path) = {}
  <2>1. paths' = paths /\ learning' = [learning EXCEPT ![t] = path]
    BY <1>3 DEF Receive
  <2>2. PathInv'
    BY <1>1, <2>1, BusyGrows DEF PathInv, Compact
  <2>3. \A o \in Thread : learning'[o] = IF o = t THEN path ELSE learning[o]
    BY <2>1 DEF PathInv
  <2>4. \A o \in Thread : learning'[o] # None => o \in busy'
    BY <1>1, <2>3, BusyGrows DEF OneThread, Handles
  <2>5. ASSUME Cardinality(busy') <= 1
        PROVE  OneEntryPerAddress' /\ \A o \in Thread : learning'[o] # None => Unlisted(learning[o])'
    <3>1. OneEntryPerAddress'
      BY <1>1, <2>1, <2>5, BusyGrows DEF OneThread, OneEntryPerAddress
    <3>2. ASSUME NEW i \in Used(paths), AddressOf[paths[i].p] = AddressOf[path]
          PROVE  paths[i].p \notin alive' /\ paths[i].p # path
      <4>1. i \notin Holders(path) /\ i \in Visited(paths)
        BY <1>3 DEF PathInv, Compact
      <4> QED BY <1>1, <3>2, <4>1 DEF Holders
    <3>3. \A o \in Thread : learning'[o] # None => o = t
      BY <1>1, <2>3, <2>5, BusyGrows
    <3>4. Unlisted(learning[t])'
      BY <2>1, <2>3, <3>2 DEF Unlisted
    <3> QED BY <3>1, <3>3, <3>4
  <2> QED BY <2>2, <2>4, <2>5 DEF OneThread
<1> QED BY <1>2, <1>3

LEMMA Learning ==
    ASSUME PathInv, OneThread, NEW t \in Thread, Learn(t)
    PROVE  PathInv' /\ OneThread'
<1> PICK path : path = learning[t]
  OBVIOUS
<1> DEFINE e == [p |-> path, fresh |-> TRUE, priority |-> 1]
<1>0. /\ path \in Path /\ e \in Entry /\ e.p = path /\ e # None
      /\ alive' = alive /\ busy' = busy /\ learning' = [learning EXCEPT ![t] = None]
      /\ path # None
  <2>1. path \in Path /\ path # None
    BY DEF Learn, PathInv
  <2>2. e \in Entry
    BY <2>1, PeerPathsConstants DEF Entry
  <2> QED BY <2>1, <2>2, PeerPathsConstants DEF Learn
<1>1. PICK i \in Candidates(path) : paths' = [paths EXCEPT ![i] = e]
  BY DEF Learn
<1> HIDE DEF e
<1>2. PICK n \in 0..MaxPaths : CompactTo(paths, n)
  BY CompactNow
<1>3. n \in Nat /\ MaxPaths \in Nat /\ n <= MaxPaths /\ Slot = 1..MaxPaths
      /\ Used(paths) = 1..n /\ Visited(paths) = 1..n
      /\ \A k \in Slot : paths[k] # None <=> k <= n
  <2>1. Used(paths) = 1..n /\ Visited(paths) = 1..n
    BY <1>2, CompactUsed
  <2> QED BY <1>2, <2>1, PeerPathsConstants DEF CompactTo, Slot
<1>4. i \in Slot /\ (i \in 1..n \/ i = n + 1)
  <2> DEFINE empty == { k \in Slot : paths[k] = None }
  <2> PICK twins : twins = DeadTwins(path)
    OBVIOUS
  <2>1. twins \in SUBSET (1..n) /\ empty = (n + 1)..MaxPaths
    BY <1>3 DEF DeadTwins
  <2>2. CASE twins # {}
    <3>1. i = FirstOf(twins)
      BY <1>1, <2>2 DEF Candidates
    <3>2. twins \in SUBSET Nat
      BY <1>3, <2>1
    <3>3. FirstOf(twins) \in twins
      BY <2>2, <3>2, FirstIs, Zenon
    <3>4. i \in twins
      BY <3>1, <3>3
    <3> QED BY <1>3, <2>1, <3>4
  <2>3. CASE twins = {} /\ empty # {}
    <3>1. i = FirstOf(empty)
      BY <1>1, <2>3 DEF Candidates
    <3> HIDE DEF empty
    <3>2. n + 1 \in Nat /\ n + 1 <= MaxPaths
      BY <1>3, <2>1, <2>3
    <3>3. i = n + 1
      BY <1>3, <2>1, <3>1, <3>2, FirstOfInterval
    <3> QED BY <1>3, <3>2, <3>3
  <2>4. CASE twins = {} /\ empty = {}
    <3>1. i \in Slot
      BY <1>1, <2>4 DEF Candidates
    <3>2. n = MaxPaths
      <4> HIDE DEF empty
      <4> QED BY <1>3, <2>1, <2>4
    <3> QED BY <1>3, <3>1, <3>2
  <2> QED BY <2>2, <2>3, <2>4
<1>5. i \in Slot /\ \A k \in Slot : paths'[k] = IF k = i THEN e ELSE paths[k]
  BY <1>1, <1>3, <1>4 DEF PathInv, PathsType
<1>6. PathInv'
  <2>1. PathsType(paths')
    BY <1>0, <1>1, <1>5 DEF PathInv, PathsType
  <2> DEFINE m == IF i = n + 1 THEN n + 1 ELSE n
  <2>2. CompactTo(paths', m)
    BY <1>0, <1>3, <1>4, <1>5 DEF CompactTo
  <2> HIDE DEF m
  <2>3. Compact'
    BY <2>2, NowCompact
  <2> QED BY <1>0, <2>1, <2>3 DEF PathInv
<1>7. OneThread'
  <2>1. \A o \in Thread : learning'[o] = IF o = t THEN None ELSE learning[o]
    BY <1>0 DEF PathInv
  <2>2. \A o \in Thread : learning'[o] # None => o \in busy'
    BY <1>0, <2>1 DEF OneThread
  <2>3. ASSUME Cardinality(busy') <= 1
        PROVE  OneEntryPerAddress' /\ \A o \in Thread : learning'[o] = None
    <3>1. t \in busy
      BY DEF OneThread, Learn
    <3>2. \A o \in Thread : learning'[o] = None
      BY <1>0, <2>1, <2>3, <3>1, AtMostOne DEF OneThread, PathInv
    <3>3. OneEntryPerAddress /\ Unlisted(path)
      BY <1>0, <2>3 DEF OneThread, Learn
    <3>4. ASSUME NEW k \in Used(paths), k # i PROVE AddressOf[paths[k].p] # AddressOf[path]
      <4> SUFFICES ASSUME AddressOf[paths[k].p] = AddressOf[path] PROVE FALSE
        OBVIOUS
      <4>1. k \in DeadTwins(path)
        BY <1>3, <3>3 DEF DeadTwins, Unlisted
      <4>2. i = FirstOf(DeadTwins(path))
        BY <1>1, <4>1 DEF Candidates
      <4>3. DeadTwins(path) \in SUBSET Nat /\ DeadTwins(path) \subseteq Used(paths)
        BY <1>3 DEF DeadTwins
      <4>4. i \in DeadTwins(path)
        BY <4>1, <4>2, <4>3, FirstIs
      <4>5. i \in Used(paths) /\ AddressOf[paths[i].p] = AddressOf[path]
        BY <4>3, <4>4 DEF DeadTwins
      <4> QED BY <3>3, <3>4, <4>5 DEF OneEntryPerAddress
    <3>5. \A k \in Used(paths') : k = i \/ k \in Used(paths)
      BY <1>5 DEF Used
    <3>6. \A k \in Used(paths') : paths'[k] = IF k = i THEN e ELSE paths[k]
      BY <1>5 DEF Used
    <3>7. OneEntryPerAddress'
      BY <1>0, <3>3, <3>4, <3>5, <3>6 DEF OneEntryPerAddress
    <3> QED BY <3>2, <3>7
  <2> QED BY <2>2, <2>3 DEF OneThread
<1> QED BY <1>6, <1>7

LEMMA Redirecting ==
    ASSUME PathInv, OneThread, NEW t \in Thread, NEW from \in Path, NEW to \in Path,
           Redirect(t, from, to)
    PROVE  PathInv' /\ OneThread'
<1> PICK priority : priority = RedirectPriority(from)
  OBVIOUS
<1> PICK kept : kept = { i \in Used(paths) : /\ paths[i].priority >= priority
                                             /\ AddressOf[paths[i].p] # AddressOf[to] }
  OBVIOUS
<1> PICK ps : ps = Packed(paths, kept)
  OBVIOUS
<1> DEFINE c == Cardinality(kept)
           e == [p |-> to, fresh |-> TRUE, priority |-> priority]
<1>1. /\ learning[t] = None /\ Handles(t) /\ priority <= MaxPriority
      /\ alive' = alive /\ learning' = learning
      /\ paths' = IF c + 1 <= MaxPaths THEN [ps EXCEPT ![c + 1] = e] ELSE ps
  BY DEF Redirect
<1>2. e \in Entry /\ e.p = to /\ e # None
  <2> DEFINE at == { i \in Visited(paths) : paths[i].p = from }
  <2>1. at \in SUBSET Nat /\ at \in SUBSET Used(paths)
    BY SlotNat
  <2>2. priority = 2 + IF at # {} THEN paths[FirstOf(at)].priority ELSE 1
    BY DEF RedirectPriority
  <2> HIDE DEF at
  <2>3. at # {} => FirstOf(at) \in Used(paths)
    BY <2>1, FirstIs
  <2>4. \A i \in Used(paths) : paths[i].priority \in 1..MaxPriority
    BY DEF PathInv, PathsType, Used, Entry
  <2>5. priority \in Nat /\ priority >= 1
    BY <2>2, <2>3, <2>4, PeerPathsConstants
  <2>6. e \in Entry
    BY <1>1, <2>5, PeerPathsConstants DEF Entry
  <2> QED BY <2>6, PeerPathsConstants
<1>3. kept \in SUBSET Used(paths)
  OBVIOUS
<1>4. /\ PathsType(ps) /\ CompactTo(ps, c)
      /\ \A k \in 1..c : \E i \in kept : ps[k] = paths[i] /\ Upto(kept, i) = k
  <2> HIDE DEF e
  <2>1. PathsType(paths)
    BY DEF PathInv
  <2>2. InFront(Packed(paths, kept), paths, kept)
    BY <1>3, <2>1, PackedEntries
  <2> QED BY <2>2 DEF InFront
<1> HIDE DEF c, e
<1>5. /\ c \in Nat /\ MaxPaths \in Nat /\ c <= MaxPaths /\ Slot = 1..MaxPaths
      /\ \A k \in Slot : ps[k] # None <=> k <= c
  BY <1>4, PeerPathsConstants DEF CompactTo, Slot
<1>6. \A k \in Slot : paths'[k] = IF k = c + 1 THEN e ELSE ps[k]
  BY <1>1, <1>4, <1>5 DEF PathsType
<1>7. PathInv'
  <2>1. PathsType(paths')
    BY <1>1, <1>2, <1>4, <1>6 DEF PathsType
  <2> DEFINE m == IF c + 1 <= MaxPaths THEN c + 1 ELSE c
  <2>2. CompactTo(paths', m)
    <3>1. CASE c + 1 <= MaxPaths
      <4>1. m = c + 1 /\ m \in 0..MaxPaths
        BY <1>5, <3>1
      <4>2. ASSUME NEW k \in Slot PROVE paths'[k] # None <=> k <= c + 1
        <5>1. paths'[k] # None <=> k = c + 1 \/ k <= c
          BY <1>2, <1>5, <1>6
        <5>2. k \in Nat
          BY <1>5
        <5> QED BY <1>5, <5>1, <5>2
      <4> QED BY <4>1, <4>2 DEF CompactTo
    <3>2. CASE c = MaxPaths
      BY <1>2, <1>5, <1>6, <3>2 DEF CompactTo
    <3> QED BY <1>5, <3>1, <3>2
  <2> HIDE DEF m
  <2> QED BY <1>1, <2>1, <2>2, NowCompact, BusyGrows DEF PathInv
<1>8. ASSUME OneEntryPerAddress PROVE OneEntryPerAddress'
  <2>1. ASSUME NEW k \in Used(paths')
        PROVE  \/ k = c + 1 /\ paths'[k].p = to
               \/ \E i \in kept : paths'[k] = paths[i] /\ Upto(kept, i) = k
    <3>1. CASE k = c + 1
      BY <1>2, <1>6, <3>1 DEF Used
    <3>2. CASE k # c + 1
      <4>1. k \in Slot /\ paths'[k] = ps[k] /\ k \in 1..c
        BY <1>5, <1>6, <3>2 DEF Used
      <4> QED BY <1>4, <4>1
    <3> QED BY <3>1, <3>2
  <2> SUFFICES ASSUME NEW k \in Used(paths'), NEW j \in Used(paths'),
                      AddressOf[paths'[k].p] = AddressOf[paths'[j].p]
               PROVE  k = j
    BY DEF OneEntryPerAddress
  <2>2. \A i \in kept : AddressOf[paths[i].p] # AddressOf[to]
    OBVIOUS
  <2>3. CASE \E i, l \in kept : /\ paths'[k] = paths[i] /\ Upto(kept, i) = k
                                /\ paths'[j] = paths[l] /\ Upto(kept, l) = j
    <3> PICK i \in kept, l \in kept : /\ paths'[k] = paths[i] /\ Upto(kept, i) = k
                                      /\ paths'[j] = paths[l] /\ Upto(kept, l) = j
      BY <2>3
    <3>1. i = l
      BY <1>3, <1>8 DEF OneEntryPerAddress
    <3> QED BY <3>1
  <2> QED BY <2>1, <2>2, <2>3
<1>9. OneThread'
  <2>1. \A o \in Thread : learning[o] # None => o \in busy'
    BY <1>1 DEF OneThread, Handles
  <2>2. Cardinality(busy') <= 1 => OneEntryPerAddress /\ \A o \in Thread : learning[o] = None
    BY <1>1, BusyGrows DEF OneThread
  <2> QED BY <1>1, <1>8, <2>1, <2>2 DEF OneThread
<1> QED BY <1>7, <1>9

LEMMA Cleaning ==
    ASSUME PathInv, OneThread, DoPingAndKeepalive
    PROVE  PathInv' /\ OneThread'
<1>0. paths' = Cleaned(paths) /\ alive' = alive /\ learning' = learning /\ busy' = busy
  BY DEF DoPingAndKeepalive
<1>1. PICK n \in 0..MaxPaths : CompactTo(paths, n)
  BY CompactNow
<1>2. PICK from \in [Used(paths') -> Used(paths)] :
         /\ \A k \in Used(paths') : paths'[k] = paths[from[k]]
         /\ \A k, j \in Used(paths') : from[k] = from[j] => k = j
  BY <1>0, <1>1, CleanedEntries DEF PathInv
<1>3. PathInv'
  <2>1. PathsType(paths')
    BY <1>0, <1>1, CleanedEntries DEF PathInv
  <2>2. \E m : CompactTo(paths', m)
    BY <1>0, <1>1, CleanedIs DEF PathInv
  <2> QED BY <1>0, <2>1, <2>2, NowCompact DEF PathInv
<1>4. OneEntryPerAddress => OneEntryPerAddress'
  BY <1>2 DEF OneEntryPerAddress
<1>5. ASSUME NEW path, Unlisted(path) PROVE Unlisted(path)'
  BY <1>0, <1>2, <1>5 DEF Unlisted
<1>6. OneThread'
  BY <1>0, <1>4, <1>5 DEF OneThread
<1> QED BY <1>3, <1>6

(* A step that leaves the paths where they are, teaches no thread and      *)
(* wakes no path.                                                          *)
LEMMA Fading ==
    ASSUME PathInv, OneThread, SamePaths, learning' = learning, alive' \subseteq alive,
           UNCHANGED busy \/ \E t \in Thread : learning[t] = None /\ Handles(t)
    PROVE  PathInv' /\ OneThread'
<1>1. /\ busy \subseteq busy' /\ busy' \subseteq Thread /\ IsFiniteSet(busy')
      /\ Cardinality(busy') <= 1 => Cardinality(busy) <= 1
  BY BusyGrows DEF PathInv, Handles
<1>2. PathInv'
  BY <1>1, SamePathsKeep DEF PathInv, SamePaths
<1>3. ASSUME NEW path, Unlisted(path) PROVE Unlisted(path)'
  BY <1>3, SamePathsKeep DEF Unlisted
<1>4. OneThread'
  BY <1>1, <1>3, SamePathsKeep DEF OneThread
<1> QED BY <1>2, <1>4

(* A packet of another peer: the one thread there was is not learning. *)
LEMMA Overhearing ==
    ASSUME NEW t \in Thread, NEW path \in Path, PathInv, OneThread, Overhear(t, path)
    PROVE  PathInv' /\ OneThread'
<1>1. /\ busy \subseteq busy' /\ busy' \subseteq Thread /\ IsFiniteSet(busy') /\ t \in busy'
      /\ Cardinality(busy') <= 1 =>
            Cardinality(busy) <= 1 /\ \A o \in Thread : learning[o] # None => o = t
  BY BusyGrows DEF Overhear, Handles
<1>2. paths' = paths /\ learning' = learning /\ learning[t] = None
  BY DEF Overhear
<1>3. PathInv'
  BY <1>1, <1>2 DEF PathInv, Compact, Overhear
<1>4. Cardinality(busy') <= 1 => \A o \in Thread : learning[o] = None
  BY <1>1, <1>2 DEF OneThread
<1>5. OneThread'
  BY <1>1, <1>2, <1>4 DEF OneThread, OneEntryPerAddress
<1> QED BY <1>3, <1>5

LEMMA PathsInitially == PathsInit => PathInv /\ OneThread
<1> SUFFICES ASSUME PathsInit PROVE PathInv /\ OneThread
  OBVIOUS
<1>1. PathsType(paths) /\ Used(paths) = {} /\ Visited(paths) = {}
  BY PeerPathsConstants DEF PathsInit, PathsType, Used, Visited, Slot
<1> QED BY <1>1, FS_EmptySet DEF PathsInit, PathInv, OneThread, Compact, OneEntryPerAddress

LEMMA PathsStep == PathInv /\ OneThread /\ [PathsNext]_pathsVars => PathInv' /\ OneThread'
<1> SUFFICES ASSUME PathInv, OneThread, [PathsNext]_pathsVars PROVE PathInv' /\ OneThread'
  OBVIOUS
<1>0. paths' = paths => SamePaths
  BY DEF SamePaths, PathInv
<1>1. ASSUME NEW t \in Thread, NEW path \in Path, Receive(t, path)
      PROVE  PathInv' /\ OneThread'
  BY <1>1, Receiving
<1>2. ASSUME NEW t \in Thread, Decline(t) PROVE PathInv' /\ OneThread'
  <2>1. paths' = paths /\ alive' = alive /\ busy' = busy
        /\ learning' = [learning EXCEPT ![t] = None]
    BY <1>2 DEF Decline
  <2>2. \A o \in Thread : learning'[o] = IF o = t THEN None ELSE learning[o]
    BY <2>1 DEF PathInv
  <2>3. PathInv'
    BY <2>1 DEF PathInv, Compact
  <2> QED BY <2>1, <2>2, <2>3 DEF OneThread, OneEntryPerAddress, Unlisted
<1>3. ASSUME NEW t \in Thread, Learn(t) PROVE PathInv' /\ OneThread'
  BY <1>3, Learning
<1>4. ASSUME NEW t \in Thread, NEW from \in Path, NEW to \in Path, Redirect(t, from, to)
      PROVE  PathInv' /\ OneThread'
  BY <1>4, Redirecting
<1>5. CASE DoPingAndKeepalive
  BY <1>5, Cleaning
<1>6. ASSUME NEW t \in Thread, NEW scope, ResetWithinScope(t, scope)
      PROVE  PathInv' /\ OneThread'
  <2>1. ASSUME NEW i \in Slot
        PROVE  /\ paths'[i] \in Entry \cup {None}
               /\ paths'[i] = None <=> paths[i] = None
               /\ paths[i] # None => paths'[i].p = paths[i].p
    <3>1. paths'[i] = IF i \in Visited(paths) /\ ScopeOf[paths[i].p] = scope
                      THEN [paths[i] EXCEPT !.fresh = FALSE] ELSE paths[i]
      BY <1>6 DEF ResetWithinScope
    <3>2. i \in Visited(paths) => paths[i] \in Entry
      BY SlotNat DEF Used, PathInv, PathsType
    <3>3. \A e \in Entry : [e EXCEPT !.fresh = FALSE] \in Entry
                           /\ [e EXCEPT !.fresh = FALSE].p = e.p
      BY DEF Entry
    <3> QED BY <3>1, <3>2, <3>3, PeerPathsConstants DEF PathInv, PathsType
  <2>2. SamePaths
    BY <1>6, <2>1 DEF ResetWithinScope, SamePaths, PathsType
  <2> QED BY <1>6, <2>2, Fading DEF ResetWithinScope
<1>7. ASSUME NEW path \in Path, FallSilent(path) PROVE PathInv' /\ OneThread'
  BY <1>0, <1>7, Fading DEF FallSilent
<1>8. ASSUME NEW i \in Slot, Expire(i) PROVE PathInv' /\ OneThread'
  <2>1. i \in Used(paths) /\ paths' = [paths EXCEPT ![i].fresh = FALSE]
    BY <1>8 DEF Expire, Used
  <2>2. SamePaths
    BY <2>1, SetFresh
  <2> QED BY <1>8, <2>2, Fading DEF Expire
<1>9. CASE UNCHANGED pathsVars
  BY <1>0, <1>9, Fading DEF pathsVars
<1>10. ASSUME NEW t \in Thread, NEW path \in Path, Overhear(t, path)
       PROVE  PathInv' /\ OneThread'
  BY <1>10, Overhearing
<1> QED BY <1>1, <1>2, <1>3, <1>4, <1>5, <1>6, <1>7, <1>8, <1>9, <1>10 DEF PathsNext

(* No path is ever behind a hole of the array, where the loops that stop   *)
(* at the first empty slot would not find it.                              *)
THEOREM StaysCompact == PathsSpec => []Compact
<1>1. PathInv => Compact
  BY DEF PathInv
<1> QED BY <1>1, PathsInitially, PathsStep, PTL DEF PathsSpec

(* A pass of the ping loop drops an entry as long as one has expired or is *)
(* outranked.                                                              *)
THEOREM PassesShorten == PathsSpec => []PassProgresses
<1>1. PathInv => PassProgresses
  <2> SUFFICES ASSUME PathInv, NEW i \in Used(paths), NEW j \in Used(paths),
                      ~ paths[i].fresh \/ paths[i].priority < paths[j].priority
               PROVE  Cardinality(Used(Cleaned(paths))) < Cardinality(Used(paths))
    BY DEF PassProgresses
  <2>1. PICK n \in 0..MaxPaths : CompactTo(paths, n)
    BY CompactNow
  <2>2. n \in Nat /\ Used(paths) = 1..n
    BY <2>1, CompactUsed, PeerPathsConstants
  <2>3. ~ \A k \in 1..n : Keeps(paths[k], HighestPriority(paths))
    <3>1. paths[i].priority \in 1..MaxPriority /\ paths[j].priority \in 1..MaxPriority
      BY DEF PathInv, PathsType, Used, Entry
    <3> QED BY <2>2, <3>1, PeerPathsConstants DEF Keeps
  <2>4. CompactTo(Cleaned(paths), n - 1)
    BY <2>1, <2>3, CleanedIs DEF PathInv
  <2>5. Used(Cleaned(paths)) = 1..(n - 1)
    BY <2>4, CompactUsed
  <2>6. n >= 1
    BY <2>2
  <2>7. Cardinality(1..n) = n /\ Cardinality(1..(n - 1)) = n - 1
    <3>1. 1 \in Int /\ n \in Int /\ n - 1 \in Int
      BY <2>2
    <3>2. /\ Cardinality(1..n) = (IF 1 > n THEN 0 ELSE n - 1 + 1)
          /\ Cardinality(1..(n - 1)) = (IF 1 > n - 1 THEN 0 ELSE (n - 1) - 1 + 1)
      BY <3>1, FS_Interval
    <3> QED BY <2>2, <2>6, <3>2
  <2> QED BY <2>2, <2>5, <2>7
<1> QED BY <1>1, PathsInitially, PathsStep, PTL DEF PathsSpec

(* What one thread learns, redirects and cleans leaves one entry for an    *)
(* address.                                                                *)
THEOREM AloneOneEntry == PathsSpec => []OneThreadOneEntry
<1>1. OneThread => OneThreadOneEntry
  BY DEF OneThread, OneThreadOneEntry
<1> QED BY <1>1, PathsInitially, PathsStep, PTL DEF PathsSpec
------------------------------------------------------------------------------
(* The endpoints of a root *)

LEMMA Upward ==
    ASSUME NEW n \in Nat, NEW G, 0 \in G, \A i \in 1..n : i - 1 \in G => i \in G
    PROVE  \A i \in 0..n : i \in G
<1> DEFINE D == { i \in 0..n : i \notin G }
<1> SUFFICES ASSUME D # {} PROVE FALSE
  OBVIOUS
<1>1. D \in SUBSET Nat
  OBVIOUS
<1>2. PICK m \in D : \A j \in D : m <= j
  <2> HIDE DEF D
  <2> QED BY <1>1, Least
<1>3. m \in 1..n /\ m \notin G
  BY <1>2
<1>4. m - 1 \in 0..n /\ m - 1 \notin D
  BY <1>2, <1>3
<1> QED BY <1>3, <1>4

(* The states of a loop of n passes, from base *)
Runs(f, S, n, base, step) ==
    f \in [0..n -> S] /\ f[0] = base /\ \A i \in 1..n : f[i] = step[<<f[i - 1], i>>]

(* A loop has a state after each of its n passes. *)
LEMMA Passes ==
    ASSUME NEW S, NEW n \in Nat, NEW base, NEW step,
           base \in S, \A x \in S : \A i \in 1..n : step[<<x, i>>] \in S
    PROVE  \E f : Runs(f, S, n, base, step)
<1> DEFINE Run(k) == \E f : Runs(f, S, k, base, step)
           G == { k \in 0..n : Run(k) }
<1>1. Run(0)
  <2> DEFINE f == [i \in 0..0 |-> base]
  <2>1. f \in [0..0 -> S] /\ f[0] = base /\ \A i \in 1..0 : f[i] = step[<<f[i - 1], i>>]
    OBVIOUS
  <2> HIDE DEF f
  <2> QED BY <2>1 DEF Runs
<1>2. ASSUME NEW k \in 1..n, Run(k - 1) PROVE Run(k)
  <2>1. PICK g : g \in [0..(k - 1) -> S] /\ g[0] = base
                 /\ \A i \in 1..(k - 1) : g[i] = step[<<g[i - 1], i>>]
    BY <1>2 DEF Runs
  <2> DEFINE f == [i \in 0..k |-> IF i = k THEN step[<<g[k - 1], k>>] ELSE g[i]]
  <2>2. k \in Nat /\ k >= 1 /\ g[k - 1] \in S
    BY <2>1
  <2>3. f \in [0..k -> S]
    BY <2>1, <2>2
  <2>4. f[0] = base
    BY <2>1, <2>2
  <2>5. ASSUME NEW i \in 1..k PROVE f[i] = step[<<f[i - 1], i>>]
    <3>0. i - 1 \in 0..k /\ i - 1 # k
      BY <2>2
    <3>1. f[i - 1] = g[i - 1]
      BY <3>0
    <3>2. CASE i = k
      BY <2>2, <3>1, <3>2
    <3>3. CASE i # k
      <4>1. i \in 1..(k - 1) /\ f[i] = g[i]
        BY <2>2, <3>3
      <4> HIDE DEF f
      <4> QED BY <2>1, <3>1, <4>1
    <3> QED BY <3>2, <3>3
  <2> HIDE DEF f
  <2> QED BY <2>3, <2>4, <2>5 DEF Runs
<1> HIDE DEF Run
<1>3. 0 \in G /\ \A k \in 1..n : k - 1 \in G => k \in G
  BY <1>1, <1>2
<1> HIDE DEF G
<1>4. n \in 0..n /\ \A k \in 0..n : k \in G
  BY <1>3, Upward
<1>5. Run(n)
  <2> USE DEF G
  <2> QED BY <1>4
<1> QED BY <1>5 DEF Run

Endpoints == Seq(Endpoint)

(* The loop of zgMergeRootEndpoints over the listed endpoints *)
LEMMA LanLoop ==
    ASSUME NEW c \in Endpoints
    PROVE  \E m \in [0..Len(c) -> Endpoints] :
               /\ m[0] = <<>> /\ Lan(c) = m[Len(c)]
               /\ \A i \in 1..Len(c) : m[i] = KeepPrivate(m[i - 1], c[i])
<1> DEFINE n == Len(c)
           Loops(g) == g = [i \in 0..n |-> IF i = 0 THEN <<>> ELSE KeepPrivate(g[i - 1], c[i])]
           list == CHOOSE g : Loops(g)
           step == [x \in Endpoints \X (1..n) |-> KeepPrivate(x[1], c[x[2]])]
<1>0. n \in Nat /\ \A i \in 1..n : c[i] \in Endpoint
  BY DEF Endpoints
<1>1. Lan(c) = list[n]
  BY Zenon DEF Lan
<1> HIDE DEF n
<1>2. ASSUME NEW x \in Endpoints, NEW i \in 1..n
      PROVE  step[<<x, i>>] = KeepPrivate(x, c[i]) /\ KeepPrivate(x, c[i]) \in Endpoints
  BY <1>0 DEF KeepPrivate, Endpoints
<1> HIDE DEF step
<1>3. PICK f : f \in [0..n -> Endpoints] /\ f[0] = <<>>
                 /\ \A i \in 1..n : f[i] = step[<<f[i - 1], i>>]
  <2>1. <<>> \in Endpoints
    BY DEF Endpoints
  <2>2. \A x \in Endpoints : \A i \in 1..n : step[<<x, i>>] \in Endpoints
    BY <1>2
  <2>3. \E f : Runs(f, Endpoints, n, <<>>, step)
    BY <1>0, <2>1, <2>2, Passes
  <2> QED BY <2>3 DEF Runs
<1>4. Loops(f)
  <2>1. ASSUME NEW i \in 0..n, i # 0 PROVE f[i] = KeepPrivate(f[i - 1], c[i])
    <3>1. i \in 1..n /\ i - 1 \in 0..n
      BY <1>0, <2>1
    <3> QED BY <1>2, <1>3, <3>1
  <2>2. f = [i \in 0..n |-> f[i]] /\ f[0] = <<>>
    BY <1>3
  <2>3. [i \in 0..n |-> f[i]]
          = [i \in 0..n |-> IF i = 0 THEN <<>> ELSE KeepPrivate(f[i - 1], c[i])]
    BY <2>1, <2>2
  <2> QED BY <2>2, <2>3
<1>5. Loops(list)
  <2> HIDE DEF Loops
  <2> QED BY <1>4
<1> HIDE DEF list
<1>6. PICK m : m = list
  OBVIOUS
<1>7. m = [i \in 0..n |-> IF i = 0 THEN <<>> ELSE KeepPrivate(m[i - 1], c[i])]
  BY <1>5, <1>6
<1>8. m[0] = <<>> /\ \A i \in 1..n : m[i] = KeepPrivate(m[i - 1], c[i])
  <2>1. \A i \in 0..n : m[i] = IF i = 0 THEN <<>> ELSE KeepPrivate(m[i - 1], c[i])
    BY <1>7
  <2>2. 0 \in 0..n /\ \A i \in 1..n : i \in 0..n /\ i # 0
    BY <1>0
  <2> QED BY <2>1, <2>2
<1>9. m \in [0..n -> Endpoints]
  <2> DEFINE G == { i \in 0..n : m[i] \in Endpoints }
  <2>1. 0 \in G
    <3>1. <<>> \in Endpoints /\ 0 \in 0..n
      BY <1>0 DEF Endpoints
    <3> QED BY <1>8, <3>1
  <2>2. ASSUME NEW i \in 1..n, i - 1 \in G PROVE i \in G
    <3>1. i \in 0..n /\ m[i - 1] \in Endpoints
      BY <1>0, <2>2
    <3> QED BY <1>2, <1>8, <3>1
  <2> HIDE DEF G
  <2>3. \A i \in 0..n : i \in G
    BY <1>0, <2>1, <2>2, Upward
  <2> USE DEF G
  <2>4. \A i \in 0..n : m[i] \in Endpoints
    BY <2>3
  <2>5. m = [i \in 0..n |-> m[i]]
    BY <1>7
  <2> QED BY <2>4, <2>5
<1> QED BY <1>1, <1>6, <1>8, <1>9 DEF n
(* Every address the resolver returned, with the port a merge gives it *)
Bare == [ip : V4, port : {0}]
AnswerLists == Seq(Bare)
Given(e, port) == [ip |-> e.ip, port |-> port]

LEMMA AddIs ==
    ASSUME NEW list \in Endpoints, NEW e \in Bare, NEW port \in Port
    PROVE  /\ Given(e, port) \in Endpoint
           /\ Contains(list, Given(e, port)) => AddResolved(list, e, port) = list
           /\ ~ Contains(list, Given(e, port)) =>
                 AddResolved(list, e, port) = Append(list, Given(e, port))
           /\ AddResolved(list, e, port) \in Endpoints
<1>1. Given(e, port) \in Endpoint
  BY EndpointConstants DEF Given, Endpoint, Bare
<1>2. WithPort(e, port) = Given(e, port)
  BY DEF WithPort, Given, Bare
<1>3. e.ip \in V4
  BY DEF Bare
<1>4. AddResolved(list, e, port)
        = IF Contains(list, Given(e, port)) THEN list ELSE Append(list, Given(e, port))
  BY <1>2, <1>3 DEF AddResolved
<1> QED BY <1>1, <1>4 DEF Endpoints

LEMMA AddStays ==
    ASSUME NEW list \in Endpoints, NEW e \in Endpoint, NEW port \in Port
    PROVE  AddResolved(list, e, port) \in Endpoints
<1>1. WithPort(e, port) \in Endpoint
  BY EndpointConstants DEF WithPort, Endpoint
<1> QED BY <1>1 DEF AddResolved, Endpoints

(* Its loop over the resolved addresses *)
LEMMA JoinedLoop ==
    ASSUME NEW c \in Endpoints, NEW A \in Endpoints, NEW port \in Port
    PROVE  \E m \in [0..Len(A) -> Endpoints] :
               /\ m[0] = c /\ Joined(c, A, port) = m[Len(A)]
               /\ \A i \in 1..Len(A) : m[i] = AddResolved(m[i - 1], A[i], port)
<1> DEFINE n == Len(A)
           Loops(g) == g = [i \in 0..n |-> IF i = 0 THEN c ELSE AddResolved(g[i - 1], A[i], port)]
           list == CHOOSE g : Loops(g)
           step == [x \in Endpoints \X (1..n) |-> AddResolved(x[1], A[x[2]], port)]
<1>0. n \in Nat /\ \A i \in 1..n : A[i] \in Endpoint
  BY DEF Endpoints
<1>1. Joined(c, A, port) = list[n]
  BY Zenon DEF Joined
<1> HIDE DEF n
<1>2. ASSUME NEW x \in Endpoints, NEW i \in 1..n
      PROVE  /\ step[<<x, i>>] = AddResolved(x, A[i], port)
             /\ AddResolved(x, A[i], port) \in Endpoints
  <2>1. step[<<x, i>>] = AddResolved(x, A[i], port)
    OBVIOUS
  <2>2. AddResolved(x, A[i], port) \in Endpoints
    BY <1>0, AddStays
  <2> QED BY <2>1, <2>2
<1> HIDE DEF step
<1>3. PICK f : f \in [0..n -> Endpoints] /\ f[0] = c
                 /\ \A i \in 1..n : f[i] = step[<<f[i - 1], i>>]
  <2>2. \A x \in Endpoints : \A i \in 1..n : step[<<x, i>>] \in Endpoints
    BY <1>2
  <2>3. \E f : Runs(f, Endpoints, n, c, step)
    BY <1>0, <2>2, Passes
  <2> QED BY <2>3 DEF Runs
<1>4. Loops(f)
  <2>1. ASSUME NEW i \in 0..n, i # 0 PROVE f[i] = AddResolved(f[i - 1], A[i], port)
    <3>1. i \in 1..n /\ i - 1 \in 0..n
      BY <1>0, <2>1
    <3> QED BY <1>2, <1>3, <3>1
  <2>2. f = [i \in 0..n |-> f[i]] /\ f[0] = c
    BY <1>3
  <2>3. [i \in 0..n |-> f[i]]
          = [i \in 0..n |-> IF i = 0 THEN c ELSE AddResolved(f[i - 1], A[i], port)]
    BY <2>1, <2>2
  <2> QED BY <2>2, <2>3
<1>5. Loops(list)
  <2> HIDE DEF Loops
  <2> QED BY <1>4
<1> HIDE DEF list
<1>6. PICK m : m = list
  OBVIOUS
<1>7. m = [i \in 0..n |-> IF i = 0 THEN c ELSE AddResolved(m[i - 1], A[i], port)]
  BY <1>5, <1>6
<1>8. m[0] = c /\ \A i \in 1..n : m[i] = AddResolved(m[i - 1], A[i], port)
  <2>1. \A i \in 0..n : m[i] = IF i = 0 THEN c ELSE AddResolved(m[i - 1], A[i], port)
    BY <1>7
  <2>2. 0 \in 0..n /\ \A i \in 1..n : i \in 0..n /\ i # 0
    BY <1>0
  <2> QED BY <2>1, <2>2
<1>9. m \in [0..n -> Endpoints]
  <2> DEFINE G == { i \in 0..n : m[i] \in Endpoints }
  <2>1. 0 \in G
    <3>1. 0 \in 0..n
      BY <1>0
    <3> QED BY <1>8, <3>1
  <2>2. ASSUME NEW i \in 1..n, i - 1 \in G PROVE i \in G
    <3>1. i \in 0..n /\ m[i - 1] \in Endpoints
      BY <1>0, <2>2
    <3> QED BY <1>2, <1>8, <3>1
  <2> HIDE DEF G
  <2>3. \A i \in 0..n : i \in G
    BY <1>0, <2>1, <2>2, Upward
  <2> USE DEF G
  <2>4. \A i \in 0..n : m[i] \in Endpoints
    BY <2>3
  <2>5. m = [i \in 0..n |-> m[i]]
    BY <1>7
  <2> QED BY <2>4, <2>5
<1> QED BY <1>1, <1>6, <1>8, <1>9 DEF n

LEMMA AnswersAreEndpoints == AnswerLists \subseteq Endpoints
<1>1. Bare \subseteq Endpoint
  BY EndpointConstants DEF Bare, Endpoint
<1> QED BY <1>1 DEF AnswerLists, Endpoints

(* What Lan keeps: the private endpoints, those at the front in place. *)
LanHolds(list, c) ==
    /\ list \in Endpoints /\ Len(list) <= Len(c)
    /\ \A j \in 1..Len(list) : list[j].ip \in Private /\ \E k \in 1..Len(c) : c[k] = list[j]
    /\ \A k \in 1..Len(c) : c[k].ip \in Private => \E j \in 1..Len(list) : list[j] = c[k]

LEMMA LanElements ==
    ASSUME NEW c \in Endpoints PROVE LanHolds(Lan(c), c)
<1> DEFINE n == Len(c)
<1>0. n \in Nat /\ \A i \in 1..n : c[i] \in Endpoint
  BY DEF Endpoints
<1>1. PICK m \in [0..n -> Endpoints] :
         m[0] = <<>> /\ Lan(c) = m[n] /\ \A i \in 1..n : m[i] = KeepPrivate(m[i - 1], c[i])
  BY LanLoop
<1> DEFINE Held(i) ==
        /\ Len(m[i]) <= i
        /\ \A j \in 1..Len(m[i]) : m[i][j].ip \in Private /\ \E k \in 1..i : c[k] = m[i][j]
        /\ \A k \in 1..i : c[k].ip \in Private => \E j \in 1..Len(m[i]) : m[i][j] = c[k]
    G == { i \in 0..n : Held(i) }
<1> HIDE DEF n
<1>2. 0 \in G
  BY <1>0, <1>1
<1>3. ASSUME NEW i \in 1..n, i - 1 \in G PROVE i \in G
  <2>1. i \in 0..n /\ i - 1 \in 0..n /\ Held(i - 1) /\ i \in Nat
    BY <1>0, <1>3
  <2>2. PICK p \in Endpoints : p = m[i - 1]
    BY <1>1, <2>1
  <2>3. m[i] = KeepPrivate(p, c[i])
    BY <1>1, <2>2
  <2>4. CASE c[i].ip \notin Private
    <3>1. m[i] = p
      BY <2>3, <2>4 DEF KeepPrivate
    <3>2. \A k \in 1..i : c[k].ip \in Private => k \in 1..(i - 1)
      BY <2>1, <2>4
    <3>3. Held(i)
      BY <2>1, <2>2, <3>1, <3>2
    <3> QED BY <2>1, <3>3
  <2>5. CASE c[i].ip \in Private
    <3>1. m[i] = Append(p, c[i])
      BY <2>3, <2>5 DEF KeepPrivate
    <3>2. /\ Len(m[i]) = Len(p) + 1 /\ m[i][Len(p) + 1] = c[i] /\ Len(p) \in Nat
          /\ \A j \in 1..Len(p) : m[i][j] = p[j]
      BY <3>1 DEF Endpoints
    <3>3. ASSUME NEW j \in 1..Len(m[i])
          PROVE  m[i][j].ip \in Private /\ \E k \in 1..i : c[k] = m[i][j]
      <4>1. CASE j = Len(p) + 1
        BY <2>1, <2>5, <3>2, <4>1
      <4>2. CASE j # Len(p) + 1
        <5>1. j \in 1..Len(p) /\ m[i][j] = p[j]
          BY <3>2, <4>2
        <5> QED BY <2>1, <2>2, <5>1
      <4> QED BY <4>1, <4>2
    <3>4. ASSUME NEW k \in 1..i, c[k].ip \in Private
          PROVE  \E j \in 1..Len(m[i]) : m[i][j] = c[k]
      <4>1. CASE k = i
        BY <3>2, <4>1
      <4>2. CASE k # i
        <5>1. k \in 1..(i - 1)
          BY <2>1, <4>2
        <5>2. PICK j \in 1..Len(p) : p[j] = c[k]
          BY <2>1, <2>2, <3>4, <5>1
        <5>3. j \in 1..Len(m[i]) /\ m[i][j] = c[k]
          BY <3>2, <5>2
        <5> QED BY <5>3
      <4> QED BY <4>1, <4>2
    <3>5. Held(i)
      BY <2>1, <2>2, <3>2, <3>3, <3>4
    <3> QED BY <2>1, <3>5
  <2> QED BY <2>4, <2>5
<1> HIDE DEF G
<1>4. n \in 0..n /\ \A i \in 0..n : i \in G
  BY <1>0, <1>2, <1>3, Upward
<1>5. Held(n)
  <2> USE DEF G
  <2> QED BY <1>4
<1> QED BY <1>0, <1>1, <1>4, <1>5 DEF LanHolds, n
LEMMA LanPrefix ==
    ASSUME NEW c \in Endpoints, NEW k \in 0..Len(c), \A j \in 1..k : c[j].ip \in Private
    PROVE  /\ Len(Lan(c)) >= k
           /\ \A j \in 1..k : Lan(c)[j] = c[j]
           /\ (\A j \in (k + 1)..Len(c) : c[j].ip \notin Private) => Len(Lan(c)) = k
<1> DEFINE n == Len(c)
           Rest == \A j \in (k + 1)..n : c[j].ip \notin Private
<1>0. n \in Nat /\ k \in Nat /\ k <= n
  BY DEF Endpoints
<1>1. PICK m \in [0..n -> Endpoints] :
         m[0] = <<>> /\ Lan(c) = m[n] /\ \A i \in 1..n : m[i] = KeepPrivate(m[i - 1], c[i])
  BY LanLoop
<1> HIDE DEF n
<1> DEFINE
    Held(i) ==
        /\ i <= k => Len(m[i]) = i
        /\ i >= k => Len(m[i]) >= k
        /\ \A j \in 1..k : j <= i => m[i][j] = c[j]
        /\ (i >= k /\ Rest) => Len(m[i]) = k
    G == { i \in 0..n : Held(i) }
<1>2. 0 \in G
  BY <1>0, <1>1
<1>3. ASSUME NEW i \in 1..n, i - 1 \in G PROVE i \in G
  <2>1. i \in 0..n /\ i - 1 \in 0..n /\ Held(i - 1) /\ i \in Nat
    BY <1>0, <1>3
  <2>2. PICK p \in Endpoints : p = m[i - 1]
    BY <1>1, <2>1
  <2>3. m[i] = KeepPrivate(p, c[i])
    BY <1>1, <2>2
  <2>4. CASE c[i].ip \notin Private
    <3>1. m[i] = p /\ i > k
      BY <1>0, <2>1, <2>3, <2>4 DEF KeepPrivate
    <3>2. Held(i)
      BY <1>0, <2>1, <2>2, <3>1
    <3> QED BY <2>1, <3>2
  <2>5. CASE c[i].ip \in Private
    <3>1. m[i] = Append(p, c[i])
      BY <2>3, <2>5 DEF KeepPrivate
    <3>2. /\ Len(m[i]) = Len(p) + 1 /\ m[i][Len(p) + 1] = c[i] /\ Len(p) \in Nat
          /\ \A j \in 1..Len(p) : m[i][j] = p[j]
      BY <3>1 DEF Endpoints
    <3>3. CASE i <= k
      <4>1. Len(p) = i - 1 /\ Len(m[i]) = i
        BY <1>0, <2>1, <2>2, <3>2, <3>3
      <4>2. ASSUME NEW j \in 1..k, j <= i PROVE m[i][j] = c[j]
        <5>1. CASE j = i
          BY <3>2, <4>1, <5>1
        <5>2. CASE j # i
          <6>1. j \in 1..Len(p) /\ j <= i - 1
            BY <2>1, <4>1, <4>2, <5>2
          <6> QED BY <2>1, <2>2, <3>2, <6>1
        <5> QED BY <5>1, <5>2
      <4>3. Held(i)
        BY <1>0, <2>1, <3>3, <4>1, <4>2
      <4> QED BY <2>1, <4>3
    <3>4. CASE i > k
      <4>1. ~ Rest
        BY <1>0, <2>1, <2>5, <3>4
      <4>2. Len(p) >= k
        BY <1>0, <2>1, <2>2, <3>4
      <4>3. ASSUME NEW j \in 1..k PROVE m[i][j] = c[j]
        <5>1. j \in 1..Len(p) /\ j <= i - 1
          BY <1>0, <2>1, <3>2, <3>4, <4>2
        <5> QED BY <2>1, <2>2, <3>2, <5>1
      <4> HIDE DEF Rest
      <4>4. Held(i)
        BY <1>0, <2>1, <3>2, <3>4, <4>1, <4>2, <4>3
      <4> QED BY <2>1, <4>4
    <3> QED BY <1>0, <2>1, <3>3, <3>4
  <2> QED BY <2>4, <2>5
<1> HIDE DEF G
<1>4. n \in 0..n /\ \A i \in 0..n : i \in G
  BY <1>0, <1>2, <1>3, Upward
<1>5. Held(n)
  <2> USE DEF G
  <2> QED BY <1>4
<1>6. /\ Len(m[n]) >= k
      /\ \A j \in 1..k : m[n][j] = c[j]
      /\ Rest => Len(m[n]) = k
  BY <1>0, <1>5
<1> QED BY <1>1, <1>6 DEF n

(* What Joined adds to a list: the addresses it lacks, behind what it had. *)
Adds(M, c, A, port) ==
    /\ M \in Endpoints /\ Len(M) >= Len(c) /\ Len(M) <= Len(c) + Len(A)
    /\ \A j \in 1..Len(c) : M[j] = c[j]
    /\ \A j \in (Len(c) + 1)..Len(M) :
          /\ \A k \in 1..Len(c) : c[k] # M[j]
          /\ \E a \in 1..Len(A) : M[j] = Given(A[a], port)
    /\ \A a \in 1..Len(A) : \E j \in 1..Len(M) : M[j] = Given(A[a], port)

LEMMA JoinedAdds ==
    ASSUME NEW c \in Endpoints, NEW A \in AnswerLists, NEW port \in Port
    PROVE  Adds(Joined(c, A, port), c, A, port)
<1> DEFINE n == Len(A)
           l == Len(c)
<1>0. n \in Nat /\ l \in Nat /\ \A i \in 1..n : A[i] \in Bare
  BY DEF AnswerLists, Endpoints
<1>1. PICK m \in [0..n -> Endpoints] :
         /\ m[0] = c /\ Joined(c, A, port) = m[n]
         /\ \A i \in 1..n : m[i] = AddResolved(m[i - 1], A[i], port)
  BY JoinedLoop, AnswersAreEndpoints
<1> DEFINE
    Held(i) ==
        /\ Len(m[i]) >= l /\ Len(m[i]) <= l + i
        /\ \A j \in 1..l : m[i][j] = c[j]
        /\ \A j \in (l + 1)..Len(m[i]) :
              /\ \A k \in 1..l : c[k] # m[i][j]
              /\ \E a \in 1..i : m[i][j] = Given(A[a], port)
        /\ \A a \in 1..i : \E j \in 1..Len(m[i]) : m[i][j] = Given(A[a], port)
    G == { i \in 0..n : Held(i) }
<1>2. 0 \in G
  BY <1>0, <1>1
<1> HIDE DEF n, l
<1>3. ASSUME NEW i \in 1..n, i - 1 \in G PROVE i \in G
  <2>1. i \in 0..n /\ i - 1 \in 0..n /\ Held(i - 1) /\ i \in Nat
    BY <1>0, <1>3
  <2>2. PICK p \in Endpoints : p = m[i - 1]
    BY <1>1, <2>1
  <2>3. PICK g \in Endpoint :
           /\ g = Given(A[i], port)
           /\ Contains(p, g) => m[i] = p
           /\ ~ Contains(p, g) => m[i] = Append(p, g)
    <3>1. m[i] = AddResolved(p, A[i], port) /\ A[i] \in Bare
      BY <1>0, <1>1, <2>2
    <3> QED BY <3>1, AddIs
  <2>4. CASE Contains(p, g)
    <3>1. m[i] = p /\ \E j \in 1..Len(p) : p[j] = Given(A[i], port)
      BY <2>3, <2>4 DEF Contains
    <3>2. \A a \in 1..i : \E j \in 1..Len(m[i]) : m[i][j] = Given(A[a], port)
      <4> SUFFICES ASSUME NEW a \in 1..i
                   PROVE  \E j \in 1..Len(m[i]) : m[i][j] = Given(A[a], port)
        OBVIOUS
      <4>1. a = i \/ a \in 1..(i - 1)
        BY <2>1
      <4> QED BY <2>1, <2>2, <3>1, <4>1
    <3>3. Held(i)
      BY <1>0, <2>1, <2>2, <3>1, <3>2
    <3> QED BY <2>1, <3>3
  <2>5. CASE ~ Contains(p, g)
    <3>1. m[i] = Append(p, g) /\ \A j \in 1..Len(p) : p[j] # g
      BY <2>3, <2>5 DEF Contains
    <3>2. /\ Len(m[i]) = Len(p) + 1 /\ m[i][Len(p) + 1] = g /\ Len(p) \in Nat
          /\ \A j \in 1..Len(p) : m[i][j] = p[j]
      BY <3>1 DEF Endpoints
    <3>3. Len(p) >= l /\ Len(p) <= l + (i - 1)
      BY <2>1, <2>2
    <3>4. \A j \in 1..l : m[i][j] = c[j] /\ p[j] = c[j]
      <4> SUFFICES ASSUME NEW j \in 1..l PROVE m[i][j] = c[j] /\ p[j] = c[j]
        OBVIOUS
      <4>1. p[j] = c[j]
        BY <2>1, <2>2
      <4>2. j \in 1..Len(p)
        BY <1>0, <3>2, <3>3
      <4> QED BY <3>2, <4>1, <4>2
    <3>5. ASSUME NEW j \in (l + 1)..Len(m[i])
          PROVE  /\ \A k \in 1..l : c[k] # m[i][j]
                 /\ \E a \in 1..i : m[i][j] = Given(A[a], port)
      <4>1. CASE j = Len(p) + 1
        <5>1. m[i][j] = g /\ \A k \in 1..l : p[k] = c[k] /\ k \in 1..Len(p)
          BY <1>0, <3>2, <3>3, <3>4, <4>1
        <5>2. i \in 1..i
          BY <2>1
        <5> QED BY <2>3, <3>1, <5>1, <5>2
      <4>2. CASE j # Len(p) + 1
        <5>1. j \in (l + 1)..Len(p) /\ m[i][j] = p[j]
          BY <1>0, <3>2, <3>3, <4>2
        <5>2. PICK a \in 1..(i - 1) : p[j] = Given(A[a], port)
          BY <2>1, <2>2, <5>1
        <5>3. a \in 1..i
          BY <2>1
        <5> QED BY <2>1, <2>2, <5>1, <5>2, <5>3
      <4> QED BY <4>1, <4>2
    <3>6. ASSUME NEW a \in 1..i
          PROVE  \E j \in 1..Len(m[i]) : m[i][j] = Given(A[a], port)
      <4>1. CASE a = i
        <5>1. Len(p) + 1 \in 1..Len(m[i])
          BY <3>2
        <5> QED BY <2>3, <3>2, <4>1, <5>1
      <4>2. CASE a # i
        <5>1. a \in 1..(i - 1)
          BY <2>1, <4>2
        <5>2. PICK j \in 1..Len(p) : p[j] = Given(A[a], port)
          BY <2>1, <2>2, <5>1
        <5>3. j \in 1..Len(m[i])
          BY <3>2
        <5> QED BY <3>2, <5>2, <5>3
      <4> QED BY <4>1, <4>2
    <3>7. Len(m[i]) >= l /\ Len(m[i]) <= l + i
      BY <1>0, <2>1, <3>2, <3>3
    <3>8. Held(i)
      BY <3>4, <3>5, <3>6, <3>7
    <3> QED BY <2>1, <3>8
  <2> QED BY <2>4, <2>5
<1> HIDE DEF G
<1>4. n \in 0..n /\ \A i \in 0..n : i \in G
  BY <1>0, <1>2, <1>3, Upward
<1>5. Held(n)
  <2> USE DEF G
  <2> QED BY <1>4
<1>6. m[n] \in Endpoints
  BY <1>1, <1>4
<1> QED BY <1>1, <1>5, <1>6 DEF Adds, n, l
(* The lists of endpoints are closed under the merge, as Topology assumes  *)
(* of those of its worlds (MergeClosed).                                   *)
THEOREM MergeCloses == \A c, A \in Seq(Endpoint) : Merge(c, A) \in Seq(Endpoint)
<1> SUFFICES ASSUME NEW c \in Endpoints, NEW A \in Endpoints PROVE Merge(c, A) \in Endpoints
  BY DEF Endpoints
<1>1. Lan(c) \in Endpoints
  BY LanElements DEF LanHolds
<1>2. RootPort(c) \in Port
  <2>1. CASE c = <<>>
    BY <2>1, EndpointConstants DEF RootPort
  <2>2. CASE c # <<>>
    <3>1. c[1] \in Endpoint
      BY <2>2 DEF Endpoints
    <3> QED BY <2>2, <3>1 DEF RootPort, Endpoint
  <2> QED BY <2>1, <2>2
<1>3. PICK m \in [0..Len(A) -> Endpoints] : Joined(Lan(c), A, RootPort(c)) = m[Len(A)]
  BY <1>1, <1>2, JoinedLoop
<1>4. Len(A) \in 0..Len(A)
  BY DEF Endpoints
<1> QED BY <1>3, <1>4 DEF Merge

(* A list a root can have: every endpoint has a port. *)
Ported(c) == c \in Endpoints /\ \A i \in 1..Len(c) : c[i].port # 0

LEMMA PortGiven ==
    ASSUME NEW c, Ported(c)
    PROVE  RootPort(c) \in Port /\ RootPort(c) # 0 /\ Lan(c) \in Endpoints
<1>1. Lan(c) \in Endpoints
  BY LanElements DEF Ported, LanHolds
<1>2. CASE c = <<>>
  BY <1>1, <1>2, EndpointConstants DEF RootPort
<1>3. CASE c # <<>>
  <2>1. 1 \in 1..Len(c) /\ c[1] \in Endpoint
    BY <1>3 DEF Ported, Endpoints
  <2> QED BY <1>1, <1>3, <2>1 DEF RootPort, Ported, Endpoint
<1> QED BY <1>2, <1>3

(* What a pass makes of a root's list *)
LEMMA MergeIs ==
    ASSUME NEW c, Ported(c), NEW A \in AnswerLists, A # <<>>
    PROVE  /\ Adds(Merge(c, A), Lan(c), A, RootPort(c))
           /\ Ported(Merge(c, A)) /\ Merge(c, A) # <<>>
           /\ Refreshed(c, A) = Merge(c, A)
           /\ Refreshes(c, A) <=> Merge(c, A) # c
<1>1. PICK M : M = Merge(c, A)
  OBVIOUS
<1>2. PICK l : l = Lan(c)
  OBVIOUS
<1>3. PICK port : port = RootPort(c)
  OBVIOUS
<1>4. l \in Endpoints /\ port \in Port /\ port # 0 /\ c \in Endpoints
  BY <1>2, <1>3, PortGiven DEF Ported
<1>5. Adds(M, l, A, port)
  BY <1>1, <1>2, <1>3, <1>4, JoinedAdds DEF Merge
<1>6. \A j \in 1..Len(l) : l[j].port # 0
  <2>1. LanHolds(l, c)
    BY <1>2, <1>4, LanElements
  <2> QED BY <2>1 DEF LanHolds, Ported
<1>7. M \in Endpoints /\ Len(M) \in Nat /\ Len(l) \in Nat
  BY <1>4, <1>5 DEF Adds, Endpoints
<1>8. Ported(M)
  <2> SUFFICES ASSUME NEW j \in 1..Len(M) PROVE M[j].port # 0
    BY <1>7 DEF Ported
  <2>1. CASE j <= Len(l)
    <3>1. j \in 1..Len(l) /\ M[j] = l[j]
      BY <1>5, <1>7, <2>1 DEF Adds
    <3> QED BY <1>6, <3>1
  <2>2. CASE j > Len(l)
    <3>0. j \in (Len(l) + 1)..Len(M)
      BY <1>7, <2>2
    <3>1. \E a \in 1..Len(A) : M[j] = Given(A[a], port)
      BY <1>5, <3>0 DEF Adds
    <3> QED BY <1>4, <3>1 DEF Given
  <2> QED BY <1>7, <2>1, <2>2
<1>9. M # <<>>
  <2>1. 1 \in 1..Len(A)
    BY DEF AnswerLists
  <2>2. \E j \in 1..Len(M) : M[j] = Given(A[1], port)
    BY <1>5, <2>1 DEF Adds
  <2> QED BY <2>2
<1>10. /\ Refreshed(c, A) = M
       /\ Refreshes(c, A) <=> M # c
  BY <1>1, <1>9 DEF Refreshed, Refreshes, SameEndpoints
<1> QED BY <1>1, <1>2, <1>3, <1>5, <1>8, <1>9, <1>10

(* The private endpoints stay where they are, and only private addresses   *)
(* of the answer join them.                                                *)
LEMMA LanStays ==
    ASSUME NEW c, Ported(c), NEW A \in AnswerLists, A # <<>>
    PROVE  /\ Len(Lan(Merge(c, A))) >= Len(Lan(c))
           /\ \A j \in 1..Len(Lan(c)) : Lan(Merge(c, A))[j] = Lan(c)[j]
           /\ (\A a \in 1..Len(A) : A[a].ip \in Private =>
                   \E j \in 1..Len(Lan(c)) : Lan(c)[j] = Given(A[a], RootPort(c)))
                 => Lan(Merge(c, A)) = Lan(c)
<1>1. PICK M : M = Merge(c, A)
  OBVIOUS
<1>2. PICK l : l = Lan(c)
  OBVIOUS
<1>3. PICK port : port = RootPort(c)
  OBVIOUS
<1>4. l \in Endpoints /\ M \in Endpoints /\ Len(l) \in 0..Len(M) /\ Adds(M, l, A, port)
  <2>1. l \in Endpoints /\ M \in Endpoints /\ Adds(M, l, A, port)
    BY <1>1, <1>2, <1>3, PortGiven, MergeIs DEF Ported
  <2>2. Len(l) \in Nat /\ Len(M) \in Nat /\ Len(l) <= Len(M)
    BY <2>1 DEF Adds, Endpoints
  <2> QED BY <2>1, <2>2
<1>5. \A j \in 1..Len(l) : M[j] = l[j] /\ l[j].ip \in Private
  <2>1. LanHolds(l, c)
    BY <1>2, LanElements DEF Ported
  <2> QED BY <1>4, <2>1 DEF LanHolds, Adds
<1>6. /\ Len(Lan(M)) >= Len(l)
      /\ \A j \in 1..Len(l) : Lan(M)[j] = M[j]
      /\ (\A j \in (Len(l) + 1)..Len(M) : M[j].ip \notin Private) => Len(Lan(M)) = Len(l)
  BY <1>4, <1>5, LanPrefix
<1>7. ASSUME \A a \in 1..Len(A) : A[a].ip \in Private => \E j \in 1..Len(l) : l[j] = Given(A[a], port)
      PROVE  Lan(M) = l
  <2>1. ASSUME NEW j \in (Len(l) + 1)..Len(M) PROVE M[j].ip \notin Private
    <3>1. PICK a \in 1..Len(A) : M[j] = Given(A[a], port)
      BY <1>4 DEF Adds
    <3>2. \A k \in 1..Len(l) : l[k] # M[j]
      BY <1>4 DEF Adds
    <3>3. M[j].ip = A[a].ip
      BY <3>1 DEF Given
    <3> QED BY <1>7, <3>1, <3>2, <3>3
  <2>2. Len(Lan(M)) = Len(l) /\ \A j \in 1..Len(l) : Lan(M)[j] = l[j]
    BY <1>5, <1>6, <2>1
  <2>3. Lan(M) \in Endpoints
    BY <1>4, LanElements DEF LanHolds
  <2> QED BY <1>4, <2>2, <2>3 DEF Endpoints
<1>8. Len(Lan(M)) >= Len(l) /\ \A j \in 1..Len(l) : Lan(M)[j] = l[j]
  BY <1>5, <1>6
<1> QED BY <1>1, <1>2, <1>3, <1>7, <1>8

(* How far the list is from settling on an answer A: any list, one whose   *)
(* first private endpoint supplies the port, one whose private endpoints   *)
(* hold the private addresses of A with that port, and a fixed point.      *)
Leads(c) == Lan(c) # <<>> => Lan(c)[1].port = RootPort(c)
Holds(c, A) ==
    /\ Leads(c)
    /\ \A a \in 1..Len(A) : A[a].ip \in Private =>
          \E j \in 1..Len(Lan(c)) : Lan(c)[j] = Given(A[a], RootPort(c))
Fixed(c, A) == Merge(c, A) = c

LEMMA FirstOfMerge ==
    ASSUME NEW c, Ported(c), NEW A \in AnswerLists, A # <<>>
    PROVE  /\ Lan(c) # <<>> => RootPort(Merge(c, A)) = Lan(c)[1].port
           /\ Lan(c) = <<>> => /\ RootPort(Merge(c, A)) = RootPort(c)
                               /\ \A j \in 1..Len(Merge(c, A)) : Merge(c, A)[j].port = RootPort(c)
<1>1. PICK M : M = Merge(c, A)
  OBVIOUS
<1>2. PICK l : l = Lan(c)
  OBVIOUS
<1>3. PICK port : port = RootPort(c)
  OBVIOUS
<1>4. l \in Endpoints /\ M \in Endpoints /\ M # <<>> /\ Adds(M, l, A, port)
  BY <1>1, <1>2, <1>3, PortGiven, MergeIs DEF Ported
<1>5. RootPort(M) = M[1].port /\ 1 \in 1..Len(M)
  BY <1>4 DEF RootPort, Endpoints
<1>6. CASE l # <<>>
  <2>1. 1 \in 1..Len(l)
    BY <1>4, <1>6 DEF Endpoints
  <2>2. M[1] = l[1]
    BY <1>4, <2>1 DEF Adds
  <2> QED BY <1>1, <1>2, <1>5, <1>6, <2>2
<1>7. CASE l = <<>>
  <2>1. ASSUME NEW j \in 1..Len(M) PROVE M[j].port = port
    <3>1. \E a \in 1..Len(A) : M[j] = Given(A[a], port)
      <4>1. j \in (Len(l) + 1)..Len(M)
        BY <1>7
      <4> QED BY <1>4, <4>1 DEF Adds
    <3> QED BY <3>1 DEF Given
  <2> QED BY <1>1, <1>2, <1>3, <1>5, <1>7, <2>1
<1> QED BY <1>6, <1>7

LEMMA FirstPass ==
    ASSUME NEW c, Ported(c), NEW A \in AnswerLists, A # <<>>
    PROVE  Leads(Merge(c, A))
<1>1. PICK M : M = Merge(c, A)
  OBVIOUS
<1>2. PICK l : l = Lan(c)
  OBVIOUS
<1>3. M \in Endpoints /\ Lan(M) \in Endpoints /\ l \in Endpoints /\ LanHolds(Lan(M), M)
  BY <1>1, <1>2, PortGiven, MergeIs, LanElements DEF Ported
<1> SUFFICES ASSUME Lan(M) # <<>> PROVE Lan(M)[1].port = RootPort(M)
  BY <1>1 DEF Leads
<1>4. 1 \in 1..Len(Lan(M))
  BY <1>3 DEF Endpoints
<1>5. CASE l # <<>>
  <2>1. 1 \in 1..Len(l)
    BY <1>3, <1>5 DEF Endpoints
  <2>2. Lan(M)[1] = l[1]
    BY <1>1, <1>2, <2>1, LanStays
  <2>3. RootPort(M) = l[1].port
    BY <1>1, <1>2, <1>5, FirstOfMerge
  <2> QED BY <2>2, <2>3
<1>6. CASE l = <<>>
  <2>1. PICK k \in 1..Len(M) : M[k] = Lan(M)[1]
    BY <1>3, <1>4 DEF LanHolds
  <2>2. M[k].port = RootPort(c) /\ RootPort(M) = RootPort(c)
    BY <1>1, <1>2, <1>6, FirstOfMerge
  <2> QED BY <2>1, <2>2
<1> QED BY <1>5, <1>6

LEMMA PortStays ==
    ASSUME NEW c, Ported(c), NEW A \in AnswerLists, A # <<>>, Leads(c)
    PROVE  RootPort(Merge(c, A)) = RootPort(c)
BY FirstOfMerge DEF Leads

LEMMA SecondPass ==
    ASSUME NEW c, Ported(c), NEW A \in AnswerLists, A # <<>>, Leads(c)
    PROVE  Holds(Merge(c, A), A)
<1>1. PICK M : M = Merge(c, A)
  OBVIOUS
<1>2. PICK port : port = RootPort(c)
  OBVIOUS
<1>3. Leads(M) /\ RootPort(M) = port /\ Adds(M, Lan(c), A, port) /\ LanHolds(Lan(M), M)
  BY <1>1, <1>2, FirstPass, PortStays, MergeIs, LanElements DEF Ported
<1>4. ASSUME NEW a \in 1..Len(A), A[a].ip \in Private
      PROVE  \E j \in 1..Len(Lan(M)) : Lan(M)[j] = Given(A[a], port)
  <2>1. PICK k \in 1..Len(M) : M[k] = Given(A[a], port)
    BY <1>3 DEF Adds
  <2>2. M[k].ip \in Private
    BY <1>4, <2>1 DEF Given
  <2> QED BY <1>3, <2>1, <2>2 DEF LanHolds
<1> QED BY <1>1, <1>3, <1>4 DEF Holds

LEMMA ThirdPass ==
    ASSUME NEW c, Ported(c), NEW A \in AnswerLists, A # <<>>, Holds(c, A)
    PROVE  Fixed(Merge(c, A), A)
<1>1. Lan(Merge(c, A)) = Lan(c)
  BY LanStays DEF Holds
<1>2. RootPort(Merge(c, A)) = RootPort(c)
  BY PortStays DEF Holds
<1>3. Merge(Merge(c, A), A) = Joined(Lan(c), A, RootPort(c))
  BY <1>1, <1>2 DEF Merge
<1> QED BY <1>3 DEF Merge, Fixed
(* The inductive invariant: how often the answer has changed the list says *)
(* how settled the list is, and the last pass's answer is in force.        *)
Served(c, A) ==
    /\ \A a \in 1..Len(A) : \E j \in 1..Len(c) : c[j].ip = A[a].ip
    /\ \A j \in 1..Len(c) :
          c[j].ip \in Private \/ \E a \in 1..Len(A) : A[a].ip = c[j].ip
    /\ Len(c) <= Len(Lan(c)) + Len(A)

Settling(n, c, A) ==
    /\ n >= 1 => A # <<>>
    /\ n = 1 => Leads(c)
    /\ n = 2 => Holds(c, A)
    /\ n = 3 => Fixed(c, A)

RootInv ==
    /\ Ported(cur)
    /\ answer \in AnswerLists /\ applied \in AnswerLists
    /\ applied # <<>> => Served(cur, applied)
    /\ \A e \in lan : \E j \in 1..Len(Lan(cur)) : Lan(cur)[j] = e
    /\ relinks \in 0..3
    /\ Settling(relinks, cur, answer)

LEMMA ListedPorted ==
    ASSUME NEW c \in Listed PROVE Ported(c)
<1> DEFINE R == [ip : Ip, port : Port \ {0}]
<1>1. c \in Seq(R)
  BY RootConstants
<1>2. \A e \in R : e \in Endpoint /\ e.port # 0
  BY DEF Endpoint
<1> HIDE DEF R
<1>3. \A i \in 1..Len(c) : c[i] \in R
  BY <1>1
<1>4. c \in Seq(Endpoint)
  BY <1>1, <1>2
<1> QED BY <1>2, <1>3, <1>4 DEF Ported, Endpoints

LEMMA AnswersListed == Answers \subseteq AnswerLists
BY RootConstants DEF AnswerLists, Bare

LEMMA ElementsOf ==
    ASSUME NEW c \in Endpoints, NEW e
    PROVE  e \in ToSet(c) <=> \E j \in 1..Len(c) : c[j] = e
BY DEF ToSet, Endpoints

(* One pass of the main loop *)
LEMMA PassServes ==
    ASSUME NEW c, Ported(c), NEW A \in AnswerLists, A # <<>>
    PROVE  Served(Merge(c, A), A)
<1>1. PICK M : M = Merge(c, A)
  OBVIOUS
<1>2. PICK l : l = Lan(c)
  OBVIOUS
<1>3. PICK port : port = RootPort(c)
  OBVIOUS
<1>4. M \in Endpoints /\ l \in Endpoints /\ Adds(M, l, A, port) /\ LanHolds(l, c)
  BY <1>1, <1>2, <1>3, PortGiven, MergeIs, LanElements DEF Ported
<1>5. \A a \in 1..Len(A) : \E j \in 1..Len(M) : M[j].ip = A[a].ip
  <2> SUFFICES ASSUME NEW a \in 1..Len(A) PROVE \E j \in 1..Len(M) : M[j].ip = A[a].ip
    OBVIOUS
  <2>1. PICK j \in 1..Len(M) : M[j] = Given(A[a], port)
    BY <1>4 DEF Adds
  <2> QED BY <2>1 DEF Given
<1>6. ASSUME NEW j \in 1..Len(M)
      PROVE  M[j].ip \in Private \/ \E a \in 1..Len(A) : A[a].ip = M[j].ip
  <2>0. Len(M) \in Nat /\ Len(l) \in Nat
    BY <1>4 DEF Endpoints
  <2>1. CASE j <= Len(l)
    <3>1. j \in 1..Len(l)
      BY <2>0, <2>1
    <3>2. M[j] = l[j] /\ l[j].ip \in Private
      BY <1>4, <3>1 DEF Adds, LanHolds
    <3> QED BY <3>2
  <2>2. CASE j > Len(l)
    <3>1. j \in (Len(l) + 1)..Len(M)
      BY <2>0, <2>2
    <3>2. PICK a \in 1..Len(A) : M[j] = Given(A[a], port)
      BY <1>4, <3>1 DEF Adds
    <3> QED BY <3>2 DEF Given
  <2> QED BY <2>0, <2>1, <2>2
<1>7. Len(M) <= Len(Lan(M)) + Len(A)
  <2>1. Len(Lan(M)) >= Len(l)
    BY <1>1, <1>2, LanStays
  <2>2. Lan(M) \in Endpoints
    BY <1>4, LanElements DEF LanHolds
  <2>3. Len(Lan(M)) \in Nat /\ Len(l) \in Nat /\ Len(A) \in Nat /\ Len(M) \in Nat
    BY <1>4, <2>2 DEF Endpoints, AnswerLists
  <2> QED BY <1>4, <2>1, <2>3 DEF Adds
<1> QED BY <1>1, <1>5, <1>6, <1>7 DEF Served

LEMMA PassSettles ==
    ASSUME NEW n \in 0..3, NEW c, Ported(c), NEW A \in AnswerLists, A # <<>>,
           Settling(n, c, A), Refreshes(c, A)
    PROVE  n + 1 \in 0..3 /\ Settling(n + 1, Merge(c, A), A)
<1>1. n # 3
  BY MergeIs DEF Settling, Fixed
<1>2. CASE n = 0
  BY <1>2, FirstPass DEF Settling
<1>3. CASE n = 1
  BY <1>3, SecondPass DEF Settling
<1>4. CASE n = 2
  BY <1>4, ThirdPass DEF Settling
<1> QED BY <1>1, <1>2, <1>3, <1>4

LEMMA RootInitially == Init => RootInv
<1> SUFFICES ASSUME Init PROVE RootInv
  OBVIOUS
<1>1. Ported(cur) /\ Lan(cur) \in Endpoints
  BY ListedPorted, PortGiven DEF Init
<1>2. \A e \in lan : \E j \in 1..Len(Lan(cur)) : Lan(cur)[j] = e
  BY <1>1, ElementsOf DEF Init
<1>3. <<>> \in AnswerLists
  BY DEF AnswerLists
<1> QED BY <1>1, <1>2, <1>3 DEF Init, RootInv, Settling

LEMMA RootStep == RootInv /\ [Next]_vars => RootInv'
<1> SUFFICES ASSUME RootInv, [Next]_vars PROVE RootInv'
  OBVIOUS
<1> USE DEF RootInv
<1>1. CASE Resolve
  <2>1. answer' \in AnswerLists /\ UNCHANGED <<cur, applied, lan>> /\ relinks' = 0
    BY <1>1, AnswersListed DEF Resolve
  <2>2. Settling(relinks', cur', answer')
    BY <2>1 DEF Settling
  <2>3. applied' # <<>> => Served(cur', applied')
    BY <2>1
  <2>4. \A e \in lan' : \E j \in 1..Len(Lan(cur')) : Lan(cur')[j] = e
    BY <2>1
  <2> QED BY <2>1, <2>2, <2>3, <2>4
<1>2. CASE Apply
  <2>1. /\ answer # <<>> /\ answer' = answer /\ applied' = answer /\ lan' = lan
        /\ cur' = Merge(cur, answer)
        /\ relinks' = IF Refreshes(cur, answer) THEN relinks + 1 ELSE relinks
    BY <1>2, MergeIs DEF Apply
  <2>2. PICK c : c = cur
    OBVIOUS
  <2>3. PICK M : M = Merge(cur, answer)
    OBVIOUS
  <2>4. Ported(M) /\ Served(M, answer)
    BY <2>1, <2>3, MergeIs, PassServes
  <2>5. ASSUME NEW e \in lan PROVE \E j \in 1..Len(Lan(M)) : Lan(M)[j] = e
    <3>1. PICK j \in 1..Len(Lan(c)) : Lan(c)[j] = e
      BY <2>2
    <3>2. Len(Lan(M)) >= Len(Lan(c)) /\ Lan(M)[j] = Lan(c)[j]
      BY <2>1, <2>2, <2>3, LanStays
    <3>3. Lan(M) \in Endpoints /\ Lan(c) \in Endpoints
      BY <2>2, <2>4, PortGiven
    <3>4. j \in 1..Len(Lan(M))
      BY <3>2, <3>3 DEF Endpoints
    <3> QED BY <3>1, <3>2, <3>4
  <2>6. relinks' \in 0..3 /\ Settling(relinks', M, answer)
    <3>1. CASE Refreshes(cur, answer)
      BY <2>1, <2>3, <3>1, PassSettles
    <3>2. CASE ~ Refreshes(cur, answer)
      <4>1. M = cur /\ relinks' = relinks
        BY <2>1, <2>3, <3>2, MergeIs
      <4> QED BY <4>1
    <3> QED BY <3>1, <3>2
  <2> QED BY <2>1, <2>3, <2>4, <2>5, <2>6
<1>3. CASE Update
  <2>1. /\ cur' \in Listed /\ lan' = ToSet(Lan(cur')) /\ applied' = <<>> /\ relinks' = 0
        /\ answer' = answer
    BY <1>3 DEF Update
  <2>2. Ported(cur') /\ Lan(cur') \in Endpoints
    BY <2>1, ListedPorted, PortGiven
  <2>3. \A e \in lan' : \E j \in 1..Len(Lan(cur')) : Lan(cur')[j] = e
    BY <2>1, <2>2, ElementsOf
  <2>4. <<>> \in AnswerLists
    BY DEF AnswerLists
  <2>5. Settling(relinks', cur', answer')
    BY <2>1 DEF Settling
  <2> QED BY <2>1, <2>2, <2>3, <2>4, <2>5
<1>4. CASE UNCHANGED vars
  BY <1>4 DEF vars
<1> QED BY <1>1, <1>2, <1>3, <1>4 DEF Next

(* One answer changes a root's list on at most three passes. *)
THEOREM SettlesInThree == Spec => []Stabilises
<1>1. RootInv => Stabilises
  BY DEF RootInv, Stabilises
<1> QED BY <1>1, RootInitially, RootStep, PTL DEF Spec

(* The private endpoints of a signed world survive every pass. *)
THEOREM LanSurvives == Spec => []LanKept
<1>1. RootInv => LanKept
  <2> SUFFICES ASSUME RootInv, NEW e \in lan PROVE e \in ToSet(cur)
    BY DEF LanKept
  <2>1. cur \in Endpoints /\ LanHolds(Lan(cur), cur)
    BY LanElements DEF RootInv, Ported
  <2>2. PICK j \in 1..Len(Lan(cur)) : Lan(cur)[j] = e
    BY DEF RootInv
  <2>3. \E k \in 1..Len(cur) : cur[k] = e
    BY <2>1, <2>2 DEF LanHolds
  <2> QED BY <2>1, <2>3, ElementsOf
<1> QED BY <1>1, RootInitially, RootStep, PTL DEF Spec

(* After a pass the list serves the answer, and fits if it can. *)
THEOREM AnswerServed == Spec => []AnswerInForce
<1>1. RootInv => AnswerInForce
  <2> SUFFICES ASSUME RootInv, applied # <<>>, applied = answer
               PROVE  /\ \A i \in DOMAIN answer : \E e \in ToSet(cur) : e.ip = answer[i].ip /\ e.port # 0
                      /\ \A e \in ToSet(cur) :
                            e.ip \in Private \/ \E i \in DOMAIN answer : answer[i].ip = e.ip
                      /\ Len(Lan(cur)) + Len(answer) <= MaxEndpoints => Loadable(cur)
    BY DEF AnswerInForce
  <2>1. Served(cur, answer) /\ Ported(cur) /\ cur \in Endpoints
    BY DEF RootInv, Ported
  <2>2. DOMAIN answer = 1..Len(answer)
    BY DEF RootInv, AnswerLists
  <2>3. ASSUME NEW i \in DOMAIN answer
        PROVE  \E e \in ToSet(cur) : e.ip = answer[i].ip /\ e.port # 0
    <3>1. PICK j \in 1..Len(cur) : cur[j].ip = answer[i].ip
      BY <2>1, <2>2 DEF Served
    <3>2. cur[j] \in ToSet(cur) /\ cur[j].port # 0
      BY <2>1, ElementsOf DEF Ported
    <3> QED BY <3>1, <3>2
  <2>4. ASSUME NEW e \in ToSet(cur)
        PROVE  e.ip \in Private \/ \E i \in DOMAIN answer : answer[i].ip = e.ip
    <3>1. PICK j \in 1..Len(cur) : cur[j] = e
      BY <2>1, ElementsOf
    <3> QED BY <2>1, <2>2, <3>1 DEF Served
  <2>5. Len(Lan(cur)) + Len(answer) <= MaxEndpoints => Loadable(cur)
    <3>1. Lan(cur) \in Endpoints
      BY <2>1, PortGiven
    <3>2. Len(Lan(cur)) \in Nat /\ Len(answer) \in Nat /\ Len(cur) \in Nat
      BY <2>1, <3>1 DEF RootInv, AnswerLists, Endpoints
    <3> QED BY <2>1, <3>2, EndpointConstants DEF Served, Loadable
  <2> QED BY <2>3, <2>4, <2>5
<1> QED BY <1>1, RootInitially, RootStep, PTL DEF Spec
=============================================================================
