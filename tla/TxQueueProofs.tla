---------------------------- MODULE TxQueueProofs ----------------------------
(* For any number of senders, packets and destinations, and any size of    *)
(* the transmit queue: a packet is at one place, and it stays at one.      *)
EXTENDS TxQueue, WellFoundedInduction, TLAPS

------------------------------------------------------------------------------
(* Numbers and loops *)

LEMMA Least ==
    ASSUME NEW S \in SUBSET Nat, S # {}
    PROVE  \E m \in S : \A j \in S : m <= j
<1>1. PICK m \in S : \A j \in S : <<j, m>> \notin OpToRel(<, Nat)
  BY NatLessThanWellFounded, WFMin, Zenon
<1>2. ASSUME NEW j \in S PROVE m <= j
  <2>1. <<j, m>> \notin { ss \in Nat \X Nat : ss[1] < ss[2] }
    BY <1>1 DEF OpToRel
  <2>2. ~(j < m)
    BY <2>1
  <2> QED BY <2>2
<1> QED BY <1>2

LEMMA Upward ==
    ASSUME NEW n \in Nat, NEW G, 0 \in G, \A i \in 1..n : i - 1 \in G => i \in G
    PROVE  \A i \in 0..n : i \in G
<1> DEFINE D == { i \in 0..n : i \notin G }
<1> SUFFICES ASSUME D # {} PROVE FALSE
  OBVIOUS
<1>1. D \in SUBSET Nat
  OBVIOUS
<1>2. PICK m \in D : \A j \in D : m <= j
  <2> HIDE DEF D
  <2> QED BY <1>1, Least
<1>3. m \in 1..n /\ m \notin G
  BY <1>2
<1>4. m - 1 \in 0..n /\ m - 1 \notin D
  BY <1>2, <1>3
<1> QED BY <1>3, <1>4

(* The states of a loop of n passes, from base *)
Runs(f, S, n, base, step) ==
    f \in [0..n -> S] /\ f[0] = base /\ \A i \in 1..n : f[i] = step[<<f[i - 1], i>>]

(* A loop has a state after each of its n passes. *)
LEMMA Passes ==
    ASSUME NEW S, NEW n \in Nat, NEW base, NEW step,
           base \in S, \A x \in S : \A i \in 1..n : step[<<x, i>>] \in S
    PROVE  \E f : Runs(f, S, n, base, step)
<1> DEFINE Run(k) == \E f : Runs(f, S, k, base, step)
           G == { k \in 0..n : Run(k) }
<1>1. Run(0)
  <2> DEFINE f == [i \in 0..0 |-> base]
  <2>1. f \in [0..0 -> S] /\ f[0] = base /\ \A i \in 1..0 : f[i] = step[<<f[i - 1], i>>]
    OBVIOUS
  <2> HIDE DEF f
  <2> QED BY <2>1 DEF Runs
<1>2. ASSUME NEW k \in 1..n, Run(k - 1) PROVE Run(k)
  <2>1. PICK g : g \in [0..(k - 1) -> S] /\ g[0] = base
                 /\ \A i \in 1..(k - 1) : g[i] = step[<<g[i - 1], i>>]
    BY <1>2 DEF Runs
  <2> DEFINE f == [i \in 0..k |-> IF i = k THEN step[<<g[k - 1], k>>] ELSE g[i]]
  <2>2. k \in Nat /\ k >= 1 /\ g[k - 1] \in S
    BY <2>1
  <2>3. f \in [0..k -> S]
    BY <2>1, <2>2
  <2>4. f[0] = base
    BY <2>1, <2>2
  <2>5. ASSUME NEW i \in 1..k PROVE f[i] = step[<<f[i - 1], i>>]
    <3>0. i - 1 \in 0..k /\ i - 1 # k
      BY <2>2
    <3>1. f[i - 1] = g[i - 1]
      BY <3>0
    <3>2. CASE i = k
      BY <2>2, <3>1, <3>2
    <3>3. CASE i # k
      <4>1. i \in 1..(k - 1) /\ f[i] = g[i]
        BY <2>2, <3>3
      <4> HIDE DEF f
      <4> QED BY <2>1, <3>1, <4>1
    <3> QED BY <3>2, <3>3
  <2> HIDE DEF f
  <2> QED BY <2>3, <2>4, <2>5 DEF Runs
<1> HIDE DEF Run
<1>3. 0 \in G /\ \A k \in 1..n : k - 1 \in G => k \in G
  BY <1>1, <1>2
<1> HIDE DEF G
<1>4. n \in 0..n /\ \A k \in 0..n : k \in G
  BY <1>3, Upward
<1>5. Run(n)
  <2> USE DEF G
  <2> QED BY <1>4
<1> QED BY <1>5 DEF Run

------------------------------------------------------------------------------
(* The queue *)

Queues == Seq(Entry)

(* A packet is in the queue once. *)
Once(q) ==
    \A i, j \in 1..Len(q) : q[i].packet = q[j].packet /\ q[i].packet # Nothing => i = j

Queued(q) == q \in Queues /\ Len(q) <= QueueSize /\ Once(q)

Picked(q, S, i, list) == IF i \in S THEN Append(list, q[i]) ELSE list

(* The loop of EntriesAt *)
LEMMA EntriesLoop ==
    ASSUME NEW q \in Queues, NEW S
    PROVE  \E m \in [0..Len(q) -> Queues] :
               /\ m[0] = <<>> /\ EntriesAt(q, S) = m[Len(q)]
               /\ \A i \in 1..Len(q) : m[i] = Picked(q, S, i, m[i - 1])
<1> DEFINE n == Len(q)
           Loops(g) == g = [i \in 0..n |-> IF i = 0 THEN <<>>
                                           ELSE IF i \in S THEN Append(g[i - 1], q[i]) ELSE g[i - 1]]
           list == CHOOSE g : Loops(g)
           step == [x \in Queues \X (1..n) |-> Picked(q, S, x[2], x[1])]
<1>0. n \in Nat /\ \A i \in 1..n : q[i] \in Entry
  BY DEF Queues
<1>1. EntriesAt(q, S) = list[n]
  BY Zenon DEF EntriesAt
<1> HIDE DEF n
<1>2. ASSUME NEW x \in Queues, NEW i \in 1..n
      PROVE  step[<<x, i>>] = Picked(q, S, i, x) /\ Picked(q, S, i, x) \in Queues
  <2>1. step[<<x, i>>] = Picked(q, S, i, x)
    OBVIOUS
  <2>2. Picked(q, S, i, x) \in Queues
    BY <1>0 DEF Picked, Queues
  <2> QED BY <2>1, <2>2
<1> HIDE DEF step
<1>3. PICK f : f \in [0..n -> Queues] /\ f[0] = <<>>
                 /\ \A i \in 1..n : f[i] = step[<<f[i - 1], i>>]
  <2>1. <<>> \in Queues
    BY DEF Queues
  <2>2. \A x \in Queues : \A i \in 1..n : step[<<x, i>>] \in Queues
    BY <1>2
  <2>3. \E f : Runs(f, Queues, n, <<>>, step)
    BY <1>0, <2>1, <2>2, Passes
  <2> QED BY <2>3 DEF Runs
<1>4. Loops(f)
  <2>1. ASSUME NEW i \in 0..n, i # 0 PROVE f[i] = Picked(q, S, i, f[i - 1])
    <3>1. i \in 1..n /\ i - 1 \in 0..n
      BY <1>0, <2>1
    <3> QED BY <1>2, <1>3, <3>1
  <2>2. f = [i \in 0..n |-> f[i]] /\ f[0] = <<>>
    BY <1>3
  <2>3. [i \in 0..n |-> f[i]]
          = [i \in 0..n |-> IF i = 0 THEN <<>>
                            ELSE IF i \in S THEN Append(f[i - 1], q[i]) ELSE f[i - 1]]
    BY <2>1, <2>2 DEF Picked
  <2> QED BY <2>2, <2>3
<1>5. Loops(list)
  <2> HIDE DEF Loops
  <2> QED BY <1>4
<1> HIDE DEF list
<1>6. PICK m : m = list
  OBVIOUS
<1>7. m = [i \in 0..n |-> IF i = 0 THEN <<>>
                          ELSE IF i \in S THEN Append(m[i - 1], q[i]) ELSE m[i - 1]]
  BY <1>5, <1>6
<1>8. m[0] = <<>> /\ \A i \in 1..n : m[i] = Picked(q, S, i, m[i - 1])
  <2>1. \A i \in 0..n : m[i] = IF i = 0 THEN <<>>
                               ELSE IF i \in S THEN Append(m[i - 1], q[i]) ELSE m[i - 1]
    BY <1>7
  <2>2. 0 \in 0..n /\ \A i \in 1..n : i \in 0..n /\ i # 0
    BY <1>0
  <2> QED BY <2>1, <2>2 DEF Picked
<1>9. m \in [0..n -> Queues]
  <2> DEFINE G == { i \in 0..n : m[i] \in Queues }
  <2>1. 0 \in G
    <3>1. <<>> \in Queues /\ 0 \in 0..n
      BY <1>0 DEF Queues
    <3> QED BY <1>8, <3>1
  <2>2. ASSUME NEW i \in 1..n, i - 1 \in G PROVE i \in G
    <3>1. i \in 0..n /\ m[i - 1] \in Queues
      BY <1>0, <2>2
    <3> QED BY <1>2, <1>8, <3>1
  <2> HIDE DEF G
  <2>3. \A i \in 0..n : i \in G
    BY <1>0, <2>1, <2>2, Upward
  <2> USE DEF G
  <2>4. \A i \in 0..n : m[i] \in Queues
    BY <2>3
  <2>5. m = [i \in 0..n |-> m[i]]
    BY <1>7
  <2> QED BY <2>4, <2>5
<1> QED BY <1>1, <1>6, <1>8, <1>9 DEF n

(* Entries taken from a queue keep a packet single; the packets are those  *)
(* at the positions taken.                                                 *)
LEMMA EntriesAtIs ==
    ASSUME NEW q, Queued(q), NEW S \in SUBSET (1..Len(q))
    PROVE  Queued(EntriesAt(q, S)) /\ PacketsIn(EntriesAt(q, S)) = PacketsAt(q, S)
<1> DEFINE n == Len(q)
<1>0. n \in Nat /\ n <= QueueSize /\ q \in Queues /\ QueueSize \in Nat
  BY TxQueueConstants DEF Queued, Queues
<1>1. PICK m \in [0..n -> Queues] :
         /\ m[0] = <<>> /\ EntriesAt(q, S) = m[n]
         /\ \A i \in 1..n : m[i] = Picked(q, S, i, m[i - 1])
  BY <1>0, EntriesLoop
<1> DEFINE
    Held(i) ==
        /\ Len(m[i]) <= i
        /\ \A j \in 1..Len(m[i]) : \E k \in 1..i : k \in S /\ q[k] = m[i][j]
        /\ \A k \in 1..i : k \in S => \E j \in 1..Len(m[i]) : m[i][j] = q[k]
        /\ Once(m[i])
    G == { i \in 0..n : Held(i) }
<1>2. 0 \in G
  BY <1>0, <1>1 DEF Once
<1> HIDE DEF n
<1>3. ASSUME NEW i \in 1..n, i - 1 \in G PROVE i \in G
  <2>1. i \in 0..n /\ i - 1 \in 0..n /\ Held(i - 1) /\ i \in Nat
    BY <1>0, <1>3
  <2>2. PICK p \in Queues : p = m[i - 1]
    BY <1>1, <2>1
  <2>3. m[i] = Picked(q, S, i, p)
    BY <1>1, <2>2
  <2>4. CASE i \notin S
    <3>1. m[i] = p
      BY <2>3, <2>4 DEF Picked
    <3>2. \A k \in 1..i : k \in S => k \in 1..(i - 1)
      BY <2>1, <2>4
    <3>3. Held(i)
      BY <2>1, <2>2, <3>1, <3>2
    <3> QED BY <2>1, <3>3
  <2>5. CASE i \in S
    <3>1. m[i] = Append(p, q[i])
      BY <2>3, <2>5 DEF Picked
    <3>2. /\ Len(m[i]) = Len(p) + 1 /\ m[i][Len(p) + 1] = q[i] /\ Len(p) \in Nat
          /\ \A j \in 1..Len(p) : m[i][j] = p[j]
      BY <3>1 DEF Queues
    <3>3. ASSUME NEW j \in 1..Len(m[i]) PROVE \E k \in 1..i : k \in S /\ q[k] = m[i][j]
      <4>1. CASE j = Len(p) + 1
        BY <2>1, <2>5, <3>2, <4>1
      <4>2. CASE j # Len(p) + 1
        <5>1. j \in 1..Len(p) /\ m[i][j] = p[j]
          BY <3>2, <4>2
        <5> QED BY <2>1, <2>2, <5>1
      <4> QED BY <4>1, <4>2
    <3>4. ASSUME NEW k \in 1..i, k \in S PROVE \E j \in 1..Len(m[i]) : m[i][j] = q[k]
      <4>1. CASE k = i
        BY <3>2, <4>1
      <4>2. CASE k # i
        <5>1. k \in 1..(i - 1)
          BY <2>1, <4>2
        <5>2. PICK j \in 1..Len(p) : p[j] = q[k]
          BY <2>1, <2>2, <3>4, <5>1
        <5>3. j \in 1..Len(m[i]) /\ m[i][j] = q[k]
          BY <3>2, <5>2
        <5> QED BY <5>3
      <4> QED BY <4>1, <4>2
    <3>5. \A j \in 1..Len(p) : p[j].packet = q[i].packet => p[j].packet = Nothing
      <4> SUFFICES ASSUME NEW j \in 1..Len(p), p[j].packet = q[i].packet, p[j].packet # Nothing
                   PROVE  FALSE
        OBVIOUS
      <4>1. PICK k \in 1..(i - 1) : q[k] = p[j]
        BY <2>1, <2>2
      <4>2. k \in 1..n /\ i \in 1..n /\ k # i
        BY <1>0, <2>1
      <4> QED BY <4>1, <4>2 DEF Queued, Once, n
    <3>6. Once(m[i])
      <4> SUFFICES ASSUME NEW j \in 1..Len(m[i]), NEW k \in 1..Len(m[i]),
                          m[i][j].packet = m[i][k].packet, m[i][j].packet # Nothing
                   PROVE  j = k
        BY DEF Once
      <4>1. (j = Len(p) + 1 \/ j \in 1..Len(p)) /\ (k = Len(p) + 1 \/ k \in 1..Len(p))
        BY <3>2
      <4>2. Once(p)
        BY <2>1, <2>2
      <4> QED BY <3>2, <3>5, <4>1, <4>2 DEF Once
    <3>7. Held(i)
      BY <2>1, <2>2, <3>2, <3>3, <3>4, <3>6
    <3> QED BY <2>1, <3>7
  <2> QED BY <2>4, <2>5
<1> HIDE DEF G
<1>4. n \in 0..n /\ \A i \in 0..n : i \in G
  <2>1. n \in Nat /\ n \in 0..n
    BY <1>0
  <2>2. \A i \in 1..n : i - 1 \in G => i \in G
    BY <1>3
  <2>3. \A i \in 0..n : i \in G
    BY <1>2, <2>1, <2>2, Upward
  <2> QED BY <2>1, <2>3
<1>5. PICK r : r = m[n]
  OBVIOUS
<1>6. /\ Len(r) <= n /\ Once(r)
      /\ \A j \in 1..Len(r) : \E k \in S : q[k] = r[j]
      /\ \A k \in S : \E j \in 1..Len(r) : r[j] = q[k]
  <2>1. Held(n)
    BY <1>4 DEF G
  <2> QED BY <1>5, <2>1 DEF n
<1>7. r \in Queues /\ Len(r) \in Nat /\ DOMAIN r = 1..Len(r)
  BY <1>1, <1>4, <1>5 DEF Queues
<1>8. Queued(r)
  BY <1>0, <1>6, <1>7 DEF Queued
<1>9. PacketsIn(r) = PacketsAt(q, S)
  <2>1. \A v : (\E j \in 1..Len(r) : v = r[j].packet) <=> (\E k \in S : v = q[k].packet)
    BY <1>6
  <2>2. { r[j].packet : j \in 1..Len(r) } = { q[k].packet : k \in S }
    BY <2>1
  <2> QED BY <1>7, <2>2 DEF PacketsIn, PacketsAt
<1> QED BY <1>1, <1>5, <1>8, <1>9
(* The packets at some positions of a queue, one by one *)
LEMMA PacketsApart ==
    ASSUME NEW q, Queued(q), NEW S \in SUBSET (1..Len(q)), NEW T \in SUBSET (1..Len(q))
    PROVE  /\ PacketsAt(q, S) \subseteq PacketsIn(q) /\ PacketsIn(q) \subseteq Packet
           /\ S \cap T = {} => PacketsAt(q, S) \cap PacketsAt(q, T) = {}
           /\ PacketsAt(q, S \cup T) = PacketsAt(q, S) \cup PacketsAt(q, T)
<1>1. DOMAIN q = 1..Len(q) /\ \A i \in 1..Len(q) : q[i].packet \in Packet \cup {Nothing}
  <2>1. q \in Queues
    BY DEF Queued
  <2>2. DOMAIN q = 1..Len(q) /\ \A i \in 1..Len(q) : q[i] \in Entry
    BY <2>1 DEF Queues
  <2> QED BY <2>2 DEF Entry
<1>2. PacketsAt(q, S) \subseteq PacketsIn(q) /\ PacketsIn(q) \subseteq Packet
  BY <1>1 DEF PacketsIn, PacketsAt
<1>3. ASSUME S \cap T = {}, NEW p \in PacketsAt(q, S), p \in PacketsAt(q, T) PROVE FALSE
  <2>1. PICK i \in S, j \in T : q[i].packet = p /\ q[j].packet = p /\ p # Nothing
    BY <1>3 DEF PacketsAt
  <2>2. i = j
    BY <2>1 DEF Queued, Once
  <2> QED BY <1>3, <2>2
<1>4. PacketsAt(q, S \cup T) = PacketsAt(q, S) \cup PacketsAt(q, T)
  BY DEF PacketsAt
<1> QED BY <1>2, <1>3, <1>4

(* A new entry, and the one it may push out *)
LEMMA PushedIs ==
    ASSUME NEW q, Queued(q), NEW e \in Entry, e.packet \notin PacketsIn(q)
    PROVE  /\ Queued(Pushed(q, e))
           /\ EvictedBy(q) \subseteq PacketsIn(q)
           /\ PacketsIn(Pushed(q, e)) = (PacketsIn(q) \ EvictedBy(q)) \cup ({e.packet} \ {Nothing})
<1>0. /\ q \in Queues /\ Len(q) \in Nat /\ DOMAIN q = 1..Len(q) /\ Len(q) <= QueueSize
      /\ QueueSize \in Nat \ {0}
  BY TxQueueConstants DEF Queued, Queues
<1>1. \A i \in 1..Len(q) : q[i].packet = e.packet => e.packet = Nothing
  BY <1>0 DEF PacketsIn, PacketsAt
<1>2. CASE Len(q) < QueueSize
  <2>1. PICK r : r = Append(q, e)
    OBVIOUS
  <2>2. Pushed(q, e) = r /\ EvictedBy(q) = {}
    BY <1>0, <1>2, <2>1 DEF Pushed, EvictedBy
  <2>3. /\ r \in Queues /\ Len(r) = Len(q) + 1 /\ r[Len(q) + 1] = e
        /\ \A i \in 1..Len(q) : r[i] = q[i]
        /\ DOMAIN r = 1..(Len(q) + 1)
    BY <1>0, <2>1 DEF Queues
  <2>4. Once(r)
    <3> SUFFICES ASSUME NEW i \in 1..Len(r), NEW j \in 1..Len(r),
                        r[i].packet = r[j].packet, r[i].packet # Nothing
                 PROVE  i = j
      BY DEF Once
    <3>1. (i = Len(q) + 1 \/ i \in 1..Len(q)) /\ (j = Len(q) + 1 \/ j \in 1..Len(q))
      BY <1>0, <2>3
    <3> QED BY <1>1, <2>3, <3>1 DEF Queued, Once
  <2>5. PacketsIn(r) = PacketsIn(q) \cup ({e.packet} \ {Nothing})
    <3>1. \A v : (\E i \in DOMAIN r : v = r[i].packet)
                   <=> ((\E i \in DOMAIN q : v = q[i].packet) \/ v = e.packet)
      <4>1. ASSUME NEW i \in DOMAIN r PROVE (i \in DOMAIN q /\ r[i] = q[i]) \/ r[i] = e
        BY <1>0, <2>3
      <4>2. ASSUME NEW i \in DOMAIN q PROVE i \in DOMAIN r /\ r[i] = q[i]
        BY <1>0, <2>3
      <4>3. Len(q) + 1 \in DOMAIN r /\ r[Len(q) + 1] = e
        BY <1>0, <2>3
      <4> QED BY <4>1, <4>2, <4>3
    <3>2. { r[i].packet : i \in DOMAIN r } = { q[i].packet : i \in DOMAIN q } \cup {e.packet}
      BY <3>1
    <3> QED BY <3>2 DEF PacketsIn, PacketsAt
  <2>6. Len(r) <= QueueSize
    BY <1>0, <1>2, <2>3
  <2> QED BY <2>2, <2>3, <2>4, <2>5, <2>6 DEF Queued
<1>3. CASE Len(q) >= QueueSize
  <2>1. PICK r : r = Append(Tail(q), e)
    OBVIOUS
  <2>2. Pushed(q, e) = r /\ EvictedBy(q) = {q[1].packet} \ {Nothing}
    <3>1. Head(q) = q[1]
      BY <1>0, <1>3 DEF Queues
    <3> QED BY <1>3, <2>1, <3>1 DEF Pushed, EvictedBy, IsWhois
  <2>3. /\ r \in Queues /\ Len(r) = Len(q) /\ r[Len(q)] = e
        /\ \A i \in 1..(Len(q) - 1) : r[i] = q[i + 1]
        /\ DOMAIN r = 1..Len(q)
    <3>1. q # <<>>
      BY <1>0, <1>3
    <3>2. /\ Tail(q) \in Queues /\ Len(Tail(q)) = Len(q) - 1
          /\ \A i \in 1..(Len(q) - 1) : Tail(q)[i] = q[i + 1]
      BY <1>0, <3>1 DEF Queues
    <3> QED BY <1>0, <2>1, <3>1, <3>2 DEF Queues
  <2>4. Once(r)
    <3> SUFFICES ASSUME NEW i \in 1..Len(r), NEW j \in 1..Len(r),
                        r[i].packet = r[j].packet, r[i].packet # Nothing
                 PROVE  i = j
      BY DEF Once
    <3>0. ASSUME NEW k \in 1..Len(q)
          PROVE  k = Len(q) \/ (k \in 1..(Len(q) - 1) /\ k + 1 \in 1..Len(q))
      <4>1. Len(q) \in Nat
        BY <1>0
      <4> QED BY <4>1
    <3>1. /\ i = Len(q) \/ (i \in 1..(Len(q) - 1) /\ i + 1 \in 1..Len(q))
          /\ j = Len(q) \/ (j \in 1..(Len(q) - 1) /\ j + 1 \in 1..Len(q))
      BY <2>3, <3>0
    <3>2. CASE i = Len(q) /\ j = Len(q)
      BY <3>2
    <3>3. CASE i = Len(q) /\ j # Len(q)
      <4>1. r[i] = e /\ r[j] = q[j + 1] /\ j + 1 \in 1..Len(q)
        BY <2>3, <3>1, <3>3
      <4> QED BY <1>1, <4>1
    <3>4. CASE i # Len(q) /\ j = Len(q)
      <4>1. r[j] = e /\ r[i] = q[i + 1] /\ i + 1 \in 1..Len(q)
        BY <2>3, <3>1, <3>4
      <4> QED BY <1>1, <4>1
    <3>5. CASE i # Len(q) /\ j # Len(q)
      <4>1. /\ r[j] = q[j + 1] /\ j + 1 \in 1..Len(q)
            /\ r[i] = q[i + 1] /\ i + 1 \in 1..Len(q)
        BY <2>3, <3>1, <3>5
      <4>2. i + 1 = j + 1
        BY <4>1 DEF Queued, Once
      <4>3. i \in Int /\ j \in Int
        OBVIOUS
      <4> QED BY <4>2, <4>3
    <3> QED BY <3>2, <3>3, <3>4, <3>5
  <2>5. ASSUME NEW i \in 2..Len(q) PROVE q[i].packet = q[1].packet => q[1].packet = Nothing
    <3>1. 1 \in 1..Len(q) /\ i \in 1..Len(q) /\ i # 1
      BY <1>0
    <3> QED BY <3>1 DEF Queued, Once
  <2>6. \A v : v # Nothing =>
               ((\E i \in DOMAIN r : v = r[i].packet)
                  <=> (((\E i \in DOMAIN q : v = q[i].packet) /\ v # q[1].packet) \/ v = e.packet))
    <3>0. Len(q) \in Nat /\ DOMAIN q = 1..Len(q) /\ DOMAIN r = 1..Len(q)
      BY <1>0, <2>3
    <3>1. ASSUME NEW i \in DOMAIN r
          PROVE  r[i] = e \/ (i + 1 \in 2..Len(q) /\ i + 1 \in DOMAIN q /\ r[i] = q[i + 1])
      <4>1. CASE i = Len(q)
        BY <2>3, <4>1
      <4>2. CASE i # Len(q)
        <5>1. i \in 1..(Len(q) - 1) /\ i + 1 \in 2..Len(q) /\ i + 1 \in 1..Len(q)
          BY <3>0, <4>2
        <5> QED BY <2>3, <3>0, <5>1
      <4> QED BY <4>1, <4>2
    <3>2. ASSUME NEW i \in DOMAIN q
          PROVE  i = 1 \/ (i - 1 \in DOMAIN r /\ r[i - 1] = q[i])
      <4> SUFFICES ASSUME i # 1 PROVE i - 1 \in DOMAIN r /\ r[i - 1] = q[i]
        OBVIOUS
      <4>1. i - 1 \in 1..(Len(q) - 1) /\ i - 1 \in 1..Len(q) /\ (i - 1) + 1 = i
        BY <3>0
      <4> QED BY <2>3, <3>0, <4>1
    <3>3. Len(q) \in DOMAIN r /\ r[Len(q)] = e
      BY <1>0, <1>3, <2>3
    <3>4. ASSUME NEW v, v # Nothing, NEW i \in DOMAIN r, v = r[i].packet
          PROVE  ((\E k \in DOMAIN q : v = q[k].packet) /\ v # q[1].packet) \/ v = e.packet
      BY <2>5, <3>1, <3>4
    <3>5. ASSUME NEW v, NEW i \in DOMAIN q, v = q[i].packet, v # q[1].packet
          PROVE  \E k \in DOMAIN r : v = r[k].packet
      BY <3>2, <3>5
    <3> QED BY <3>3, <3>4, <3>5
  <2>7. PacketsIn(r) = (PacketsIn(q) \ EvictedBy(q)) \cup ({e.packet} \ {Nothing})
    BY <2>2, <2>6 DEF PacketsIn, PacketsAt
  <2>8. EvictedBy(q) \subseteq PacketsIn(q)
    <3>1. 1 \in DOMAIN q
      BY <1>0, <1>3
    <3> QED BY <2>2, <3>1 DEF PacketsIn, PacketsAt
  <2> QED BY <1>0, <2>2, <2>3, <2>4, <2>7, <2>8 DEF Queued
<1> QED BY <1>0, <1>2, <1>3

(* Time only makes the entries older. *)
Aged(q) == [i \in DOMAIN q |-> [q[i] EXCEPT !.age = Older(@, Timeout + 1)]]

LEMMA AgedIs ==
    ASSUME NEW q, Queued(q)
    PROVE  Queued(Aged(q)) /\ PacketsIn(Aged(q)) = PacketsIn(q)
<1>0. q \in Queues /\ Len(q) \in Nat /\ DOMAIN q = 1..Len(q) /\ Timeout \in Nat
  BY TxQueueConstants DEF Queued, Queues
<1>1. PICK r : r = Aged(q)
  OBVIOUS
<1>2. ASSUME NEW i \in 1..Len(q) PROVE r[i] \in Entry /\ r[i].packet = q[i].packet
  <2>1. q[i] \in Entry
    BY <1>0 DEF Queues
  <2>2. r[i] = [q[i] EXCEPT !.age = Older(q[i].age, Timeout + 1)]
    BY <1>0, <1>1 DEF Aged
  <2>3. q[i].age \in 0..(Timeout + 1)
    BY <2>1 DEF Entry
  <2>4. Older(q[i].age, Timeout + 1) \in 0..(Timeout + 1)
    BY <1>0, <2>3 DEF Older
  <2> QED BY <2>1, <2>2, <2>4 DEF Entry
<1>3. r \in Queues /\ Len(r) = Len(q) /\ DOMAIN r = DOMAIN q
  <2>1. r = [i \in 1..Len(q) |-> r[i]]
    BY <1>0, <1>1 DEF Aged
  <2>2. r \in [1..Len(q) -> Entry]
    BY <1>2, <2>1
  <2> QED BY <1>0, <2>2 DEF Queues
<1>4. Once(r)
  BY <1>2, <1>3 DEF Queued, Once
<1>5. PacketsIn(r) = PacketsIn(q)
  <2>1. \A v : (\E i \in DOMAIN r : v = r[i].packet) <=> (\E i \in DOMAIN q : v = q[i].packet)
    BY <1>0, <1>2, <1>3
  <2>2. { r[i].packet : i \in DOMAIN r } = { q[i].packet : i \in DOMAIN q }
    BY <2>1
  <2> QED BY <2>2 DEF PacketsIn, PacketsAt
<1> QED BY <1>0, <1>1, <1>3, <1>4, <1>5 DEF Queued
------------------------------------------------------------------------------
(* The senders *)

States == [at : {"idle", "push", "ask"}, packet : Packet \cup {Nothing}]

(* A sender that is not idle has a packet, that no other is about to queue. *)
SendersOK(f) ==
    /\ f \in [Sender -> States]
    /\ \A s \in Sender : f[s].at # "idle" => f[s].packet \in Packet
    /\ \A s, t \in Sender :
          f[s].at = "push" /\ f[t].at = "push" /\ f[s].packet = f[t].packet => s = t

HandOf(f) == { p \in Packet : \E s \in Sender : f[s] = [at |-> "push", packet |-> p] }

LEMMA InHandIf ==
    ASSUME NEW f, SendersOK(f), NEW p
    PROVE  p \in HandOf(f) <=> \E s \in Sender : f[s].at = "push" /\ f[s].packet = p
<1>1. ASSUME NEW s \in Sender
      PROVE  /\ f[s].at = "push" => f[s].packet \in Packet
             /\ f[s] = [at |-> "push", packet |-> p] <=> f[s].at = "push" /\ f[s].packet = p
  <2>1. f[s] \in States
    BY DEF SendersOK
  <2>2. f[s] = [at |-> "push", packet |-> p] <=> f[s].at = "push" /\ f[s].packet = p
    BY <2>1 DEF States
  <2>3. f[s].at = "push" => f[s].packet \in Packet
    BY DEF SendersOK
  <2> QED BY <2>2, <2>3
<1> QED BY <1>1 DEF HandOf

LEMMA TakesUp ==
    ASSUME NEW f, SendersOK(f), NEW s \in Sender, NEW p \in Packet, \A t \in Sender : f[t].packet # p,
           NEW g, g = [f EXCEPT ![s] = [at |-> "push", packet |-> p]], f[s] = Idle
    PROVE  SendersOK(g) /\ HandOf(g) = HandOf(f) \cup {p} /\ p \notin HandOf(f)
<1>1. /\ g \in [Sender -> States] /\ g[s].at = "push" /\ g[s].packet = p
      /\ \A t \in Sender \ {s} : g[t] = f[t]
  BY DEF SendersOK, States
<1>2. f[s].at # "push"
  BY DEF Idle
<1>3. SendersOK(g)
  <2>1. \A t \in Sender : g[t].at # "idle" => g[t].packet \in Packet
    BY <1>1 DEF SendersOK
  <2>2. ASSUME NEW t \in Sender, NEW u \in Sender, g[t].at = "push", g[u].at = "push",
               g[t].packet = g[u].packet
        PROVE  t = u
    <3>1. CASE t # s /\ u # s
      BY <1>1, <2>2, <3>1 DEF SendersOK
    <3>2. CASE t = s /\ u # s
      BY <1>1, <2>2, <3>2
    <3>3. CASE t # s /\ u = s
      BY <1>1, <2>2, <3>3
    <3> QED BY <3>1, <3>2, <3>3
  <2> QED BY <1>1, <2>1, <2>2 DEF SendersOK
<1>4. \A x : x \in HandOf(g) <=> (x \in HandOf(f) \/ x = p)
  <2>1. \A x : x \in HandOf(g) <=> \E t \in Sender : g[t].at = "push" /\ g[t].packet = x
    BY <1>3, InHandIf
  <2>2. \A x : x \in HandOf(f) <=> \E t \in Sender : f[t].at = "push" /\ f[t].packet = x
    BY InHandIf
  <2>3. \A x : (\E t \in Sender : g[t].at = "push" /\ g[t].packet = x)
               <=> ((\E t \in Sender \ {s} : f[t].at = "push" /\ f[t].packet = x) \/ x = p)
    BY <1>1
  <2>4. \A x : (\E t \in Sender : f[t].at = "push" /\ f[t].packet = x)
               <=> (\E t \in Sender \ {s} : f[t].at = "push" /\ f[t].packet = x)
    BY <1>2
  <2> QED BY <2>1, <2>2, <2>3, <2>4
<1>5. p \notin HandOf(f)
  BY InHandIf
<1> QED BY <1>3, <1>4, <1>5

LEMMA LetsGo ==
    ASSUME NEW f, SendersOK(f), NEW s \in Sender, f[s].at = "push",
           NEW g, g = [f EXCEPT ![s].at = "ask"]
    PROVE  /\ SendersOK(g) /\ HandOf(g) = HandOf(f) \ {f[s].packet}
           /\ f[s].packet \in HandOf(f) /\ f[s].packet \in Packet
<1>1. /\ g \in [Sender -> States] /\ g[s].at = "ask" /\ g[s].packet = f[s].packet
      /\ \A t \in Sender \ {s} : g[t] = f[t]
  BY DEF SendersOK, States
<1>2. f[s].packet \in Packet
  BY DEF SendersOK
<1>3. SendersOK(g)
  <2>1. \A t \in Sender : g[t].at # "idle" => g[t].packet \in Packet
    BY <1>1, <1>2 DEF SendersOK
  <2>2. \A t \in Sender : g[t].at = "push" => t # s /\ g[t] = f[t]
    BY <1>1
  <2> QED BY <1>1, <2>1, <2>2 DEF SendersOK
<1>4. \A x : x \in HandOf(g) <=> (x \in HandOf(f) /\ x # f[s].packet)
  <2>1. \A x : x \in HandOf(g) <=> \E t \in Sender : g[t].at = "push" /\ g[t].packet = x
    BY <1>3, InHandIf
  <2>2. \A x : x \in HandOf(f) <=> \E t \in Sender : f[t].at = "push" /\ f[t].packet = x
    BY InHandIf
  <2>3. \A t \in Sender \ {s} : f[t].at = "push" => f[t].packet # f[s].packet
    BY DEF SendersOK
  <2>4. \A x : (\E t \in Sender : g[t].at = "push" /\ g[t].packet = x)
               <=> (\E t \in Sender \ {s} : f[t].at = "push" /\ f[t].packet = x)
    BY <1>1
  <2>5. \A x : (\E t \in Sender : f[t].at = "push" /\ f[t].packet = x)
               <=> ((\E t \in Sender \ {s} : f[t].at = "push" /\ f[t].packet = x) \/ x = f[s].packet)
    OBVIOUS
  <2> QED BY <2>1, <2>2, <2>3, <2>4, <2>5
<1>5. f[s].packet \in HandOf(f)
  BY InHandIf
<1> QED BY <1>2, <1>3, <1>4, <1>5

LEMMA Returns ==
    ASSUME NEW f, SendersOK(f), NEW s \in Sender, f[s].at = "ask",
           NEW g, g = [f EXCEPT ![s] = Idle]
    PROVE  SendersOK(g) /\ HandOf(g) = HandOf(f)
<1>1. /\ g \in [Sender -> States] /\ g[s].at = "idle"
      /\ \A t \in Sender \ {s} : g[t] = f[t]
  BY DEF SendersOK, States, Idle
<1>2. SendersOK(g)
  BY <1>1 DEF SendersOK
<1>3. \A x : x \in HandOf(g) <=> x \in HandOf(f)
  <2>1. \A x : x \in HandOf(g) <=> \E t \in Sender : g[t].at = "push" /\ g[t].packet = x
    <3> SUFFICES ASSUME NEW x
                 PROVE  x \in HandOf(g) <=> \E t \in Sender : g[t].at = "push" /\ g[t].packet = x
      OBVIOUS
    <3> QED BY ONLY <1>2, InHandIf
  <2>2. \A x : x \in HandOf(f) <=> \E t \in Sender : f[t].at = "push" /\ f[t].packet = x
    BY InHandIf
  <2>3. \A x : (\E t \in Sender : g[t].at = "push" /\ g[t].packet = x)
               <=> (\E t \in Sender \ {s} : f[t].at = "push" /\ f[t].packet = x)
    BY <1>1
  <2>4. \A x : (\E t \in Sender : f[t].at = "push" /\ f[t].packet = x)
               <=> (\E t \in Sender \ {s} : f[t].at = "push" /\ f[t].packet = x)
    OBVIOUS
  <2> QED BY <2>1, <2>2, <2>3, <2>4
<1> QED BY <1>2, <1>3

------------------------------------------------------------------------------
(* The inductive invariant *)

(* No packet is in two of five sets. *)
Apart(H, Q, a, b, c) ==
    /\ H \cap Q = {} /\ H \cap a = {} /\ H \cap b = {} /\ H \cap c = {}
    /\ Q \cap a = {} /\ Q \cap b = {} /\ Q \cap c = {}
    /\ a \cap b = {} /\ a \cap c = {} /\ b \cap c = {}

TxInv ==
    /\ Queued(txQueue)
    /\ SendersOK(sender)
    /\ sent \subseteq Packet /\ evicted \subseteq Packet /\ expired \subseteq Packet
    /\ twice = {}
    /\ Apart(HandOf(sender), PacketsIn(txQueue), sent, evicted, expired)

Everywhere == HandOf(sender) \cup PacketsIn(txQueue) \cup sent \cup evicted \cup expired

LEMMA TxInitially == Init => TxInv
<1> SUFFICES ASSUME Init PROVE TxInv
  OBVIOUS
<1>1. Queued(txQueue) /\ PacketsIn(txQueue) = {}
  <2>1. txQueue = <<>> /\ DOMAIN txQueue = {} /\ Len(txQueue) = 0 /\ QueueSize \in Nat
    BY TxQueueConstants DEF Init
  <2> QED BY <2>1 DEF Queued, Queues, Once, PacketsIn, PacketsAt
<1>2. SendersOK(sender) /\ HandOf(sender) = {}
  <2>1. SendersOK(sender) /\ \A s \in Sender : sender[s].at = "idle"
    BY DEF Init, SendersOK, States, Idle
  <2> QED BY <2>1, InHandIf
<1> QED BY <1>1, <1>2 DEF Init, TxInv, Apart

(* requestWhois may push the oldest entry out. *)
LEMMA AskKeeps ==
    ASSUME TxInv, NEW d \in Dest, RequestWhois(d)
    PROVE  \E out : /\ Queued(txQueue') /\ out \subseteq PacketsIn(txQueue)
                    /\ PacketsIn(txQueue') = PacketsIn(txQueue) \ out
                    /\ evicted' = evicted \cup out
<1>1. CASE txQueue' = txQueue /\ evicted' = evicted
  <2>1. {} \subseteq PacketsIn(txQueue) /\ evicted' = evicted \cup {}
    BY <1>1
  <2> QED BY <1>1, <2>1 DEF TxInv
<1>2. CASE /\ txQueue' = Pushed(txQueue, [packet |-> Nothing, about |-> d, age |-> 0])
           /\ evicted' = evicted \cup EvictedBy(txQueue)
  <2>1. PICK e : e = [packet |-> Nothing, about |-> d, age |-> 0]
    OBVIOUS
  <2>2. e \in Entry /\ e.packet = Nothing
    BY <2>1, TxQueueConstants DEF Entry
  <2>3. e.packet \notin PacketsIn(txQueue)
    BY <2>2 DEF PacketsIn, PacketsAt
  <2>4. /\ Queued(txQueue') /\ EvictedBy(txQueue) \subseteq PacketsIn(txQueue)
        /\ PacketsIn(txQueue') = (PacketsIn(txQueue) \ EvictedBy(txQueue)) \cup ({e.packet} \ {Nothing})
    BY <1>2, <2>1, <2>2, <2>3, PushedIs DEF TxInv
  <2>5. PacketsIn(txQueue') = PacketsIn(txQueue) \ EvictedBy(txQueue)
    BY <2>2, <2>4
  <2> QED BY <1>2, <2>4, <2>5
<1> QED BY <1>1, <1>2 DEF RequestWhois
(* What every step has to show, with the sets it leaves *)
Kept(q, f, a, b, c) ==
    /\ Queued(q) /\ SendersOK(f)
    /\ a \subseteq Packet /\ b \subseteq Packet /\ c \subseteq Packet
    /\ Apart(HandOf(f), PacketsIn(q), a, b, c)
    /\ Everywhere \subseteq HandOf(f) \cup PacketsIn(q) \cup a \cup b \cup c

LEMMA SamePlaces ==
    ASSUME TxInv, UNCHANGED <<txQueue, sender, fates>>
    PROVE  twice' = {} /\ Kept(txQueue', sender', sent', evicted', expired')
BY DEF TxInv, Kept, Everywhere, fates

LEMMA SendKeeps ==
    ASSUME TxInv, NEW s \in Sender, NEW p \in Packet, Send(s, p)
    PROVE  twice' = {} /\ Kept(txQueue', sender', sent', evicted', expired')
<1> USE DEF TxInv
<1>1. /\ sender[s] = Idle /\ p \notin sent /\ \A t \in Sender : sender[t].packet # p
      /\ p \notin evicted \cup expired \cup PacketsIn(txQueue)
      /\ UNCHANGED <<txQueue, evicted, expired, twice>>
  BY DEF Send, Fresh
<1>2. CASE CanSend(To[p])
  <2>1. sent' = sent \cup {p} /\ sender' = sender
    BY <1>2 DEF Send
  <2>2. p \notin HandOf(sender)
    BY <1>1, InHandIf
  <2> QED BY <1>1, <2>1, <2>2 DEF Kept, Everywhere, Apart
<1>3. CASE ~CanSend(To[p])
  <2>1. sender' = [sender EXCEPT ![s] = [at |-> "push", packet |-> p]] /\ sent' = sent
    BY <1>3 DEF Send
  <2>2. SendersOK(sender') /\ HandOf(sender') = HandOf(sender) \cup {p}
    BY <1>1, <2>1, TakesUp
  <2> QED BY <1>1, <2>1, <2>2 DEF Kept, Everywhere, Apart
<1> QED BY <1>2, <1>3

LEMMA PushKeeps ==
    ASSUME TxInv, NEW s \in Sender, Push(s)
    PROVE  twice' = {} /\ Kept(txQueue', sender', sent', evicted', expired')
<1> USE DEF TxInv
<1>1. PICK p : p = sender[s].packet
  OBVIOUS
<1>2. PICK e : e = [packet |-> p, about |-> To[p], age |-> 0]
  OBVIOUS
<1>3. /\ sender[s].at = "push" /\ sender' = [sender EXCEPT ![s].at = "ask"]
      /\ txQueue' = Pushed(txQueue, e) /\ evicted' = evicted \cup EvictedBy(txQueue)
      /\ UNCHANGED <<sent, expired, twice>>
  BY <1>1, <1>2 DEF Push
<1>4. /\ SendersOK(sender') /\ HandOf(sender') = HandOf(sender) \ {p}
      /\ p \in HandOf(sender) /\ p \in Packet
  BY <1>1, <1>3, LetsGo
<1>5. e \in Entry /\ e.packet = p /\ p # Nothing
  BY <1>2, <1>4, TxQueueConstants DEF Entry, Dest
<1>6. p \notin PacketsIn(txQueue) \cup sent \cup evicted \cup expired
  BY <1>4 DEF Apart
<1>7. /\ Queued(txQueue') /\ EvictedBy(txQueue) \subseteq PacketsIn(txQueue)
      /\ PacketsIn(txQueue') = (PacketsIn(txQueue) \ EvictedBy(txQueue)) \cup {p}
  BY <1>3, <1>5, <1>6, PushedIs
<1>8. PacketsIn(txQueue) \subseteq Packet
  BY PacketsApart
<1>9. PICK out : out = EvictedBy(txQueue)
  OBVIOUS
<1> QED BY <1>3, <1>4, <1>6, <1>7, <1>8, <1>9 DEF Kept, Everywhere, Apart

(* Entries may be pushed out by a WHOIS. *)
LEMMA QuestionKeeps ==
    ASSUME TxInv, NEW d \in Dest, RequestWhois(d), UNCHANGED <<sent, expired, twice>>,
           SendersOK(sender'), HandOf(sender') = HandOf(sender)
    PROVE  twice' = {} /\ Kept(txQueue', sender', sent', evicted', expired')
<1>1. PICK out : /\ Queued(txQueue') /\ out \subseteq PacketsIn(txQueue)
                 /\ PacketsIn(txQueue') = PacketsIn(txQueue) \ out
                 /\ evicted' = evicted \cup out
  BY AskKeeps
<1>2. PacketsIn(txQueue) \subseteq Packet
  BY PacketsApart DEF TxInv
<1> QED BY <1>1, <1>2 DEF TxInv, Kept, Everywhere, Apart

LEMMA AskStepKeeps ==
    ASSUME TxInv, NEW s \in Sender, Ask(s)
    PROVE  twice' = {} /\ Kept(txQueue', sender', sent', evicted', expired')
<1>1. /\ sender[s].at = "ask" /\ sender' = [sender EXCEPT ![s] = Idle]
      /\ UNCHANGED <<sent, expired, twice>>
  BY DEF Ask
<1>2. SendersOK(sender') /\ HandOf(sender') = HandOf(sender)
  BY <1>1, Returns DEF TxInv
<1>3. CASE To[sender[s].packet] \in known
  <2>1. txQueue' = txQueue /\ evicted' = evicted
    BY <1>3 DEF Ask
  <2> QED BY <1>1, <1>2, <2>1 DEF TxInv, Kept, Everywhere
<1>4. CASE To[sender[s].packet] \notin known
  <2>1. sender[s].packet \in Packet
    BY <1>1 DEF TxInv, SendersOK
  <2>2. To[sender[s].packet] \in Dest
    BY <2>1 DEF Dest
  <2>3. RequestWhois(To[sender[s].packet])
    BY <1>4 DEF Ask
  <2> QED BY <1>1, <1>2, <2>2, <2>3, QuestionKeeps
<1> QED BY <1>3, <1>4

LEMMA FlushKeeps ==
    ASSUME TxInv, Flush
    PROVE  twice' = {} /\ Kept(txQueue', sender', sent', evicted', expired')
<1> USE DEF TxInv
<1>1. PICK S : S = Leaving(txQueue, receiver.about)
  OBVIOUS
<1>2. PICK T : T = (DOMAIN txQueue) \ S
  OBVIOUS
<1>3. /\ txQueue' = EntriesAt(txQueue, T)
      /\ sent' = sent \cup PacketsAt(txQueue, S)
      /\ twice' = twice \cup (sent \cap PacketsAt(txQueue, S))
      /\ UNCHANGED <<sender, evicted, expired>>
  BY <1>1, <1>2 DEF Flush, Stays, SendAll
<1>4. /\ DOMAIN txQueue = 1..Len(txQueue)
      /\ S \in SUBSET (1..Len(txQueue)) /\ T \in SUBSET (1..Len(txQueue))
      /\ S \cap T = {} /\ S \cup T = DOMAIN txQueue
  <2>1. DOMAIN txQueue = 1..Len(txQueue)
    BY DEF Queued, Queues
  <2>2. S \subseteq DOMAIN txQueue
    BY <1>1 DEF Leaving
  <2> QED BY <1>2, <2>1, <2>2
<1>5. PICK go : go = PacketsAt(txQueue, S)
  OBVIOUS
<1>6. PICK stay : stay = PacketsAt(txQueue, T)
  OBVIOUS
<1>7. /\ go \cap stay = {} /\ PacketsIn(txQueue) = go \cup stay
      /\ PacketsIn(txQueue) \subseteq Packet
  <2>1. PacketsIn(txQueue) = PacketsAt(txQueue, S \cup T)
    BY <1>4 DEF PacketsIn
  <2> QED BY <1>4, <1>5, <1>6, <2>1, PacketsApart
<1>8. Queued(txQueue') /\ PacketsIn(txQueue') = stay
  BY <1>3, <1>4, <1>6, EntriesAtIs
<1>9. sent \cap go = {}
  BY <1>7 DEF Apart
<1>10. sent' = sent \cup go /\ twice' = {}
  BY <1>3, <1>5, <1>9
<1> QED BY <1>3, <1>7, <1>8, <1>10 DEF Kept, Everywhere, Apart

LEMMA CheckKeeps ==
    ASSUME TxInv, CheckQueue
    PROVE  twice' = {} /\ Kept(txQueue', sender', sent', evicted', expired')
<1> USE DEF TxInv
<1>1. PICK S : S = Goes(txQueue)
  OBVIOUS
<1>2. PICK U : U = GivenUp(txQueue)
  OBVIOUS
<1>3. PICK T : T = Waits(txQueue)
  OBVIOUS
<1>4. /\ txQueue' = EntriesAt(txQueue, T)
      /\ sent' = sent \cup PacketsAt(txQueue, S)
      /\ twice' = twice \cup (sent \cap PacketsAt(txQueue, S))
      /\ expired' = expired \cup PacketsAt(txQueue, U)
      /\ UNCHANGED <<sender, evicted>>
  BY <1>1, <1>2, <1>3 DEF CheckQueue, SendAll
<1>5. /\ S \in SUBSET (1..Len(txQueue)) /\ T \in SUBSET (1..Len(txQueue))
      /\ U \in SUBSET (1..Len(txQueue)) /\ S \cup U \in SUBSET (1..Len(txQueue))
      /\ S \cap U = {} /\ (S \cup U) \cap T = {} /\ (S \cup U) \cup T = DOMAIN txQueue
  <2>1. DOMAIN txQueue = 1..Len(txQueue)
    BY DEF Queued, Queues
  <2>2. S \subseteq DOMAIN txQueue
    BY <1>1 DEF Goes
  <2>3. U \subseteq (DOMAIN txQueue) \ S
    BY <1>1, <1>2 DEF GivenUp
  <2>4. T = (DOMAIN txQueue) \ (S \cup U)
    BY <1>1, <1>2, <1>3 DEF Waits
  <2> QED BY <2>1, <2>2, <2>3, <2>4
<1>6. PICK go : go = PacketsAt(txQueue, S)
  OBVIOUS
<1>7. PICK drop : drop = PacketsAt(txQueue, U)
  OBVIOUS
<1>8. PICK stay : stay = PacketsAt(txQueue, T)
  OBVIOUS
<1>9. /\ go \cap drop = {} /\ (go \cup drop) \cap stay = {}
      /\ PacketsIn(txQueue) = (go \cup drop) \cup stay /\ PacketsIn(txQueue) \subseteq Packet
  <2>1. go \cap drop = {} /\ PacketsAt(txQueue, S \cup U) = go \cup drop
    BY <1>5, <1>6, <1>7, PacketsApart
  <2>2. PacketsIn(txQueue) = PacketsAt(txQueue, (S \cup U) \cup T)
    BY <1>5 DEF PacketsIn
  <2>3. /\ PacketsAt(txQueue, S \cup U) \cap stay = {}
        /\ PacketsAt(txQueue, (S \cup U) \cup T) = PacketsAt(txQueue, S \cup U) \cup stay
        /\ PacketsIn(txQueue) \subseteq Packet
    BY <1>5, <1>8, PacketsApart
  <2> QED BY <2>1, <2>2, <2>3
<1>10. Queued(txQueue') /\ PacketsIn(txQueue') = stay
  BY <1>4, <1>5, <1>8, EntriesAtIs
<1>11. sent \cap go = {}
  BY <1>9 DEF Apart
<1>12. sent' = sent \cup go /\ twice' = {} /\ expired' = expired \cup drop
  BY <1>4, <1>6, <1>7, <1>11
<1> QED BY <1>4, <1>9, <1>10, <1>12 DEF Kept, Everywhere, Apart

LEMMA TickKeeps ==
    ASSUME TxInv, Tick
    PROVE  twice' = {} /\ Kept(txQueue', sender', sent', evicted', expired')
<1>1. txQueue' = Aged(txQueue) /\ UNCHANGED <<sender, fates>>
  BY DEF Tick, Aged
<1>2. Queued(txQueue') /\ PacketsIn(txQueue') = PacketsIn(txQueue)
  BY <1>1, AgedIs DEF TxInv
<1> QED BY <1>1, <1>2 DEF TxInv, Kept, Everywhere, fates

LEMMA TxStep ==
    ASSUME TxInv, [Next]_vars
    PROVE  twice' = {} /\ Kept(txQueue', sender', sent', evicted', expired')
<1>1. CASE \E s \in Sender, p \in Packet : Send(s, p)
  BY <1>1, SendKeeps
<1>2. CASE \E s \in Sender : Push(s) \/ Ask(s)
  BY <1>2, PushKeeps, AskStepKeeps
<1>3. CASE \E d \in Dest : AddPeer(d) \/ Forget(d)
  <2>1. UNCHANGED <<txQueue, sender, fates>>
    BY <1>3 DEF AddPeer, Forget
  <2> QED BY <2>1, SamePlaces
<1>4. CASE EraseWhois
  <2>1. UNCHANGED <<txQueue, sender, fates>>
    BY <1>4 DEF EraseWhois
  <2> QED BY <2>1, SamePlaces
<1>5. CASE Flush
  BY <1>5, FlushKeeps
<1>6. CASE CheckQueue
  BY <1>6, CheckKeeps
<1>7. CASE \E d \in Dest : TimerAsk(d)
  <2>1. PICK d \in Dest : TimerAsk(d)
    BY <1>7
  <2>2. RequestWhois(d) /\ UNCHANGED <<sender, sent, expired, twice>>
    BY <2>1 DEF TimerAsk
  <2>3. SendersOK(sender') /\ HandOf(sender') = HandOf(sender)
    BY <2>2 DEF TxInv
  <2> QED BY <2>2, <2>3, QuestionKeeps
<1>8. CASE TimerEnd
  <2>1. UNCHANGED <<txQueue, sender, fates>>
    BY <1>8 DEF TimerEnd
  <2> QED BY <2>1, SamePlaces
<1>9. CASE Tick
  BY <1>9, TickKeeps
<1>10. CASE LinkChanges
  <2>1. UNCHANGED <<txQueue, sender, fates>>
    BY <1>10 DEF LinkChanges
  <2> QED BY <2>1, SamePlaces
<1>11. CASE UNCHANGED vars
  <2>1. UNCHANGED <<txQueue, sender, fates>>
    BY <1>11 DEF vars
  <2> QED BY <2>1, SamePlaces
<1> QED BY <1>1, <1>2, <1>3, <1>4, <1>5, <1>6, <1>7, <1>8, <1>9, <1>10, <1>11 DEF Next, TimerStep

LEMMA TxInductive == TxInv /\ [Next]_vars => TxInv'
<1> SUFFICES ASSUME TxInv, [Next]_vars PROVE TxInv'
  OBVIOUS
<1>1. twice' = {} /\ Kept(txQueue', sender', sent', evicted', expired')
  BY TxStep
<1> QED BY <1>1 DEF TxInv, Kept

(* The queue keeps to its size, and a packet is at one place, once.        *)
THEOREM OnePlace == Spec => []OneFate
<1>1. TxInv => OneFate
  <2> SUFFICES ASSUME TxInv PROVE OneFate
    OBVIOUS
  <2>1. { p \in Packet : InHand(p) } = HandOf(sender)
    BY DEF InHand, HandOf
  <2>2. \A i, j \in DOMAIN txQueue :
           txQueue[i].packet = txQueue[j].packet /\ ~IsWhois(txQueue[i]) => i = j
    <3>1. DOMAIN txQueue = 1..Len(txQueue)
      BY DEF TxInv, Queued, Queues
    <3> QED BY <3>1 DEF TxInv, Queued, Once, IsWhois
  <2>3. PICK h : h = HandOf(sender)
    OBVIOUS
  <2>4. Places = << h, PacketsIn(txQueue), sent, evicted, expired >>
    BY <2>1, <2>3 DEF Places
  <2>5. ASSUME NEW i \in DOMAIN Places, NEW j \in DOMAIN Places, i < j
        PROVE  Places[i] \cap Places[j] = {}
    <3>1. i \in 1..5 /\ j \in 1..5
      BY <2>4
    <3>2. Apart(h, PacketsIn(txQueue), sent, evicted, expired)
      BY <2>3 DEF TxInv
    <3>3. /\ Places[1] = h /\ Places[2] = PacketsIn(txQueue) /\ Places[3] = sent
          /\ Places[4] = evicted /\ Places[5] = expired
      BY <2>4
    <3>4. CASE i = 1
      <4>1. j = 2 \/ j = 3 \/ j = 4 \/ j = 5
        BY <2>5, <3>1, <3>4
      <4> QED BY <3>2, <3>3, <3>4, <4>1 DEF Apart
    <3>5. CASE i = 2
      <4>1. j = 3 \/ j = 4 \/ j = 5
        BY <2>5, <3>1, <3>5
      <4> QED BY <3>2, <3>3, <3>5, <4>1 DEF Apart
    <3>6. CASE i = 3
      <4>1. j = 4 \/ j = 5
        BY <2>5, <3>1, <3>6
      <4> QED BY <3>2, <3>3, <3>6, <4>1 DEF Apart
    <3>7. CASE i = 4
      <4>1. j = 5
        BY <2>5, <3>1, <3>7
      <4> QED BY <3>2, <3>3, <3>7, <4>1 DEF Apart
    <3>8. i # 5
      BY <2>5, <3>1
    <3> QED BY <3>1, <3>4, <3>5, <3>6, <3>7, <3>8
  <2> QED BY <2>2, <2>5 DEF OneFate, TxInv, Queued
<1> QED BY <1>1, TxInitially, TxInductive, PTL DEF Spec

(* No step loses a packet that send took in.                               *)
THEOREM NothingLost == Spec => NoneForgotten
<1>1. TxInv /\ [Next]_vars => [Placed \subseteq Placed']_vars
  <2> SUFFICES ASSUME TxInv, [Next]_vars PROVE Placed \subseteq Placed'
    OBVIOUS
  <2>1. { p \in Packet : InHand(p) } = HandOf(sender)
    BY DEF InHand, HandOf
  <2>2. { p \in Packet : InHand(p)' } = HandOf(sender')
    BY DEF InHand, HandOf
  <2>3. Placed = Everywhere
    BY <2>1 DEF Placed, Everywhere
  <2>4. Placed' = HandOf(sender') \cup PacketsIn(txQueue') \cup sent' \cup evicted' \cup expired'
    BY <2>2 DEF Placed
  <2>5. Kept(txQueue', sender', sent', evicted', expired')
    BY TxStep
  <2> QED BY <2>3, <2>4, <2>5 DEF Kept
<1> QED BY <1>1, TxInitially, TxInductive, PTL DEF Spec, NoneForgotten
------------------------------------------------------------------------------
(* Types *)

Clocks == [Dest -> 0..RetryDelay]
Receivers == [at : {"idle", "erase", "flush"}, about : Dest \cup {Nothing}]
Timers == [at : {"idle", "ask"}, need : SUBSET Dest]

RestOK ==
    /\ lastWhois \in Clocks /\ lastCheck \in 0..RetryDelay
    /\ known \subseteq Dest /\ asked \subseteq Dest /\ up \in BOOLEAN
    /\ receiver \in Receivers /\ timer \in Timers
    /\ forgets \in 0..MaxForgets

LEMMA RequestTypes ==
    ASSUME RestOK, NEW d \in Dest, RequestWhois(d)
    PROVE  lastWhois' \in Clocks /\ asked' \subseteq Dest
BY TxQueueConstants DEF RestOK, RequestWhois, Clocks

LEMMA OlderIs ==
    ASSUME NEW cap \in Nat, NEW a \in 0..cap PROVE Older(a, cap) \in 0..cap
BY DEF Older

LEMMA RestStep == TxInv /\ RestOK /\ [Next]_vars => RestOK'
<1> SUFFICES ASSUME TxInv, RestOK, [Next]_vars PROVE RestOK'
  OBVIOUS
<1>0. RetryDelay \in Nat /\ RetryDelay # 0 /\ MaxForgets \in Nat
  BY TxQueueConstants
<1>1. CASE \E s \in Sender, p \in Packet : Send(s, p)
  BY <1>1 DEF RestOK, Send, clocks
<1>2. ASSUME NEW s \in Sender, Push(s) PROVE RestOK'
  BY <1>2 DEF RestOK, Push, clocks
<1>3. ASSUME NEW s \in Sender, Ask(s) PROVE RestOK'
  <2>1. UNCHANGED <<lastCheck, known, up, receiver, timer, forgets>> /\ sender[s].at = "ask"
    BY <1>3 DEF Ask
  <2>2. lastWhois' \in Clocks /\ asked' \subseteq Dest
    <3>1. CASE To[sender[s].packet] \in known
      BY <1>3, <3>1 DEF Ask, RestOK
    <3>2. CASE To[sender[s].packet] \notin known
      <4>1. sender[s].packet \in Packet
        BY <2>1 DEF TxInv, SendersOK
      <4>2. To[sender[s].packet] \in Dest /\ RequestWhois(To[sender[s].packet])
        BY <1>3, <3>2, <4>1 DEF Ask, Dest
      <4> QED BY <4>2, RequestTypes
    <3> QED BY <3>1, <3>2
  <2> QED BY <2>1, <2>2 DEF RestOK
<1>4. ASSUME NEW d \in Dest, AddPeer(d) PROVE RestOK'
  BY <1>4 DEF RestOK, AddPeer, Receivers, clocks
<1>5. ASSUME NEW d \in Dest, Forget(d) PROVE RestOK'
  BY <1>0, <1>5 DEF RestOK, Forget, clocks
<1>6. CASE EraseWhois
  <2>1. receiver' \in Receivers
    BY <1>6 DEF RestOK, EraseWhois, Receivers
  <2>2. lastWhois' \in Clocks
    <3>1. PICK d : d = receiver.about
      OBVIOUS
    <3>2. lastWhois' = [lastWhois EXCEPT ![d] = RetryDelay] /\ RetryDelay \in 0..RetryDelay
      BY <1>0, <1>6, <3>1 DEF EraseWhois
    <3>3. lastWhois \in Clocks
      BY DEF RestOK
    <3> QED BY <3>2, <3>3 DEF Clocks
  <2> QED BY <1>6, <2>1, <2>2 DEF RestOK, EraseWhois
<1>7. ASSUME NEW S \in SUBSET (DOMAIN txQueue) PROVE QuestionsAt(txQueue, S) \subseteq Dest
  <2>1. \A i \in DOMAIN txQueue : txQueue[i] \in Entry
    BY DEF TxInv, Queued, Queues
  <2> QED BY <2>1 DEF QuestionsAt, Entry
<1>8. CASE Flush
  <2>1. Leaving(txQueue, receiver.about) \in SUBSET (DOMAIN txQueue)
    BY DEF Leaving
  <2>2. asked' = asked \cup QuestionsAt(txQueue, Leaving(txQueue, receiver.about))
    BY <1>8 DEF Flush, SendAll
  <2>3. receiver' \in Receivers /\ UNCHANGED <<lastWhois, lastCheck, known, up, timer, forgets>>
    BY <1>8 DEF Flush, Receivers, clocks
  <2> QED BY <1>7, <2>1, <2>2, <2>3 DEF RestOK
<1>9. CASE CheckQueue
  <2>1. Goes(txQueue) \in SUBSET (DOMAIN txQueue)
    BY DEF Goes
  <2>2. asked' = asked \cup QuestionsAt(txQueue, Goes(txQueue))
    BY <1>9 DEF CheckQueue, SendAll
  <2>3. Strangers(txQueue) \subseteq Dest
    <3>1. \A i \in DOMAIN txQueue : txQueue[i].about \in Dest
      <4>1. \A i \in DOMAIN txQueue : txQueue[i] \in Entry
        BY DEF TxInv, Queued, Queues
      <4> QED BY <4>1 DEF Entry
    <3> QED BY <3>1 DEF Strangers, Waits
  <2>4. timer' \in Timers
    BY <1>9, <2>3 DEF CheckQueue, Timers
  <2>5. lastCheck' \in 0..RetryDelay /\ UNCHANGED <<lastWhois, known, up, receiver, forgets>>
    BY <1>0, <1>9 DEF CheckQueue
  <2> QED BY <1>7, <2>1, <2>2, <2>4, <2>5 DEF RestOK
<1>10. ASSUME NEW d \in Dest, TimerAsk(d) PROVE RestOK'
  <2>1. lastWhois' \in Clocks /\ asked' \subseteq Dest
    BY <1>10, RequestTypes DEF TimerAsk
  <2>2. timer' \in Timers
    BY <1>10 DEF TimerAsk, RestOK, Timers
  <2> QED BY <1>10, <2>1, <2>2 DEF RestOK, TimerAsk
<1>11. CASE TimerEnd
  BY <1>11 DEF RestOK, TimerEnd, Timers, clocks
<1>12. CASE Tick
  <2>1. lastCheck' \in 0..RetryDelay
    BY <1>0, <1>12, OlderIs DEF RestOK, Tick
  <2>2. \A d \in Dest : Older(lastWhois[d], RetryDelay) \in 0..RetryDelay
    BY <1>0, OlderIs DEF RestOK, Clocks
  <2>3. lastWhois' \in Clocks
    BY <1>12, <2>2 DEF Tick, Clocks
  <2> QED BY <1>12, <2>1, <2>3 DEF RestOK, Tick
<1>13. CASE LinkChanges
  BY <1>13 DEF RestOK, LinkChanges, clocks
<1>14. CASE UNCHANGED vars
  BY <1>14 DEF RestOK, vars, clocks
<1> QED BY <1>1, <1>2, <1>3, <1>4, <1>5, <1>6, <1>8, <1>9, <1>10, <1>11, <1>12, <1>13, <1>14
        DEF Next, TimerStep

(* The queue, the clocks and the threads keep to their types.              *)
THEOREM TxTypes == Spec => []TypeOK
<1>1. Init => RestOK
  BY TxQueueConstants DEF Init, RestOK, Clocks, Receivers, Timers
<1>2. TxInv /\ RestOK => TypeOK
  <2> SUFFICES ASSUME TxInv, RestOK PROVE TypeOK
    OBVIOUS
  <2>1. /\ \A i \in DOMAIN txQueue : txQueue[i] \in Entry
        /\ Len(txQueue) <= QueueSize
    BY DEF TxInv, Queued, Queues
  <2>2. sender \in [Sender -> [at : {"idle", "push", "ask"}, packet : Packet \cup {Nothing}]]
    BY DEF TxInv, SendersOK, States
  <2>3. \A s \in {sent, evicted, expired, twice} : s \subseteq Packet
    BY DEF TxInv
  <2> QED BY <2>1, <2>2, <2>3 DEF RestOK, TypeOK, Clocks, Receivers, Timers
<1> QED BY <1>1, <1>2, TxInitially, TxInductive, RestStep, PTL DEF Spec
=============================================================================
