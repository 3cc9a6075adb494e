------------------------ MODULE TradeDelivery_proofs ------------------------
(***************************************************************************)
(* Proofs about TradeEgress and TradeDelivery, for every set of trades and *)
(* NACKs, any number of allocations, shards, workers and gateway tasks,    *)
(* and every bound: what egress takes off its stream has been sent, a      *)
(* trade that is answered as matched has been sent to be settled, the      *)
(* gateway delivers what it takes off its streams, and the item of a trade *)
(* and the last answer about it are of a last record.                      *)
(***************************************************************************)
EXTENDS TradeDeliveryInv, KinesisShards_proofs

----------------------------------------------------------------------------
(* The arithmetic of the list of settlements. *)

LEMMA DivideBack ==
  ASSUME NEW A \in Nat \ {0}, NEW k \in Nat, NEW a \in 1..A
  PROVE  (k * A + a - 1) \div A = k /\ (k * A + a - 1) % A = a - 1
  BY SMTT(30)

LEMMA DivideBound ==
  ASSUME NEW A \in Nat \ {0}, NEW n \in Nat, NEW i \in 1..(n * A)
  PROVE  ((i - 1) \div A) + 1 \in 1..n /\ ((i - 1) % A) + 1 \in 1..A
  BY SMTT(30)

LEMMA MultiplyBound ==
  ASSUME NEW A \in Nat \ {0}, NEW n \in Nat, NEW k \in 1..n, NEW a \in 1..A
  PROVE  (k - 1) * A + a \in 1..(n * A)
  BY SMTT(30)

(* A selection holds the elements at the chosen positions: position i is the *)
(* one with as many chosen ones before it as no other has, and there are as  *)
(* many positions as counts, so that each count has its position.            *)
LEMMA SelectionElements ==
  ASSUME NEW R, NEW q \in Seq(R), NEW S \in SUBSET DOMAIN q
  PROVE  /\ Selection(q, S) \in Seq(R)
         /\ Len(Selection(q, S)) = Cardinality(S) /\ Cardinality(S) \in Nat
         /\ Elements(Selection(q, S)) = {q[i] : i \in S}
  <1>. DEFINE n == Cardinality(S)
              before(i) == {k \in S : k < i}
              rank == [i \in S |-> Cardinality(before(i))]
              at(j) == CHOOSE i \in S : Cardinality(before(i)) = j - 1
  <1>1. Len(q) \in Nat /\ DOMAIN q = 1..Len(q)
    OBVIOUS
  <1>2. IsFiniteSet(S) /\ n \in Nat
    <2>1. IsFiniteSet(1..Len(q))
      BY <1>1, FS_Interval
    <2>. QED BY <1>1, <2>1, FS_Subset, FS_CardinalityType
  <1>3. \A i \in S : i \in Nat
    BY <1>1
  <1>4. \A i \in S : IsFiniteSet(before(i)) /\ Cardinality(before(i)) \in 0..(n - 1)
    <2>. SUFFICES ASSUME NEW i \in S
                  PROVE  IsFiniteSet(before(i)) /\ Cardinality(before(i)) \in 0..(n - 1)
      OBVIOUS
    <2>1. before(i) \in SUBSET S /\ before(i) # S
      BY <1>3
    <2>2. IsFiniteSet(before(i)) /\ Cardinality(before(i)) <= n /\ Cardinality(before(i)) # n
      BY <1>2, <2>1, FS_Subset
    <2>3. Cardinality(before(i)) \in Nat
      BY <2>2, FS_CardinalityType
    <2>. QED BY <1>2, <2>2, <2>3
  <1>5. ASSUME NEW i \in S, NEW k \in S, i < k
        PROVE  Cardinality(before(i)) # Cardinality(before(k))
    <2>1. before(i) \in SUBSET before(k) /\ i \in before(k) /\ i \notin before(i)
      BY <1>3, <1>5
    <2>. QED BY <1>4, <2>1, FS_Subset
  <1>6. rank \in Injection(S, 0..(n - 1))
    <2>1. rank \in [S -> 0..(n - 1)]
      BY <1>4
    <2>2. ASSUME NEW i \in S, NEW k \in S, rank[i] = rank[k]
          PROVE  i = k
      <3>1. Cardinality(before(i)) = Cardinality(before(k))
        BY <2>2
      <3>2. ~(i < k) /\ ~(k < i)
        BY <1>5, <3>1
      <3>. QED BY <1>3, <3>2
    <2>. QED BY <2>1, <2>2 DEF Injection, IsInjective
  <1>7. \A j \in 1..n : \E i \in S : rank[i] = j - 1
    <2>1. IsFiniteSet(0..(n - 1)) /\ Cardinality(0..(n - 1)) = n
      <3>1. 0 \in Int /\ n - 1 \in Int
        BY <1>2
      <3>2. /\ IsFiniteSet(0..(n - 1))
            /\ Cardinality(0..(n - 1)) = IF 0 > n - 1 THEN 0 ELSE n - 1 - 0 + 1
        BY <3>1, FS_Interval
      <3>3. n \in Nat
        BY <1>2
      <3>. HIDE DEF n
      <3>. QED BY <3>2, <3>3
    <2>2. rank \in Surjection(S, 0..(n - 1))
      BY <1>6, <2>1, FS_Injection
    <2>3. \A m \in 0..(n - 1) : \E i \in S : rank[i] = m
      BY <2>2 DEF Surjection
    <2>4. n \in Nat
      BY <1>2
    <2>. HIDE DEF n, rank
    <2>5. \A j \in 1..n : j - 1 \in 0..(n - 1)
      BY <2>4
    <2>. QED BY <2>3, <2>5
  <1>8. \A j \in 1..n : at(j) \in S /\ Cardinality(before(at(j))) = j - 1
    BY <1>7
  <1>9. Selection(q, S) = [j \in 1..n |-> q[at(j)]]
    BY DEF Selection
  <1>10. \A i \in S : \E j \in 1..n : at(j) = i
    <2>. SUFFICES ASSUME NEW i \in S PROVE \E j \in 1..n : at(j) = i
      OBVIOUS
    <2>. DEFINE j == Cardinality(before(i)) + 1
    <2>1. j \in 1..n /\ j - 1 = Cardinality(before(i))
      <3>1. Cardinality(before(i)) \in 0..(n - 1) /\ n \in Nat
        BY <1>2, <1>4
      <3>. HIDE DEF n, before
      <3>. QED BY <3>1
    <2>2. at(j) \in S /\ rank[at(j)] = rank[i]
      BY <1>8, <2>1
    <2>3. at(j) = i
      BY <1>6, <2>2 DEF Injection, IsInjective
    <2>. QED BY <2>1, <2>3
  <1>11. \A i \in S : q[i] \in R
    OBVIOUS
  <1>. HIDE DEF n, at, before, rank
  <1>12. Selection(q, S) \in Seq(R) /\ Len(Selection(q, S)) = n
    BY <1>2, <1>8, <1>9, <1>11
  <1>13. Elements(Selection(q, S)) = {q[i] : i \in S}
    BY <1>8, <1>9, <1>10 DEF Elements
  <1>. QED BY <1>2, <1>12, <1>13 DEF n

LEMMA EmptyElements == Elements(<<>>) = {}
  BY DEF Elements

LEMMA ElementAt ==
  ASSUME NEW R, NEW q \in Seq(R), NEW k \in 1..Len(q)
  PROVE  q[k] \in R /\ q[k] \in Elements(q)
  BY DEF Elements

LEMMA AppendElements ==
  ASSUME NEW R, NEW q \in Seq(R), NEW x \in R
  PROVE  Append(q, x) \in Seq(R) /\ Elements(Append(q, x)) = Elements(q) \cup {x}
  <1>1. /\ Len(q) \in Nat /\ DOMAIN q = 1..Len(q)
        /\ DOMAIN Append(q, x) = 1..(Len(q) + 1)
        /\ Append(q, x)[Len(q) + 1] = x
        /\ \A i \in 1..Len(q) : Append(q, x)[i] = q[i]
    OBVIOUS
  <1>2. 1..(Len(q) + 1) = 1..Len(q) \cup {Len(q) + 1}
    BY <1>1
  <1>. QED BY <1>1, <1>2 DEF Elements

LEMMA ConcatElements ==
  ASSUME NEW R, NEW p \in Seq(R), NEW q \in Seq(R)
  PROVE  p \o q \in Seq(R) /\ Elements(p \o q) = Elements(p) \cup Elements(q)
  <1>1. /\ Len(p) \in Nat /\ DOMAIN p = 1..Len(p)
        /\ Len(q) \in Nat /\ DOMAIN q = 1..Len(q)
        /\ p \o q \in Seq(R) /\ DOMAIN (p \o q) = 1..(Len(p) + Len(q))
        /\ \A i \in 1..Len(p) : (p \o q)[i] = p[i]
        /\ \A i \in 1..Len(q) : (p \o q)[Len(p) + i] = q[i]
    OBVIOUS
  <1>2. ASSUME NEW i \in 1..(Len(p) + Len(q)), i \notin 1..Len(p)
        PROVE  \E k \in 1..Len(q) : i = Len(p) + k
    <2>1. i - Len(p) \in 1..Len(q) /\ i = Len(p) + (i - Len(p))
      BY <1>1, <1>2
    <2>. QED BY <2>1
  <1>3. ASSUME NEW i \in 1..(Len(p) + Len(q)) PROVE (p \o q)[i] \in Elements(p) \cup Elements(q)
    <2>1. CASE i \in 1..Len(p)
      <3>1. (p \o q)[i] = p[i]
        BY <1>1, <2>1
      <3>. QED BY <1>1, <2>1, <3>1 DEF Elements
    <2>2. CASE i \notin 1..Len(p)
      <3>1. PICK k \in 1..Len(q) : i = Len(p) + k
        BY <1>2, <2>2
      <3>2. (p \o q)[i] = q[k]
        BY <1>1, <3>1
      <3>. QED BY <1>1, <3>2 DEF Elements
    <2>. QED BY <2>1, <2>2
  <1>4. \A i \in 1..Len(q) : Len(p) + i \in 1..(Len(p) + Len(q))
    BY <1>1
  <1>5. \A i \in 1..Len(p) : i \in 1..(Len(p) + Len(q))
    BY <1>1
  <1>6. \A i \in 1..Len(p) : p[i] \in Elements(p \o q)
    <2>. SUFFICES ASSUME NEW i \in 1..Len(p) PROVE p[i] \in Elements(p \o q)
      OBVIOUS
    <2>1. i \in DOMAIN (p \o q) /\ p[i] = (p \o q)[i]
      BY <1>1, <1>5
    <2>. QED BY <2>1 DEF Elements
  <1>7. \A i \in 1..Len(q) : q[i] \in Elements(p \o q)
    <2>. SUFFICES ASSUME NEW i \in 1..Len(q) PROVE q[i] \in Elements(p \o q)
      OBVIOUS
    <2>1. Len(p) + i \in DOMAIN (p \o q) /\ q[i] = (p \o q)[Len(p) + i]
      BY <1>1, <1>4
    <2>. QED BY <2>1 DEF Elements
  <1>8. Elements(p \o q) = {(p \o q)[i] : i \in 1..(Len(p) + Len(q))}
    BY <1>1 DEF Elements
  <1>9. Elements(p) = {p[i] : i \in 1..Len(p)} /\ Elements(q) = {q[i] : i \in 1..Len(q)}
    BY <1>1 DEF Elements
  <1>10. Elements(p \o q) \subseteq Elements(p) \cup Elements(q)
    BY <1>3, <1>8
  <1>11. Elements(p) \cup Elements(q) \subseteq Elements(p \o q)
    BY <1>6, <1>7, <1>9
  <1>. QED BY <1>1, <1>10, <1>11

(* A matched trade of a batch has all its settlements in the list. *)
LEMMA SettlementListElements ==
  ASSUME EgressAssumption, NEW q \in Seq(Record)
  PROVE  /\ SettlementList(q) \in Seq(Settlement)
         /\ \A r \in Elements(q) : r.status = "MATCHED" =>
              /\ SettlementList(q) # <<>>
              /\ SettlementsOf(r) \subseteq Elements(SettlementList(q))
  <1>. DEFINE S == {i \in DOMAIN q : q[i].status = "MATCHED"}
              m == Selection(q, S)
              n == Len(m)
              t(i) == ((i - 1) \div Allocs) + 1
              a(i) == ((i - 1) % Allocs) + 1
              L == [i \in 1..(n * Allocs) |-> [trade |-> m[t(i)].id, alloc |-> a(i)]]
  <1>1. SettlementList(q) = L
    BY DEF SettlementList
  <1>2. m \in Seq(Record) /\ n \in Nat /\ Elements(m) = {q[i] : i \in S}
    BY SelectionElements
  <1>3. Allocs \in Nat \ {0} /\ n * Allocs \in Nat
    BY <1>2 DEF EgressAssumption
  <1>4. \A k \in 1..n : m[k] \in Record /\ m[k].status = "MATCHED" /\ m[k] \in Elements(m)
    <2>. SUFFICES ASSUME NEW k \in 1..n
                  PROVE  m[k] \in Record /\ m[k].status = "MATCHED" /\ m[k] \in Elements(m)
      OBVIOUS
    <2>1. m[k] \in Record /\ m[k] \in Elements(m)
      BY <1>2, ElementAt
    <2>. HIDE DEF m
    <2>. QED BY <1>2, <2>1
  <1>5. \A k \in 1..n : m[k].id \in Trade
    BY <1>4 DEF Record
  <1>6. \A i \in 1..(n * Allocs) : t(i) \in 1..n /\ a(i) \in 1..Allocs
    BY <1>2, <1>3, DivideBound
  <1>. HIDE DEF m, n, t, a
  <1>7. L \in Seq(Settlement)
    <2>1. \A i \in 1..(n * Allocs) : [trade |-> m[t(i)].id, alloc |-> a(i)] \in Settlement
      BY <1>5, <1>6 DEF Settlement
    <2>. QED BY <1>3, <2>1
  <1>8. DOMAIN L = 1..(n * Allocs)
    OBVIOUS
  <1>9. ASSUME NEW r \in Elements(q), r.status = "MATCHED"
        PROVE  L # <<>> /\ SettlementsOf(r) \subseteq Elements(L)
    <2>1. r \in Elements(m)
      BY <1>2, <1>9 DEF Elements
    <2>2. PICK k \in 1..n : m[k] = r
      BY <1>2, <2>1 DEF Elements, n
    <2>3. ASSUME NEW b \in 1..Allocs
          PROVE  \E i \in 1..(n * Allocs) : L[i] = [trade |-> r.id, alloc |-> b]
      <3>. DEFINE i == (k - 1) * Allocs + b
      <3>1. i \in 1..(n * Allocs)
        BY <1>2, <1>3, MultiplyBound
      <3>2. (i - 1) \div Allocs = k - 1 /\ (i - 1) % Allocs = b - 1
        <4>1. k - 1 \in Nat
          BY <1>2
        <4>. QED BY <1>3, <4>1, DivideBack
      <3>3. t(i) = k /\ a(i) = b
        <4>1. k - 1 + 1 = k /\ b - 1 + 1 = b
          BY <1>2, <1>3
        <4>. QED BY <3>2, <4>1 DEF t, a
      <3>. HIDE DEF i
      <3>. QED BY <2>2, <3>1, <3>3
    <2>4. SettlementsOf(r) \subseteq Elements(L)
      <3>. SUFFICES ASSUME NEW x \in SettlementsOf(r) PROVE x \in Elements(L)
        OBVIOUS
      <3>1. x.alloc \in 1..Allocs /\ x = [trade |-> r.id, alloc |-> x.alloc]
        BY DEF SettlementsOf
      <3>. HIDE DEF L
      <3>2. PICK i \in 1..(n * Allocs) : L[i] = x
        BY <2>3, <3>1
      <3>. QED BY <1>8, <3>2 DEF Elements
    <2>5. 1 \in 1..Allocs
      BY <1>3
    <2>6. \E i \in 1..(n * Allocs) : TRUE
      BY <2>3, <2>5
    <2>. QED BY <1>8, <2>4, <2>6
  <1>. QED BY <1>1, <1>7, <1>9

(* What the stream accepts of q, when it refuses the records gone. *)
Accepted(q, gone) == {q[i] : i \in DOMAIN q \ gone}

(* The sequence q goes on where p ends. *)
Continues(p, q) ==
  /\ Len(p) \in Nat /\ Len(q) \in Nat /\ Len(p) <= Len(q)
  /\ \A i \in 1..Len(p) : q[i] = p[i]

LEMMA SameContinues ==
  ASSUME NEW R, NEW p \in Seq(R)
  PROVE  Continues(p, p)
  BY DEF Continues

LEMMA ConcatContinues ==
  ASSUME NEW R, NEW p \in Seq(R), NEW q \in Seq(R)
  PROVE  Continues(p, p \o q)
  <1>1. /\ Len(p) \in Nat /\ Len(q) \in Nat /\ Len(p \o q) = Len(p) + Len(q)
        /\ \A i \in 1..Len(p) : (p \o q)[i] = p[i]
    OBVIOUS
  <1>. HIDE DEF Continues
  <1>2. Len(p \o q) \in Nat /\ Len(p) <= Len(p \o q)
    BY <1>1
  <1>. QED BY <1>1, <1>2 DEF Continues

(* A push leaves what was there, and adds what is not refused. *)
LEMMA ExtendedElements ==
  ASSUME NEW R, NEW Z, NEW stream \in [Z -> Seq(R)], NEW q \in Seq(R),
         NEW z \in [DOMAIN q -> Z], NEW gone \in SUBSET DOMAIN q
  PROVE  /\ Extended(stream, q, z, gone) \in [Z -> Seq(R)]
         /\ Published(Extended(stream, q, z, gone))
              = Published(stream) \cup Accepted(q, gone)
         /\ \A x \in Z : Continues(stream[x], Extended(stream, q, z, gone)[x])
  <1>. DEFINE S(x) == {i \in DOMAIN q \ gone : z[i] = x}
              X == Extended(stream, q, z, gone)
  <1>1. X = [x \in Z |-> stream[x] \o Selection(q, S(x))]
    BY DEF Extended
  <1>2. \A x \in Z : /\ Selection(q, S(x)) \in Seq(R)
                      /\ Elements(Selection(q, S(x))) = {q[i] : i \in S(x)}
    BY SelectionElements
  <1>3. \A x \in Z : /\ X[x] \in Seq(R) /\ Continues(stream[x], X[x])
                      /\ Elements(X[x]) = Elements(stream[x]) \cup {q[i] : i \in S(x)}
    <2>. SUFFICES ASSUME NEW x \in Z
                  PROVE  /\ X[x] \in Seq(R) /\ Continues(stream[x], X[x])
                         /\ Elements(X[x]) = Elements(stream[x]) \cup {q[i] : i \in S(x)}
      OBVIOUS
    <2>1. stream[x] \in Seq(R) /\ X[x] = stream[x] \o Selection(q, S(x))
      BY <1>1
    <2>2. Selection(q, S(x)) \in Seq(R)
      BY <1>2
    <2>3. /\ stream[x] \o Selection(q, S(x)) \in Seq(R)
          /\ Continues(stream[x], stream[x] \o Selection(q, S(x)))
          /\ Elements(stream[x] \o Selection(q, S(x)))
               = Elements(stream[x]) \cup Elements(Selection(q, S(x)))
      <3>. DEFINE a == stream[x]
                  b == Selection(q, S(x))
      <3>1. a \in Seq(R) /\ b \in Seq(R)
        BY <2>1, <2>2
      <3>. HIDE DEF a, b, S, X
      <3>2. /\ a \o b \in Seq(R) /\ Elements(a \o b) = Elements(a) \cup Elements(b)
            /\ Continues(a, a \o b)
        BY <3>1, ConcatElements, ConcatContinues
      <3>. QED BY <3>2 DEF a, b
    <2>. QED BY <1>2, <2>1, <2>3
  <1>4. X \in [Z -> Seq(R)] /\ DOMAIN X = Z /\ DOMAIN stream = Z
    BY <1>1, <1>3
  <1>5. \A i \in DOMAIN q \ gone : z[i] \in Z /\ i \in S(z[i])
    OBVIOUS
  <1>6. Published(X) \subseteq Published(stream) \cup {q[i] : i \in DOMAIN q \ gone}
    BY <1>3, <1>4 DEF Published
  <1>7. Published(stream) \subseteq Published(X)
    BY <1>3, <1>4 DEF Published
  <1>8. ASSUME NEW i \in DOMAIN q \ gone PROVE q[i] \in Published(X)
    <2>1. q[i] \in Elements(X[z[i]])
      <3>1. q[i] \in {q[k] : k \in S(z[i])} /\ z[i] \in Z
        BY <1>5
      <3>. HIDE DEF S, X
      <3>. QED BY <1>3, <3>1
    <2>. QED BY <1>4, <1>5, <2>1 DEF Published
  <1>. QED BY <1>3, <1>4, <1>6, <1>7, <1>8 DEF Accepted

----------------------------------------------------------------------------
(* What is sent stays sent while the streams and the refused records grow. *)
Grows ==
  /\ Published(settlements) \cup lost \subseteq Published(settlements)' \cup lost'
  /\ Published(responses) \cup lost \subseteq Published(responses)' \cup lost'

LEMMA GrowsKeeps ==
  ASSUME Grows, NEW r
  PROVE  (Settles(r) => Settles(r)') /\ (Sent(r) => Sent(r)')
  BY DEF Grows, Settles, Sent, SettlementsOf

LEMMA SameGrows ==
  ASSUME UNCHANGED <<responses, settlements, lost>>
  PROVE  Grows
  BY DEF Grows, Published

LEMMA NewJobType == NewJob \in Job
  BY DEF NewJob, Job

LEMMA JobType ==
  ASSUME TypeOK, NEW w \in Worker, NEW s \in Shard
  PROVE  /\ job[w][s] \in Job
         /\ job[w][s].trades \in Seq(Record) /\ job[w][s].nacks \in Seq(Record)
         /\ job[w][s].tried \in Nat /\ job[w][s].settled \in BOOLEAN
  BY DEF TypeOK, Job

(* Goto changes one job. *)
LEMMA GotoJob ==
  ASSUME TypeOK, NEW w \in Worker, NEW s \in Shard, NEW next \in Job, Goto(w, s, next)
  PROVE  /\ job' \in [Worker -> [Shard -> Job]]
         /\ job'[w][s] = next
         /\ \A x \in Worker, z \in Shard : ~(x = w /\ z = s) => job'[x][z] = job[x][z]
  BY DEF TypeOK, Goto

(* A thread is not disturbed by what others send. *)
LEMMA OtherThread ==
  ASSUME NEW w \in Worker, NEW s \in Shard, ThreadOK(w, s), Grows, log' = log,
         batch'[w][s] = batch[w][s], job'[w][s] = job[w][s]
  PROVE  ThreadOK(w, s)'
  <1>1. \A r : (Settles(r) => Settles(r)') /\ (Sent(r) => Sent(r)')
    BY GrowsKeeps
  <1>. QED BY <1>1 DEF ThreadOK, Idle

LEMMA CheckpointStays ==
  ASSUME EInv, Grows, UNCHANGED <<log, ckpt>>
  PROVE  CheckpointOK'
  <1>1. \A s \in Shard : \A i \in 1..ckpt[s] : Sent(log[s][i])
    BY DEF EInv, CheckpointOK, CheckpointedIsSent, Sent, Settles
  <1>2. \A s \in Shard : \A i \in 1..ckpt'[s] : Sent(log[s][i])'
    BY <1>1, GrowsKeeps
  <1>3. CheckpointedIsSent'
    BY <1>2 DEF CheckpointedIsSent, Sent, Settles
  <1>. QED BY <1>3 DEF EInv, CheckpointOK

LEMMA MatchedStays ==
  ASSUME EInv, Grows, responses' = responses
  PROVE  MatchedIsSettled'
  <1>1. \A r \in Published(responses) : Settles(r)
    BY DEF EInv, MatchedIsSettled, Settles
  <1>2. \A r \in Published(responses)' : Settles(r)'
    BY <1>1, GrowsKeeps DEF Published
  <1>. QED BY <1>2 DEF MatchedIsSettled, Settles

(* A step of one thread. *)
LEMMA OneThread ==
  ASSUME EInv, TypeOK', Grows, MatchedIsSettled', CheckpointOK', log' = log,
         NEW w \in Worker, NEW s \in Shard, ThreadOK(w, s)',
         \A x \in Worker, z \in Shard : ~(x = w /\ z = s) =>
            batch'[x][z] = batch[x][z] /\ job'[x][z] = job[x][z]
  PROVE  EInv'
  <1>1. \A x \in Worker, z \in Shard : ThreadOK(x, z)'
    BY OtherThread DEF EInv
  <1>. QED BY <1>1 DEF EInv

(* A step of no thread: leases, crashes and halts. *)
LEMMA NoThread ==
  ASSUME EInv, TypeOK', Grows, MatchedIsSettled', UNCHANGED <<log, ckpt, batch, job>>
  PROVE  EInv'
  <1>1. \A x \in Worker, z \in Shard : ThreadOK(x, z)'
    BY OtherThread DEF EInv
  <1>. QED BY <1>1, CheckpointStays DEF EInv

(* A thread that starts anew. *)
LEMMA FreshThread ==
  ASSUME NEW w \in Worker, NEW s \in Shard, Len(log'[s]) \in Nat,
         batch'[w][s] = NoBatch, job'[w][s] = NewJob
  PROVE  ThreadOK(w, s)'
  <1>1. /\ batch'[w][s].end = 0 /\ batch'[w][s].pos = 0
        /\ ~job'[w][s].settled /\ job'[w][s].nacks = <<>>
    BY DEF NoBatch, NewJob
  <1>. QED BY <1>1, EmptyElements DEF ThreadOK

(* The shards and types of a thread. *)
LEMMA ThreadTypes ==
  ASSUME TypeOK, NEW w \in Worker, NEW s \in Shard
  PROVE  /\ log[s] \in Seq(Record) /\ Len(log[s]) \in Nat /\ ckpt[s] \in Nat
         /\ batch[w][s].pos \in Nat /\ batch[w][s].end \in Nat
         /\ batch[w][s] = [pos |-> batch[w][s].pos, end |-> batch[w][s].end]
  BY ShardFieldTypes DEF TypeOK, ShardTypeOK

LEMMA CurrentRecord ==
  ASSUME EInv, NEW w \in Worker, NEW s \in Shard, Working(w, s)
  PROVE  /\ batch[w][s].pos \in 1..Len(log[s])
         /\ Current(w, s) = log[s][batch[w][s].pos] /\ Current(w, s) \in Record
  <1>1. /\ log[s] \in Seq(Record) /\ Len(log[s]) \in Nat
        /\ batch[w][s].pos \in Nat /\ batch[w][s].end \in Nat
    BY ThreadTypes DEF EInv
  <1>2. batch[w][s].end <= Len(log[s])
    BY DEF EInv, ThreadOK
  <1>3. batch[w][s].pos \in 1..Len(log[s])
    BY <1>1, <1>2 DEF Working, Idle
  <1>. QED BY <1>1, <1>3 DEF Current

LEMMA BatchStep ==
  ASSUME TypeOK, NEW w \in Worker, NEW s \in Shard, NextRecord(w, s)
  PROVE  /\ batch'[w][s].pos = batch[w][s].pos + 1 /\ batch'[w][s].end = batch[w][s].end
         /\ \A x \in Worker, z \in Shard : ~(x = w /\ z = s) => batch'[x][z] = batch[x][z]
  <1>1. batch \in [Worker -> [Shard -> [pos : Nat, end : Nat]]]
    BY DEF TypeOK, ShardTypeOK
  <1>. QED BY <1>1 DEF NextRecord

LEMMA StoreType ==
  ASSUME TypeOK, NEW r \in Record \cup Settlement, Store(r)
  PROVE  items' \subseteq Record \cup Settlement /\ fails' \in Nat
  BY DEF TypeOK, Store, Keep, Fail

----------------------------------------------------------------------------
LEMMA EgressInit == Init => EInv
  <1>. SUFFICES ASSUME Init PROVE EInv
    OBVIOUS
  <1>1. TypeOK
    BY ShardInitType, NewJobType DEF Init, TypeOK
  <1>2. \A s \in Shard : log[s] = <<>> /\ ckpt[s] = 0
    BY DEF Init, ShardInit
  <1>3. ASSUME NEW w \in Worker, NEW s \in Shard PROVE ThreadOK(w, s)
    <2>1. batch[w][s] = NoBatch /\ job[w][s] = NewJob /\ log[s] = <<>>
      BY DEF Init, ShardInit
    <2>2. /\ batch[w][s].end = 0 /\ batch[w][s].pos = 0 /\ Len(log[s]) = 0
          /\ ~job[w][s].settled /\ job[w][s].nacks = <<>>
      BY <2>1 DEF NoBatch, NewJob
    <2>. QED BY <2>1, <2>2, EmptyElements DEF ThreadOK
  <1>4. CheckpointOK
    BY <1>2 DEF CheckpointOK, CheckpointedIsSent
  <1>5. MatchedIsSettled
    <2>1. Published(responses) = {}
      BY EmptyElements DEF Init, Published
    <2>. QED BY <2>1 DEF MatchedIsSettled
  <1>. QED BY <1>1, <1>3, <1>4, <1>5 DEF EInv

(* One lemma per action. *)

LEMMA ReceiveKeeps ==
  ASSUME EInv, NEW r \in Record, NEW s \in Shard, ReceiveRecord(r, s)
  PROVE  EInv'
  <1>1. Put(s, r) /\ UNCHANGED <<items, job, streams>>
    BY DEF ReceiveRecord
  <1>2. ShardTypeOK(Record)
    BY DEF EInv, TypeOK
  <1>3. UNCHANGED <<items, job, responses, settlements, lost, fails, ckpt, batch>>
    BY <1>1 DEF Put, streams
  <1>4. TypeOK'
    <2>1. ShardTypeOK(Record)'
      BY <1>1, <1>2, PutType
    <2>. QED BY <1>3, <2>1 DEF EInv, TypeOK
  <1>5. \A z \in Shard : /\ Len(log'[z]) \in Nat /\ Len(log'[z]) >= Len(log[z])
                         /\ Len(log[z]) \in Nat
                         /\ \A i \in 1..Len(log[z]) : log'[z][i] = log[z][i]
    BY <1>1, <1>2, PutKeeps, ShardFieldTypes
  <1>6. \A x : (Settles(x) => Settles(x)') /\ (Sent(x) => Sent(x)')
    BY <1>3, SameGrows, GrowsKeeps
  <1>7. ASSUME NEW x \in Worker, NEW z \in Shard PROVE ThreadOK(x, z)'
    <2>1. ThreadOK(x, z) /\ batch'[x][z] = batch[x][z] /\ job'[x][z] = job[x][z]
      BY <1>3 DEF EInv
    <2>2. /\ batch[x][z].pos \in Nat /\ batch[x][z].end \in Nat
      BY ThreadTypes DEF EInv
    <2>3. batch'[x][z].end <= Len(log'[z]) /\ batch'[x][z].pos <= batch'[x][z].end + 1
      BY <1>5, <2>1, <2>2 DEF ThreadOK
    <2>4. ASSUME NEW i \in 1..Len(log'[z]), i < batch'[x][z].pos
          PROVE  \/ log'[z][i] \in Elements(job'[x][z].trades) \cup Elements(job'[x][z].nacks)
                 \/ Sent(log[z][i])'
      <3>1. batch[x][z].pos <= Len(log[z]) + 1
        BY <1>5, <2>1, <2>2 DEF ThreadOK
      <3>2. i \in 1..Len(log[z]) /\ i < batch[x][z].pos
        BY <1>5, <2>1, <2>2, <2>4, <3>1
      <3>3. log'[z][i] = log[z][i]
        BY <1>5, <3>2
      <3>. QED BY <1>6, <2>1, <3>2, <3>3 DEF ThreadOK
    <2>5. Idle(x, z)' => job'[x][z] = NewJob
      BY <2>1 DEF ThreadOK, Idle
    <2>6. job'[x][z].settled => /\ batch'[x][z].pos > batch'[x][z].end
                               /\ \A y \in Elements(job'[x][z].trades) : Settles(y)'
      BY <1>6, <2>1 DEF ThreadOK
    <2>7. \A y \in Elements(job'[x][z].nacks) : y.status = "NACK"
      BY <2>1 DEF ThreadOK
    <2>. QED BY <2>3, <2>4, <2>5, <2>6, <2>7 DEF ThreadOK
  <1>8. CheckpointOK'
    <2>1. ASSUME NEW z \in Shard, NEW i \in 1..ckpt'[z] PROVE Sent(log[z][i])'
      <3>1. i \in 1..ckpt[z] /\ i \in 1..Len(log[z])
        BY <1>2, <1>3, <1>5, ShardFieldTypes DEF EInv, CheckpointOK
      <3>2. Sent(log[z][i])
        BY <3>1 DEF EInv, CheckpointOK, CheckpointedIsSent, Sent, Settles
      <3>. QED BY <1>5, <1>6, <3>1, <3>2
    <2>2. \A z \in Shard : ckpt'[z] <= Len(log'[z])
      BY <1>2, <1>3, <1>5, ShardFieldTypes DEF EInv, CheckpointOK
    <2>3. CheckpointedIsSent'
      BY <2>1 DEF CheckpointedIsSent, Sent, Settles
    <2>. QED BY <2>2, <2>3 DEF CheckpointOK
  <1>. QED BY <1>3, <1>4, <1>7, <1>8, MatchedStays, SameGrows DEF EInv

LEMMA StoreTradeKeeps ==
  ASSUME EInv, NEW w \in Worker, NEW s \in Shard, StoreTrade(w, s)
  PROVE  EInv'
  <1>. DEFINE next == [job[w][s] EXCEPT !.trades = Append(@, Current(w, s))]
  <1>1. /\ Working(w, s) /\ Store(Current(w, s)) /\ Goto(w, s, next)
        /\ NextRecord(w, s) /\ UNCHANGED <<responses, settlements, lost>>
    BY DEF StoreTrade
  <1>2. /\ TypeOK /\ ThreadOK(w, s)
        /\ batch[w][s].pos \in 1..Len(log[s]) /\ Current(w, s) = log[s][batch[w][s].pos]
        /\ Current(w, s) \in Record
    BY <1>1, CurrentRecord DEF EInv
  <1>3. /\ Append(job[w][s].trades, Current(w, s)) \in Seq(Record)
        /\ Elements(Append(job[w][s].trades, Current(w, s)))
             = Elements(job[w][s].trades) \cup {Current(w, s)}
    BY <1>2, JobType, AppendElements
  <1>4. /\ next \in Job /\ next.settled = job[w][s].settled /\ next.nacks = job[w][s].nacks
        /\ next.trades = Append(job[w][s].trades, Current(w, s))
    BY <1>2, <1>3, JobType DEF Job
  <1>. HIDE DEF next
  <1>5. /\ job' \in [Worker -> [Shard -> Job]] /\ job'[w][s] = next
        /\ \A x \in Worker, z \in Shard : ~(x = w /\ z = s) => job'[x][z] = job[x][z]
    BY <1>1, <1>2, <1>4, GotoJob
  <1>6. TypeOK'
    BY <1>1, <1>2, <1>5, ShardStepType, StoreType DEF TypeOK
  <1>7. Grows /\ MatchedIsSettled' /\ CheckpointOK' /\ log' = log
    BY <1>1, SameGrows, MatchedStays, CheckpointStays DEF NextRecord
  <1>8. /\ batch'[w][s].pos = batch[w][s].pos + 1 /\ batch'[w][s].end = batch[w][s].end
        /\ \A x \in Worker, z \in Shard : ~(x = w /\ z = s) => batch'[x][z] = batch[x][z]
    BY <1>1, <1>2, BatchStep
  <1>9. ThreadOK(w, s)'
    <2>1. /\ batch[w][s].pos \in Nat /\ batch[w][s].end \in Nat /\ Len(log[s]) \in Nat
          /\ batch[w][s].pos <= batch[w][s].end
      BY <1>1, <1>2, ThreadTypes DEF Working
    <2>2. /\ batch'[w][s].end <= Len(log'[s]) /\ batch'[w][s].pos <= batch'[w][s].end + 1
          /\ batch'[w][s].pos # 0
      BY <1>2, <1>7, <1>8, <2>1 DEF ThreadOK
    <2>3. ~job'[w][s].settled
      BY <1>2, <1>4, <1>5, <2>1 DEF ThreadOK
    <2>4. ASSUME NEW i \in 1..Len(log'[s]), i < batch'[w][s].pos
          PROVE  \/ log'[s][i] \in Elements(job'[w][s].trades) \cup Elements(job'[w][s].nacks)
                 \/ Sent(log[s][i])'
      <3>1. CASE i = batch[w][s].pos
        BY <1>2, <1>3, <1>4, <1>5, <1>7, <3>1
      <3>2. CASE i # batch[w][s].pos
        <4>1. i \in 1..Len(log[s]) /\ i < batch[w][s].pos
          BY <1>7, <1>8, <2>1, <2>4, <3>2
        <4>2. \/ log[s][i] \in Elements(job[w][s].trades) \cup Elements(job[w][s].nacks)
              \/ Sent(log[s][i])
          BY <1>2, <4>1 DEF ThreadOK
        <4>. QED BY <1>3, <1>4, <1>5, <1>7, <4>2, GrowsKeeps
      <3>. QED BY <3>1, <3>2
    <2>5. \A r \in Elements(job'[w][s].nacks) : r.status = "NACK"
      BY <1>2, <1>4, <1>5 DEF ThreadOK
    <2>. QED BY <2>2, <2>3, <2>4, <2>5 DEF ThreadOK, Idle
  <1>. QED BY <1>5, <1>6, <1>7, <1>8, <1>9, OneThread

LEMMA CollectNackKeeps ==
  ASSUME EgressAssumption, EInv, NEW w \in Worker, NEW s \in Shard, CollectNack(w, s)
  PROVE  EInv'
  <1>. DEFINE next == [job[w][s] EXCEPT !.nacks = Append(@, Current(w, s))]
  <1>1. /\ Working(w, s) /\ Current(w, s).id \in Nack /\ Goto(w, s, next)
        /\ NextRecord(w, s) /\ UNCHANGED <<items, responses, settlements, lost, fails>>
    BY DEF CollectNack, streams
  <1>2. /\ TypeOK /\ ThreadOK(w, s)
        /\ batch[w][s].pos \in 1..Len(log[s]) /\ Current(w, s) = log[s][batch[w][s].pos]
        /\ Current(w, s) \in Record
    BY <1>1, CurrentRecord DEF EInv
  <1>3. /\ Append(job[w][s].nacks, Current(w, s)) \in Seq(Record)
        /\ Elements(Append(job[w][s].nacks, Current(w, s)))
             = Elements(job[w][s].nacks) \cup {Current(w, s)}
    BY <1>2, JobType, AppendElements
  <1>4. /\ next \in Job /\ next.settled = job[w][s].settled /\ next.trades = job[w][s].trades
        /\ next.nacks = Append(job[w][s].nacks, Current(w, s))
    BY <1>2, <1>3, JobType DEF Job
  <1>. HIDE DEF next
  <1>5. /\ job' \in [Worker -> [Shard -> Job]] /\ job'[w][s] = next
        /\ \A x \in Worker, z \in Shard : ~(x = w /\ z = s) => job'[x][z] = job[x][z]
    BY <1>1, <1>2, <1>4, GotoJob
  <1>6. TypeOK'
    BY <1>1, <1>2, <1>5, ShardStepType DEF TypeOK
  <1>7. Grows /\ MatchedIsSettled' /\ CheckpointOK' /\ log' = log
    BY <1>1, SameGrows, MatchedStays, CheckpointStays DEF NextRecord
  <1>8. /\ batch'[w][s].pos = batch[w][s].pos + 1 /\ batch'[w][s].end = batch[w][s].end
        /\ \A x \in Worker, z \in Shard : ~(x = w /\ z = s) => batch'[x][z] = batch[x][z]
    BY <1>1, <1>2, BatchStep
  <1>9. Current(w, s).status = "NACK"
    BY <1>1, <1>2 DEF Record, EgressAssumption
  <1>10. ThreadOK(w, s)'
    <2>1. /\ batch[w][s].pos \in Nat /\ batch[w][s].end \in Nat /\ Len(log[s]) \in Nat
          /\ batch[w][s].pos <= batch[w][s].end
      BY <1>1, <1>2, ThreadTypes DEF Working
    <2>2. /\ batch'[w][s].end <= Len(log'[s]) /\ batch'[w][s].pos <= batch'[w][s].end + 1
          /\ batch'[w][s].pos # 0
      BY <1>2, <1>7, <1>8, <2>1 DEF ThreadOK
    <2>3. ~job'[w][s].settled
      BY <1>2, <1>4, <1>5, <2>1 DEF ThreadOK
    <2>4. ASSUME NEW i \in 1..Len(log'[s]), i < batch'[w][s].pos
          PROVE  \/ log'[s][i] \in Elements(job'[w][s].trades) \cup Elements(job'[w][s].nacks)
                 \/ Sent(log[s][i])'
      <3>1. CASE i = batch[w][s].pos
        BY <1>2, <1>3, <1>4, <1>5, <1>7, <3>1
      <3>2. CASE i # batch[w][s].pos
        <4>1. i \in 1..Len(log[s]) /\ i < batch[w][s].pos
          BY <1>7, <1>8, <2>1, <2>4, <3>2
        <4>2. \/ log[s][i] \in Elements(job[w][s].trades) \cup Elements(job[w][s].nacks)
              \/ Sent(log[s][i])
          BY <1>2, <4>1 DEF ThreadOK
        <4>. QED BY <1>3, <1>4, <1>5, <1>7, <4>2, GrowsKeeps
      <3>. QED BY <3>1, <3>2
    <2>5. \A r \in Elements(job'[w][s].nacks) : r.status = "NACK"
      BY <1>2, <1>3, <1>4, <1>5, <1>9 DEF ThreadOK
    <2>. QED BY <2>2, <2>3, <2>4, <2>5 DEF ThreadOK, Idle
  <1>. QED BY <1>5, <1>6, <1>7, <1>8, <1>10, OneThread

(* Writing what is to be pushed changes the count only. *)
LEMMA StoreNextKeeps ==
  ASSUME EInv, NEW w \in Worker, NEW s \in Shard, Finished(w, s),
         NEW R \in SUBSET (Record \cup Settlement), NEW q \in Seq(R), StoreNext(w, s, q)
  PROVE  EInv'
  <1>. DEFINE next == [job[w][s] EXCEPT !.tried = @ + 1]
              r == q[job[w][s].tried + 1]
  <1>1. /\ job[w][s].tried < Len(q) /\ Store(r) /\ Goto(w, s, next)
        /\ StayAtRecord /\ UNCHANGED <<responses, settlements, lost>>
    BY DEF StoreNext
  <1>2. TypeOK /\ ThreadOK(w, s)
    BY DEF EInv
  <1>3. r \in Record \cup Settlement
    <2>1. job[w][s].tried + 1 \in 1..Len(q)
      BY <1>1, <1>2, JobType
    <2>2. q[job[w][s].tried + 1] \in R
      BY <2>1, ElementAt
    <2>. QED BY <2>2
  <1>4. /\ next \in Job /\ next.settled = job[w][s].settled
        /\ next.trades = job[w][s].trades /\ next.nacks = job[w][s].nacks
    <2>1. job[w][s] \in Job /\ job[w][s].tried \in Nat
      BY <1>2, JobType
    <2>2. job[w][s].tried + 1 \in Nat
      BY <2>1
    <2>. QED BY <2>1, <2>2 DEF Job
  <1>. HIDE DEF next, r
  <1>5. /\ job' \in [Worker -> [Shard -> Job]] /\ job'[w][s] = next
        /\ \A x \in Worker, z \in Shard : ~(x = w /\ z = s) => job'[x][z] = job[x][z]
    BY <1>1, <1>2, <1>4, GotoJob
  <1>6. TypeOK'
    BY <1>1, <1>2, <1>3, <1>5, ShardStepType, StoreType DEF TypeOK
  <1>7. Grows /\ MatchedIsSettled' /\ CheckpointOK' /\ log' = log /\ batch' = batch
    BY <1>1, SameGrows, MatchedStays, CheckpointStays DEF StayAtRecord, shardVars
  <1>8. ThreadOK(w, s)'
    <2>1. \A x : (Settles(x) => Settles(x)') /\ (Sent(x) => Sent(x)')
      BY <1>7, GrowsKeeps
    <2>2. ~Idle(w, s)
      <3>1. batch[w][s].pos \in Nat /\ batch[w][s].end \in Nat
        BY <1>2, ThreadTypes
      <3>. QED BY <3>1 DEF Finished, Idle
    <2>3. /\ job'[w][s].settled = job[w][s].settled /\ job'[w][s].trades = job[w][s].trades
          /\ job'[w][s].nacks = job[w][s].nacks /\ batch'[w][s] = batch[w][s]
      BY <1>4, <1>5, <1>7
    <2>4. \A i \in 1..Len(log[s]) : i < batch[w][s].pos =>
            \/ log[s][i] \in Elements(job[w][s].trades) \cup Elements(job[w][s].nacks)
            \/ Sent(log[s][i])'
      BY <1>2, <1>7, <2>1 DEF ThreadOK
    <2>5. job[w][s].settled => \A e \in Elements(job[w][s].trades) : Settles(e)'
      BY <1>2, <2>1 DEF ThreadOK
    <2>. QED BY <1>2, <1>7, <2>2, <2>3, <2>4, <2>5 DEF ThreadOK, Idle
  <1>. QED BY <1>5, <1>6, <1>7, <1>8, OneThread

(* What a push does to its stream and to the refused records: nothing goes, *)
(* nothing else comes, and where the thread goes on, all of q is there.     *)
LEMMA SettlementsPushed ==
  ASSUME EgressAssumption, TypeOK, NEW w \in Worker, NEW s \in Shard,
         NEW q \in Seq(Settlement), NEW next, Push(w, s, settlements, q, next)
  PROVE  /\ settlements' \in [SettlementShard -> Seq(Settlement)]
         /\ fails' \in Nat /\ fails' >= fails
         /\ \A x \in SettlementShard : Continues(settlements[x], settlements'[x])
         /\ lost \subseteq lost' /\ lost' \subseteq Record \cup Settlement
         /\ Published(settlements) \subseteq Published(settlements)'
         /\ Published(settlements)' \subseteq Published(settlements) \cup Elements(q)
         /\ \/ Halt(w) /\ job' = job
            \/ /\ Goto(w, s, next) /\ StayAtRecord
               /\ Elements(q) \subseteq Published(settlements)' \cup lost'
  <1>1. /\ settlements \in [SettlementShard -> Seq(Settlement)] /\ fails \in Nat
        /\ lost \subseteq Record \cup Settlement /\ DOMAIN settlements = SettlementShard
    BY DEF TypeOK
  <1>2. \A i \in DOMAIN q : q[i] \in Settlement
    OBVIOUS
  <1>3. CASE Halt(w) /\ UNCHANGED <<settlements, job, lost, fails>>
    BY <1>1, <1>3, SameContinues DEF Published
  <1>4. ASSUME NEW z \in [DOMAIN q -> SettlementShard], NEW gone \in SUBSET DOMAIN q,
               settlements' = Extended(settlements, q, z, gone)
        PROVE  /\ settlements' \in [SettlementShard -> Seq(Settlement)]
               /\ Published(settlements)'
                    = Published(settlements) \cup Accepted(q, gone)
               /\ \A x \in SettlementShard : Continues(settlements[x], settlements'[x])
    <2>1. /\ Extended(settlements, q, z, gone) \in [SettlementShard -> Seq(Settlement)]
          /\ Published(Extended(settlements, q, z, gone))
               = Published(settlements) \cup Accepted(q, gone)
          /\ \A x \in SettlementShard : Continues(settlements[x], Extended(settlements, q, z, gone)[x])
      <3>1. settlements \in [SettlementShard -> Seq(Settlement)]
        BY <1>1
      <3> QED
        BY <3>1, ExtendedElements, Zenon
    <2>. QED BY <1>4, <2>1 DEF Published
  <1>5. CASE /\ \E z \in [DOMAIN q -> DOMAIN settlements], gone \in SUBSET DOMAIN q :
                  /\ fails' = fails + Cardinality(gone) /\ fails' <= MaxFail
                  /\ lost' = lost \cup {q[i] : i \in gone}
                  /\ settlements' = Extended(settlements, q, z, gone)
             /\ Goto(w, s, next) /\ StayAtRecord
    <2>1. PICK z \in [DOMAIN q -> SettlementShard], gone \in SUBSET DOMAIN q :
            /\ fails' = fails + Cardinality(gone)
            /\ lost' = lost \cup {q[i] : i \in gone}
            /\ settlements' = Extended(settlements, q, z, gone)
      BY <1>1, <1>5
    <2>2. Cardinality(gone) \in Nat
      BY SelectionElements
    <2>3. fails' \in Nat /\ fails' >= fails
      BY <1>1, <2>1, <2>2
    <2>4. lost \subseteq lost' /\ lost' \subseteq Record \cup Settlement
      BY <1>1, <1>2, <2>1
    <2>5. /\ settlements' \in [SettlementShard -> Seq(Settlement)]
          /\ Published(settlements)'
               = Published(settlements) \cup Accepted(q, gone)
          /\ \A x \in SettlementShard : Continues(settlements[x], settlements'[x])
      BY <1>4, <2>1
    <2>6. /\ Elements(q) \subseteq Published(settlements)' \cup lost'
          /\ Published(settlements)' \subseteq Published(settlements) \cup Elements(q)
      BY <2>1, <2>5 DEF Elements, Accepted
    <2>. QED BY <1>5, <2>3, <2>4, <2>5, <2>6
  <1>6. CASE /\ Fail
             /\ \/ UNCHANGED settlements
                \/ \E z \in [DOMAIN q -> DOMAIN settlements] :
                      settlements' = Extended(settlements, q, z, {})
             /\ Halt(w) /\ UNCHANGED <<job, lost>>
    <2>1. fails' \in Nat /\ fails' >= fails
      BY <1>1, <1>6 DEF Fail
    <2>2. /\ settlements' \in [SettlementShard -> Seq(Settlement)]
          /\ \A x \in SettlementShard : Continues(settlements[x], settlements'[x])
          /\ Published(settlements) \subseteq Published(settlements)'
          /\ Published(settlements)' \subseteq Published(settlements) \cup Elements(q)
      <3>1. CASE UNCHANGED settlements
        BY <1>1, <3>1, SameContinues DEF Published
      <3>2. CASE \E z \in [DOMAIN q -> DOMAIN settlements] :
                      settlements' = Extended(settlements, q, z, {})
        <4>1. PICK z \in [DOMAIN q -> SettlementShard] :
                settlements' = Extended(settlements, q, z, {})
          BY <1>1, <3>2
        <4>2. {} \in SUBSET DOMAIN q
          OBVIOUS
        <4>3. Accepted(q, {}) \subseteq Elements(q)
          BY DEF Elements, Accepted
        <4>. QED BY <1>4, <4>1, <4>2, <4>3
      <3>. QED BY <1>6, <3>1, <3>2
    <2>. QED BY <1>1, <1>6, <2>1, <2>2
  <1>. QED BY <1>3, <1>5, <1>6 DEF Push

LEMMA ResponsesPushed ==
  ASSUME EgressAssumption, TypeOK, NEW w \in Worker, NEW s \in Shard,
         NEW q \in Seq(Record), NEW next, Push(w, s, responses, q, next)
  PROVE  /\ responses' \in [ResponseShard -> Seq(Record)]
         /\ fails' \in Nat /\ fails' >= fails
         /\ \A x \in ResponseShard : Continues(responses[x], responses'[x])
         /\ lost \subseteq lost' /\ lost' \subseteq Record \cup Settlement
         /\ Published(responses) \subseteq Published(responses)'
         /\ Published(responses)' \subseteq Published(responses) \cup Elements(q)
         /\ \/ Halt(w) /\ job' = job
            \/ /\ Goto(w, s, next) /\ StayAtRecord
               /\ Elements(q) \subseteq Published(responses)' \cup lost'
  <1>1. /\ responses \in [ResponseShard -> Seq(Record)] /\ fails \in Nat
        /\ lost \subseteq Record \cup Settlement /\ DOMAIN responses = ResponseShard
    BY DEF TypeOK
  <1>2. \A i \in DOMAIN q : q[i] \in Record
    OBVIOUS
  <1>3. CASE Halt(w) /\ UNCHANGED <<responses, job, lost, fails>>
    BY <1>1, <1>3, SameContinues DEF Published
  <1>4. ASSUME NEW z \in [DOMAIN q -> ResponseShard], NEW gone \in SUBSET DOMAIN q,
               responses' = Extended(responses, q, z, gone)
        PROVE  /\ responses' \in [ResponseShard -> Seq(Record)]
               /\ Published(responses)'
                    = Published(responses) \cup Accepted(q, gone)
               /\ \A x \in ResponseShard : Continues(responses[x], responses'[x])
    <2>1. /\ Extended(responses, q, z, gone) \in [ResponseShard -> Seq(Record)]
          /\ Published(Extended(responses, q, z, gone))
               = Published(responses) \cup Accepted(q, gone)
          /\ \A x \in ResponseShard : Continues(responses[x], Extended(responses, q, z, gone)[x])
      <3>1. responses \in [ResponseShard -> Seq(Record)]
        BY <1>1
      <3> QED
        BY <3>1, ExtendedElements, Zenon
    <2>. QED BY <1>4, <2>1 DEF Published
  <1>5. CASE /\ \E z \in [DOMAIN q -> DOMAIN responses], gone \in SUBSET DOMAIN q :
                  /\ fails' = fails + Cardinality(gone) /\ fails' <= MaxFail
                  /\ lost' = lost \cup {q[i] : i \in gone}
                  /\ responses' = Extended(responses, q, z, gone)
             /\ Goto(w, s, next) /\ StayAtRecord
    <2>1. PICK z \in [DOMAIN q -> ResponseShard], gone \in SUBSET DOMAIN q :
            /\ fails' = fails + Cardinality(gone)
            /\ lost' = lost \cup {q[i] : i \in gone}
            /\ responses' = Extended(responses, q, z, gone)
      BY <1>1, <1>5
    <2>2. Cardinality(gone) \in Nat
      BY SelectionElements
    <2>3. fails' \in Nat /\ fails' >= fails
      BY <1>1, <2>1, <2>2
    <2>4. lost \subseteq lost' /\ lost' \subseteq Record \cup Settlement
      BY <1>1, <1>2, <2>1
    <2>5. /\ responses' \in [ResponseShard -> Seq(Record)]
          /\ Published(responses)'
               = Published(responses) \cup Accepted(q, gone)
          /\ \A x \in ResponseShard : Continues(responses[x], responses'[x])
      BY <1>4, <2>1
    <2>6. /\ Elements(q) \subseteq Published(responses)' \cup lost'
          /\ Published(responses)' \subseteq Published(responses) \cup Elements(q)
      BY <2>1, <2>5 DEF Elements, Accepted
    <2>. QED BY <1>5, <2>3, <2>4, <2>5, <2>6
  <1>6. CASE /\ Fail
             /\ \/ UNCHANGED responses
                \/ \E z \in [DOMAIN q -> DOMAIN responses] :
                      responses' = Extended(responses, q, z, {})
             /\ Halt(w) /\ UNCHANGED <<job, lost>>
    <2>1. fails' \in Nat /\ fails' >= fails
      BY <1>1, <1>6 DEF Fail
    <2>2. /\ responses' \in [ResponseShard -> Seq(Record)]
          /\ \A x \in ResponseShard : Continues(responses[x], responses'[x])
          /\ Published(responses) \subseteq Published(responses)'
          /\ Published(responses)' \subseteq Published(responses) \cup Elements(q)
      <3>1. CASE UNCHANGED responses
        BY <1>1, <3>1, SameContinues DEF Published
      <3>2. CASE \E z \in [DOMAIN q -> DOMAIN responses] :
                      responses' = Extended(responses, q, z, {})
        <4>1. PICK z \in [DOMAIN q -> ResponseShard] :
                responses' = Extended(responses, q, z, {})
          BY <1>1, <3>2
        <4>2. {} \in SUBSET DOMAIN q
          OBVIOUS
        <4>3. Accepted(q, {}) \subseteq Elements(q)
          BY DEF Elements, Accepted
        <4>. QED BY <1>4, <4>1, <4>2, <4>3
      <3>. QED BY <1>6, <3>1, <3>2
    <2>. QED BY <1>1, <1>6, <2>1, <2>2
  <1>. QED BY <1>3, <1>5, <1>6 DEF Push

(* The settlements of the batch are there before the thread goes on. *)
LEMMA PushSettlementsKeeps ==
  ASSUME EgressAssumption, EInv, NEW w \in Worker, NEW s \in Shard, PushSettlements(w, s)
  PROVE  EInv'
  <1>. DEFINE q == ToSettle(w, s)
              next == [job[w][s] EXCEPT !.settled = TRUE]
  <1>1. /\ Finished(w, s) /\ Push(w, s, settlements, q, next) /\ UNCHANGED <<items, responses>>
    BY DEF PushSettlements
  <1>2. TypeOK /\ ThreadOK(w, s)
    BY DEF EInv
  <1>3. /\ q \in Seq(Settlement)
        /\ \A r \in Elements(job[w][s].trades) : r.status = "MATCHED" =>
              SettlementsOf(r) \subseteq Elements(q)
    <2>1. job[w][s].trades \in Seq(Record)
      BY <1>2, JobType
    <2>. QED BY <2>1, SettlementListElements DEF ToSettle
  <1>4. /\ next \in Job /\ next.settled
        /\ next.trades = job[w][s].trades /\ next.nacks = job[w][s].nacks
    <2>1. job[w][s] \in Job
      BY <1>2, JobType
    <2>. QED BY <2>1 DEF Job
  <1>. HIDE DEF q, next
  <1>5. /\ settlements' \in [SettlementShard -> Seq(Settlement)] /\ fails' \in Nat
        /\ lost \subseteq lost' /\ lost' \subseteq Record \cup Settlement
        /\ Published(settlements) \subseteq Published(settlements)'
        /\ \/ Halt(w) /\ job' = job
           \/ /\ Goto(w, s, next) /\ StayAtRecord
              /\ Elements(q) \subseteq Published(settlements)' \cup lost'
    BY <1>1, <1>2, <1>3, SettlementsPushed
  <1>6. Published(responses)' = Published(responses)
    BY <1>1 DEF Published
  <1>7. Grows
    BY <1>5, <1>6 DEF Grows
  <1>8. MatchedIsSettled' /\ CheckpointOK' /\ log' = log /\ ckpt' = ckpt /\ batch' = batch
    <2>1. log' = log /\ ckpt' = ckpt /\ batch' = batch
      BY <1>5 DEF Halt, StayAtRecord, shardVars
    <2>. QED BY <1>1, <1>7, <2>1, MatchedStays, CheckpointStays
  <1>9. CASE Halt(w) /\ job' = job
    <2>1. TypeOK'
      BY <1>1, <1>2, <1>5, <1>9, ShardStepType DEF TypeOK
    <2>. QED BY <1>7, <1>8, <1>9, <2>1, NoThread
  <1>10. CASE /\ Goto(w, s, next) /\ StayAtRecord
              /\ Elements(q) \subseteq Published(settlements)' \cup lost'
    <2>1. /\ job' \in [Worker -> [Shard -> Job]] /\ job'[w][s] = next
          /\ \A x \in Worker, z \in Shard : ~(x = w /\ z = s) => job'[x][z] = job[x][z]
      BY <1>2, <1>4, <1>10, GotoJob
    <2>2. TypeOK'
      BY <1>1, <1>2, <1>5, <1>10, <2>1, ShardStepType DEF TypeOK
    <2>3. \A r \in Elements(job[w][s].trades) : Settles(r)'
      BY <1>3, <1>10 DEF Settles, SettlementsOf
    <2>4. \A i \in 1..Len(log[s]) : i < batch[w][s].pos =>
            \/ log[s][i] \in Elements(job[w][s].trades) \cup Elements(job[w][s].nacks)
            \/ Sent(log[s][i])'
      BY <1>2, <1>7, <1>8, GrowsKeeps DEF ThreadOK
    <2>5. ~Idle(w, s) /\ batch[w][s].pos > batch[w][s].end
      <3>1. batch[w][s].pos \in Nat /\ batch[w][s].end \in Nat
        BY <1>2, ThreadTypes
      <3>. QED BY <1>1, <3>1 DEF Finished, Idle
    <2>6. /\ job'[w][s].trades = job[w][s].trades /\ job'[w][s].nacks = job[w][s].nacks
          /\ batch'[w][s] = batch[w][s]
      BY <1>4, <1>8, <2>1
    <2>7. ThreadOK(w, s)'
      BY <1>2, <1>8, <2>3, <2>4, <2>5, <2>6 DEF ThreadOK, Idle
    <2>. QED BY <1>7, <1>8, <2>1, <2>2, <2>7, OneThread
  <1>. QED BY <1>5, <1>9, <1>10

(* Answers whose settlements are there may be pushed; those that the thread *)
(* forgets are then sent.                                                   *)
LEMMA PushAnswersKeeps ==
  ASSUME EgressAssumption, EInv, NEW w \in Worker, NEW s \in Shard, Finished(w, s),
         NEW q \in Seq(Record), \A r \in Elements(q) : Settles(r),
         NEW next \in Job, ~next.settled, next.nacks = <<>> \/ next.nacks = job[w][s].nacks,
         Elements(job[w][s].trades) \cup Elements(job[w][s].nacks)
           \subseteq Elements(q) \cup Elements(next.nacks),
         Push(w, s, responses, q, next), UNCHANGED <<items, settlements>>
  PROVE  EInv'
  <1>1. TypeOK /\ ThreadOK(w, s)
    BY DEF EInv
  <1>2. /\ responses' \in [ResponseShard -> Seq(Record)] /\ fails' \in Nat
        /\ lost \subseteq lost' /\ lost' \subseteq Record \cup Settlement
        /\ Published(responses) \subseteq Published(responses)'
        /\ Published(responses)' \subseteq Published(responses) \cup Elements(q)
        /\ \/ Halt(w) /\ job' = job
           \/ /\ Goto(w, s, next) /\ StayAtRecord
              /\ Elements(q) \subseteq Published(responses)' \cup lost'
    BY <1>1, ResponsesPushed
  <1>3. Published(settlements)' = Published(settlements)
    BY DEF Published
  <1>4. Grows
    BY <1>2, <1>3 DEF Grows
  <1>5. MatchedIsSettled'
    <2>1. \A r \in Published(responses) : Settles(r)
      BY DEF EInv, MatchedIsSettled, Settles
    <2>2. \A r \in Published(responses)' : Settles(r)'
      BY <1>2, <1>4, <2>1, GrowsKeeps
    <2>. QED BY <2>2 DEF MatchedIsSettled, Settles
  <1>6. CheckpointOK' /\ log' = log /\ ckpt' = ckpt /\ batch' = batch
    <2>1. log' = log /\ ckpt' = ckpt /\ batch' = batch
      BY <1>2 DEF Halt, StayAtRecord, shardVars
    <2>. QED BY <1>4, <2>1, CheckpointStays
  <1>7. CASE Halt(w) /\ job' = job
    <2>1. TypeOK'
      BY <1>1, <1>2, <1>7, ShardStepType DEF TypeOK
    <2>. QED BY <1>4, <1>5, <1>6, <1>7, <2>1, NoThread
  <1>8. CASE /\ Goto(w, s, next) /\ StayAtRecord
             /\ Elements(q) \subseteq Published(responses)' \cup lost'
    <2>1. /\ job' \in [Worker -> [Shard -> Job]] /\ job'[w][s] = next
          /\ \A x \in Worker, z \in Shard : ~(x = w /\ z = s) => job'[x][z] = job[x][z]
      BY <1>1, <1>8, GotoJob
    <2>2. TypeOK'
      BY <1>1, <1>2, <1>8, <2>1, ShardStepType DEF TypeOK
    <2>3. \A r \in Elements(q) : Sent(r)'
      BY <1>4, <1>8, GrowsKeeps DEF Sent
    <2>4. \A i \in 1..Len(log[s]) : i < batch[w][s].pos =>
            log[s][i] \in Elements(next.nacks) \/ Sent(log[s][i])'
      <3>1. \A i \in 1..Len(log[s]) : i < batch[w][s].pos =>
              \/ log[s][i] \in Elements(job[w][s].trades) \cup Elements(job[w][s].nacks)
              \/ Sent(log[s][i])'
        BY <1>1, <1>4, <1>6, GrowsKeeps DEF ThreadOK
      <3>. QED BY <1>6, <2>3, <3>1
    <2>5. ~Idle(w, s)
      <3>1. batch[w][s].pos \in Nat /\ batch[w][s].end \in Nat
        BY <1>1, ThreadTypes
      <3>. QED BY <3>1 DEF Finished, Idle
    <2>6. \A r \in Elements(next.nacks) : r.status = "NACK"
      BY <1>1, EmptyElements DEF ThreadOK
    <2>7. ThreadOK(w, s)'
      BY <1>1, <1>6, <2>1, <2>4, <2>5, <2>6 DEF ThreadOK, Idle
    <2>. QED BY <1>4, <1>5, <1>6, <2>1, <2>2, <2>7, OneThread
  <1>. QED BY <1>2, <1>7, <1>8

LEMMA PushResponsesKeeps ==
  ASSUME EgressAssumption, EInv, NEW w \in Worker, NEW s \in Shard, PushResponses(w, s)
  PROVE  EInv'
  <1>. DEFINE q == job[w][s].trades
              next == [NewJob EXCEPT !.nacks = job[w][s].nacks]
  <1>1. /\ Finished(w, s) /\ Push(w, s, responses, q, next) /\ UNCHANGED <<items, settlements>>
        /\ ToSettle(w, s) # <<>> => job[w][s].settled
    BY DEF PushResponses
  <1>2. TypeOK /\ ThreadOK(w, s)
    BY DEF EInv
  <1>3. q \in Seq(Record) /\ job[w][s].nacks \in Seq(Record)
    BY <1>2, JobType
  <1>4. next \in Job /\ ~next.settled /\ next.nacks = job[w][s].nacks
    BY <1>3, NewJobType DEF NewJob, Job
  <1>5. \A r \in Elements(q) : Settles(r)
    <2>1. CASE job[w][s].settled
      BY <1>2, <2>1 DEF ThreadOK
    <2>2. CASE ToSettle(w, s) = <<>>
      BY <1>3, <2>2, SettlementListElements DEF ToSettle, Settles
    <2>. QED BY <1>1, <2>1, <2>2
  <1>. HIDE DEF next
  <1>. QED BY <1>1, <1>3, <1>4, <1>5, PushAnswersKeeps

LEMMA PushNacksKeeps ==
  ASSUME EgressAssumption, EInv, NEW w \in Worker, NEW s \in Shard, PushNacks(w, s)
  PROVE  EInv'
  <1>1. /\ Finished(w, s) /\ job[w][s].trades = <<>>
        /\ Push(w, s, responses, job[w][s].nacks, NewJob) /\ UNCHANGED <<items, settlements>>
    BY DEF PushNacks
  <1>2. TypeOK /\ ThreadOK(w, s)
    BY DEF EInv
  <1>3. job[w][s].nacks \in Seq(Record)
    BY <1>2, JobType
  <1>4. NewJob \in Job /\ ~NewJob.settled /\ NewJob.nacks = <<>>
    BY NewJobType DEF NewJob
  <1>5. \A r \in Elements(job[w][s].nacks) : Settles(r)
    BY <1>2 DEF ThreadOK, Settles
  <1>. QED BY <1>1, <1>3, <1>4, <1>5, EmptyElements, PushAnswersKeeps

LEMMA CheckpointKeeps ==
  ASSUME EInv, NEW w \in Worker, NEW s \in Shard, Checkpoint(w, s)
  PROVE  EInv'
  <1>1. /\ job[w][s] = NewJob /\ CheckpointBatch(w, s)
        /\ UNCHANGED <<items, job, responses, settlements, lost, fails>>
    BY DEF Checkpoint, Rest, streams
  <1>2. TypeOK /\ ThreadOK(w, s)
    BY DEF EInv
  <1>3. TypeOK'
    BY <1>1, <1>2, ShardStepType DEF TypeOK
  <1>4. Grows /\ MatchedIsSettled'
    BY <1>1, SameGrows, MatchedStays
  <1>5. CASE owner[s] # w
    <2>1. UNCHANGED <<log, ckpt, batch>>
      BY <1>1, <1>5 DEF CheckpointBatch, Halt, shardVars
    <2>. QED BY <1>1, <1>3, <1>4, <2>1, NoThread
  <1>6. CASE owner[s] = w
    <2>1. /\ ckpt' = [ckpt EXCEPT ![s] = batch[w][s].end] /\ log' = log
          /\ batch' = [batch EXCEPT ![w][s] = NoBatch]
          /\ batch[w][s].pos > batch[w][s].end
      BY <1>1, <1>6 DEF CheckpointBatch, Finished
    <2>2. /\ ckpt \in [Shard -> Nat] /\ batch \in [Worker -> [Shard -> [pos : Nat, end : Nat]]]
          /\ batch[w][s].pos \in Nat /\ batch[w][s].end \in Nat /\ Len(log[s]) \in Nat
      BY <1>2, ThreadTypes DEF TypeOK, ShardTypeOK
    <2>3. /\ ckpt'[s] = batch[w][s].end /\ batch'[w][s] = NoBatch
          /\ \A z \in Shard : z # s => ckpt'[z] = ckpt[z]
          /\ \A x \in Worker, z \in Shard : ~(x = w /\ z = s) => batch'[x][z] = batch[x][z]
      BY <2>1, <2>2
    <2>4. ThreadOK(w, s)'
      BY <1>1, <2>1, <2>2, <2>3, FreshThread
    <2>5. CheckpointOK'
      <3>1. ASSUME NEW i \in 1..batch[w][s].end PROVE Sent(log[s][i])
        <4>1. /\ i \in 1..Len(log[s]) /\ i < batch[w][s].pos
              /\ job[w][s].trades = <<>> /\ job[w][s].nacks = <<>>
          BY <1>1, <1>2, <2>1, <2>2 DEF ThreadOK, NewJob
        <4>. QED BY <1>2, <4>1, EmptyElements DEF ThreadOK
      <3>2. \A z \in Shard : \A i \in 1..ckpt[z] : Sent(log[z][i])
        BY DEF EInv, CheckpointOK, CheckpointedIsSent, Sent, Settles
      <3>3. \A z \in Shard : \A i \in 1..ckpt'[z] : Sent(log[z][i])
        BY <2>3, <3>1, <3>2
      <3>4. \A z \in Shard : \A i \in 1..ckpt'[z] : Sent(log[z][i])'
        BY <1>4, <2>1, <3>3, GrowsKeeps
      <3>5. CheckpointedIsSent'
        BY <3>4 DEF CheckpointedIsSent, Sent, Settles
      <3>6. \A z \in Shard : ckpt'[z] <= Len(log'[z])
        BY <1>2, <2>1, <2>3 DEF ThreadOK, EInv, CheckpointOK
      <3>. QED BY <3>5, <3>6 DEF CheckpointOK
    <2>. QED BY <1>1, <1>3, <1>4, <2>1, <2>3, <2>4, <2>5, OneThread
  <1>. QED BY <1>5, <1>6

LEMMA FetchKeeps ==
  ASSUME EInv, NEW w \in Worker, NEW s \in Shard, Fetch(w, s)
  PROVE  EInv'
  <1>1. /\ FetchBatch(w, s) /\ Idle(w, s)
        /\ UNCHANGED <<items, job, responses, settlements, lost, fails, log, ckpt>>
    BY DEF Fetch, FetchBatch, Rest, streams
  <1>2. TypeOK /\ ThreadOK(w, s)
    BY DEF EInv
  <1>3. TypeOK'
    BY <1>1, <1>2, ShardStepType DEF TypeOK
  <1>4. Grows /\ MatchedIsSettled' /\ CheckpointOK'
    BY <1>1, SameGrows, MatchedStays, CheckpointStays
  <1>5. PICK e \in (ckpt[s] + 1)..Len(log[s]) :
          batch' = [batch EXCEPT ![w][s] = [pos |-> ckpt[s] + 1, end |-> e]]
    BY <1>1 DEF FetchBatch
  <1>6. /\ batch \in [Worker -> [Shard -> [pos : Nat, end : Nat]]]
        /\ ckpt[s] \in Nat /\ Len(log[s]) \in Nat
    BY <1>2, ThreadTypes DEF TypeOK, ShardTypeOK
  <1>7. /\ batch'[w][s].pos = ckpt[s] + 1 /\ batch'[w][s].end = e
        /\ \A x \in Worker, z \in Shard : ~(x = w /\ z = s) => batch'[x][z] = batch[x][z]
    BY <1>5, <1>6
  <1>8. ThreadOK(w, s)'
    <2>1. job'[w][s] = NewJob /\ ~NewJob.settled /\ NewJob.nacks = <<>>
      BY <1>1, <1>2 DEF ThreadOK, NewJob
    <2>2. e <= Len(log[s]) /\ ckpt[s] + 1 <= e + 1
      BY <1>5, <1>6
    <2>3. \A i \in 1..Len(log[s]) : i < ckpt[s] + 1 => Sent(log[s][i])
      <3>1. \A i \in 1..ckpt[s] : Sent(log[s][i])
        BY DEF EInv, CheckpointOK, CheckpointedIsSent, Sent, Settles
      <3>. QED BY <1>6, <3>1
    <2>4. \A i \in 1..Len(log[s]) : i < ckpt[s] + 1 => Sent(log[s][i])'
      BY <1>1, <1>4, <2>3, GrowsKeeps
    <2>. QED BY <1>1, <1>7, <2>1, <2>2, <2>4, EmptyElements DEF ThreadOK
  <1>. QED BY <1>1, <1>3, <1>4, <1>7, <1>8, OneThread

LEMMA LeaseKeeps ==
  ASSUME EInv, NEW w \in Worker, NEW s \in Shard, Take(w, s) \/ Steal(w, s)
  PROVE  EInv'
  <1>1. /\ TakeLease(w, s) \/ StealLease(w, s)
        /\ UNCHANGED <<items, job, responses, settlements, lost, fails>>
    BY DEF Take, Steal, Rest, streams
  <1>2. UNCHANGED <<log, ckpt, batch>>
    BY <1>1 DEF TakeLease, StealLease
  <1>3. TypeOK'
    BY <1>1, ShardStepType DEF EInv, TypeOK
  <1>. QED BY <1>1, <1>2, <1>3, SameGrows, MatchedStays, NoThread

LEMMA CrashKeeps ==
  ASSUME EInv, NEW w \in Worker, Crash(w)
  PROVE  EInv'
  <1>1. /\ CrashWorker(w) /\ UNCHANGED <<items, job, responses, settlements, lost, fails>>
    BY DEF Crash, Rest, streams
  <1>2. UNCHANGED <<log, ckpt, batch, owner, steals>>
    BY <1>1 DEF CrashWorker, shardVars
  <1>3. TypeOK'
    BY <1>1, <1>2 DEF EInv, TypeOK, ShardTypeOK, CrashWorker
  <1>. QED BY <1>1, <1>2, <1>3, SameGrows, MatchedStays, NoThread

LEMMA StutterKeeps ==
  ASSUME EInv, UNCHANGED vars
  PROVE  EInv'
  <1>1. /\ UNCHANGED <<items, job, responses, settlements, lost, fails>>
        /\ UNCHANGED <<log, ckpt, owner, batch, steals, up, crashes>>
    BY DEF vars, shardVars, workerVars, streams
  <1>2. TypeOK'
    BY <1>1 DEF EInv, TypeOK, ShardTypeOK
  <1>. QED BY <1>1, <1>2, SameGrows, MatchedStays, NoThread

LEMMA RestartKeeps ==
  ASSUME EInv, NEW w \in Worker, Restart(w)
  PROVE  EInv'
  <1>1. /\ RestartWorker(w) /\ job' = [job EXCEPT ![w] = [s \in Shard |-> NewJob]]
        /\ UNCHANGED <<items, responses, settlements, lost, fails>>
    BY DEF Restart, streams
  <1>2. TypeOK
    BY DEF EInv
  <1>3. /\ batch' = [batch EXCEPT ![w] = [s \in Shard |-> NoBatch]] /\ UNCHANGED <<log, ckpt>>
    BY <1>1 DEF RestartWorker
  <1>4. /\ batch \in [Worker -> [Shard -> [pos : Nat, end : Nat]]]
        /\ job \in [Worker -> [Shard -> Job]]
    BY <1>2 DEF TypeOK, ShardTypeOK
  <1>5. TypeOK'
    <2>1. ShardTypeOK(Record)'
      BY <1>1, <1>2 DEF TypeOK, ShardTypeOK, RestartWorker, NoBatch
    <2>2. job' \in [Worker -> [Shard -> Job]]
      BY <1>1, <1>4, NewJobType
    <2>. QED BY <1>1, <1>2, <2>1, <2>2 DEF TypeOK
  <1>6. Grows /\ MatchedIsSettled' /\ CheckpointOK'
    BY <1>1, <1>3, SameGrows, MatchedStays, CheckpointStays
  <1>7. ASSUME NEW x \in Worker, NEW s \in Shard PROVE ThreadOK(x, s)'
    <2>1. CASE x = w
      <3>1. batch'[w][s] = NoBatch /\ job'[w][s] = NewJob /\ Len(log'[s]) \in Nat
        BY <1>1, <1>2, <1>3, <1>4, ThreadTypes
      <3>. QED BY <2>1, <3>1, FreshThread
    <2>2. CASE x # w
      <3>1. batch'[x][s] = batch[x][s] /\ job'[x][s] = job[x][s]
        BY <1>1, <1>3, <1>4, <2>2
      <3>. QED BY <1>3, <1>6, <3>1, OtherThread DEF EInv
    <2>. QED BY <2>1, <2>2
  <1>. QED BY <1>5, <1>6, <1>7 DEF EInv

LEMMA BatchKeeps ==
  ASSUME EgressAssumption, EInv, NEW w \in Worker, NEW s \in Shard, ProcessBatch(w, s)
  PROVE  EInv'
  <1>1. CASE StoreTrade(w, s)
    BY <1>1, StoreTradeKeeps
  <1>2. CASE CollectNack(w, s)
    BY <1>2, CollectNackKeeps
  <1>3. CASE StoreSettlement(w, s)
    <2>1. job[w][s].trades \in Seq(Record)
      BY JobType DEF EInv
    <2>2. ToSettle(w, s) \in Seq(Settlement)
      BY <2>1, SettlementListElements DEF ToSettle
    <2>3. Finished(w, s) /\ StoreNext(w, s, ToSettle(w, s))
      BY <1>3 DEF StoreSettlement
    <2>4. Settlement \in SUBSET (Record \cup Settlement)
      OBVIOUS
    <2>. QED BY <2>2, <2>3, <2>4, StoreNextKeeps
  <1>4. CASE PushSettlements(w, s)
    BY <1>4, PushSettlementsKeeps
  <1>5. CASE PushResponses(w, s)
    BY <1>5, PushResponsesKeeps
  <1>6. CASE StoreNack(w, s)
    <2>1. job[w][s].nacks \in Seq(Record)
      BY JobType DEF EInv
    <2>2. Finished(w, s) /\ StoreNext(w, s, job[w][s].nacks)
      BY <1>6 DEF StoreNack
    <2>3. Record \in SUBSET (Record \cup Settlement)
      OBVIOUS
    <2>. QED BY <2>1, <2>2, <2>3, StoreNextKeeps
  <1>7. CASE PushNacks(w, s)
    BY <1>7, PushNacksKeeps
  <1>. QED BY <1>1, <1>2, <1>3, <1>4, <1>5, <1>6, <1>7 DEF ProcessBatch

LEMMA EgressNext ==
  ASSUME EgressAssumption, EInv, [Next]_vars
  PROVE  EInv'
  <1>1. ASSUME NEW r \in Record, NEW s \in Shard, ReceiveRecord(r, s)
        PROVE  EInv'
    BY <1>1, ReceiveKeeps
  <1>2. ASSUME NEW w \in Worker, NEW s \in Shard, WorkerStep(w, s)
        PROVE  EInv'
    <2>1. CASE Take(w, s) \/ Steal(w, s)
      BY <2>1, LeaseKeeps
    <2>2. CASE Fetch(w, s)
      BY <2>2, FetchKeeps
    <2>3. CASE ProcessBatch(w, s)
      BY <2>3, BatchKeeps
    <2>4. CASE Checkpoint(w, s)
      BY <2>4, CheckpointKeeps
    <2>. QED BY <1>2, <2>1, <2>2, <2>3, <2>4 DEF WorkerStep, ThreadStep
  <1>3. ASSUME NEW w \in Worker, Crash(w)
        PROVE  EInv'
    BY <1>3, CrashKeeps
  <1>4. ASSUME NEW w \in Worker, Restart(w)
        PROVE  EInv'
    BY <1>4, RestartKeeps
  <1>5. CASE UNCHANGED vars
    BY <1>5, StutterKeeps
  <1>. QED BY <1>1, <1>2, <1>3, <1>4, <1>5 DEF Next

----------------------------------------------------------------------------
LEMMA EgressInvariant ==
  ASSUME EgressAssumption
  PROVE  Spec => []EInv
  <1>1. Init => EInv
    BY EgressInit
  <1>2. EInv /\ [Next]_vars => EInv'
    BY EgressNext
  <1>. QED BY <1>1, <1>2, PTL DEF Spec

(* TypeOK: the variables have their types, and what a thread collects and   *)
(* pushes is made of the records of its stream, for any records and shards. *)
THEOREM EgressTypeCorrect ==
  ASSUME EgressAssumption
  PROVE  Spec => []TypeOK
  <1>1. EInv => TypeOK
    BY DEF EInv
  <1>. QED BY <1>1, EgressInvariant, PTL

(* CheckpointedIsSent: however often a batch is halted, delivered again or  *)
(* run by a worker that lost its lease, egress takes a record off its       *)
(* stream only after its answer, and the settlements of a matched trade,    *)
(* are on theirs; only what putRecords refused is missing.                  *)
THEOREM EgressCheckpointSafe ==
  ASSUME EgressAssumption
  PROVE  Spec => []CheckpointedIsSent
  <1>1. EInv => CheckpointedIsSent
    BY DEF EInv, CheckpointOK
  <1>. QED BY <1>1, EgressInvariant, PTL

(* MatchedIsSettled: the two pushes of a batch are in an order that no halt *)
(* between them leaves a trade answered as matched and not sent to be       *)
(* settled.                                                                 *)
THEOREM EgressMatchedIsSettled ==
  ASSUME EgressAssumption
  PROVE  Spec => []MatchedIsSettled
  <1>1. EInv => MatchedIsSettled
    BY DEF EInv
  <1>. QED BY <1>1, EgressInvariant, PTL

----------------------------------------------------------------------------
(* What a thread passes on has its item: the actions of egress. *)

(* A write overwrites an item with one of the same trade, and settlements  *)
(* are never overwritten.                                                  *)
ItemsKept ==
  /\ \A x : HasItem(x) => HasItem(x)'
  /\ items \cap Settlement \subseteq items'

LEMMA RecordIsNoSettlement == Record \cap Settlement = {}
  <1>1. \A x \in Record : DOMAIN x = {"id", "status"}
    BY DEF Record
  <1>2. \A x \in Settlement : DOMAIN x = {"trade", "alloc"}
    BY DEF Settlement
  <1>3. {"id", "status"} # {"trade", "alloc"}
    OBVIOUS
  <1>. QED BY <1>1, <1>2, <1>3

LEMMA KeepKeeps ==
  ASSUME NEW r \in Record \cup Settlement, Keep(r)
  PROVE  /\ ItemsKept
         /\ r \in items'
         /\ r \in Record => HasItem(r)'
  <1>1. items' = {x \in items : r \in Record /\ x \in Record => x.id # r.id} \cup {r}
    BY DEF Keep
  <1>2. ASSUME NEW x, HasItem(x) PROVE HasItem(x)'
    <2>1. PICK y \in items \cap Record : y.id = x.id
      BY <1>2 DEF HasItem
    <2>2. y \in items' \/ (r \in Record /\ r.id = y.id)
      BY <1>1, <2>1
    <2>3. r \in items'
      BY <1>1
    <2>. QED BY <2>1, <2>2, <2>3 DEF HasItem
  <1>3. items \cap Settlement \subseteq items'
    BY <1>1, RecordIsNoSettlement
  <1>. QED BY <1>1, <1>2, <1>3 DEF ItemsKept, HasItem

LEMMA StoreKeeps ==
  ASSUME TypeOK, NEW r \in Record \cup Settlement, Store(r)
  PROVE  /\ fails' \in Nat /\ fails' >= fails
         /\ fails' = 0 => Keep(r)
  BY DEF TypeOK, Store, Fail

LEMMA SameItems ==
  ASSUME items' = items
  PROVE  ItemsKept
  BY DEF ItemsKept, HasItem

LEMMA NothingToSettle ==
  ASSUME EgressAssumption
  PROVE  SettlementList(<<>>) = <<>>
  <1>. DEFINE matched == Selection(<<>>, {i \in DOMAIN <<>> : <<>>[i].status = "MATCHED"})
  <1>1. {i \in DOMAIN <<>> : <<>>[i].status = "MATCHED"} = {}
    OBVIOUS
  <1>2. matched = <<>>
    BY <1>1, FS_EmptySet DEF Selection
  <1>3. Len(matched) * Allocs = 0
    BY <1>2 DEF EgressAssumption
  <1>. HIDE DEF matched
  <1>. QED BY <1>3 DEF SettlementList, matched

LEMMA ThreadWritesStay ==
  ASSUME NEW w \in Worker, NEW s \in Shard, ThreadWrites(w, s), ItemsKept, TypeOK, EgressAssumption,
         job'[w][s] = job[w][s], batch'[w][s] = batch[w][s]
  PROVE  ThreadWrites(w, s)'
  <1>1. job[w][s].trades \in Seq(Record)
    BY JobType
  <1>2. /\ ToSettle(w, s) \in Seq(Settlement)
        /\ ToSettle(w, s)' = ToSettle(w, s)
    BY <1>1, SettlementListElements DEF ToSettle
  <1>3. \A i \in 1..Len(ToSettle(w, s)) : ToSettle(w, s)[i] \in Settlement
    BY <1>2
  <1>. QED BY <1>2, <1>3 DEF ThreadWrites, ItemsKept

LEMMA PushedStays ==
  ASSUME TypeOK, PushedIsStored, ItemsKept, UNCHANGED <<responses, settlements>>
  PROVE  PushedIsStored'
  <1>1. Published(settlements) \subseteq Settlement
    BY DEF TypeOK, Published, Elements
  <1>2. Published(settlements)' = Published(settlements) /\ Published(responses)' = Published(responses)
    BY DEF Published
  <1>. QED BY <1>1, <1>2 DEF PushedIsStored, ItemsKept

(* A step of thread <<w, s>>, or of none: it is left to show what holds of  *)
(* that thread, and of the streams.                                         *)
LEMMA OneWrites ==
  ASSUME EgressAssumption, TypeOK, WritesOK, fails' \in Nat, fails' >= fails,
         fails' = 0 => ItemsKept /\ PushedIsStored',
         NEW w \in Worker, NEW s \in Shard,
         \A x \in Worker, z \in Shard : ~(x = w /\ z = s) =>
            batch'[x][z] = batch[x][z] /\ job'[x][z] = job[x][z],
         fails' = 0 => ThreadWrites(w, s)'
  PROVE  WritesOK'
  <1>. SUFFICES ASSUME fails' = 0
                PROVE  (\A x \in Worker, z \in Shard : ThreadWrites(x, z)')
    BY DEF WritesOK
  <1>1. fails = 0
    BY DEF TypeOK
  <1>2. ASSUME NEW x \in Worker, NEW z \in Shard PROVE ThreadWrites(x, z)'
    <2>1. CASE x = w /\ z = s
      BY <2>1
    <2>2. CASE ~(x = w /\ z = s)
      BY <1>1, <2>2, ThreadWritesStay DEF WritesOK
    <2>. QED BY <2>1, <2>2
  <1>. QED BY <1>2

LEMMA NoneWrites ==
  ASSUME EgressAssumption, TypeOK, WritesOK, fails' \in Nat, fails' >= fails,
         UNCHANGED <<items, responses, settlements, batch, job>>
  PROVE  WritesOK'
  <1>. SUFFICES ASSUME fails' = 0
                PROVE  PushedIsStored' /\ (\A x \in Worker, z \in Shard : ThreadWrites(x, z)')
    BY DEF WritesOK
  <1>1. fails = 0
    BY DEF TypeOK
  <1>. QED BY <1>1, SameItems, PushedStays, ThreadWritesStay DEF WritesOK

(* A thread that starts, or starts over. *)
LEMMA FreshWrites ==
  ASSUME EgressAssumption, NEW w \in Worker, NEW s \in Shard, job'[w][s] = NewJob
  PROVE  ThreadWrites(w, s)'
  <1>1. /\ job'[w][s].trades = <<>> /\ job'[w][s].nacks = <<>> /\ job'[w][s].tried = 0
    BY DEF NewJob
  <1>2. ToSettle(w, s)' = <<>>
    BY <1>1, NothingToSettle DEF ToSettle
  <1>. QED BY <1>1, <1>2, EmptyElements DEF ThreadWrites

LEMMA StoreTradeWrites ==
  ASSUME EgressAssumption, EInv, WritesOK, NEW w \in Worker, NEW s \in Shard, StoreTrade(w, s)
  PROVE  WritesOK'
  <1>. DEFINE next == [job[w][s] EXCEPT !.trades = Append(@, Current(w, s))]
  <1>1. /\ Working(w, s) /\ Store(Current(w, s)) /\ Goto(w, s, next) /\ NextRecord(w, s)
        /\ UNCHANGED <<responses, settlements, lost>>
    BY DEF StoreTrade
  <1>2. TypeOK /\ Current(w, s) \in Record
    BY <1>1, CurrentRecord DEF EInv
  <1>. PICK r \in Record : r = Current(w, s)
    BY <1>2
  <1>3. /\ job[w][s] \in Job /\ job[w][s].trades \in Seq(Record)
        /\ job[w][s].nacks \in Seq(Record)
    BY <1>2, JobType
  <1>4. /\ Append(job[w][s].trades, Current(w, s)) \in Seq(Record)
        /\ Append(job[w][s].trades, Current(w, s)) # <<>>
        /\ Elements(Append(job[w][s].trades, Current(w, s)))
             = Elements(job[w][s].trades) \cup {Current(w, s)}
    BY <1>2, <1>3, AppendElements
  <1>5. /\ next \in Job /\ next.trades = Append(job[w][s].trades, Current(w, s))
        /\ next.tried = job[w][s].tried /\ next.nacks = job[w][s].nacks
    BY <1>3, <1>4 DEF Job
  <1>. HIDE DEF next
  <1>6. /\ job'[w][s] = next
        /\ \A x \in Worker, z \in Shard : ~(x = w /\ z = s) => job'[x][z] = job[x][z]
    BY <1>1, <1>2, <1>5, GotoJob
  <1>7. \A x \in Worker, z \in Shard : ~(x = w /\ z = s) => batch'[x][z] = batch[x][z]
    BY <1>1, <1>2, BatchStep
  <1>8. fails' \in Nat /\ fails' >= fails /\ (fails' = 0 => Keep(r))
    BY <1>1, <1>2, StoreKeeps
  <1>9. ASSUME fails' = 0
        PROVE  ItemsKept /\ PushedIsStored' /\ ThreadWrites(w, s)'
    <2>1. fails = 0
      BY <1>2, <1>8, <1>9 DEF TypeOK
    <2>2. ItemsKept /\ HasItem(r)'
      BY <1>8, <1>9, KeepKeeps
    <2>3. ThreadWrites(w, s) /\ PushedIsStored /\ job[w][s].tried = 0
      BY <1>1, <2>1 DEF WritesOK, ThreadWrites, Working
    <2>4. \A x \in Elements(job'[w][s].trades) : HasItem(x)'
      BY <1>4, <1>6, <1>5, <2>2, <2>3 DEF ThreadWrites, ItemsKept
    <2>5. \A i \in 1..Len(ToSettle(w, s)') : ~(i <= 0)
      BY <1>5, <1>6, SettlementListElements DEF ToSettle
    <2>6. ThreadWrites(w, s)'
      BY <1>4, <1>5, <1>6, <2>3, <2>4, <2>5 DEF ThreadWrites
    <2>. QED BY <1>1, <1>2, <2>2, <2>3, <2>6, PushedStays
  <1>. QED BY <1>2, <1>6, <1>7, <1>8, <1>9, OneWrites

LEMMA CollectNackWrites ==
  ASSUME EgressAssumption, EInv, WritesOK, NEW w \in Worker, NEW s \in Shard, CollectNack(w, s)
  PROVE  WritesOK'
  <1>. DEFINE next == [job[w][s] EXCEPT !.nacks = Append(@, Current(w, s))]
  <1>1. /\ Working(w, s) /\ Goto(w, s, next) /\ NextRecord(w, s)
        /\ UNCHANGED <<items, responses, settlements, lost, fails>>
    BY DEF CollectNack, streams
  <1>2. TypeOK /\ Current(w, s) \in Record
    BY <1>1, CurrentRecord DEF EInv
  <1>3. /\ job[w][s] \in Job /\ job[w][s].trades \in Seq(Record)
        /\ job[w][s].nacks \in Seq(Record)
    BY <1>2, JobType
  <1>4. Append(job[w][s].nacks, Current(w, s)) \in Seq(Record)
    BY <1>2, <1>3, AppendElements
  <1>5. /\ next \in Job /\ next.trades = job[w][s].trades /\ next.settled = job[w][s].settled
        /\ next.tried = job[w][s].tried /\ next.nacks \in Seq(Record)
    BY <1>3, <1>4 DEF Job
  <1>. HIDE DEF next
  <1>6. /\ job'[w][s] = next
        /\ \A x \in Worker, z \in Shard : ~(x = w /\ z = s) => job'[x][z] = job[x][z]
    BY <1>1, <1>2, <1>5, GotoJob
  <1>7. \A x \in Worker, z \in Shard : ~(x = w /\ z = s) => batch'[x][z] = batch[x][z]
    BY <1>1, <1>2, BatchStep
  <1>8. fails' \in Nat /\ fails' >= fails
    BY <1>1, <1>2 DEF TypeOK
  <1>9. ASSUME fails' = 0
        PROVE  ItemsKept /\ PushedIsStored' /\ ThreadWrites(w, s)'
    <2>1. ItemsKept
      BY <1>1, SameItems
    <2>2. ThreadWrites(w, s) /\ PushedIsStored /\ job[w][s].tried = 0
      BY <1>1, <1>9 DEF WritesOK, ThreadWrites, Working
    <2>3. \A r \in Elements(next.trades) : HasItem(r)'
      BY <1>5, <2>1, <2>2 DEF ThreadWrites, ItemsKept
    <2>4. /\ \A i \in 1..Len(ToSettle(w, s)') : ~(i <= 0)
          /\ \A i \in 1..Len(next.nacks) : ~(i <= 0)
      BY <1>3, <1>5, <1>6, SettlementListElements DEF ToSettle
    <2>5. ThreadWrites(w, s)'
      BY <1>5, <1>6, <2>2, <2>3, <2>4 DEF ThreadWrites
    <2>. QED BY <1>1, <1>2, <2>1, <2>2, <2>5, PushedStays
  <1>. QED BY <1>2, <1>6, <1>7, <1>8, <1>9, OneWrites

(* One more of the settlements, or of the NACKs, has been written. *)
LEMMA StoreNextMoves ==
  ASSUME EInv, NEW w \in Worker, NEW s \in Shard,
         NEW R \in SUBSET (Record \cup Settlement), NEW q \in Seq(R), StoreNext(w, s, q)
  PROVE  /\ job[w][s].tried + 1 \in 1..Len(q) /\ q[job[w][s].tried + 1] \in R
         /\ Store(q[job[w][s].tried + 1])
         /\ job'[w][s].trades = job[w][s].trades /\ job'[w][s].nacks = job[w][s].nacks
         /\ job'[w][s].settled = job[w][s].settled /\ job'[w][s].tried = job[w][s].tried + 1
         /\ \A x \in Worker, z \in Shard : ~(x = w /\ z = s) => job'[x][z] = job[x][z]
         /\ UNCHANGED <<log, ckpt, owner, batch, steals, up, responses, settlements>>
  <1>. DEFINE next == [job[w][s] EXCEPT !.tried = @ + 1]
  <1>1. /\ job[w][s].tried < Len(q) /\ Store(q[job[w][s].tried + 1]) /\ Goto(w, s, next)
        /\ StayAtRecord /\ UNCHANGED <<responses, settlements, lost>>
    BY DEF StoreNext
  <1>2. job[w][s] \in Job /\ job[w][s].tried \in Nat /\ TypeOK
    BY JobType DEF EInv
  <1>3. Len(q) \in Nat /\ job[w][s].tried + 1 \in 1..Len(q)
    BY <1>1, <1>2
  <1>4. q[job[w][s].tried + 1] \in R
    BY <1>3
  <1>5. /\ next \in Job /\ next.trades = job[w][s].trades /\ next.nacks = job[w][s].nacks
        /\ next.settled = job[w][s].settled /\ next.tried = job[w][s].tried + 1
    <2>. PICK j \in Job : j = job[w][s]
      BY <1>2
    <2>1. j.tried + 1 \in Nat /\ next = [j EXCEPT !.tried = j.tried + 1]
      BY <1>2
    <2>2. [j EXCEPT !.tried = j.tried + 1] \in Job
      BY <2>1 DEF Job
    <2>3. /\ next.trades = j.trades /\ next.nacks = j.nacks
          /\ next.settled = j.settled /\ next.tried = j.tried + 1
      BY <2>1 DEF Job
    <2>. QED BY <2>1, <2>2, <2>3
  <1>. HIDE DEF next
  <1>6. /\ job'[w][s] = next
        /\ \A x \in Worker, z \in Shard : ~(x = w /\ z = s) => job'[x][z] = job[x][z]
    BY <1>1, <1>2, <1>5, GotoJob
  <1>. QED BY <1>1, <1>3, <1>4, <1>5, <1>6 DEF StayAtRecord, shardVars, workerVars

LEMMA StoreSettlementWrites ==
  ASSUME EgressAssumption, EInv, WritesOK, NEW w \in Worker, NEW s \in Shard,
         StoreSettlement(w, s)
  PROVE  WritesOK'
  <1>. DEFINE q == ToSettle(w, s)
              n == job[w][s].tried
  <1>1. Finished(w, s) /\ ~job[w][s].settled /\ StoreNext(w, s, q)
    BY DEF StoreSettlement
  <1>2. TypeOK /\ job[w][s].trades \in Seq(Record) /\ job[w][s].tried \in Nat
    BY JobType DEF EInv
  <1>3. q \in Seq(Settlement)
    BY <1>2, SettlementListElements DEF ToSettle
  <1>4. Settlement \in SUBSET (Record \cup Settlement)
    OBVIOUS
  <1>5. /\ n + 1 \in 1..Len(q) /\ q[n + 1] \in Settlement /\ Store(q[n + 1])
        /\ job'[w][s].trades = job[w][s].trades /\ job'[w][s].nacks = job[w][s].nacks
        /\ job'[w][s].settled = job[w][s].settled /\ job'[w][s].tried = n + 1
        /\ \A x \in Worker, z \in Shard : ~(x = w /\ z = s) => job'[x][z] = job[x][z]
        /\ UNCHANGED <<log, ckpt, owner, batch, steals, up, responses, settlements>>
    BY <1>1, <1>3, <1>4, StoreNextMoves
  <1>6. ToSettle(w, s)' = q
    BY <1>5 DEF ToSettle
  <1>. HIDE DEF q
  <1>7. fails' \in Nat /\ fails' >= fails /\ (fails' = 0 => Keep(q[n + 1]))
    BY <1>2, <1>5, StoreKeeps
  <1>8. job[w][s].trades # <<>>
    <2>1. CASE job[w][s].trades = <<>>
      <3>1. q = <<>>
        BY <2>1, NothingToSettle DEF q, ToSettle
      <3>. QED BY <1>5, <3>1
    <2>. QED BY <2>1
  <1>9. ASSUME fails' = 0
        PROVE  ItemsKept /\ PushedIsStored' /\ ThreadWrites(w, s)'
    <2>1. fails = 0
      BY <1>2, <1>7, <1>9 DEF TypeOK
    <2>2. ItemsKept /\ q[n + 1] \in items'
      BY <1>5, <1>7, <1>9, KeepKeeps
    <2>3. ThreadWrites(w, s) /\ PushedIsStored
      BY <2>1 DEF WritesOK
    <2>4. \A i \in 1..Len(q) : i <= n => q[i] \in items'
      <3>1. \A i \in 1..Len(q) : i <= n => q[i] \in items
        BY <1>1, <2>3 DEF ThreadWrites, q
      <3>2. \A i \in 1..Len(q) : q[i] \in Settlement
        BY <1>3
      <3>. QED BY <2>2, <3>1, <3>2 DEF ItemsKept
    <2>5. \A i \in 1..Len(q) : i <= n + 1 => q[i] \in items'
      BY <1>2, <1>3, <2>2, <2>4
    <2>6. \A r \in Elements(job[w][s].trades) : HasItem(r)'
      BY <2>2, <2>3 DEF ThreadWrites, ItemsKept
    <2>7. ~(batch[w][s].pos <= batch[w][s].end)
      <3>1. batch[w][s].pos \in Nat /\ batch[w][s].end \in Nat
        BY <1>2, ThreadTypes
      <3>. QED BY <1>1, <3>1 DEF Finished
    <2>8. ThreadWrites(w, s)'
      BY <1>5, <1>6, <1>8, <2>5, <2>6, <2>7 DEF ThreadWrites
    <2>. QED BY <1>2, <1>5, <2>2, <2>3, <2>8, PushedStays
  <1>. QED BY <1>2, <1>5, <1>7, <1>9, OneWrites

LEMMA StoreNackWrites ==
  ASSUME EgressAssumption, EInv, WritesOK, NEW w \in Worker, NEW s \in Shard, StoreNack(w, s)
  PROVE  WritesOK'
  <1>. DEFINE n == job[w][s].tried
  <1>. PICK q : q = job[w][s].nacks
    OBVIOUS
  <1>1. Finished(w, s) /\ job[w][s].trades = <<>> /\ StoreNext(w, s, q)
    BY DEF StoreNack
  <1>2. TypeOK /\ q \in Seq(Record) /\ n \in Nat
    BY JobType DEF EInv
  <1>3. Record \in SUBSET (Record \cup Settlement)
    OBVIOUS
  <1>4. /\ n + 1 \in 1..Len(q) /\ q[n + 1] \in Record /\ Store(q[n + 1])
        /\ job'[w][s].trades = <<>> /\ job'[w][s].nacks = q /\ job'[w][s].tried = n + 1
        /\ \A x \in Worker, z \in Shard : ~(x = w /\ z = s) => job'[x][z] = job[x][z]
        /\ UNCHANGED <<log, ckpt, owner, batch, steals, up, responses, settlements>>
    BY <1>1, <1>2, <1>3, StoreNextMoves
  <1>5. ToSettle(w, s)' = <<>>
    BY <1>4, NothingToSettle DEF ToSettle
  <1>6. fails' \in Nat /\ fails' >= fails /\ (fails' = 0 => Keep(q[n + 1]))
    BY <1>2, <1>4, StoreKeeps
  <1>7. ASSUME fails' = 0
        PROVE  ItemsKept /\ PushedIsStored' /\ ThreadWrites(w, s)'
    <2>1. fails = 0
      BY <1>2, <1>6, <1>7 DEF TypeOK
    <2>. PICK r \in Record : r = q[n + 1]
      BY <1>4
    <2>2. ItemsKept /\ HasItem(r)'
      BY <1>4, <1>6, <1>7, KeepKeeps
    <2>3. ThreadWrites(w, s) /\ PushedIsStored
      BY <2>1 DEF WritesOK
    <2>4. \A i \in 1..Len(q) : i <= n => HasItem(q[i])'
      BY <1>1, <2>2, <2>3 DEF ThreadWrites, ItemsKept
    <2>5. \A i \in 1..Len(q) : i <= job'[w][s].tried => HasItem(q[i])'
      <3>. SUFFICES ASSUME NEW i \in 1..Len(q), i <= n + 1 PROVE HasItem(q[i])'
        BY <1>4
      <3>1. CASE i <= n
        BY <2>4, <3>1
      <3>2. CASE i = n + 1
        BY <2>2, <3>2
      <3>. QED BY <1>2, <3>1, <3>2
    <2>6. ~(batch[w][s].pos <= batch[w][s].end)
      <3>1. batch[w][s].pos \in Nat /\ batch[w][s].end \in Nat
        BY <1>2, ThreadTypes
      <3>. QED BY <1>1, <3>1 DEF Finished
    <2>7. ThreadWrites(w, s)'
      BY <1>4, <1>5, <2>5, <2>6, EmptyElements DEF ThreadWrites
    <2>. QED BY <1>2, <1>4, <2>2, <2>3, <2>7, PushedStays
  <1>. QED BY <1>2, <1>4, <1>6, <1>7, OneWrites

LEMMA PushSettlementsWrites ==
  ASSUME EgressAssumption, EInv, WritesOK, NEW w \in Worker, NEW s \in Shard,
         PushSettlements(w, s)
  PROVE  WritesOK'
  <1>. DEFINE q == ToSettle(w, s)
              next == [job[w][s] EXCEPT !.settled = TRUE]
  <1>1. /\ Finished(w, s) /\ ~job[w][s].settled /\ q # <<>> /\ job[w][s].tried = Len(q)
        /\ Push(w, s, settlements, q, next) /\ UNCHANGED <<items, responses>>
    BY DEF PushSettlements
  <1>2. TypeOK /\ job[w][s] \in Job /\ job[w][s].trades \in Seq(Record)
    BY JobType DEF EInv
  <1>3. q \in Seq(Settlement)
    BY <1>2, SettlementListElements DEF ToSettle
  <1>4. next \in Job /\ next.trades = job[w][s].trades /\ next.settled
    BY <1>2 DEF Job
  <1>5. job[w][s].trades # <<>>
    BY <1>1, NothingToSettle DEF ToSettle
  <1>. HIDE DEF q, next
  <1>6. /\ fails' \in Nat /\ fails' >= fails
        /\ Published(settlements)' \subseteq Published(settlements) \cup Elements(q)
        /\ (Halt(w) /\ job' = job) \/ (Goto(w, s, next) /\ StayAtRecord)
    BY <1>1, <1>2, <1>3, SettlementsPushed
  <1>7. batch' = batch
    BY <1>6 DEF Halt, StayAtRecord, shardVars
  <1>8. /\ job'[w][s] = job[w][s] \/ job'[w][s] = next
        /\ \A x \in Worker, z \in Shard : ~(x = w /\ z = s) => job'[x][z] = job[x][z]
    BY <1>2, <1>4, <1>6, GotoJob
  <1>9. ItemsKept
    BY <1>1, SameItems
  <1>10. ASSUME fails' = 0
         PROVE  PushedIsStored' /\ ThreadWrites(w, s)'
    <2>1. fails = 0
      BY <1>2, <1>6, <1>10 DEF TypeOK
    <2>2. ThreadWrites(w, s) /\ PushedIsStored
      BY <2>1 DEF WritesOK
    <2>3. \A i \in 1..Len(q) : q[i] \in items
      BY <1>1, <1>3, <2>2 DEF ThreadWrites, q
    <2>4. Elements(q) \subseteq items
      BY <1>3, <2>3 DEF Elements
    <2>5. PushedIsStored'
      <3>1. Published(settlements)' \subseteq items'
        BY <1>1, <1>6, <2>2, <2>4 DEF PushedIsStored
      <3>2. \A r \in Published(responses)' : HasItem(r)'
        BY <1>1, <2>2 DEF PushedIsStored, Published, HasItem
      <3>. QED BY <3>1, <3>2 DEF PushedIsStored
    <2>6. CASE job'[w][s] = next
      <3>1. \A r \in Elements(job[w][s].trades) : HasItem(r)'
        BY <1>9, <2>2 DEF ThreadWrites, ItemsKept
      <3>2. ~(batch[w][s].pos <= batch[w][s].end)
        <4>1. batch[w][s].pos \in Nat /\ batch[w][s].end \in Nat
          BY <1>2, ThreadTypes
        <4>. QED BY <1>1, <4>1 DEF Finished
      <3>. QED BY <1>4, <1>5, <1>7, <2>5, <2>6, <3>1, <3>2 DEF ThreadWrites
    <2>7. CASE job'[w][s] = job[w][s]
      BY <1>2, <1>7, <1>9, <2>2, <2>5, <2>7, ThreadWritesStay
    <2>. QED BY <1>8, <2>5, <2>6, <2>7
  <1>. QED BY <1>2, <1>6, <1>7, <1>8, <1>9, <1>10, OneWrites

(* A push of q to the response stream: until a write fails, all of q has    *)
(* its item.                                                                *)
LEMMA PushAnswersWrites ==
  ASSUME EgressAssumption, EInv, WritesOK, NEW w \in Worker, NEW s \in Shard, Finished(w, s),
         NEW q \in Seq(Record), fails = 0 => \A r \in Elements(q) : HasItem(r),
         NEW next \in Job, next.trades = <<>>, next.tried = 0, next.nacks \in Seq(Record),
         Push(w, s, responses, q, next), UNCHANGED <<items, settlements>>
  PROVE  WritesOK'
  <1>1. TypeOK
    BY DEF EInv
  <1>2. /\ fails' \in Nat /\ fails' >= fails
        /\ Published(responses)' \subseteq Published(responses) \cup Elements(q)
        /\ (Halt(w) /\ job' = job) \/ (Goto(w, s, next) /\ StayAtRecord)
    BY <1>1, ResponsesPushed
  <1>3. batch' = batch
    BY <1>2 DEF Halt, StayAtRecord, shardVars
  <1>4. /\ job'[w][s] = job[w][s] \/ job'[w][s] = next
        /\ \A x \in Worker, z \in Shard : ~(x = w /\ z = s) => job'[x][z] = job[x][z]
    BY <1>1, <1>2, GotoJob
  <1>5. ItemsKept
    BY SameItems
  <1>6. ASSUME fails' = 0
        PROVE  PushedIsStored' /\ ThreadWrites(w, s)'
    <2>1. fails = 0
      BY <1>1, <1>2, <1>6 DEF TypeOK
    <2>2. ThreadWrites(w, s) /\ PushedIsStored
      BY <2>1 DEF WritesOK
    <2>3. PushedIsStored'
      <3>1. Published(settlements)' \subseteq items'
        BY <2>2 DEF PushedIsStored, Published
      <3>2. \A r \in Published(responses)' : HasItem(r)'
        BY <1>2, <1>5, <2>1, <2>2 DEF PushedIsStored, ItemsKept
      <3>. QED BY <3>1, <3>2 DEF PushedIsStored
    <2>4. CASE job'[w][s] = next
      <3>1. ToSettle(w, s)' = <<>>
        BY <2>4, NothingToSettle DEF ToSettle
      <3>2. \A i \in 1..Len(next.nacks) : ~(i <= 0)
        OBVIOUS
      <3>. QED BY <2>3, <2>4, <3>1, <3>2, EmptyElements DEF ThreadWrites
    <2>5. CASE job'[w][s] = job[w][s]
      BY <1>1, <1>3, <1>5, <2>2, <2>3, <2>5, ThreadWritesStay
    <2>. QED BY <1>4, <2>3, <2>4, <2>5
  <1>. QED BY <1>1, <1>2, <1>3, <1>4, <1>5, <1>6, OneWrites

LEMMA PushResponsesWrites ==
  ASSUME EgressAssumption, EInv, WritesOK, NEW w \in Worker, NEW s \in Shard,
         PushResponses(w, s)
  PROVE  WritesOK'
  <1>. DEFINE q == job[w][s].trades
              next == [NewJob EXCEPT !.nacks = job[w][s].nacks]
  <1>1. /\ Finished(w, s) /\ Push(w, s, responses, q, next) /\ UNCHANGED <<items, settlements>>
    BY DEF PushResponses
  <1>2. q \in Seq(Record) /\ job[w][s].nacks \in Seq(Record)
    BY JobType DEF EInv
  <1>3. /\ next \in Job /\ next.trades = <<>> /\ next.tried = 0
        /\ next.nacks \in Seq(Record)
    BY <1>2, NewJobType DEF NewJob, Job
  <1>4. fails = 0 => \A r \in Elements(q) : HasItem(r)
    BY DEF WritesOK, ThreadWrites
  <1>. HIDE DEF next
  <1>. QED BY <1>1, <1>2, <1>3, <1>4, PushAnswersWrites

LEMMA PushNacksWrites ==
  ASSUME EgressAssumption, EInv, WritesOK, NEW w \in Worker, NEW s \in Shard, PushNacks(w, s)
  PROVE  WritesOK'
  <1>. DEFINE q == job[w][s].nacks
  <1>1. /\ Finished(w, s) /\ job[w][s].trades = <<>> /\ job[w][s].tried = Len(q)
        /\ Push(w, s, responses, q, NewJob) /\ UNCHANGED <<items, settlements>>
    BY DEF PushNacks
  <1>2. q \in Seq(Record)
    BY JobType DEF EInv
  <1>3. /\ NewJob \in Job /\ NewJob.trades = <<>> /\ NewJob.tried = 0
        /\ NewJob.nacks \in Seq(Record)
    BY NewJobType DEF NewJob, Job
  <1>4. fails = 0 => \A r \in Elements(q) : HasItem(r)
    <2>1. fails = 0 => \A i \in 1..Len(q) : HasItem(q[i])
      BY <1>1, <1>2 DEF WritesOK, ThreadWrites
    <2>. QED BY <1>2, <2>1 DEF Elements
  <1>. QED BY <1>1, <1>2, <1>3, <1>4, PushAnswersWrites

LEMMA CheckpointWrites ==
  ASSUME EgressAssumption, EInv, WritesOK, NEW w \in Worker, NEW s \in Shard, Checkpoint(w, s)
  PROVE  WritesOK'
  <1>1. /\ job[w][s] = NewJob /\ CheckpointBatch(w, s) /\ TypeOK
        /\ UNCHANGED <<items, job, responses, settlements, lost, fails>>
    BY DEF Checkpoint, Rest, streams, EInv
  <1>2. \A x \in Worker, z \in Shard : ~(x = w /\ z = s) => batch'[x][z] = batch[x][z]
    <2>1. batch' = batch \/ batch' = [batch EXCEPT ![w][s] = NoBatch]
      BY <1>1 DEF CheckpointBatch, Halt, shardVars
    <2>2. batch \in [Worker -> [Shard -> [pos : Nat, end : Nat]]]
      BY <1>1 DEF TypeOK, ShardTypeOK
    <2>. QED BY <2>1, <2>2
  <1>3. ThreadWrites(w, s)'
    BY <1>1, FreshWrites
  <1>4. fails' = 0 => ItemsKept /\ PushedIsStored'
    BY <1>1, SameItems, PushedStays DEF WritesOK
  <1>5. fails' \in Nat /\ fails' >= fails
    BY <1>1 DEF TypeOK
  <1>. QED BY <1>1, <1>2, <1>3, <1>4, <1>5, OneWrites

LEMMA FetchWrites ==
  ASSUME EgressAssumption, EInv, WritesOK, NEW w \in Worker, NEW s \in Shard, Fetch(w, s)
  PROVE  WritesOK'
  <1>1. /\ FetchBatch(w, s) /\ Idle(w, s) /\ TypeOK /\ ThreadOK(w, s)
        /\ UNCHANGED <<items, job, responses, settlements, lost, fails>>
    BY DEF Fetch, FetchBatch, Rest, streams, EInv
  <1>2. job'[w][s] = NewJob
    BY <1>1 DEF ThreadOK
  <1>3. \A x \in Worker, z \in Shard : ~(x = w /\ z = s) => batch'[x][z] = batch[x][z]
    <2>1. PICK e : batch' = [batch EXCEPT ![w][s] = [pos |-> ckpt[s] + 1, end |-> e]]
      BY <1>1 DEF FetchBatch
    <2>2. batch \in [Worker -> [Shard -> [pos : Nat, end : Nat]]]
      BY <1>1 DEF TypeOK, ShardTypeOK
    <2>. QED BY <2>1, <2>2
  <1>4. ThreadWrites(w, s)'
    BY <1>2, FreshWrites
  <1>5. fails' = 0 => ItemsKept /\ PushedIsStored'
    BY <1>1, SameItems, PushedStays DEF WritesOK
  <1>6. fails' \in Nat /\ fails' >= fails
    BY <1>1 DEF TypeOK
  <1>. QED BY <1>1, <1>3, <1>4, <1>5, <1>6, OneWrites

LEMMA RestartWrites ==
  ASSUME EgressAssumption, EInv, WritesOK, NEW w \in Worker, Restart(w)
  PROVE  WritesOK'
  <1>1. /\ RestartWorker(w) /\ job' = [job EXCEPT ![w] = [s \in Shard |-> NewJob]]
        /\ UNCHANGED <<items, responses, settlements, lost, fails>> /\ TypeOK
    BY DEF Restart, streams, EInv
  <1>2. batch' = [batch EXCEPT ![w] = [s \in Shard |-> NoBatch]]
    BY <1>1 DEF RestartWorker
  <1>3. /\ batch \in [Worker -> [Shard -> [pos : Nat, end : Nat]]]
        /\ job \in [Worker -> [Shard -> Job]]
    BY <1>1 DEF TypeOK, ShardTypeOK
  <1>4. ItemsKept
    BY <1>1, SameItems
  <1>. SUFFICES ASSUME fails' = 0
                PROVE  PushedIsStored' /\ (\A x \in Worker, s \in Shard : ThreadWrites(x, s)')
    BY DEF WritesOK
  <1>5. PushedIsStored /\ \A x \in Worker, s \in Shard : ThreadWrites(x, s)
    BY <1>1 DEF WritesOK
  <1>6. ASSUME NEW x \in Worker, NEW s \in Shard PROVE ThreadWrites(x, s)'
    <2>1. CASE x = w
      <3>1. job'[w][s] = NewJob
        BY <1>1, <1>3
      <3>. QED BY <2>1, <3>1, FreshWrites
    <2>2. CASE x # w
      <3>1. batch'[x][s] = batch[x][s] /\ job'[x][s] = job[x][s]
        BY <1>1, <1>2, <1>3, <2>2
      <3>. QED BY <1>1, <1>4, <1>5, <3>1, ThreadWritesStay
    <2>. QED BY <2>1, <2>2
  <1>. QED BY <1>1, <1>4, <1>5, <1>6, PushedStays

LEMMA WritesNext ==
  ASSUME EgressAssumption, EInv, WritesOK, [Next]_vars
  PROVE  WritesOK'
  <1>. TypeOK
    BY DEF EInv
  <1>1. ASSUME UNCHANGED <<items, responses, settlements, batch, job, fails>>
        PROVE  WritesOK'
    BY <1>1, NoneWrites DEF TypeOK
  <1>2. ASSUME NEW r \in Record, NEW s \in Shard, ReceiveRecord(r, s)
        PROVE  WritesOK'
    BY <1>1, <1>2 DEF ReceiveRecord, Put, streams
  <1>3. ASSUME NEW w \in Worker, NEW s \in Shard, WorkerStep(w, s)
        PROVE  WritesOK'
    <2>1. CASE Take(w, s) \/ Steal(w, s)
      BY <1>1, <2>1 DEF Take, Steal, TakeLease, StealLease, Rest, streams
    <2>2. CASE Fetch(w, s)
      BY <2>2, FetchWrites
    <2>3. CASE ProcessBatch(w, s)
      BY <2>3, StoreTradeWrites, CollectNackWrites, StoreSettlementWrites,
         PushSettlementsWrites, PushResponsesWrites, StoreNackWrites, PushNacksWrites
         DEF ProcessBatch
    <2>4. CASE Checkpoint(w, s)
      BY <2>4, CheckpointWrites
    <2>. QED BY <1>3, <2>1, <2>2, <2>3, <2>4 DEF WorkerStep, ThreadStep
  <1>4. ASSUME NEW w \in Worker, Crash(w)
        PROVE  WritesOK'
    BY <1>1, <1>4 DEF Crash, CrashWorker, shardVars, Rest, streams
  <1>5. ASSUME NEW w \in Worker, Restart(w)
        PROVE  WritesOK'
    BY <1>5, RestartWrites
  <1>6. CASE UNCHANGED vars
    BY <1>1, <1>6 DEF vars, shardVars, streams
  <1>. QED BY <1>2, <1>3, <1>4, <1>5, <1>6 DEF Next

----------------------------------------------------------------------------
(* The items of the trades are recent: the actions of egress. *)

LEMMA NackHasNoTrade ==
  ASSUME EgressAssumption, NEW r \in Record
  PROVE  /\ r.id \in Nack => r.id \notin Trade
         /\ r.status = "NACK" => r.id \notin Trade
  <1>1. Trade \cap Nack = {}
    BY DEF EgressAssumption
  <1>2. CASE r \in [id : Nack, status : {"NACK"}]
    BY <1>1, <1>2
  <1>3. CASE r \in [id : Trade, status : {"MATCHED", "MISMATCHED", "SETTLED"}]
    BY <1>1, <1>3
  <1>. QED BY <1>2, <1>3 DEF Record

(* Nothing that waits is passed, and no position of a checkpoint or of a    *)
(* thread moves on: a step that leaves the records and the positions.       *)
LEMMA RecentStays ==
  ASSUME TypeOK, RecentOK, fails' \in Nat, fails' >= fails, steals' \in Nat, steals' >= steals,
         UNCHANGED <<log, ckpt, batch>>,
         steals' = 0 => OneHolder',
         fails' = 0 => ItemsKept /\ \A x \in items' \cap Record : x.id \in Trade => x \in items,
         \A w \in Worker : up'[w] => up[w]
  PROVE  RecentOK'
  <1>1. fails \in Nat /\ steals \in Nat
    BY DEF TypeOK, ShardTypeOK
  <1>2. fails' = 0 => PassedHasItem'
    <2>1. fails' = 0 => fails = 0 /\ PassedHasItem /\ \A x : HasItem(x) => HasItem(x)'
      BY <1>1 DEF RecentOK, ItemsKept
    <2>. QED BY <2>1 DEF PassedHasItem
  <1>3. ASSUME fails' = 0, steals' = 0
        PROVE  \A x \in items' \cap Record : x.id \in Trade => LastOrWaits(x)'
    <2>1. \A s \in Shard : \A k : Waits(s, k) => Waits(s, k)'
      BY DEF Waits, Idle
    <2>2. \A x : LastOrWaits(x) => LastOrWaits(x)'
      BY <2>1 DEF LastOrWaits
    <2>. QED BY <1>1, <1>3, <2>2 DEF RecentOK
  <1>. QED BY <1>2, <1>3 DEF RecentOK

LEMMA HolderStays ==
  ASSUME RecentOK, TypeOK, steals' \in Nat, steals' >= steals, UNCHANGED <<ckpt, owner, batch>>,
         \A w \in Worker : up'[w] => up[w]
  PROVE  steals' = 0 => OneHolder'
  BY DEF RecentOK, OneHolder, Idle, TypeOK, ShardTypeOK

LEMMA ReceiveRecent ==
  ASSUME EInv, RecentOK, NEW r \in Record, NEW s \in Shard, ReceiveRecord(r, s)
  PROVE  RecentOK'
  <1>1. /\ Put(s, r) /\ TypeOK
        /\ UNCHANGED <<ckpt, owner, batch, steals, up, items, fails>>
    BY DEF ReceiveRecord, Put, EInv, streams, workerVars
  <1>2. ShardTypeOK(Record)
    BY <1>1 DEF TypeOK
  <1>3. log'[s] = Append(log[s], r) /\ \A z \in Shard : z # s => log'[z] = log[z]
    BY <1>1, <1>2 DEF Put, ShardTypeOK
  <1>4. \A z \in Shard : /\ Len(log[z]) \in Nat /\ Len(log'[z]) \in Nat /\ ckpt[z] \in Nat
                         /\ log[z] \in Seq(Record)
    BY <1>1, <1>2, PutKeeps, ShardFieldTypes
  <1>5. /\ Len(log'[s]) = Len(log[s]) + 1
        /\ \A z \in Shard : \A i \in 1..Len(log[z]) : log'[z][i] = log[z][i]
    BY <1>1, <1>2, <1>3, <1>4, PutKeeps
  <1>6. \A z \in Shard : /\ ckpt[z] <= Len(log[z])
                         /\ \A w \in Worker : batch[w][z].pos <= Len(log[z]) + 1
    <2>1. \A z \in Shard : ckpt[z] <= Len(log[z])
      BY DEF EInv, CheckpointOK
    <2>2. \A w \in Worker, z \in Shard :
            /\ batch[w][z].end <= Len(log[z]) /\ batch[w][z].pos <= batch[w][z].end + 1
            /\ batch[w][z].pos \in Nat /\ batch[w][z].end \in Nat
      BY <1>1, ThreadTypes DEF EInv, ThreadOK
    <2>. QED BY <1>4, <2>1, <2>2
  <1>7. \A w \in Worker, z \in Shard : batch[w][z].pos \in Nat
    BY <1>1, ThreadTypes
  <1>8. \A z \in Shard : \A i \in 1..Len(log'[z]) : i \in 1..Len(log[z]) \/ i = Len(log[z]) + 1
    BY <1>3, <1>4, <1>5
  <1>9. ASSUME fails = 0 PROVE PassedHasItem'
    <2>. SUFFICES ASSUME NEW z \in Shard, NEW i \in 1..Len(log'[z]), log'[z][i].id \in Trade,
                         i <= ckpt[z] \/ \E w \in Worker : i < batch[w][z].pos
                  PROVE  HasItem(log[z][i])'
      BY <1>1 DEF PassedHasItem
    <2>1. i \in 1..Len(log[z])
      BY <1>4, <1>6, <1>7, <1>8
    <2>2. HasItem(log[z][i])
      BY <1>5, <1>9, <2>1 DEF RecentOK, PassedHasItem
    <2>. QED BY <1>1, <1>5, <2>1, <2>2 DEF HasItem
  <1>10. steals' = 0 => OneHolder'
    BY <1>1 DEF RecentOK, OneHolder, Idle
  <1>11. ASSUME fails = 0, steals = 0, NEW x \in items \cap Record, x.id \in Trade
         PROVE  LastOrWaits(x)'
    <2>1. PICK z \in Shard : \E i \in 1..Len(log[z]) :
             /\ log[z][i] = x
             /\ \A k \in 1..Len(log[z]) : k > i /\ log[z][k].id = x.id => Waits(z, k)
      BY <1>11 DEF RecentOK, LastOrWaits
    <2>2. PICK i \in 1..Len(log[z]) :
             /\ log[z][i] = x
             /\ \A k \in 1..Len(log[z]) : k > i /\ log[z][k].id = x.id => Waits(z, k)
      BY <2>1
    <2>3. \A k : Waits(z, k)' <=> Waits(z, k)
      BY <1>1 DEF Waits, Idle
    <2>4. Waits(z, Len(log[z]) + 1)
      BY <1>4, <1>6 DEF Waits
    <2>5. \A k \in 1..Len(log'[z]) : k > i /\ log'[z][k].id = x.id => Waits(z, k)'
      BY <1>5, <1>8, <2>2, <2>3, <2>4
    <2>6. i \in 1..Len(log'[z]) /\ log'[z][i] = x
      BY <1>3, <1>4, <1>5, <2>2
    <2>. QED BY <2>5, <2>6 DEF LastOrWaits
  <1>. QED BY <1>1, <1>9, <1>10, <1>11 DEF RecentOK

(* Thread <<w, s>> goes on to the next record: what it passes has its item, *)
(* and each other item of a trade is still the last, or waited for.         *)
LEMMA NextRecent ==
  ASSUME EInv, RecentOK, NEW w \in Worker, NEW s \in Shard, Working(w, s), NextRecord(w, s),
         NEW c, c = Current(w, s),
         fails' \in Nat, fails' >= fails, fails' = 0 => ItemsKept,
         fails' = 0 /\ c.id \in Trade => HasItem(c)',
         fails' = 0 => \A x \in items' \cap Record : x.id \in Trade =>
            x = c \/ (x \in items /\ x.id # c.id)
  PROVE  RecentOK'
  <1>. PICK p : p = batch[w][s].pos
    OBVIOUS
  <1>1. TypeOK /\ p \in 1..Len(log[s]) /\ c = log[s][p] /\ c \in Record
    BY CurrentRecord DEF EInv
  <1>2. /\ batch'[w][s].pos = p + 1
        /\ \A x \in Worker, z \in Shard : ~(x = w /\ z = s) => batch'[x][z] = batch[x][z]
    BY <1>1, BatchStep
  <1>3. UNCHANGED <<log, ckpt, owner, steals, up>>
    BY DEF NextRecord, workerVars
  <1>4. fails \in Nat /\ steals \in Nat
    BY <1>1 DEF TypeOK, ShardTypeOK
  <1>5. \A x \in Worker, z \in Shard : batch[x][z].pos \in Nat /\ ckpt[z] \in Nat
    BY <1>1, ThreadTypes
  <1>6. up[w] /\ ~Idle(w, s)
    BY DEF Working
  <1>7. ASSUME fails' = 0 PROVE PassedHasItem'
    <2>1. fails = 0 /\ PassedHasItem /\ ItemsKept
      BY <1>4, <1>7 DEF RecentOK
    <2>. SUFFICES ASSUME NEW z \in Shard, NEW i \in 1..Len(log[z]), log[z][i].id \in Trade,
                         i <= ckpt[z] \/ \E x \in Worker : i < batch'[x][z].pos
                  PROVE  HasItem(log[z][i])'
      BY <1>3 DEF PassedHasItem
    <2>2. CASE z = s /\ i = p
      BY <1>1, <1>3, <1>7, <2>2
    <2>3. CASE ~(z = s /\ i = p)
      <3>1. i <= ckpt[z] \/ \E x \in Worker : i < batch[x][z].pos
        BY <1>1, <1>2, <1>5, <2>3
      <3>2. HasItem(log[z][i])
        BY <2>1, <3>1 DEF PassedHasItem
      <3>3. \A x : HasItem(x) => HasItem(x)'
        BY <2>1 DEF ItemsKept
      <3>. QED BY <1>3, <3>2, <3>3
    <2>. QED BY <2>2, <2>3
  <1>8. ASSUME steals' = 0 PROVE OneHolder'
    <2>1. OneHolder
      BY <1>3, <1>8 DEF RecentOK
    <2>2. ASSUME NEW x \in Worker, NEW z \in Shard, up[x], ~(batch'[x][z].pos = 0)
          PROVE  owner[z] = x /\ ckpt[z] < batch'[x][z].pos
      <3>1. CASE x = w /\ z = s
        BY <1>2, <1>5, <1>6, <2>1, <3>1 DEF OneHolder
      <3>2. CASE ~(x = w /\ z = s)
        BY <1>2, <2>1, <2>2, <3>2 DEF OneHolder, Idle
      <3>. QED BY <3>1, <3>2
    <2>. QED BY <1>3, <2>2 DEF OneHolder, Idle
  <1>9. ASSUME fails' = 0, steals' = 0, NEW x \in items' \cap Record, x.id \in Trade
        PROVE  LastOrWaits(x)'
    <2>1. OneHolder
      BY <1>3, <1>9 DEF RecentOK
    <2>2. ASSUME NEW z \in Shard, NEW k \in 1..Len(log[z]), Waits(z, k), ~(z = s /\ k = p)
          PROVE  Waits(z, k)'
      <3>1. \A y \in Worker : up[y] /\ ~(batch'[y][z].pos = 0) => batch'[y][z].pos <= k
        <4>. SUFFICES ASSUME NEW y \in Worker, up[y], ~(batch'[y][z].pos = 0)
                      PROVE  batch'[y][z].pos <= k
          OBVIOUS
        <4>1. CASE y = w /\ z = s
          <5>1. p <= k /\ k # p
            BY <1>6, <2>2, <4>1 DEF Waits
          <5>. QED BY <1>1, <1>2, <4>1, <5>1
        <4>2. CASE ~(y = w /\ z = s)
          BY <1>2, <2>2, <4>2 DEF Waits, Idle
        <4>. QED BY <4>1, <4>2
      <3>. QED BY <1>3, <2>2, <3>1 DEF Waits, Idle
    <2>3. CASE x = c
      <3>1. ASSUME NEW k \in 1..Len(log[s]), k > p PROVE Waits(s, k)'
        <4>1. ckpt[s] < p /\ owner[s] = w
          BY <1>6, <2>1 DEF OneHolder
        <4>2. \A y \in Worker : up[y] /\ ~(batch'[y][s].pos = 0) => batch'[y][s].pos <= k
          <5>. SUFFICES ASSUME NEW y \in Worker, up[y], ~(batch'[y][s].pos = 0)
                        PROVE  batch'[y][s].pos <= k
            OBVIOUS
          <5>1. y = w
            BY <1>2, <2>1, <4>1 DEF OneHolder, Idle
          <5>. QED BY <1>1, <1>2, <3>1, <5>1
        <4>3. ckpt[s] < k
          BY <1>1, <1>5, <3>1, <4>1
        <4>. QED BY <1>3, <4>2, <4>3 DEF Waits, Idle
      <3>. QED BY <1>1, <1>3, <2>3, <3>1 DEF LastOrWaits
    <2>4. CASE x \in items /\ x.id # c.id
      <3>1. PICK z \in Shard : \E i \in 1..Len(log[z]) :
               /\ log[z][i] = x
               /\ \A k \in 1..Len(log[z]) : k > i /\ log[z][k].id = x.id => Waits(z, k)
        BY <1>3, <1>4, <1>9, <2>4 DEF RecentOK, LastOrWaits
      <3>2. PICK i \in 1..Len(log[z]) :
               /\ log[z][i] = x
               /\ \A k \in 1..Len(log[z]) : k > i /\ log[z][k].id = x.id => Waits(z, k)
        BY <3>1
      <3>3. \A k \in 1..Len(log[z]) : k > i /\ log[z][k].id = x.id => Waits(z, k)'
        BY <1>1, <2>2, <2>4, <3>2
      <3>. QED BY <1>3, <3>2, <3>3 DEF LastOrWaits
    <2>. QED BY <1>9, <2>3, <2>4
  <1>. QED BY <1>3, <1>7, <1>8, <1>9 DEF RecentOK

LEMMA StoreTradeRecent ==
  ASSUME EInv, RecentOK, NEW w \in Worker, NEW s \in Shard, StoreTrade(w, s)
  PROVE  RecentOK'
  <1>. PICK c : c = Current(w, s)
    OBVIOUS
  <1>1. /\ Working(w, s) /\ Store(c) /\ NextRecord(w, s) /\ TypeOK
    BY DEF StoreTrade, EInv
  <1>2. c \in Record
    BY <1>1, CurrentRecord
  <1>3. fails' \in Nat /\ fails' >= fails /\ (fails' = 0 => Keep(c))
    BY <1>1, <1>2, StoreKeeps
  <1>4. fails' = 0 => ItemsKept /\ HasItem(c)'
    BY <1>2, <1>3, KeepKeeps
  <1>5. fails' = 0 => \A x \in items' \cap Record : x.id \in Trade =>
            x = c \/ (x \in items /\ x.id # c.id)
    BY <1>2, <1>3 DEF Keep
  <1>. QED BY <1>1, <1>3, <1>4, <1>5, NextRecent

LEMMA CollectNackRecent ==
  ASSUME EgressAssumption, EInv, RecentOK, NEW w \in Worker, NEW s \in Shard, CollectNack(w, s)
  PROVE  RecentOK'
  <1>. PICK c : c = Current(w, s)
    OBVIOUS
  <1>1. /\ Working(w, s) /\ c.id \in Nack /\ NextRecord(w, s) /\ UNCHANGED <<items, fails>>
        /\ TypeOK
    BY DEF CollectNack, EInv, streams
  <1>2. c \in Record
    BY <1>1, CurrentRecord
  <1>3. c.id \notin Trade
    BY <1>1, <1>2, NackHasNoTrade
  <1>4. fails' \in Nat /\ fails' >= fails /\ ItemsKept
    BY <1>1, SameItems DEF TypeOK
  <1>5. \A x \in items' \cap Record : x.id \in Trade => x \in items /\ x.id # c.id
    BY <1>1, <1>3
  <1>. QED BY <1>1, <1>3, <1>4, <1>5, NextRecent

LEMMA StoreNextRecent ==
  ASSUME EgressAssumption, EInv, RecentOK, NEW w \in Worker, NEW s \in Shard,
         StoreSettlement(w, s) \/ StoreNack(w, s)
  PROVE  RecentOK'
  <1>1. TypeOK /\ job[w][s].trades \in Seq(Record) /\ job[w][s].nacks \in Seq(Record)
    BY JobType DEF EInv
  <1>2. PICK r \in Record \cup Settlement :
          /\ Store(r) /\ UNCHANGED <<log, ckpt, owner, batch, steals, up>>
          /\ r \in Record => r.id \notin Trade
    <2>1. CASE StoreSettlement(w, s)
      <3>1. StoreNext(w, s, ToSettle(w, s))
        BY <2>1 DEF StoreSettlement
      <3>2. ToSettle(w, s) \in Seq(Settlement)
        BY <1>1, SettlementListElements DEF ToSettle
      <3>3. Settlement \in SUBSET (Record \cup Settlement)
        OBVIOUS
      <3>4. PICK r \in Settlement : Store(r) /\ UNCHANGED <<log, ckpt, owner, batch, steals, up>>
        BY <3>1, <3>2, <3>3, StoreNextMoves
      <3>. QED BY <3>4, RecordIsNoSettlement
    <2>2. CASE StoreNack(w, s)
      <3>. PICK q \in Seq(Record) : q = job[w][s].nacks
        BY <1>1
      <3>1. StoreNext(w, s, q)
        BY <2>2 DEF StoreNack
      <3>2. Record \in SUBSET (Record \cup Settlement)
        OBVIOUS
      <3>3. /\ job[w][s].tried + 1 \in 1..Len(q)
            /\ Store(q[job[w][s].tried + 1]) /\ UNCHANGED <<log, ckpt, owner, batch, steals, up>>
        BY <3>1, <3>2, StoreNextMoves
      <3>4. q[job[w][s].tried + 1] \in Elements(q) /\ q[job[w][s].tried + 1] \in Record
        BY <3>3, ElementAt
      <3>5. q[job[w][s].tried + 1].status = "NACK"
        BY <3>4 DEF EInv, ThreadOK
      <3>. QED BY <3>3, <3>4, <3>5, NackHasNoTrade
    <2>. QED BY <2>1, <2>2
  <1>3. fails' \in Nat /\ fails' >= fails /\ (fails' = 0 => Keep(r))
    BY <1>1, <1>2, StoreKeeps
  <1>4. fails' = 0 => ItemsKept /\ \A x \in items' \cap Record : x.id \in Trade => x \in items
    BY <1>2, <1>3, KeepKeeps DEF Keep
  <1>5. steals' \in Nat /\ steals' >= steals
    BY <1>1, <1>2 DEF TypeOK, ShardTypeOK
  <1>6. steals' = 0 => OneHolder'
    BY <1>1, <1>2, <1>5, HolderStays
  <1>. QED BY <1>1, <1>2, <1>3, <1>4, <1>5, <1>6, RecentStays

(* A push, a halt, a crash: nothing that counts changes but the task. *)
LEMMA QuietRecent ==
  ASSUME EInv, RecentOK, fails' \in Nat, fails' >= fails,
         UNCHANGED <<log, ckpt, owner, batch, items>>, steals' \in Nat, steals' >= steals,
         \A w \in Worker : up'[w] => up[w]
  PROVE  RecentOK'
  <1>1. TypeOK /\ ItemsKept
    BY SameItems DEF EInv
  <1>2. steals' = 0 => OneHolder'
    BY <1>1, HolderStays
  <1>. QED BY <1>1, <1>2, RecentStays

LEMMA HaltStops ==
  ASSUME TypeOK, NEW w \in Worker, Halt(w)
  PROVE  \A x \in Worker : up'[x] => up[x]
  BY DEF Halt, TypeOK, ShardTypeOK

LEMMA PushRecent ==
  ASSUME EgressAssumption, EInv, RecentOK, NEW w \in Worker, NEW s \in Shard,
         PushSettlements(w, s) \/ PushResponses(w, s) \/ PushNacks(w, s)
  PROVE  RecentOK'
  <1>1. TypeOK /\ job[w][s].trades \in Seq(Record) /\ job[w][s].nacks \in Seq(Record)
    BY JobType DEF EInv
  <1>2. fails' \in Nat /\ fails' >= fails /\ (Halt(w) \/ StayAtRecord) /\ items' = items
    <2>1. CASE PushSettlements(w, s)
      <3>1. ToSettle(w, s) \in Seq(Settlement)
        BY <1>1, SettlementListElements DEF ToSettle
      <3>. DEFINE next == [job[w][s] EXCEPT !.settled = TRUE]
      <3>2. Push(w, s, settlements, ToSettle(w, s), next) /\ items' = items
        BY <2>1 DEF PushSettlements
      <3>. HIDE DEF next
      <3>. QED BY <1>1, <3>1, <3>2, SettlementsPushed
    <2>2. CASE PushResponses(w, s)
      <3>. DEFINE next == [NewJob EXCEPT !.nacks = job[w][s].nacks]
      <3>1. Push(w, s, responses, job[w][s].trades, next) /\ items' = items
        BY <2>2 DEF PushResponses
      <3>. HIDE DEF next
      <3>. QED BY <1>1, <3>1, ResponsesPushed
    <2>3. CASE PushNacks(w, s)
      <3>1. Push(w, s, responses, job[w][s].nacks, NewJob) /\ items' = items
        BY <2>3 DEF PushNacks
      <3>. QED BY <1>1, <3>1, ResponsesPushed
    <2>. QED BY <2>1, <2>2, <2>3
  <1>3. UNCHANGED <<log, ckpt, owner, batch, steals>>
    BY <1>2 DEF Halt, StayAtRecord, shardVars
  <1>4. \A x \in Worker : up'[x] => up[x]
    BY <1>1, <1>2, HaltStops DEF StayAtRecord, workerVars
  <1>5. steals' \in Nat /\ steals' >= steals
    BY <1>1, <1>3 DEF TypeOK, ShardTypeOK
  <1>. QED BY <1>2, <1>3, <1>4, <1>5, QuietRecent

LEMMA CheckpointRecent ==
  ASSUME EInv, RecentOK, NEW w \in Worker, NEW s \in Shard, Checkpoint(w, s)
  PROVE  RecentOK'
  <1>1. /\ CheckpointBatch(w, s) /\ Finished(w, s) /\ TypeOK /\ UNCHANGED <<items, fails>>
    BY DEF Checkpoint, CheckpointBatch, Rest, streams, EInv
  <1>2. fails' \in Nat /\ fails' >= fails /\ steals \in Nat
    BY <1>1 DEF TypeOK, ShardTypeOK
  <1>3. CASE owner[s] # w
    <2>1. Halt(w)
      BY <1>1, <1>3 DEF CheckpointBatch
    <2>2. UNCHANGED <<log, ckpt, owner, batch, steals>> /\ (\A x \in Worker : up'[x] => up[x])
      BY <1>1, <2>1, HaltStops DEF Halt, shardVars
    <2>. QED BY <1>1, <1>2, <2>2, QuietRecent
  <1>4. CASE owner[s] = w
    <2>1. /\ ckpt' = [ckpt EXCEPT ![s] = batch[w][s].end]
          /\ batch' = [batch EXCEPT ![w][s] = NoBatch]
          /\ UNCHANGED <<log, owner, steals, up>>
      BY <1>1, <1>4 DEF CheckpointBatch, workerVars
    <2>2. /\ ckpt \in [Shard -> Nat] /\ batch \in [Worker -> [Shard -> [pos : Nat, end : Nat]]]
          /\ batch[w][s].pos \in Nat /\ batch[w][s].end \in Nat
          /\ batch[w][s].pos > batch[w][s].end /\ up[w] /\ ~Idle(w, s)
      <3>1. /\ ckpt \in [Shard -> Nat] /\ batch \in [Worker -> [Shard -> [pos : Nat, end : Nat]]]
            /\ batch[w][s].pos \in Nat /\ batch[w][s].end \in Nat
        BY <1>1, ThreadTypes DEF TypeOK, ShardTypeOK
      <3>. QED BY <1>1, <3>1 DEF Finished, Idle
    <2>3. /\ ckpt'[s] = batch[w][s].end /\ batch'[w][s].pos = 0
          /\ \A z \in Shard : z # s => ckpt'[z] = ckpt[z]
          /\ \A x \in Worker, z \in Shard : ~(x = w /\ z = s) => batch'[x][z] = batch[x][z]
      BY <2>1, <2>2 DEF NoBatch
    <2>4. \A x \in Worker, z \in Shard : batch[x][z].pos \in Nat /\ ckpt[z] \in Nat
      BY <1>1, ThreadTypes
    <2>5. ASSUME fails = 0 PROVE PassedHasItem'
      <3>1. \A z \in Shard : \A i \in Nat \ {0} :
              i <= ckpt'[z] \/ (\E x \in Worker : i < batch'[x][z].pos)
                 => i <= ckpt[z] \/ \E x \in Worker : i < batch[x][z].pos
        <4>. SUFFICES ASSUME NEW z \in Shard, NEW i \in Nat \ {0},
                             i <= ckpt'[z] \/ \E x \in Worker : i < batch'[x][z].pos
                      PROVE  i <= ckpt[z] \/ \E x \in Worker : i < batch[x][z].pos
          OBVIOUS
        <4>1. CASE i <= ckpt'[z]
          BY <2>2, <2>3, <2>4, <4>1
        <4>2. CASE \E x \in Worker : i < batch'[x][z].pos
          <5>1. PICK x \in Worker : i < batch'[x][z].pos
            BY <4>2
          <5>. QED BY <2>3, <5>1
        <4>. QED BY <4>1, <4>2
      <3>2. \A z \in Shard : 1..Len(log[z]) \subseteq Nat \ {0}
        BY <1>1, ThreadTypes
      <3>. QED BY <1>1, <2>1, <2>5, <3>1, <3>2 DEF RecentOK, PassedHasItem, HasItem
    <2>6. ASSUME steals = 0 PROVE OneHolder'
      <3>1. ASSUME NEW x \in Worker, NEW z \in Shard, up[x], ~(batch'[x][z].pos = 0)
            PROVE  owner[z] = x /\ ckpt'[z] < batch'[x][z].pos
        <4>1. ~(x = w /\ z = s)
          BY <2>3, <3>1
        <4>2. owner[z] = x /\ ckpt[z] < batch[x][z].pos /\ batch'[x][z] = batch[x][z]
          BY <2>3, <2>6, <3>1, <4>1 DEF RecentOK, OneHolder, Idle
        <4>3. z # s
          BY <1>4, <4>1, <4>2
        <4>. QED BY <2>3, <4>2, <4>3
      <3>. QED BY <2>1, <3>1 DEF OneHolder, Idle
    <2>7. ASSUME fails = 0, steals = 0, NEW x \in items \cap Record, x.id \in Trade
          PROVE  LastOrWaits(x)'
      <3>1. \A z \in Shard : \A k \in Nat : Waits(z, k) => Waits(z, k)'
        <4>. SUFFICES ASSUME NEW z \in Shard, NEW k \in Nat, Waits(z, k)
                      PROVE  Waits(z, k)'
          OBVIOUS
        <4>1. ckpt'[z] < k
          <5>1. CASE z = s
            BY <2>2, <2>3, <2>4, <5>1 DEF Waits
          <5>2. CASE z # s
            BY <2>3, <5>2 DEF Waits
          <5>. QED BY <5>1, <5>2
        <4>2. \A y \in Worker : up[y] /\ ~(batch'[y][z].pos = 0) => batch'[y][z].pos <= k
          BY <2>3 DEF Waits, Idle
        <4>. QED BY <2>1, <4>1, <4>2 DEF Waits, Idle
      <3>2. LastOrWaits(x)
        BY <2>7 DEF RecentOK
      <3>3. \A z \in Shard : 1..Len(log[z]) \subseteq Nat
        OBVIOUS
      <3>. QED BY <2>1, <3>1, <3>2, <3>3 DEF LastOrWaits
    <2>. QED BY <1>1, <2>1, <2>5, <2>6, <2>7 DEF RecentOK
  <1>. QED BY <1>3, <1>4

LEMMA FetchRecent ==
  ASSUME EInv, RecentOK, NEW w \in Worker, NEW s \in Shard, Fetch(w, s)
  PROVE  RecentOK'
  <1>1. /\ FetchBatch(w, s) /\ Idle(w, s) /\ owner[s] = w /\ TypeOK
        /\ UNCHANGED <<items, fails, log, ckpt, owner, steals, up>>
    BY DEF Fetch, FetchBatch, Rest, streams, EInv, workerVars
  <1>2. \A x \in Worker, z \in Shard : batch[x][z].pos \in Nat /\ ckpt[z] \in Nat
    BY <1>1, ThreadTypes
  <1>3. /\ batch'[w][s].pos = ckpt[s] + 1
        /\ \A x \in Worker, z \in Shard : ~(x = w /\ z = s) => batch'[x][z] = batch[x][z]
    <2>1. PICK e : batch' = [batch EXCEPT ![w][s] = [pos |-> ckpt[s] + 1, end |-> e]]
      BY <1>1 DEF FetchBatch
    <2>2. batch \in [Worker -> [Shard -> [pos : Nat, end : Nat]]]
      BY <1>1 DEF TypeOK, ShardTypeOK
    <2>. QED BY <2>1, <2>2
  <1>4. ASSUME fails = 0 PROVE PassedHasItem'
    <2>1. \A z \in Shard : \A i \in Nat \ {0} :
            i <= ckpt[z] \/ (\E x \in Worker : i < batch'[x][z].pos)
               => i <= ckpt[z] \/ \E x \in Worker : i < batch[x][z].pos
      <3>. SUFFICES ASSUME NEW z \in Shard, NEW i \in Nat \ {0},
                           NEW x \in Worker, i < batch'[x][z].pos
                    PROVE  i <= ckpt[z] \/ \E y \in Worker : i < batch[y][z].pos
        OBVIOUS
      <3>1. CASE x = w /\ z = s
        BY <1>2, <1>3, <3>1
      <3>2. CASE ~(x = w /\ z = s)
        BY <1>3, <3>2
      <3>. QED BY <3>1, <3>2
    <2>2. \A z \in Shard : 1..Len(log[z]) \subseteq Nat \ {0}
      BY <1>1, ThreadTypes
    <2>. QED BY <1>1, <1>4, <2>1, <2>2 DEF RecentOK, PassedHasItem, HasItem
  <1>5. ASSUME steals = 0 PROVE OneHolder'
    <2>1. ASSUME NEW x \in Worker, NEW z \in Shard, up[x], ~(batch'[x][z].pos = 0)
          PROVE  owner[z] = x /\ ckpt[z] < batch'[x][z].pos
      <3>1. CASE x = w /\ z = s
        BY <1>1, <1>2, <1>3, <3>1
      <3>2. CASE ~(x = w /\ z = s)
        BY <1>3, <1>5, <2>1, <3>2 DEF RecentOK, OneHolder, Idle
      <3>. QED BY <3>1, <3>2
    <2>. QED BY <1>1, <2>1 DEF OneHolder, Idle
  <1>6. ASSUME fails = 0, steals = 0, NEW x \in items \cap Record, x.id \in Trade
        PROVE  LastOrWaits(x)'
    <2>1. \A z \in Shard : \A k \in Nat : Waits(z, k) => Waits(z, k)'
      <3>. SUFFICES ASSUME NEW z \in Shard, NEW k \in Nat, Waits(z, k)
                    PROVE  Waits(z, k)'
        OBVIOUS
      <3>1. \A y \in Worker : up[y] /\ ~(batch'[y][z].pos = 0) => batch'[y][z].pos <= k
        <4>. SUFFICES ASSUME NEW y \in Worker, up[y], ~(batch'[y][z].pos = 0)
                      PROVE  batch'[y][z].pos <= k
          OBVIOUS
        <4>1. CASE y = w /\ z = s
          BY <1>2, <1>3, <4>1 DEF Waits
        <4>2. CASE ~(y = w /\ z = s)
          BY <1>3, <4>2 DEF Waits, Idle
        <4>. QED BY <4>1, <4>2
      <3>. QED BY <1>1, <3>1 DEF Waits, Idle
    <2>2. LastOrWaits(x)
      BY <1>6 DEF RecentOK
    <2>3. \A z \in Shard : 1..Len(log[z]) \subseteq Nat
      OBVIOUS
    <2>. QED BY <1>1, <2>1, <2>2, <2>3 DEF LastOrWaits
  <1>. QED BY <1>1, <1>4, <1>5, <1>6 DEF RecentOK

LEMMA LeaseRecent ==
  ASSUME EInv, RecentOK, NEW w \in Worker, NEW s \in Shard, Take(w, s) \/ Steal(w, s)
  PROVE  RecentOK'
  <1>1. /\ TakeLease(w, s) \/ StealLease(w, s)
        /\ UNCHANGED <<items, fails, log, ckpt, batch, up>> /\ TypeOK
        /\ owner' = [owner EXCEPT ![s] = w] /\ Idle(w, s)
    BY DEF Take, Steal, TakeLease, StealLease, Rest, streams, EInv, workerVars
  <1>2. fails \in Nat /\ steals \in Nat /\ owner \in [Shard -> Worker \cup {NoWorker}]
    BY <1>1 DEF TypeOK, ShardTypeOK
  <1>3. steals' \in Nat /\ steals' >= steals
    BY <1>1, <1>2 DEF TakeLease, StealLease
  <1>4. ASSUME steals' = 0 PROVE OneHolder'
    <2>1. steals = 0 /\ (owner[s] \in Worker => ~up[owner[s]])
      BY <1>1, <1>2, <1>3, <1>4 DEF TakeLease, StealLease
    <2>2. ASSUME NEW x \in Worker, NEW z \in Shard, up[x], ~(batch[x][z].pos = 0)
          PROVE  owner'[z] = x /\ ckpt[z] < batch[x][z].pos
      <3>1. owner[z] = x /\ ckpt[z] < batch[x][z].pos
        BY <2>1, <2>2 DEF RecentOK, OneHolder, Idle
      <3>2. z # s
        BY <2>1, <2>2, <3>1
      <3>. QED BY <1>1, <1>2, <3>1, <3>2
    <2>. QED BY <1>1, <2>2 DEF OneHolder, Idle
  <1>5. ItemsKept
    BY <1>1, SameItems
  <1>. QED BY <1>1, <1>2, <1>3, <1>4, <1>5, RecentStays

LEMMA RestartRecent ==
  ASSUME EInv, RecentOK, NEW w \in Worker, Restart(w)
  PROVE  RecentOK'
  <1>1. /\ RestartWorker(w) /\ UNCHANGED <<items, fails, log, ckpt, steals>> /\ TypeOK
    BY DEF Restart, RestartWorker, streams, EInv
  <1>2. /\ up' = [up EXCEPT ![w] = TRUE]
        /\ batch' = [batch EXCEPT ![w] = [s \in Shard |-> NoBatch]]
        /\ owner' = [s \in Shard |-> IF owner[s] = w THEN NoWorker ELSE owner[s]]
    BY <1>1 DEF RestartWorker
  <1>3. /\ batch \in [Worker -> [Shard -> [pos : Nat, end : Nat]]]
        /\ up \in [Worker -> BOOLEAN]
    BY <1>1 DEF TypeOK, ShardTypeOK
  <1>4. \A x \in Worker, z \in Shard :
          /\ x = w => batch'[x][z].pos = 0
          /\ x # w => batch'[x][z] = batch[x][z] /\ up'[x] = up[x]
    BY <1>2, <1>3 DEF NoBatch
  <1>5. ASSUME fails = 0 PROVE PassedHasItem'
    <2>1. \A z \in Shard : \A i \in Nat \ {0} :
            (\E x \in Worker : i < batch'[x][z].pos) => \E x \in Worker : i < batch[x][z].pos
      <3>. SUFFICES ASSUME NEW z \in Shard, NEW i \in Nat \ {0},
                           NEW x \in Worker, i < batch'[x][z].pos
                    PROVE  \E y \in Worker : i < batch[y][z].pos
        OBVIOUS
      <3>1. x # w
        BY <1>4
      <3>. QED BY <1>4, <3>1
    <2>2. \A z \in Shard : 1..Len(log[z]) \subseteq Nat \ {0}
      BY <1>1, ThreadTypes
    <2>. QED BY <1>1, <1>5, <2>1, <2>2 DEF RecentOK, PassedHasItem, HasItem
  <1>6. ASSUME steals = 0 PROVE OneHolder'
    <2>1. ASSUME NEW x \in Worker, NEW z \in Shard, up'[x], ~(batch'[x][z].pos = 0)
          PROVE  owner'[z] = x /\ ckpt[z] < batch'[x][z].pos
      <3>1. x # w
        BY <1>4, <2>1
      <3>2. owner[z] = x /\ ckpt[z] < batch[x][z].pos
        BY <1>4, <1>6, <2>1, <3>1 DEF RecentOK, OneHolder, Idle
      <3>. QED BY <1>2, <1>4, <3>1, <3>2
    <2>. QED BY <1>1, <2>1 DEF OneHolder, Idle
  <1>7. ASSUME fails = 0, steals = 0, NEW x \in items \cap Record, x.id \in Trade
        PROVE  LastOrWaits(x)'
    <2>1. \A z \in Shard : \A k : Waits(z, k) => Waits(z, k)'
      <3>. SUFFICES ASSUME NEW z \in Shard, NEW k, Waits(z, k)
                    PROVE  Waits(z, k)'
        OBVIOUS
      <3>1. \A y \in Worker : up'[y] /\ ~(batch'[y][z].pos = 0) => batch'[y][z].pos <= k
        BY <1>4 DEF Waits, Idle
      <3>. QED BY <1>1, <3>1 DEF Waits, Idle
    <2>2. LastOrWaits(x)
      BY <1>7 DEF RecentOK
    <2>. QED BY <1>1, <2>1, <2>2 DEF LastOrWaits
  <1>. QED BY <1>1, <1>5, <1>6, <1>7 DEF RecentOK

LEMMA RecentNext ==
  ASSUME EgressAssumption, EInv, RecentOK, [Next]_vars
  PROVE  RecentOK'
  <1>. TypeOK
    BY DEF EInv
  <1>1. fails \in Nat /\ steals \in Nat
    BY DEF TypeOK, ShardTypeOK
  <1>2. ASSUME NEW r \in Record, NEW s \in Shard, ReceiveRecord(r, s)
        PROVE  RecentOK'
    BY <1>2, ReceiveRecent
  <1>3. ASSUME NEW w \in Worker, NEW s \in Shard, WorkerStep(w, s)
        PROVE  RecentOK'
    <2>1. CASE Take(w, s) \/ Steal(w, s)
      BY <2>1, LeaseRecent
    <2>2. CASE Fetch(w, s)
      BY <2>2, FetchRecent
    <2>3. CASE ProcessBatch(w, s)
      BY <2>3, StoreTradeRecent, CollectNackRecent, StoreNextRecent, PushRecent DEF ProcessBatch
    <2>4. CASE Checkpoint(w, s)
      BY <2>4, CheckpointRecent
    <2>. QED BY <1>3, <2>1, <2>2, <2>3, <2>4 DEF WorkerStep, ThreadStep
  <1>4. ASSUME NEW w \in Worker, Crash(w)
        PROVE  RecentOK'
    <2>1. /\ UNCHANGED <<log, ckpt, owner, batch, steals, items, fails>>
          /\ up' = [up EXCEPT ![w] = FALSE]
      BY <1>4 DEF Crash, CrashWorker, shardVars, Rest, streams
    <2>2. \A x \in Worker : up'[x] => up[x]
      BY <2>1 DEF TypeOK, ShardTypeOK
    <2>. QED BY <1>1, <2>1, <2>2, QuietRecent
  <1>5. ASSUME NEW w \in Worker, Restart(w)
        PROVE  RecentOK'
    BY <1>5, RestartRecent
  <1>6. CASE UNCHANGED vars
    BY <1>1, <1>6, QuietRecent DEF vars, shardVars, workerVars, streams
  <1>. QED BY <1>2, <1>3, <1>4, <1>5, <1>6 DEF Next

(* With everything checkpointed nothing waits any more. *)
LEMMA DrainedIsRecent ==
  ASSUME EInv, RecentOK
  PROVE  ItemIsRecent
  <1>. SUFFICES ASSUME Drained, steals = 0, fails = 0, NEW t \in Trade, Latest(t) # {}
                PROVE  Latest(t) \cap items # {}
    BY DEF ItemIsRecent
  <1>1. TypeOK
    BY DEF EInv
  <1>2. PICK s \in Shard : \E i \in DOMAIN log[s] : log[s][i].id = t
    BY DEF Latest, LastOf
  <1>3. PICK i \in DOMAIN log[s] : log[s][i].id = t
    BY <1>2
  <1>4. i \in 1..Len(log[s]) /\ i <= ckpt[s]
    BY <1>1, ThreadTypes DEF Drained
  <1>5. HasItem(log[s][i])
    BY <1>3, <1>4 DEF RecentOK, PassedHasItem
  <1>6. PICK x \in items \cap Record : x.id = t
    BY <1>3, <1>5 DEF HasItem
  <1>7. PICK z \in Shard : \E k \in 1..Len(log[z]) :
           /\ log[z][k] = x
           /\ \A j \in 1..Len(log[z]) : j > k /\ log[z][j].id = x.id => Waits(z, j)
    BY <1>6 DEF RecentOK, LastOrWaits
  <1>8. PICK k \in 1..Len(log[z]) :
           /\ log[z][k] = x
           /\ \A j \in 1..Len(log[z]) : j > k /\ log[z][j].id = x.id => Waits(z, j)
    BY <1>7
  <1>9. DOMAIN log[z] = 1..Len(log[z]) /\ Len(log[z]) \in Nat
    BY <1>1, ThreadTypes
  <1>10. \A j \in 1..Len(log[z]) : ~Waits(z, j)
    BY <1>9 DEF Waits, Drained
  <1>11. \A j \in 1..Len(log[z]) : log[z][j].id = t => j <= k
    BY <1>6, <1>8, <1>9, <1>10
  <1>12. x \in LastOf(log[z], t)
    BY <1>6, <1>8, <1>9, <1>11 DEF LastOf
  <1>. QED BY <1>6, <1>12 DEF Latest

----------------------------------------------------------------------------
(* A thread of the gateway, whichever of the two processors runs it: what  *)
(* a step can do with its shard, checkpoint n, batch b, list t and queue q. *)
GatewayMove(shard, n, m, b, c, t, u, q, p) ==
  \/ m = n /\ c = b /\ u = t /\ (p = q \/ (t # <<>> /\ p = Append(q, Head(t))))
  \/ /\ b.pos = 0 /\ m = n /\ u = t /\ p = q
     /\ \E e \in (n + 1)..Len(shard) : c = [pos |-> n + 1, end |-> e]
  \/ /\ b.pos # 0 /\ b.pos <= b.end /\ m = n /\ p = q
     /\ c = [pos |-> b.pos + 1, end |-> b.end] /\ u = Append(t, shard[b.pos])
  \/ /\ b.pos > b.end /\ t # <<>> /\ m = n /\ c = b
     /\ u = Tail(t) /\ p = Append(q, Head(t))
  \/ /\ b.pos > b.end /\ t = <<>> /\ m = b.end /\ c = NoBatch /\ u = t /\ p = q

LEMMA HeadTailElements ==
  ASSUME NEW R, NEW t \in Seq(R), t # <<>>
  PROVE  /\ Head(t) \in R /\ Tail(t) \in Seq(R)
         /\ Elements(t) = {Head(t)} \cup Elements(Tail(t))
  <1>1. /\ Len(t) \in Nat \ {0} /\ Head(t) = t[1] /\ DOMAIN t = 1..Len(t)
        /\ Tail(t) \in Seq(R) /\ Len(Tail(t)) = Len(t) - 1
        /\ DOMAIN Tail(t) = 1..(Len(t) - 1)
        /\ \A i \in 1..(Len(t) - 1) : Tail(t)[i] = t[i + 1]
    OBVIOUS
  <1>2. Elements(Tail(t)) \subseteq Elements(t) /\ Head(t) \in Elements(t)
    BY <1>1 DEF Elements
  <1>3. ASSUME NEW i \in 1..Len(t), i # 1 PROVE t[i] \in Elements(Tail(t))
    <2>1. i - 1 \in 1..(Len(t) - 1) /\ Tail(t)[i - 1] = t[i]
      <3>1. i - 1 \in 1..(Len(t) - 1) /\ i - 1 + 1 = i
        BY <1>1, <1>3
      <3>2. Tail(t)[i - 1] = t[i - 1 + 1]
        BY <1>1, <3>1
      <3>. QED BY <3>1, <3>2
    <2>. QED BY <1>1, <2>1 DEF Elements
  <1>4. Elements(t) \subseteq {Head(t)} \cup Elements(Tail(t))
    BY <1>1, <1>3 DEF Elements
  <1>. QED BY <1>1, <1>2, <1>4

(* Nothing is dropped between the shard, the list and the queue. *)
Handed(shard, b, t, u, q, p) ==
  /\ Elements(q) \subseteq Elements(p)
  /\ Elements(p) \subseteq Elements(q) \cup Elements(t)
  /\ Elements(t) \subseteq Elements(u) \cup Elements(p)
  /\ \/ Elements(u) \subseteq Elements(t)
     \/ /\ b.pos # 0 /\ b.pos <= b.end
        /\ Elements(u) = Elements(t) \cup {shard[b.pos]}

LEMMA MoveElements ==
  ASSUME NEW R, NEW shard \in Seq(R), NEW n \in Nat, NEW m,
         NEW b \in [pos : Nat, end : Nat], NEW c,
         NEW t \in Seq(R), NEW u, NEW q \in Seq(R), NEW p,
         b.end <= Len(shard), b.pos <= b.end + 1,
         GatewayMove(shard, n, m, b, c, t, u, q, p)
  PROVE  /\ m \in Nat /\ c \in [pos : Nat, end : Nat] /\ u \in Seq(R) /\ p \in Seq(R)
         /\ Handed(shard, b, t, u, q, p)
  <1>1. b.pos \in Nat /\ b.end \in Nat /\ Len(shard) \in Nat
    OBVIOUS
  <1>2. t # <<>> => /\ Append(q, Head(t)) \in Seq(R) /\ Tail(t) \in Seq(R)
                    /\ Elements(t) = {Head(t)} \cup Elements(Tail(t))
                    /\ Elements(Append(q, Head(t))) = Elements(q) \cup {Head(t)}
    BY HeadTailElements, AppendElements
  <1>3. b.pos # 0 /\ b.pos <= b.end =>
          /\ shard[b.pos] \in R /\ Append(t, shard[b.pos]) \in Seq(R)
          /\ Elements(Append(t, shard[b.pos])) = Elements(t) \cup {shard[b.pos]}
    <2>. SUFFICES ASSUME b.pos # 0, b.pos <= b.end
                  PROVE  /\ shard[b.pos] \in R /\ Append(t, shard[b.pos]) \in Seq(R)
                         /\ Elements(Append(t, shard[b.pos])) = Elements(t) \cup {shard[b.pos]}
      OBVIOUS
    <2>1. b.pos \in 1..Len(shard)
      BY <1>1
    <2>2. shard[b.pos] \in R
      BY <2>1, ElementAt
    <2>. QED BY <2>2, AppendElements
  <1>4. CASE m = n /\ c = b /\ u = t /\ (p = q \/ (t # <<>> /\ p = Append(q, Head(t))))
    BY <1>2, <1>4 DEF Handed
  <1>5. CASE /\ b.pos = 0 /\ m = n /\ u = t /\ p = q
             /\ \E e \in (n + 1)..Len(shard) : c = [pos |-> n + 1, end |-> e]
    BY <1>5 DEF Handed
  <1>6. CASE /\ b.pos # 0 /\ b.pos <= b.end /\ m = n /\ p = q
             /\ c = [pos |-> b.pos + 1, end |-> b.end] /\ u = Append(t, shard[b.pos])
    BY <1>1, <1>3, <1>6 DEF Handed
  <1>7. CASE /\ b.pos > b.end /\ t # <<>> /\ m = n /\ c = b
             /\ u = Tail(t) /\ p = Append(q, Head(t))
    BY <1>2, <1>7 DEF Handed
  <1>8. CASE b.pos > b.end /\ t = <<>> /\ m = b.end /\ c = NoBatch /\ u = t /\ p = q
    BY <1>1, <1>8 DEF Handed, NoBatch
  <1>. QED BY <1>4, <1>5, <1>6, <1>7, <1>8 DEF GatewayMove

(* What a thread has passed stays in its list or in the queue, which only   *)
(* grows, and what a checkpoint has passed stays in the queue.              *)
LEMMA MovePasses ==
  ASSUME NEW R, NEW shard \in Seq(R), NEW n \in Nat, NEW m,
         NEW b \in [pos : Nat, end : Nat], NEW c,
         NEW t \in Seq(R), NEW u, NEW q \in Seq(R), NEW p,
         ShardPassed(shard, n, q), ThreadPasses(shard, b, t, q),
         GatewayMove(shard, n, m, b, c, t, u, q, p)
  PROVE  ShardPassed(shard, m, p) /\ ThreadPasses(shard, c, u, p)
  <1>1. /\ b.pos \in Nat /\ b.end \in Nat /\ Len(shard) \in Nat
        /\ b.end <= Len(shard) /\ b.pos <= b.end + 1
        /\ b.pos = 0 => t = <<>>
    BY DEF ThreadPasses
  <1>2. /\ Elements(q) \subseteq Elements(p)
        /\ Elements(t) \subseteq Elements(u) \cup Elements(p)
    <2>1. Handed(shard, b, t, u, q, p)
      BY <1>1, MoveElements
    <2>. QED BY <2>1 DEF Handed
  <1>3. ShardPassed(shard, n, p)
    BY <1>2 DEF ShardPassed
  <1>4. \A i \in 1..Len(shard) : i < b.pos => shard[i] \in Elements(u) \cup Elements(p)
    BY <1>2 DEF ThreadPasses
  <1>5. CASE m = n /\ c = b /\ u = t
    BY <1>1, <1>3, <1>4, <1>5 DEF ThreadPasses
  <1>6. CASE /\ b.pos = 0 /\ m = n /\ u = t /\ p = q
             /\ \E e \in (n + 1)..Len(shard) : c = [pos |-> n + 1, end |-> e]
    <2>1. PICK e \in (n + 1)..Len(shard) : c = [pos |-> n + 1, end |-> e]
      BY <1>6
    <2>2. \A i \in 1..Len(shard) : i < n + 1 => shard[i] \in Elements(p)
      BY <1>3 DEF ShardPassed
    <2>3. c.pos = n + 1 /\ c.end = e /\ e <= Len(shard) /\ n + 1 <= e + 1
      BY <1>1, <2>1
    <2>. QED BY <1>3, <1>6, <2>2, <2>3 DEF ThreadPasses
  <1>7. CASE /\ b.pos # 0 /\ b.pos <= b.end /\ m = n /\ p = q
             /\ c = [pos |-> b.pos + 1, end |-> b.end] /\ u = Append(t, shard[b.pos])
    <2>1. c.pos = b.pos + 1 /\ c.end = b.end
      BY <1>7
    <2>2. shard[b.pos] \in Elements(u)
      <3>1. b.pos \in 1..Len(shard)
        BY <1>1, <1>7
      <3>2. shard[b.pos] \in R
        BY <3>1, ElementAt
      <3>. QED BY <1>7, <3>2, AppendElements
    <2>3. \A i \in 1..Len(shard) : i < b.pos + 1 => shard[i] \in Elements(u) \cup Elements(p)
      BY <1>1, <1>4, <2>2
    <2>. QED BY <1>1, <1>3, <1>7, <2>1, <2>3 DEF ThreadPasses
  <1>8. CASE /\ b.pos > b.end /\ t # <<>> /\ m = n /\ c = b
             /\ u = Tail(t) /\ p = Append(q, Head(t))
    <2>1. b.pos # 0
      BY <1>1, <1>8
    <2>. QED BY <1>1, <1>3, <1>4, <1>8, <2>1 DEF ThreadPasses
  <1>9. CASE b.pos > b.end /\ t = <<>> /\ m = b.end /\ c = NoBatch /\ u = t /\ p = q
    <2>1. \A i \in 1..b.end : shard[i] \in Elements(p)
      BY <1>1, <1>4, <1>9, EmptyElements
    <2>2. c.pos = 0 /\ c.end = 0
      BY <1>9 DEF NoBatch
    <2>3. ShardPassed(shard, b.end, p)
      BY <1>1, <2>1 DEF ShardPassed
    <2>4. ThreadPasses(shard, c, u, p)
      BY <1>1, <1>9, <2>2 DEF ThreadPasses
    <2>. QED BY <1>9, <2>3, <2>4
  <1>. QED BY <1>5, <1>6, <1>7, <1>8, <1>9 DEF GatewayMove

(* The shard and the queue may grow under a thread. *)
LEMMA PassesGrow ==
  ASSUME NEW shard, NEW longer, Continues(shard, longer), NEW q, NEW p,
         Elements(q) \subseteq Elements(p)
  PROVE  /\ \A n \in Nat : ShardPassed(shard, n, q) => ShardPassed(longer, n, p)
         /\ \A b \in [pos : Nat, end : Nat] : \A t :
              ThreadPasses(shard, b, t, q) => ThreadPasses(longer, b, t, p)
  <1>1. /\ Len(shard) \in Nat /\ Len(longer) \in Nat /\ Len(shard) <= Len(longer)
        /\ \A i \in 1..Len(shard) : longer[i] = shard[i]
    BY DEF Continues
  <1>2. ASSUME NEW n \in Nat, ShardPassed(shard, n, q) PROVE ShardPassed(longer, n, p)
    BY <1>1, <1>2 DEF ShardPassed
  <1>3. ASSUME NEW b \in [pos : Nat, end : Nat], NEW t, ThreadPasses(shard, b, t, q)
        PROVE  ThreadPasses(longer, b, t, p)
    <2>1. /\ b.pos \in Nat /\ b.end \in Nat /\ b.end <= Len(shard) /\ b.pos <= b.end + 1
          /\ b.pos = 0 => t = <<>>
          /\ \A i \in 1..Len(shard) : i < b.pos => shard[i] \in Elements(t) \cup Elements(q)
      BY <1>3 DEF ThreadPasses
    <2>2. b.end <= Len(longer)
      BY <1>1, <2>1
    <2>3. ASSUME NEW i \in 1..Len(longer), i < b.pos
          PROVE  longer[i] \in Elements(t) \cup Elements(p)
      <3>1. i \in 1..Len(shard)
        BY <1>1, <2>1, <2>3
      <3>. QED BY <1>1, <2>1, <2>3, <3>1
    <2>. QED BY <2>1, <2>2, <2>3 DEF ThreadPasses
  <1>. QED BY <1>2, <1>3

LEMMA FreshPasses ==
  ASSUME NEW R, NEW shard \in Seq(R), NEW q
  PROVE  ThreadPasses(shard, NoBatch, <<>>, q)
  BY DEF ThreadPasses, NoBatch



(* What a step of the processor of answers does. *)
LEMMA AnswerMoves ==
  ASSUME DeliveryTypeOK, NEW g \in GatewayTask, NEW z \in ResponseShard,
         Answers!WorkerStep(g, z)
  PROVE  /\ GatewayMove(responses[z], rckpt[z], rckpt'[z], rbatch[g][z], rbatch'[g][z],
                        rtodo[g][z], rtodo'[g][z], answers, answers')
         /\ rckpt' = [rckpt EXCEPT ![z] = rckpt'[z]]
         /\ rbatch' = [rbatch EXCEPT ![g][z] = rbatch'[g][z]]
         /\ rtodo' = [rtodo EXCEPT ![g][z] = rtodo'[g][z]]
         /\ UNCHANGED <<responses, crashes>>
         /\ rowner' \in [ResponseShard -> GatewayTask \cup {NoWorker}]
         /\ gup' \in [GatewayTask -> BOOLEAN]
         /\ steals' \in Nat /\ steals' >= steals /\ fails' \in Nat /\ fails' >= fails
  <1>1. /\ responses \in [ResponseShard -> Seq(Record)] /\ rckpt \in [ResponseShard -> Nat]
        /\ rowner \in [ResponseShard -> GatewayTask \cup {NoWorker}]
        /\ rbatch \in [GatewayTask -> [ResponseShard -> [pos : Nat, end : Nat]]]
        /\ steals \in Nat /\ gup \in [GatewayTask -> BOOLEAN] /\ crashes \in Nat
        /\ rtodo \in [GatewayTask -> [ResponseShard -> Seq(Record)]]
        /\ answers \in Seq(Record) /\ fails \in Nat
    BY DEF DeliveryTypeOK, Answers!TypeOK, Answers!ShardTypeOK
  <1>2. ASSUME NEW n \in Nat
        PROVE  /\ [rckpt EXCEPT ![z] = n][z] = n /\ rckpt = [rckpt EXCEPT ![z] = rckpt[z]]
    BY <1>1
  <1>3. /\ rbatch = [rbatch EXCEPT ![g][z] = rbatch[g][z]]
        /\ rtodo = [rtodo EXCEPT ![g][z] = rtodo[g][z]]
    BY <1>1
  <1>4. /\ rbatch[g][z].pos \in Nat /\ rbatch[g][z].end \in Nat
        /\ Len(responses[z]) \in Nat /\ rtodo[g][z] \in Seq(Record)
    BY <1>1
  <1>5. \A x : [rbatch EXCEPT ![g][z] = x][g][z] = x /\ [rtodo EXCEPT ![g][z] = x][g][z] = x
    BY <1>1
  <1>6. CASE Answers!Take(g, z) \/ Answers!Steal(g, z)
    <2>1. /\ UNCHANGED <<responses, crashes, rckpt, rbatch, gup, rtodo, answers, fails>>
          /\ rowner' = [rowner EXCEPT ![z] = g] /\ (steals' = steals \/ steals' = steals + 1)
      BY <1>6 DEF Answers!Take, Answers!Steal, Answers!TakeLease, Answers!StealLease,
                  Answers!Rest, Answers!workerVars
    <2>2. /\ rowner' \in [ResponseShard -> GatewayTask \cup {NoWorker}]
          /\ steals' \in Nat /\ steals' >= steals
      BY <1>1, <2>1
    <2>. QED BY <1>1, <1>2, <1>3, <2>1, <2>2 DEF GatewayMove
  <1>7. CASE Answers!Fetch(g, z)
    <2>1. /\ UNCHANGED <<responses, crashes, rckpt, rowner, steals, gup, rtodo, answers, fails>>
          /\ rbatch[g][z].pos = 0
      BY <1>7 DEF Answers!Fetch, Answers!FetchBatch, Answers!Idle, Answers!Rest, Answers!workerVars
    <2>2. PICK e \in (rckpt[z] + 1)..Len(responses[z]) :
            rbatch' = [rbatch EXCEPT ![g][z] = [pos |-> rckpt[z] + 1, end |-> e]]
      BY <1>7 DEF Answers!Fetch, Answers!FetchBatch
    <2>3. rbatch'[g][z] = [pos |-> rckpt[z] + 1, end |-> e]
      BY <1>5, <2>2
    <2>4. /\ rckpt' = [rckpt EXCEPT ![z] = rckpt'[z]]
          /\ rbatch' = [rbatch EXCEPT ![g][z] = rbatch'[g][z]]
          /\ rtodo' = [rtodo EXCEPT ![g][z] = rtodo'[g][z]]
      BY <1>1, <1>3, <2>1, <2>2, <2>3
    <2>5. GatewayMove(responses[z], rckpt[z], rckpt'[z], rbatch[g][z], rbatch'[g][z],
                      rtodo[g][z], rtodo'[g][z], answers, answers')
      BY <2>1, <2>3 DEF GatewayMove
    <2>. QED BY <1>1, <2>1, <2>4, <2>5
  <1>8. CASE Answers!StoreMessage(g, z)
    <2>1. /\ UNCHANGED <<responses, crashes, rckpt, rowner, steals, gup, answers>>
          /\ rbatch[g][z].pos # 0 /\ rbatch[g][z].pos <= rbatch[g][z].end
          /\ fails' = fails \/ fails' = fails + 1
          /\ rtodo' = [rtodo EXCEPT ![g][z] =
                         Append(rtodo[g][z], responses[z][rbatch[g][z].pos])]
          /\ rbatch' = [rbatch EXCEPT ![g][z] = [pos |-> @.pos + 1, end |-> @.end]]
      BY <1>8 DEF Answers!StoreMessage, Answers!Working, Answers!Idle, Answers!Current,
                  Answers!Goto, Answers!Fail, Answers!NextRecord, Answers!workerVars
    <2>2. /\ rbatch'[g][z] = [pos |-> rbatch[g][z].pos + 1, end |-> rbatch[g][z].end]
          /\ rtodo'[g][z] = Append(rtodo[g][z], responses[z][rbatch[g][z].pos])
      BY <1>1, <2>1
    <2>3. /\ rckpt' = [rckpt EXCEPT ![z] = rckpt'[z]]
          /\ rbatch' = [rbatch EXCEPT ![g][z] = rbatch'[g][z]]
          /\ rtodo' = [rtodo EXCEPT ![g][z] = rtodo'[g][z]]
      BY <1>1, <2>1, <2>2
    <2>4. GatewayMove(responses[z], rckpt[z], rckpt'[z], rbatch[g][z], rbatch'[g][z],
                      rtodo[g][z], rtodo'[g][z], answers, answers')
      BY <2>1, <2>2 DEF GatewayMove
    <2>. QED BY <1>1, <2>1, <2>3, <2>4
  <1>9. CASE Answers!SendMessage(g, z)
    <2>1. /\ UNCHANGED <<responses, crashes, rckpt, rowner, rbatch, steals>>
          /\ rbatch[g][z].pos > rbatch[g][z].end /\ rtodo[g][z] # <<>>
          /\ \/ /\ answers' = Append(answers, Head(rtodo[g][z])) /\ UNCHANGED <<gup, fails>>
                /\ rtodo' = [rtodo EXCEPT ![g][z] = Tail(rtodo[g][z])]
             \/ /\ fails' = fails + 1 /\ UNCHANGED rtodo
                /\ gup' = [gup EXCEPT ![g] = FALSE]
                /\ answers' = answers \/ answers' = Append(answers, Head(rtodo[g][z]))
      BY <1>9 DEF Answers!SendMessage, Answers!Finished, Answers!Goto, Answers!Fail, Answers!Halt,
                  Answers!StayAtRecord, Answers!shardVars, Answers!workerVars
    <2>2. \/ rtodo'[g][z] = Tail(rtodo[g][z]) /\ answers' = Append(answers, Head(rtodo[g][z]))
          \/ /\ rtodo' = rtodo
             /\ answers' = answers \/ answers' = Append(answers, Head(rtodo[g][z]))
      <3>1. \A x : rtodo' = [rtodo EXCEPT ![g][z] = x] => rtodo'[g][z] = x
        BY <1>5
      <3>. QED BY <2>1, <3>1
    <2>3. /\ rckpt' = [rckpt EXCEPT ![z] = rckpt'[z]]
          /\ rbatch' = [rbatch EXCEPT ![g][z] = rbatch'[g][z]]
          /\ rtodo' = [rtodo EXCEPT ![g][z] = rtodo'[g][z]]
      BY <1>1, <2>1, <2>2
    <2>4. GatewayMove(responses[z], rckpt[z], rckpt'[z], rbatch[g][z], rbatch'[g][z],
                      rtodo[g][z], rtodo'[g][z], answers, answers')
      BY <2>1, <2>2 DEF GatewayMove
    <2>5. /\ rowner' \in [ResponseShard -> GatewayTask \cup {NoWorker}]
          /\ steals' \in Nat /\ steals' >= steals
      BY <1>1, <2>1
    <2>6. gup' \in [GatewayTask -> BOOLEAN]
      <3>1. gup' = gup \/ gup' = [gup EXCEPT ![g] = FALSE]
        BY <2>1
      <3>2. [gup EXCEPT ![g] = FALSE] \in [GatewayTask -> BOOLEAN]
        BY <1>1
      <3>. QED BY <1>1, <3>1, <3>2
    <2>7. fails' \in Nat /\ fails' >= fails
      BY <1>1, <2>1
    <2>. QED BY <2>1, <2>3, <2>4, <2>5, <2>6, <2>7
  <1>10. CASE Answers!Checkpoint(g, z)
    <2>1. /\ UNCHANGED <<responses, crashes, rowner, steals, rtodo, answers, fails>>
          /\ rbatch[g][z].pos > rbatch[g][z].end /\ rtodo[g][z] = <<>>
          /\ \/ /\ rckpt' = [rckpt EXCEPT ![z] = rbatch[g][z].end] /\ gup' = gup
                /\ rbatch' = [rbatch EXCEPT ![g][z] = NoBatch]
             \/ UNCHANGED <<rckpt, rbatch>> /\ gup' = [gup EXCEPT ![g] = FALSE]
      BY <1>10 DEF Answers!Checkpoint, Answers!CheckpointBatch, Answers!Finished, Answers!Halt,
                   Answers!Rest, Answers!shardVars, Answers!workerVars, Answers!NoBatch, NoBatch
    <2>2. \/ rckpt'[z] = rbatch[g][z].end /\ rbatch'[g][z] = NoBatch
          \/ UNCHANGED <<rckpt, rbatch>>
      BY <1>1, <2>1
    <2>3. /\ rckpt' = [rckpt EXCEPT ![z] = rckpt'[z]]
          /\ rbatch' = [rbatch EXCEPT ![g][z] = rbatch'[g][z]]
          /\ rtodo' = [rtodo EXCEPT ![g][z] = rtodo'[g][z]]
      BY <1>1, <2>1, <2>2
    <2>4. GatewayMove(responses[z], rckpt[z], rckpt'[z], rbatch[g][z], rbatch'[g][z],
                      rtodo[g][z], rtodo'[g][z], answers, answers')
      BY <2>1, <2>2 DEF GatewayMove
    <2>5. /\ rowner' \in [ResponseShard -> GatewayTask \cup {NoWorker}]
          /\ steals' \in Nat /\ steals' >= steals
      BY <1>1, <2>1
    <2>6. gup' \in [GatewayTask -> BOOLEAN]
      <3>1. gup' = gup \/ gup' = [gup EXCEPT ![g] = FALSE]
        BY <2>1
      <3>2. [gup EXCEPT ![g] = FALSE] \in [GatewayTask -> BOOLEAN]
        BY <1>1
      <3>. QED BY <1>1, <3>1, <3>2
    <2>7. fails' \in Nat /\ fails' >= fails
      BY <1>1, <2>1
    <2>. QED BY <2>1, <2>3, <2>4, <2>5, <2>6, <2>7
  <1>. QED BY <1>6, <1>7, <1>8, <1>9, <1>10
           DEF Answers!WorkerStep, Answers!ThreadStep, Answers!ProcessBatch

(* A write puts the answer in the place of those with its id, or fails.     *)
LEMMA AnswerWrites ==
  ASSUME NEW g \in GatewayTask, NEW z \in ResponseShard, Answers!StoreMessage(g, z)
  PROVE  LET m   == responses[z][rbatch[g][z].pos]
             new == {x \in ritems : x.id # m.id} \cup {m}
         IN  \/ ritems' = new /\ fails' = fails
             \/ fails' = fails + 1 /\ (ritems' = new \/ ritems' = ritems)
  <1>. DEFINE m == responses[z][rbatch[g][z].pos]
  <1>1. {x \in ritems : ~SameId(m, x)} = {x \in ritems : x.id # m.id}
    BY DEF SameId
  <1>. QED BY <1>1 DEF Answers!StoreMessage, Answers!Keep, Answers!Fail, Answers!Current

(* Until a write fails, what it adds to its list has its item. *)
LEMMA AnswerStores ==
  ASSUME DeliveryTypeOK, NEW g \in GatewayTask, NEW z \in ResponseShard,
         Answers!WorkerStep(g, z)
  PROVE  /\ rbatch[g][z].pos # 0 /\ rbatch[g][z].pos <= rbatch[g][z].end =>
              LET m == responses[z][rbatch[g][z].pos]
              IN  ritems' = {x \in ritems : x.id # m.id} \cup {m} \/ (fails' # 0 /\ ritems' = ritems)
         /\ ~(rbatch[g][z].pos # 0 /\ rbatch[g][z].pos <= rbatch[g][z].end) => ritems' = ritems
  <1>1. /\ rbatch[g][z].pos \in Nat /\ rbatch[g][z].end \in Nat /\ fails \in Nat
    BY DEF DeliveryTypeOK, Answers!TypeOK, Answers!ShardTypeOK
  <1>2. CASE Answers!Take(g, z) \/ Answers!Steal(g, z) \/ Answers!Fetch(g, z)
    BY <1>2 DEF Answers!Take, Answers!Steal, Answers!Fetch, Answers!FetchBatch, Answers!TakeLease,
                Answers!StealLease, Answers!Idle, Answers!Rest
  <1>3. CASE Answers!StoreMessage(g, z)
    <2>1. rbatch[g][z].pos # 0 /\ rbatch[g][z].pos <= rbatch[g][z].end
      BY <1>3 DEF Answers!StoreMessage, Answers!Working, Answers!Idle
    <2>. DEFINE m   == responses[z][rbatch[g][z].pos]
                new == {x \in ritems : x.id # m.id} \cup {m}
    <2>2. \/ ritems' = new /\ fails' = fails
          \/ fails' = fails + 1 /\ (ritems' = new \/ ritems' = ritems)
      BY <1>3, AnswerWrites
    <2>3. fails + 1 # 0
      BY <1>1
    <2>. HIDE DEF m, new
    <2>4. ritems' = new \/ (fails' # 0 /\ ritems' = ritems)
      BY <2>2, <2>3
    <2>. QED BY <2>1, <2>4 DEF m, new
  <1>4. CASE Answers!SendMessage(g, z)
    BY <1>1, <1>4 DEF Answers!SendMessage, Answers!Finished
  <1>5. CASE Answers!Checkpoint(g, z)
    BY <1>1, <1>5 DEF Answers!Checkpoint, Answers!CheckpointBatch, Answers!Finished, Answers!Rest
  <1>. QED BY <1>2, <1>3, <1>4, <1>5
           DEF Answers!WorkerStep, Answers!ThreadStep, Answers!ProcessBatch

(* What a step of the processor of settlements does. *)
LEMMA SettlementMoves ==
  ASSUME DeliveryTypeOK, NEW g \in GatewayTask, NEW z \in SettlementShard,
         Settlements!WorkerStep(g, z)
  PROVE  /\ GatewayMove(settlements[z], sckpt[z], sckpt'[z], sbatch[g][z], sbatch'[g][z],
                        stodo[g][z], stodo'[g][z], sent, sent')
         /\ sckpt' = [sckpt EXCEPT ![z] = sckpt'[z]]
         /\ sbatch' = [sbatch EXCEPT ![g][z] = sbatch'[g][z]]
         /\ stodo' = [stodo EXCEPT ![g][z] = stodo'[g][z]]
         /\ UNCHANGED <<settlements, crashes>>
         /\ sowner' \in [SettlementShard -> GatewayTask \cup {NoWorker}]
         /\ gup' \in [GatewayTask -> BOOLEAN]
         /\ steals' \in Nat /\ steals' >= steals /\ fails' \in Nat /\ fails' >= fails
  <1>1. /\ settlements \in [SettlementShard -> Seq(Settlement)] /\ sckpt \in [SettlementShard -> Nat]
        /\ sowner \in [SettlementShard -> GatewayTask \cup {NoWorker}]
        /\ sbatch \in [GatewayTask -> [SettlementShard -> [pos : Nat, end : Nat]]]
        /\ steals \in Nat /\ gup \in [GatewayTask -> BOOLEAN] /\ crashes \in Nat
        /\ stodo \in [GatewayTask -> [SettlementShard -> Seq(Settlement)]]
        /\ sent \in Seq(Settlement) /\ fails \in Nat
    BY DEF DeliveryTypeOK, Settlements!TypeOK, Settlements!ShardTypeOK
  <1>2. ASSUME NEW n \in Nat
        PROVE  /\ [sckpt EXCEPT ![z] = n][z] = n /\ sckpt = [sckpt EXCEPT ![z] = sckpt[z]]
    BY <1>1
  <1>3. /\ sbatch = [sbatch EXCEPT ![g][z] = sbatch[g][z]]
        /\ stodo = [stodo EXCEPT ![g][z] = stodo[g][z]]
    BY <1>1
  <1>4. /\ sbatch[g][z].pos \in Nat /\ sbatch[g][z].end \in Nat
        /\ Len(settlements[z]) \in Nat /\ stodo[g][z] \in Seq(Settlement)
    BY <1>1
  <1>5. \A x : [sbatch EXCEPT ![g][z] = x][g][z] = x /\ [stodo EXCEPT ![g][z] = x][g][z] = x
    BY <1>1
  <1>6. CASE Settlements!Take(g, z) \/ Settlements!Steal(g, z)
    <2>1. /\ UNCHANGED <<settlements, crashes, sckpt, sbatch, gup, stodo, sent, fails>>
          /\ sowner' = [sowner EXCEPT ![z] = g] /\ (steals' = steals \/ steals' = steals + 1)
      BY <1>6 DEF Settlements!Take, Settlements!Steal, Settlements!TakeLease, Settlements!StealLease,
                  Settlements!Rest, Settlements!workerVars
    <2>2. /\ sowner' \in [SettlementShard -> GatewayTask \cup {NoWorker}]
          /\ steals' \in Nat /\ steals' >= steals
      BY <1>1, <2>1
    <2>. QED BY <1>1, <1>2, <1>3, <2>1, <2>2 DEF GatewayMove
  <1>7. CASE Settlements!Fetch(g, z)
    <2>1. /\ UNCHANGED <<settlements, crashes, sckpt, sowner, steals, gup, stodo, sent, fails>>
          /\ sbatch[g][z].pos = 0
      BY <1>7 DEF Settlements!Fetch, Settlements!FetchBatch, Settlements!Idle, Settlements!Rest, Settlements!workerVars
    <2>2. PICK e \in (sckpt[z] + 1)..Len(settlements[z]) :
            sbatch' = [sbatch EXCEPT ![g][z] = [pos |-> sckpt[z] + 1, end |-> e]]
      BY <1>7 DEF Settlements!Fetch, Settlements!FetchBatch
    <2>3. sbatch'[g][z] = [pos |-> sckpt[z] + 1, end |-> e]
      BY <1>5, <2>2
    <2>4. /\ sckpt' = [sckpt EXCEPT ![z] = sckpt'[z]]
          /\ sbatch' = [sbatch EXCEPT ![g][z] = sbatch'[g][z]]
          /\ stodo' = [stodo EXCEPT ![g][z] = stodo'[g][z]]
      BY <1>1, <1>3, <2>1, <2>2, <2>3
    <2>5. GatewayMove(settlements[z], sckpt[z], sckpt'[z], sbatch[g][z], sbatch'[g][z],
                      stodo[g][z], stodo'[g][z], sent, sent')
      BY <2>1, <2>3 DEF GatewayMove
    <2>. QED BY <1>1, <2>1, <2>4, <2>5
  <1>8. CASE Settlements!StoreMessage(g, z)
    <2>1. /\ UNCHANGED <<settlements, crashes, sckpt, sowner, steals, gup, sent>>
          /\ sbatch[g][z].pos # 0 /\ sbatch[g][z].pos <= sbatch[g][z].end
          /\ fails' = fails \/ fails' = fails + 1
          /\ stodo' = [stodo EXCEPT ![g][z] =
                         Append(stodo[g][z], settlements[z][sbatch[g][z].pos])]
          /\ sbatch' = [sbatch EXCEPT ![g][z] = [pos |-> @.pos + 1, end |-> @.end]]
      BY <1>8 DEF Settlements!StoreMessage, Settlements!Working, Settlements!Idle, Settlements!Current,
                  Settlements!Goto, Settlements!Fail, Settlements!NextRecord, Settlements!workerVars
    <2>2. /\ sbatch'[g][z] = [pos |-> sbatch[g][z].pos + 1, end |-> sbatch[g][z].end]
          /\ stodo'[g][z] = Append(stodo[g][z], settlements[z][sbatch[g][z].pos])
      BY <1>1, <2>1
    <2>3. /\ sckpt' = [sckpt EXCEPT ![z] = sckpt'[z]]
          /\ sbatch' = [sbatch EXCEPT ![g][z] = sbatch'[g][z]]
          /\ stodo' = [stodo EXCEPT ![g][z] = stodo'[g][z]]
      BY <1>1, <2>1, <2>2
    <2>4. GatewayMove(settlements[z], sckpt[z], sckpt'[z], sbatch[g][z], sbatch'[g][z],
                      stodo[g][z], stodo'[g][z], sent, sent')
      BY <2>1, <2>2 DEF GatewayMove
    <2>. QED BY <1>1, <2>1, <2>3, <2>4
  <1>9. CASE Settlements!SendMessage(g, z)
    <2>1. /\ UNCHANGED <<settlements, crashes, sckpt, sowner, sbatch, steals>>
          /\ sbatch[g][z].pos > sbatch[g][z].end /\ stodo[g][z] # <<>>
          /\ \/ /\ sent' = Append(sent, Head(stodo[g][z])) /\ UNCHANGED <<gup, fails>>
                /\ stodo' = [stodo EXCEPT ![g][z] = Tail(stodo[g][z])]
             \/ /\ fails' = fails + 1 /\ UNCHANGED stodo
                /\ gup' = [gup EXCEPT ![g] = FALSE]
                /\ sent' = sent \/ sent' = Append(sent, Head(stodo[g][z]))
      BY <1>9 DEF Settlements!SendMessage, Settlements!Finished, Settlements!Goto, Settlements!Fail, Settlements!Halt,
                  Settlements!StayAtRecord, Settlements!shardVars, Settlements!workerVars
    <2>2. \/ stodo'[g][z] = Tail(stodo[g][z]) /\ sent' = Append(sent, Head(stodo[g][z]))
          \/ /\ stodo' = stodo
             /\ sent' = sent \/ sent' = Append(sent, Head(stodo[g][z]))
      <3>1. \A x : stodo' = [stodo EXCEPT ![g][z] = x] => stodo'[g][z] = x
        BY <1>5
      <3>. QED BY <2>1, <3>1
    <2>3. /\ sckpt' = [sckpt EXCEPT ![z] = sckpt'[z]]
          /\ sbatch' = [sbatch EXCEPT ![g][z] = sbatch'[g][z]]
          /\ stodo' = [stodo EXCEPT ![g][z] = stodo'[g][z]]
      BY <1>1, <2>1, <2>2
    <2>4. GatewayMove(settlements[z], sckpt[z], sckpt'[z], sbatch[g][z], sbatch'[g][z],
                      stodo[g][z], stodo'[g][z], sent, sent')
      BY <2>1, <2>2 DEF GatewayMove
    <2>5. /\ sowner' \in [SettlementShard -> GatewayTask \cup {NoWorker}]
          /\ steals' \in Nat /\ steals' >= steals
      BY <1>1, <2>1
    <2>6. gup' \in [GatewayTask -> BOOLEAN]
      <3>1. gup' = gup \/ gup' = [gup EXCEPT ![g] = FALSE]
        BY <2>1
      <3>2. [gup EXCEPT ![g] = FALSE] \in [GatewayTask -> BOOLEAN]
        BY <1>1
      <3>. QED BY <1>1, <3>1, <3>2
    <2>7. fails' \in Nat /\ fails' >= fails
      BY <1>1, <2>1
    <2>. QED BY <2>1, <2>3, <2>4, <2>5, <2>6, <2>7
  <1>10. CASE Settlements!Checkpoint(g, z)
    <2>1. /\ UNCHANGED <<settlements, crashes, sowner, steals, stodo, sent, fails>>
          /\ sbatch[g][z].pos > sbatch[g][z].end /\ stodo[g][z] = <<>>
          /\ \/ /\ sckpt' = [sckpt EXCEPT ![z] = sbatch[g][z].end] /\ gup' = gup
                /\ sbatch' = [sbatch EXCEPT ![g][z] = NoBatch]
             \/ UNCHANGED <<sckpt, sbatch>> /\ gup' = [gup EXCEPT ![g] = FALSE]
      BY <1>10 DEF Settlements!Checkpoint, Settlements!CheckpointBatch, Settlements!Finished, Settlements!Halt,
                   Settlements!Rest, Settlements!shardVars, Settlements!workerVars, Settlements!NoBatch, NoBatch
    <2>2. \/ sckpt'[z] = sbatch[g][z].end /\ sbatch'[g][z] = NoBatch
          \/ UNCHANGED <<sckpt, sbatch>>
      BY <1>1, <2>1
    <2>3. /\ sckpt' = [sckpt EXCEPT ![z] = sckpt'[z]]
          /\ sbatch' = [sbatch EXCEPT ![g][z] = sbatch'[g][z]]
          /\ stodo' = [stodo EXCEPT ![g][z] = stodo'[g][z]]
      BY <1>1, <2>1, <2>2
    <2>4. GatewayMove(settlements[z], sckpt[z], sckpt'[z], sbatch[g][z], sbatch'[g][z],
                      stodo[g][z], stodo'[g][z], sent, sent')
      BY <2>1, <2>2 DEF GatewayMove
    <2>5. /\ sowner' \in [SettlementShard -> GatewayTask \cup {NoWorker}]
          /\ steals' \in Nat /\ steals' >= steals
      BY <1>1, <2>1
    <2>6. gup' \in [GatewayTask -> BOOLEAN]
      <3>1. gup' = gup \/ gup' = [gup EXCEPT ![g] = FALSE]
        BY <2>1
      <3>2. [gup EXCEPT ![g] = FALSE] \in [GatewayTask -> BOOLEAN]
        BY <1>1
      <3>. QED BY <1>1, <3>1, <3>2
    <2>7. fails' \in Nat /\ fails' >= fails
      BY <1>1, <2>1
    <2>. QED BY <2>1, <2>3, <2>4, <2>5, <2>6, <2>7
  <1>. QED BY <1>6, <1>7, <1>8, <1>9, <1>10
           DEF Settlements!WorkerStep, Settlements!ThreadStep, Settlements!ProcessBatch

LEMMA SettlementStores ==
  ASSUME DeliveryTypeOK, NEW g \in GatewayTask, NEW z \in SettlementShard,
         Settlements!WorkerStep(g, z)
  PROVE  /\ sbatch[g][z].pos # 0 /\ sbatch[g][z].pos <= sbatch[g][z].end =>
              LET m == settlements[z][sbatch[g][z].pos]
              IN  sitems' = sitems \cup {m} \/ (fails' # 0 /\ sitems' = sitems)
         /\ ~(sbatch[g][z].pos # 0 /\ sbatch[g][z].pos <= sbatch[g][z].end) => sitems' = sitems
  <1>1. /\ sbatch[g][z].pos \in Nat /\ sbatch[g][z].end \in Nat /\ fails \in Nat
    BY DEF DeliveryTypeOK, Settlements!TypeOK, Settlements!ShardTypeOK
  <1>2. CASE Settlements!Take(g, z) \/ Settlements!Steal(g, z) \/ Settlements!Fetch(g, z)
    BY <1>2 DEF Settlements!Take, Settlements!Steal, Settlements!Fetch, Settlements!FetchBatch, Settlements!TakeLease,
                Settlements!StealLease, Settlements!Idle, Settlements!Rest
  <1>3. CASE Settlements!StoreMessage(g, z)
    BY <1>1, <1>3 DEF Settlements!StoreMessage, Settlements!Working, Settlements!Idle, Settlements!Current,
                      Settlements!Keep, Settlements!Fail, Never
  <1>4. CASE Settlements!SendMessage(g, z)
    BY <1>1, <1>4 DEF Settlements!SendMessage, Settlements!Finished
  <1>5. CASE Settlements!Checkpoint(g, z)
    BY <1>1, <1>5 DEF Settlements!Checkpoint, Settlements!CheckpointBatch, Settlements!Finished, Settlements!Rest
  <1>. QED BY <1>2, <1>3, <1>4, <1>5
           DEF Settlements!WorkerStep, Settlements!ThreadStep, Settlements!ProcessBatch

(* A step of either processor: its threads and checkpoints still pass on    *)
(* what they are past, and its variables keep their types.                  *)
LEMMA AnswerKeeps ==
  ASSUME DeliveryTypeOK, AnswersOK, NEW g \in GatewayTask, NEW z \in ResponseShard,
         Answers!WorkerStep(g, z)
  PROVE  /\ AnswersOK'
         /\ rckpt' \in [ResponseShard -> Nat] /\ answers' \in Seq(Record)
         /\ rbatch' \in [GatewayTask -> [ResponseShard -> [pos : Nat, end : Nat]]]
         /\ rtodo' \in [GatewayTask -> [ResponseShard -> Seq(Record)]]
         /\ ritems' \subseteq Record
         /\ AnswersStored /\ fails' = 0 => AnswersStored'
  <1>. DEFINE shard == responses[z]
              n == rckpt[z]
              m == rckpt'[z]
              b == rbatch[g][z]
              c == rbatch'[g][z]
              t == rtodo[g][z]
              u == rtodo'[g][z]
  <1>1. /\ responses \in [ResponseShard -> Seq(Record)] /\ rckpt \in [ResponseShard -> Nat]
        /\ rbatch \in [GatewayTask -> [ResponseShard -> [pos : Nat, end : Nat]]]
        /\ rtodo \in [GatewayTask -> [ResponseShard -> Seq(Record)]]
        /\ answers \in Seq(Record) /\ fails \in Nat /\ ritems \subseteq Record
    BY DEF DeliveryTypeOK, Answers!TypeOK, Answers!ShardTypeOK
  <1>2. /\ GatewayMove(shard, n, m, b, c, t, u, answers, answers')
        /\ rckpt' = [rckpt EXCEPT ![z] = m] /\ rbatch' = [rbatch EXCEPT ![g][z] = c]
        /\ rtodo' = [rtodo EXCEPT ![g][z] = u] /\ responses' = responses
    BY AnswerMoves
  <1>3. /\ shard \in Seq(Record) /\ n \in Nat /\ b \in [pos : Nat, end : Nat] /\ t \in Seq(Record)
        /\ Len(shard) \in Nat /\ b.pos \in Nat /\ b.end \in Nat
    BY <1>1
  <1>4. ShardPassed(shard, n, answers) /\ ThreadPasses(shard, b, t, answers)
    BY DEF AnswersOK
  <1>5. /\ \A y \in ResponseShard : y # z => rckpt'[y] = rckpt[y]
        /\ \A x \in GatewayTask, y \in ResponseShard : ~(x = g /\ y = z) =>
             rbatch'[x][y] = rbatch[x][y] /\ rtodo'[x][y] = rtodo[x][y]
    <2>. HIDE DEF m, c, u
    <2>1. \A y \in ResponseShard : y # z => rckpt'[y] = rckpt[y]
      BY <1>1, <1>2
    <2>2. \A x \in GatewayTask, y \in ResponseShard : ~(x = g /\ y = z) => rbatch'[x][y] = rbatch[x][y]
      BY <1>1, <1>2
    <2>3. \A x \in GatewayTask, y \in ResponseShard : ~(x = g /\ y = z) => rtodo'[x][y] = rtodo[x][y]
      BY <1>1, <1>2
    <2>. QED BY <2>1, <2>2, <2>3
  <1>6. b.end <= Len(shard) /\ b.pos <= b.end + 1
    BY <1>4 DEF ThreadPasses
  <1>. HIDE DEF shard, n, m, b, c, t, u
  <1>7. /\ m \in Nat /\ c \in [pos : Nat, end : Nat] /\ u \in Seq(Record) /\ answers' \in Seq(Record)
        /\ Handed(shard, b, t, u, answers, answers')
    BY <1>1, <1>2, <1>3, <1>6, MoveElements
  <1>8. ShardPassed(shard, m, answers') /\ ThreadPasses(shard, c, u, answers')
    BY <1>1, <1>2, <1>3, <1>4, MovePasses
  <1>9. /\ rckpt' \in [ResponseShard -> Nat]
        /\ rbatch' \in [GatewayTask -> [ResponseShard -> [pos : Nat, end : Nat]]]
        /\ rtodo' \in [GatewayTask -> [ResponseShard -> Seq(Record)]]
    BY <1>1, <1>2, <1>7
  <1>10. ASSUME NEW y \in ResponseShard
         PROVE  /\ ShardPassed(responses[y], rckpt[y], answers')
                /\ \A x \in GatewayTask :
                     ThreadPasses(responses[y], rbatch[x][y], rtodo[x][y], answers')
    <2>1. responses[y] \in Seq(Record) /\ rckpt[y] \in Nat
      BY <1>1
    <2>2. Continues(responses[y], responses[y])
      BY <2>1, SameContinues
    <2>3. Elements(answers) \subseteq Elements(answers')
      BY <1>7 DEF Handed
    <2>4. /\ ShardPassed(responses[y], rckpt[y], answers)
          /\ \A x \in GatewayTask : /\ ThreadPasses(responses[y], rbatch[x][y], rtodo[x][y], answers)
                                    /\ rbatch[x][y] \in [pos : Nat, end : Nat]
      BY <1>1 DEF AnswersOK
    <2>. QED BY <2>1, <2>2, <2>3, <2>4, PassesGrow
  <1>11. AnswersOK'
    <2>1. ASSUME NEW y \in ResponseShard PROVE ShardPassed(responses[y], rckpt'[y], answers')
      <3>1. CASE y = z
        BY <1>8, <3>1 DEF shard, m
      <3>2. CASE y # z
        BY <1>5, <1>10, <3>2
      <3>. QED BY <3>1, <3>2
    <2>2. ASSUME NEW y \in ResponseShard, NEW x \in GatewayTask
          PROVE  ThreadPasses(responses[y], rbatch'[x][y], rtodo'[x][y], answers')
      <3>1. CASE x = g /\ y = z
        BY <1>8, <3>1 DEF shard, c, u
      <3>2. CASE ~(x = g /\ y = z)
        BY <1>5, <1>10, <3>2
      <3>. QED BY <3>1, <3>2
    <2>. QED BY <1>2, <2>1, <2>2 DEF AnswersOK
  <1>12. /\ b.pos # 0 /\ b.pos <= b.end =>
              shard[b.pos] \in Record /\ (ritems' = {x \in ritems : x.id # shard[b.pos].id} \cup {shard[b.pos]} \/ (fails' # 0 /\ ritems' = ritems))
         /\ ~(b.pos # 0 /\ b.pos <= b.end) => ritems' = ritems
    <2>1. ASSUME b.pos # 0, b.pos <= b.end PROVE shard[b.pos] \in Record
      <3>1. b.pos \in 1..Len(shard)
        BY <1>3, <1>6, <2>1
      <3>. QED BY <1>3, <3>1, ElementAt
    <2>. QED BY <2>1, AnswerStores DEF shard, b
  <1>13. ritems' \subseteq Record
    BY <1>1, <1>12
  <1>14. ASSUME AnswersStored, fails' = 0 PROVE AnswersStored'
    <2>1. \A x : HasAnswer(x) => HasAnswer(x)'
      BY <1>12, <1>14 DEF HasAnswer
    <2>2. \A x \in Elements(u) : HasAnswer(x)'
      <3>1. \A x \in Elements(t) : HasAnswer(x)'
        BY <1>14, <2>1 DEF AnswersStored, t
      <3>2. CASE Elements(u) \subseteq Elements(t)
        BY <3>1, <3>2
      <3>3. CASE b.pos # 0 /\ b.pos <= b.end /\ Elements(u) = Elements(t) \cup {shard[b.pos]}
        <4>1. shard[b.pos] \in ritems'
          BY <1>12, <1>14, <3>3
        <4>. QED BY <3>1, <3>3, <4>1 DEF HasAnswer
      <3>. QED BY <1>7, <3>2, <3>3 DEF Handed
    <2>3. \A x \in Elements(answers') : HasAnswer(x)'
      BY <1>7, <1>14, <2>1 DEF Handed, AnswersStored, t
    <2>4. ASSUME NEW x \in GatewayTask, NEW y \in ResponseShard
          PROVE  \A r \in Elements(rtodo'[x][y]) : HasAnswer(r)'
      <3>1. CASE x = g /\ y = z
        BY <2>2, <3>1 DEF u
      <3>2. CASE ~(x = g /\ y = z)
        BY <1>5, <1>14, <2>1, <3>2 DEF AnswersStored
      <3>. QED BY <3>1, <3>2
    <2>. QED BY <2>3, <2>4 DEF AnswersStored
  <1>. QED BY <1>7, <1>9, <1>11, <1>13, <1>14

LEMMA SettlementKeeps ==
  ASSUME DeliveryTypeOK, SettlementsOK, NEW g \in GatewayTask, NEW z \in SettlementShard,
         Settlements!WorkerStep(g, z)
  PROVE  /\ SettlementsOK'
         /\ sckpt' \in [SettlementShard -> Nat] /\ sent' \in Seq(Settlement)
         /\ sbatch' \in [GatewayTask -> [SettlementShard -> [pos : Nat, end : Nat]]]
         /\ stodo' \in [GatewayTask -> [SettlementShard -> Seq(Settlement)]]
         /\ sitems' \subseteq Settlement
         /\ SettlementsStored /\ fails' = 0 => SettlementsStored'
  <1>. DEFINE shard == settlements[z]
              n == sckpt[z]
              m == sckpt'[z]
              b == sbatch[g][z]
              c == sbatch'[g][z]
              t == stodo[g][z]
              u == stodo'[g][z]
  <1>1. /\ settlements \in [SettlementShard -> Seq(Settlement)] /\ sckpt \in [SettlementShard -> Nat]
        /\ sbatch \in [GatewayTask -> [SettlementShard -> [pos : Nat, end : Nat]]]
        /\ stodo \in [GatewayTask -> [SettlementShard -> Seq(Settlement)]]
        /\ sent \in Seq(Settlement) /\ fails \in Nat /\ sitems \subseteq Settlement
    BY DEF DeliveryTypeOK, Settlements!TypeOK, Settlements!ShardTypeOK
  <1>2. /\ GatewayMove(shard, n, m, b, c, t, u, sent, sent')
        /\ sckpt' = [sckpt EXCEPT ![z] = m] /\ sbatch' = [sbatch EXCEPT ![g][z] = c]
        /\ stodo' = [stodo EXCEPT ![g][z] = u] /\ settlements' = settlements
    BY SettlementMoves
  <1>3. /\ shard \in Seq(Settlement) /\ n \in Nat /\ b \in [pos : Nat, end : Nat] /\ t \in Seq(Settlement)
        /\ Len(shard) \in Nat /\ b.pos \in Nat /\ b.end \in Nat
    BY <1>1
  <1>4. ShardPassed(shard, n, sent) /\ ThreadPasses(shard, b, t, sent)
    BY DEF SettlementsOK
  <1>5. /\ \A y \in SettlementShard : y # z => sckpt'[y] = sckpt[y]
        /\ \A x \in GatewayTask, y \in SettlementShard : ~(x = g /\ y = z) =>
             sbatch'[x][y] = sbatch[x][y] /\ stodo'[x][y] = stodo[x][y]
    <2>. HIDE DEF m, c, u
    <2>1. \A y \in SettlementShard : y # z => sckpt'[y] = sckpt[y]
      BY <1>1, <1>2
    <2>2. \A x \in GatewayTask, y \in SettlementShard : ~(x = g /\ y = z) => sbatch'[x][y] = sbatch[x][y]
      BY <1>1, <1>2
    <2>3. \A x \in GatewayTask, y \in SettlementShard : ~(x = g /\ y = z) => stodo'[x][y] = stodo[x][y]
      BY <1>1, <1>2
    <2>. QED BY <2>1, <2>2, <2>3
  <1>6. b.end <= Len(shard) /\ b.pos <= b.end + 1
    BY <1>4 DEF ThreadPasses
  <1>. HIDE DEF shard, n, m, b, c, t, u
  <1>7. /\ m \in Nat /\ c \in [pos : Nat, end : Nat] /\ u \in Seq(Settlement) /\ sent' \in Seq(Settlement)
        /\ Handed(shard, b, t, u, sent, sent')
    BY <1>1, <1>2, <1>3, <1>6, MoveElements
  <1>8. ShardPassed(shard, m, sent') /\ ThreadPasses(shard, c, u, sent')
    BY <1>1, <1>2, <1>3, <1>4, MovePasses
  <1>9. /\ sckpt' \in [SettlementShard -> Nat]
        /\ sbatch' \in [GatewayTask -> [SettlementShard -> [pos : Nat, end : Nat]]]
        /\ stodo' \in [GatewayTask -> [SettlementShard -> Seq(Settlement)]]
    BY <1>1, <1>2, <1>7
  <1>10. ASSUME NEW y \in SettlementShard
         PROVE  /\ ShardPassed(settlements[y], sckpt[y], sent')
                /\ \A x \in GatewayTask :
                     ThreadPasses(settlements[y], sbatch[x][y], stodo[x][y], sent')
    <2>1. settlements[y] \in Seq(Settlement) /\ sckpt[y] \in Nat
      BY <1>1
    <2>2. Continues(settlements[y], settlements[y])
      BY <2>1, SameContinues
    <2>3. Elements(sent) \subseteq Elements(sent')
      BY <1>7 DEF Handed
    <2>4. /\ ShardPassed(settlements[y], sckpt[y], sent)
          /\ \A x \in GatewayTask : /\ ThreadPasses(settlements[y], sbatch[x][y], stodo[x][y], sent)
                                    /\ sbatch[x][y] \in [pos : Nat, end : Nat]
      BY <1>1 DEF SettlementsOK
    <2>. QED BY <2>1, <2>2, <2>3, <2>4, PassesGrow
  <1>11. SettlementsOK'
    <2>1. ASSUME NEW y \in SettlementShard PROVE ShardPassed(settlements[y], sckpt'[y], sent')
      <3>1. CASE y = z
        BY <1>8, <3>1 DEF shard, m
      <3>2. CASE y # z
        BY <1>5, <1>10, <3>2
      <3>. QED BY <3>1, <3>2
    <2>2. ASSUME NEW y \in SettlementShard, NEW x \in GatewayTask
          PROVE  ThreadPasses(settlements[y], sbatch'[x][y], stodo'[x][y], sent')
      <3>1. CASE x = g /\ y = z
        BY <1>8, <3>1 DEF shard, c, u
      <3>2. CASE ~(x = g /\ y = z)
        BY <1>5, <1>10, <3>2
      <3>. QED BY <3>1, <3>2
    <2>. QED BY <1>2, <2>1, <2>2 DEF SettlementsOK
  <1>12. /\ b.pos # 0 /\ b.pos <= b.end =>
              shard[b.pos] \in Settlement /\ (sitems' = sitems \cup {shard[b.pos]} \/ (fails' # 0 /\ sitems' = sitems))
         /\ ~(b.pos # 0 /\ b.pos <= b.end) => sitems' = sitems
    <2>1. ASSUME b.pos # 0, b.pos <= b.end PROVE shard[b.pos] \in Settlement
      <3>1. b.pos \in 1..Len(shard)
        BY <1>3, <1>6, <2>1
      <3>. QED BY <1>3, <3>1, ElementAt
    <2>. QED BY <2>1, SettlementStores DEF shard, b
  <1>13. sitems' \subseteq Settlement
    BY <1>1, <1>12
  <1>14. ASSUME SettlementsStored, fails' = 0 PROVE SettlementsStored'
    <2>1. sitems \subseteq sitems'
      BY <1>12, <1>14
    <2>2. Elements(u) \subseteq sitems'
      <3>1. Elements(t) \subseteq sitems'
        BY <1>14, <2>1 DEF SettlementsStored, t
      <3>2. CASE Elements(u) \subseteq Elements(t)
        BY <3>1, <3>2
      <3>3. CASE b.pos # 0 /\ b.pos <= b.end /\ Elements(u) = Elements(t) \cup {shard[b.pos]}
        <4>1. shard[b.pos] \in sitems'
          BY <1>12, <1>14, <3>3
        <4>. QED BY <3>1, <3>3, <4>1
      <3>. QED BY <1>7, <3>2, <3>3 DEF Handed
    <2>3. Elements(sent') \subseteq sitems'
      BY <1>7, <1>14, <2>1 DEF Handed, SettlementsStored, t
    <2>4. ASSUME NEW x \in GatewayTask, NEW y \in SettlementShard
          PROVE  Elements(stodo'[x][y]) \subseteq sitems'
      <3>1. CASE x = g /\ y = z
        BY <2>2, <3>1 DEF u
      <3>2. CASE ~(x = g /\ y = z)
        BY <1>5, <1>14, <2>1, <3>2 DEF SettlementsStored
      <3>. QED BY <3>1, <3>2
    <2>. QED BY <2>3, <2>4 DEF SettlementsStored
  <1>. QED BY <1>7, <1>9, <1>11, <1>13, <1>14

----------------------------------------------------------------------------
(* The steps of the whole.  Those of the gateway leave egress as it is, but *)
(* for the bounds that they share.                                          *)
LEMMA EgressLeft ==
  ASSUME EgressAssumption, EInv, WritesOK, RecentOK,
         UNCHANGED <<lost, egressSide, responses, settlements>>,
         steals' \in Nat, steals' >= steals, fails' \in Nat, fails' >= fails, crashes' \in Nat
  PROVE  EInv' /\ WritesOK' /\ RecentOK'
  <1>1. UNCHANGED <<log, ckpt, owner, batch, up, items, job>> /\ TypeOK
    BY DEF egressSide, EInv
  <1>2. TypeOK'
    BY <1>1 DEF TypeOK, ShardTypeOK
  <1>3. EInv'
    BY <1>1, <1>2, SameGrows, MatchedStays, NoThread
  <1>4. WritesOK'
    BY <1>1, NoneWrites
  <1>5. RecentOK'
    BY <1>1, QuietRecent
  <1>. QED BY <1>3, <1>4, <1>5

(* Those of egress only add to the two streams. *)
LEMMA StreamsContinue ==
  ASSUME EgressAssumption, EInv, [Next]_vars
  PROVE  /\ \A z \in ResponseShard : Continues(responses[z], responses'[z])
         /\ \A z \in SettlementShard : Continues(settlements[z], settlements'[z])
         /\ steals' >= steals /\ fails' >= fails
  <1>1. /\ TypeOK /\ steals \in Nat /\ fails \in Nat
        /\ responses \in [ResponseShard -> Seq(Record)]
        /\ settlements \in [SettlementShard -> Seq(Settlement)]
    BY DEF EInv, TypeOK, ShardTypeOK
  <1>2. /\ \A z \in ResponseShard : Continues(responses[z], responses[z])
        /\ \A z \in SettlementShard : Continues(settlements[z], settlements[z])
    BY <1>1, SameContinues
  <1>3. ASSUME UNCHANGED <<responses, settlements, steals>>, fails' >= fails
        PROVE  /\ \A z \in ResponseShard : Continues(responses[z], responses'[z])
               /\ \A z \in SettlementShard : Continues(settlements[z], settlements'[z])
               /\ steals' >= steals /\ fails' >= fails
    BY <1>1, <1>2, <1>3
  <1>4. ASSUME NEW r \in Record, NEW s \in Shard, ReceiveRecord(r, s)
        PROVE  UNCHANGED <<responses, settlements, steals>> /\ fails' >= fails
    BY <1>1, <1>4 DEF ReceiveRecord, Put, streams
  <1>5. ASSUME NEW w \in Worker, NEW s \in Shard, WorkerStep(w, s)
        PROVE  /\ \A z \in ResponseShard : Continues(responses[z], responses'[z])
               /\ \A z \in SettlementShard : Continues(settlements[z], settlements'[z])
               /\ steals' >= steals /\ fails' >= fails
    <2>1. CASE Take(w, s) \/ Steal(w, s)
      <3>1. UNCHANGED <<responses, settlements, fails>> /\ (steals' = steals \/ steals' = steals + 1)
        BY <2>1 DEF Take, Steal, TakeLease, StealLease, Rest, streams
      <3>. QED BY <1>1, <1>2, <3>1
    <2>2. CASE Fetch(w, s)
      BY <1>1, <1>3, <2>2 DEF Fetch, FetchBatch, Rest, streams
    <2>3. CASE Checkpoint(w, s)
      BY <1>1, <1>3, <2>3 DEF Checkpoint, CheckpointBatch, Halt, shardVars, Rest, streams
    <2>4. CASE StoreTrade(w, s)
      BY <1>1, <1>3, <2>4 DEF StoreTrade, Store, Fail, NextRecord
    <2>5. CASE CollectNack(w, s)
      BY <1>1, <1>3, <2>5 DEF CollectNack, NextRecord, streams
    <2>6. CASE StoreSettlement(w, s) \/ StoreNack(w, s)
      BY <1>1, <1>3, <2>6
         DEF StoreSettlement, StoreNack, StoreNext, Store, Fail, StayAtRecord, shardVars
    <2>7. CASE PushSettlements(w, s) \/ PushResponses(w, s) \/ PushNacks(w, s)
      <3>1. job[w][s].trades \in Seq(Record) /\ job[w][s].nacks \in Seq(Record)
        BY <1>1, JobType
      <3>2. ToSettle(w, s) \in Seq(Settlement)
        BY <3>1, SettlementListElements DEF ToSettle
      <3>3. CASE PushSettlements(w, s)
        <4>. DEFINE next == [job[w][s] EXCEPT !.settled = TRUE]
        <4>1. Push(w, s, settlements, ToSettle(w, s), next) /\ responses' = responses
          BY <3>3 DEF PushSettlements
        <4>. HIDE DEF next
        <4>2. /\ fails' >= fails /\ (Halt(w) \/ StayAtRecord)
              /\ \A z \in SettlementShard : Continues(settlements[z], settlements'[z])
          BY <1>1, <3>2, <4>1, SettlementsPushed
        <4>3. steals' = steals
          BY <4>2 DEF Halt, StayAtRecord, shardVars
        <4>. QED BY <1>1, <1>2, <4>1, <4>2, <4>3
      <3>4. CASE PushResponses(w, s) \/ PushNacks(w, s)
        <4>1. \E q \in Seq(Record) : \E next :
                 Push(w, s, responses, q, next) /\ settlements' = settlements
          BY <3>1, <3>4 DEF PushResponses, PushNacks
        <4>. PICK q \in Seq(Record) : \E next :
               Push(w, s, responses, q, next) /\ settlements' = settlements
          BY <4>1
        <4>. PICK next : Push(w, s, responses, q, next) /\ settlements' = settlements
          OBVIOUS
        <4>2. /\ fails' >= fails /\ (Halt(w) \/ StayAtRecord)
              /\ \A z \in ResponseShard : Continues(responses[z], responses'[z])
          BY <1>1, ResponsesPushed
        <4>3. steals' = steals
          BY <4>2 DEF Halt, StayAtRecord, shardVars
        <4>. QED BY <1>1, <1>2, <4>2, <4>3
      <3>. QED BY <2>7, <3>3, <3>4
    <2>. QED BY <1>5, <2>1, <2>2, <2>3, <2>4, <2>5, <2>6, <2>7
             DEF WorkerStep, ThreadStep, ProcessBatch
  <1>6. ASSUME NEW w \in Worker, Crash(w) \/ Restart(w)
        PROVE  UNCHANGED <<responses, settlements, steals>> /\ fails' >= fails
    BY <1>1, <1>6 DEF Crash, CrashWorker, Restart, RestartWorker, shardVars, Rest, streams
  <1>7. CASE UNCHANGED vars
    BY <1>1, <1>3, <1>7 DEF vars, shardVars, streams
  <1>. QED BY <1>3, <1>4, <1>5, <1>6, <1>7 DEF Next

LEMMA GatewayLeft ==
  ASSUME DeliveryInv, TypeOK', UNCHANGED <<answerSide, settlementSide, gup>>,
         \A z \in ResponseShard : Continues(responses[z], responses'[z]),
         \A z \in SettlementShard : Continues(settlements[z], settlements'[z]),
         fails' >= fails
  PROVE  DeliveryTypeOK' /\ AnswersOK' /\ SettlementsOK' /\ GatewayWritesOK'
  <1>1. /\ UNCHANGED <<rckpt, rowner, rbatch, ritems, rtodo, answers>>
        /\ UNCHANGED <<sckpt, sowner, sbatch, sitems, stodo, sent>>
    BY DEF answerSide, settlementSide
  <1>2. Answers!TypeOK /\ Settlements!TypeOK
    BY DEF DeliveryInv, DeliveryTypeOK
  <1>3. DeliveryTypeOK'
    BY <1>1, <1>2 DEF DeliveryTypeOK, TypeOK, ShardTypeOK,
       Answers!TypeOK, Answers!ShardTypeOK, Settlements!TypeOK, Settlements!ShardTypeOK
  <1>4. /\ rckpt \in [ResponseShard -> Nat]
        /\ rbatch \in [GatewayTask -> [ResponseShard -> [pos : Nat, end : Nat]]]
        /\ sckpt \in [SettlementShard -> Nat]
        /\ sbatch \in [GatewayTask -> [SettlementShard -> [pos : Nat, end : Nat]]]
    BY <1>2 DEF Answers!TypeOK, Answers!ShardTypeOK, Settlements!TypeOK, Settlements!ShardTypeOK
  <1>5. ASSUME NEW z \in ResponseShard
        PROVE  /\ ShardPassed(responses'[z], rckpt[z], answers)
               /\ \A g \in GatewayTask :
                    ThreadPasses(responses'[z], rbatch[g][z], rtodo[g][z], answers)
    <2>1. /\ Continues(responses[z], responses'[z]) /\ rckpt[z] \in Nat
          /\ ShardPassed(responses[z], rckpt[z], answers)
      BY <1>4 DEF DeliveryInv, AnswersOK
    <2>2. \A g \in GatewayTask :
             /\ ThreadPasses(responses[z], rbatch[g][z], rtodo[g][z], answers)
             /\ rbatch[g][z] \in [pos : Nat, end : Nat]
      BY <1>4 DEF DeliveryInv, AnswersOK
    <2>3. Elements(answers) \subseteq Elements(answers)
      OBVIOUS
    <2>. QED BY <2>1, <2>2, <2>3, PassesGrow
  <1>6. ASSUME NEW z \in SettlementShard
        PROVE  /\ ShardPassed(settlements'[z], sckpt[z], sent)
               /\ \A g \in GatewayTask :
                    ThreadPasses(settlements'[z], sbatch[g][z], stodo[g][z], sent)
    <2>1. /\ Continues(settlements[z], settlements'[z]) /\ sckpt[z] \in Nat
          /\ ShardPassed(settlements[z], sckpt[z], sent)
      BY <1>4 DEF DeliveryInv, SettlementsOK
    <2>2. \A g \in GatewayTask :
             /\ ThreadPasses(settlements[z], sbatch[g][z], stodo[g][z], sent)
             /\ sbatch[g][z] \in [pos : Nat, end : Nat]
      BY <1>4 DEF DeliveryInv, SettlementsOK
    <2>3. Elements(sent) \subseteq Elements(sent)
      OBVIOUS
    <2>. QED BY <2>1, <2>2, <2>3, PassesGrow
  <1>7. AnswersOK' /\ SettlementsOK'
    BY <1>1, <1>5, <1>6 DEF AnswersOK, SettlementsOK
  <1>8. GatewayWritesOK'
    <2>1. fails \in Nat /\ fails' \in Nat
      BY <1>2 DEF Answers!TypeOK, TypeOK
    <2>2. fails' = 0 => AnswersStored /\ SettlementsStored
      BY <2>1 DEF DeliveryInv, GatewayWritesOK
    <2>. QED BY <1>1, <2>2 DEF GatewayWritesOK, AnswersStored, SettlementsStored, HasAnswer
  <1>. QED BY <1>3, <1>7, <1>8

LEMMA EgressDelivers ==
  ASSUME EgressAssumption, DeliveryInv, [Next]_vars, UNCHANGED <<answerSide, settlementSide, gup>>
  PROVE  DeliveryInv'
  <1>1. EInv' /\ WritesOK' /\ RecentOK'
    BY EgressNext, WritesNext, RecentNext DEF DeliveryInv
  <1>2. TypeOK'
    BY <1>1 DEF EInv
  <1>3. /\ \A z \in ResponseShard : Continues(responses[z], responses'[z])
        /\ \A z \in SettlementShard : Continues(settlements[z], settlements'[z])
        /\ fails' >= fails
    BY StreamsContinue DEF DeliveryInv
  <1>. QED BY <1>1, <1>2, <1>3, GatewayLeft DEF DeliveryInv

LEMMA AnswersDeliver ==
  ASSUME EgressAssumption, DeliveryInv, AnswerStep
  PROVE  DeliveryInv'
  <1>1. PICK g \in GatewayTask : \E z \in ResponseShard : Answers!WorkerStep(g, z)
    BY DEF AnswerStep, OfAnswers
  <1>2. PICK z \in ResponseShard : Answers!WorkerStep(g, z)
    BY <1>1
  <1>3. UNCHANGED <<lost, egressSide, settlements, settlementSide>>
    BY DEF AnswerStep, OfAnswers
  <1>4. DeliveryTypeOK /\ AnswersOK /\ EInv /\ WritesOK /\ RecentOK
    BY DEF DeliveryInv
  <1>5. /\ UNCHANGED <<responses, crashes>>
        /\ rowner' \in [ResponseShard -> GatewayTask \cup {NoWorker}]
        /\ gup' \in [GatewayTask -> BOOLEAN]
        /\ steals' \in Nat /\ steals' >= steals /\ fails' \in Nat /\ fails' >= fails
    BY <1>2, <1>4, AnswerMoves
  <1>6. /\ AnswersOK'
        /\ rckpt' \in [ResponseShard -> Nat] /\ answers' \in Seq(Record)
        /\ rbatch' \in [GatewayTask -> [ResponseShard -> [pos : Nat, end : Nat]]]
        /\ rtodo' \in [GatewayTask -> [ResponseShard -> Seq(Record)]]
        /\ ritems' \subseteq Record
        /\ AnswersStored /\ fails' = 0 => AnswersStored'
    BY <1>2, <1>4, AnswerKeeps
  <1>7. crashes' \in Nat
    BY <1>4, <1>5 DEF EInv, TypeOK, ShardTypeOK
  <1>8. EInv' /\ WritesOK' /\ RecentOK'
    BY <1>3, <1>4, <1>5, <1>7, EgressLeft
  <1>9. UNCHANGED <<sckpt, sowner, sbatch, sitems, stodo, sent>>
    BY <1>3 DEF settlementSide
  <1>10. DeliveryTypeOK'
    <2>1. TypeOK'
      BY <1>8 DEF EInv
    <2>2. Answers!TypeOK'
      BY <1>4, <1>5, <1>6, <1>7 DEF DeliveryTypeOK, Answers!TypeOK, Answers!ShardTypeOK
    <2>3. Settlements!TypeOK'
      BY <1>3, <1>4, <1>5, <1>7, <1>9
         DEF DeliveryTypeOK, Settlements!TypeOK, Settlements!ShardTypeOK
    <2>. QED BY <2>1, <2>2, <2>3 DEF DeliveryTypeOK
  <1>11. SettlementsOK'
    BY <1>3, <1>9 DEF DeliveryInv, SettlementsOK
  <1>12. GatewayWritesOK'
    <2>1. fails' = 0 => AnswersStored /\ SettlementsStored
      BY <1>4, <1>5 DEF DeliveryInv, GatewayWritesOK, DeliveryTypeOK, Answers!TypeOK
    <2>2. SettlementsStored => SettlementsStored'
      BY <1>9 DEF SettlementsStored
    <2>. QED BY <1>6, <2>1, <2>2 DEF GatewayWritesOK
  <1>. QED BY <1>6, <1>8, <1>10, <1>11, <1>12 DEF DeliveryInv

LEMMA SettlementsDeliver ==
  ASSUME EgressAssumption, DeliveryInv, SettlementStep
  PROVE  DeliveryInv'
  <1>1. PICK g \in GatewayTask : \E z \in SettlementShard : Settlements!WorkerStep(g, z)
    BY DEF SettlementStep, OfSettlements
  <1>2. PICK z \in SettlementShard : Settlements!WorkerStep(g, z)
    BY <1>1
  <1>3. UNCHANGED <<lost, egressSide, responses, answerSide>>
    BY DEF SettlementStep, OfSettlements
  <1>4. DeliveryTypeOK /\ SettlementsOK /\ EInv /\ WritesOK /\ RecentOK
    BY DEF DeliveryInv
  <1>5. /\ UNCHANGED <<settlements, crashes>>
        /\ sowner' \in [SettlementShard -> GatewayTask \cup {NoWorker}]
        /\ gup' \in [GatewayTask -> BOOLEAN]
        /\ steals' \in Nat /\ steals' >= steals /\ fails' \in Nat /\ fails' >= fails
    BY <1>2, <1>4, SettlementMoves
  <1>6. /\ SettlementsOK'
        /\ sckpt' \in [SettlementShard -> Nat] /\ sent' \in Seq(Settlement)
        /\ sbatch' \in [GatewayTask -> [SettlementShard -> [pos : Nat, end : Nat]]]
        /\ stodo' \in [GatewayTask -> [SettlementShard -> Seq(Settlement)]]
        /\ sitems' \subseteq Settlement
        /\ SettlementsStored /\ fails' = 0 => SettlementsStored'
    BY <1>2, <1>4, SettlementKeeps
  <1>7. crashes' \in Nat
    BY <1>4, <1>5 DEF EInv, TypeOK, ShardTypeOK
  <1>8. EInv' /\ WritesOK' /\ RecentOK'
    BY <1>3, <1>4, <1>5, <1>7, EgressLeft
  <1>9. UNCHANGED <<rckpt, rowner, rbatch, ritems, rtodo, answers>>
    BY <1>3 DEF answerSide
  <1>10. DeliveryTypeOK'
    <2>1. TypeOK'
      BY <1>8 DEF EInv
    <2>2. Settlements!TypeOK'
      BY <1>4, <1>5, <1>6, <1>7 DEF DeliveryTypeOK, Settlements!TypeOK, Settlements!ShardTypeOK
    <2>3. Answers!TypeOK'
      BY <1>3, <1>4, <1>5, <1>7, <1>9 DEF DeliveryTypeOK, Answers!TypeOK, Answers!ShardTypeOK
    <2>. QED BY <2>1, <2>2, <2>3 DEF DeliveryTypeOK
  <1>11. AnswersOK'
    BY <1>3, <1>9 DEF DeliveryInv, AnswersOK
  <1>12. GatewayWritesOK'
    <2>1. fails' = 0 => AnswersStored /\ SettlementsStored
      BY <1>4, <1>5 DEF DeliveryInv, GatewayWritesOK, DeliveryTypeOK, Answers!TypeOK
    <2>2. AnswersStored => AnswersStored'
      BY <1>9 DEF AnswersStored, HasAnswer
    <2>. QED BY <1>6, <2>1, <2>2 DEF GatewayWritesOK
  <1>. QED BY <1>6, <1>8, <1>10, <1>11, <1>12 DEF DeliveryInv

(* A crash of a gateway task only marks it: its threads stay where they are. *)
LEMMA GatewayCrashDelivers ==
  ASSUME EgressAssumption, DeliveryInv, NEW g \in GatewayTask, CrashGateway(g)
  PROVE  DeliveryInv'
  <1>1. /\ UNCHANGED <<lost, egressSide, settlements, settlementSide>>
        /\ UNCHANGED <<responses, rckpt, rowner, rbatch, ritems, rtodo, answers, steals, fails>>
        /\ gup' = [gup EXCEPT ![g] = FALSE] /\ crashes' = crashes + 1
    BY DEF CrashGateway, OfAnswers, Answers!Crash, Answers!CrashWorker, Answers!shardVars, Answers!Rest
  <1>2. UNCHANGED <<sckpt, sowner, sbatch, sitems, stodo, sent>>
    BY <1>1 DEF settlementSide
  <1>3. DeliveryTypeOK /\ EInv /\ WritesOK /\ RecentOK
    BY DEF DeliveryInv
  <1>4. /\ crashes \in Nat /\ steals \in Nat /\ fails \in Nat /\ gup \in [GatewayTask -> BOOLEAN]
    BY <1>3 DEF DeliveryTypeOK, Answers!TypeOK, Answers!ShardTypeOK
  <1>5. crashes' \in Nat /\ gup' \in [GatewayTask -> BOOLEAN]
    <2>1. crashes' \in Nat
      BY <1>1, <1>4
    <2>2. gup' \in [GatewayTask -> BOOLEAN]
      BY <1>1, <1>4
    <2>. QED BY <2>1, <2>2
  <1>6. EInv' /\ WritesOK' /\ RecentOK'
    BY <1>1, <1>3, <1>4, <1>5, EgressLeft
  <1>7. DeliveryTypeOK'
    <2>1. TypeOK'
      BY <1>6 DEF EInv
    <2>2. Answers!TypeOK'
      BY <1>1, <1>3, <1>5 DEF DeliveryTypeOK, Answers!TypeOK, Answers!ShardTypeOK
    <2>3. Settlements!TypeOK'
      BY <1>1, <1>2, <1>3, <1>5 DEF DeliveryTypeOK, Settlements!TypeOK, Settlements!ShardTypeOK
    <2>. QED BY <2>1, <2>2, <2>3 DEF DeliveryTypeOK
  <1>8. AnswersOK' /\ SettlementsOK'
    BY <1>1, <1>2 DEF DeliveryInv, AnswersOK, SettlementsOK
  <1>9. GatewayWritesOK'
    BY <1>1, <1>2
       DEF DeliveryInv, GatewayWritesOK, AnswersStored, SettlementsStored, HasAnswer
  <1>. QED BY <1>6, <1>7, <1>8, <1>9 DEF DeliveryInv

(* A new task has no batch and nothing to send: what the old one had in its *)
(* lists is behind no checkpoint.                                           *)
LEMMA GatewayRestartDelivers ==
  ASSUME EgressAssumption, DeliveryInv, NEW g \in GatewayTask, RestartGateway(g)
  PROVE  DeliveryInv'
  <1>1. /\ UNCHANGED <<lost, egressSide, crashes, steals, fails>>
        /\ UNCHANGED <<responses, rckpt, ritems, answers>>
        /\ UNCHANGED <<settlements, sckpt, sitems, sent>>
    BY DEF RestartGateway, Answers!Restart, Answers!RestartWorker,
           Settlements!Restart, Settlements!RestartWorker
  <1>2. /\ gup' = [gup EXCEPT ![g] = TRUE]
        /\ rowner' = [z \in ResponseShard |-> IF rowner[z] = g THEN NoWorker ELSE rowner[z]]
        /\ rbatch' = [rbatch EXCEPT ![g] = [z \in ResponseShard |-> NoBatch]]
        /\ rtodo' = [rtodo EXCEPT ![g] = [z \in ResponseShard |-> <<>>]]
    BY DEF RestartGateway, Answers!Restart, Answers!RestartWorker, Answers!NoBatch, NoBatch
  <1>3. /\ sowner' = [z \in SettlementShard |-> IF sowner[z] = g THEN NoWorker ELSE sowner[z]]
        /\ sbatch' = [sbatch EXCEPT ![g] = [z \in SettlementShard |-> NoBatch]]
        /\ stodo' = [stodo EXCEPT ![g] = [z \in SettlementShard |-> <<>>]]
    BY DEF RestartGateway, Settlements!Restart, Settlements!RestartWorker, Settlements!NoBatch, NoBatch
  <1>4. DeliveryTypeOK /\ EInv /\ WritesOK /\ RecentOK
    BY DEF DeliveryInv
  <1>5. /\ crashes \in Nat /\ steals \in Nat /\ fails \in Nat /\ gup \in [GatewayTask -> BOOLEAN]
        /\ responses \in [ResponseShard -> Seq(Record)]
        /\ rowner \in [ResponseShard -> GatewayTask \cup {NoWorker}]
        /\ rbatch \in [GatewayTask -> [ResponseShard -> [pos : Nat, end : Nat]]]
        /\ rtodo \in [GatewayTask -> [ResponseShard -> Seq(Record)]]
        /\ settlements \in [SettlementShard -> Seq(Settlement)]
        /\ sowner \in [SettlementShard -> GatewayTask \cup {NoWorker}]
        /\ sbatch \in [GatewayTask -> [SettlementShard -> [pos : Nat, end : Nat]]]
        /\ stodo \in [GatewayTask -> [SettlementShard -> Seq(Settlement)]]
    BY <1>4 DEF DeliveryTypeOK, Answers!TypeOK, Answers!ShardTypeOK,
                Settlements!TypeOK, Settlements!ShardTypeOK
  <1>6. NoBatch \in [pos : Nat, end : Nat]
    BY DEF NoBatch
  <1>7. gup' \in [GatewayTask -> BOOLEAN]
    BY <1>2, <1>5
  <1>8. /\ rowner' \in [ResponseShard -> GatewayTask \cup {NoWorker}]
        /\ sowner' \in [SettlementShard -> GatewayTask \cup {NoWorker}]
    BY <1>2, <1>3, <1>5
  <1>9. /\ rbatch' \in [GatewayTask -> [ResponseShard -> [pos : Nat, end : Nat]]]
        /\ sbatch' \in [GatewayTask -> [SettlementShard -> [pos : Nat, end : Nat]]]
    BY <1>2, <1>3, <1>5, <1>6
  <1>10. /\ rtodo' \in [GatewayTask -> [ResponseShard -> Seq(Record)]]
         /\ stodo' \in [GatewayTask -> [SettlementShard -> Seq(Settlement)]]
    <2>1. <<>> \in Seq(Record) /\ <<>> \in Seq(Settlement)
      OBVIOUS
    <2>. QED BY <1>2, <1>3, <1>5, <2>1
  <1>11. ASSUME NEW x \in GatewayTask, NEW z \in ResponseShard
         PROVE  \/ rbatch'[x][z] = NoBatch /\ rtodo'[x][z] = <<>>
                \/ rbatch'[x][z] = rbatch[x][z] /\ rtodo'[x][z] = rtodo[x][z]
    BY <1>2, <1>5
  <1>12. ASSUME NEW x \in GatewayTask, NEW z \in SettlementShard
         PROVE  \/ sbatch'[x][z] = NoBatch /\ stodo'[x][z] = <<>>
                \/ sbatch'[x][z] = sbatch[x][z] /\ stodo'[x][z] = stodo[x][z]
    BY <1>3, <1>5
  <1>13. EInv' /\ WritesOK' /\ RecentOK'
    BY <1>1, <1>4, <1>5, EgressLeft
  <1>14. DeliveryTypeOK'
    <2>1. TypeOK'
      BY <1>13 DEF EInv
    <2>2. Answers!TypeOK'
      BY <1>1, <1>4, <1>7, <1>8, <1>9, <1>10
         DEF DeliveryTypeOK, Answers!TypeOK, Answers!ShardTypeOK
    <2>3. Settlements!TypeOK'
      BY <1>1, <1>4, <1>7, <1>8, <1>9, <1>10
         DEF DeliveryTypeOK, Settlements!TypeOK, Settlements!ShardTypeOK
    <2>. QED BY <2>1, <2>2, <2>3 DEF DeliveryTypeOK
  <1>15. AnswersOK'
    <2>1. ASSUME NEW x \in GatewayTask, NEW z \in ResponseShard
          PROVE  ThreadPasses(responses[z], rbatch'[x][z], rtodo'[x][z], answers)
      <3>1. CASE rbatch'[x][z] = NoBatch /\ rtodo'[x][z] = <<>>
        <4>1. responses[z] \in Seq(Record)
          BY <1>5
        <4>. QED BY <3>1, <4>1, FreshPasses
      <3>2. CASE rbatch'[x][z] = rbatch[x][z] /\ rtodo'[x][z] = rtodo[x][z]
        BY <3>2 DEF DeliveryInv, AnswersOK
      <3>. QED BY <1>11, <3>1, <3>2
    <2>. QED BY <1>1, <2>1 DEF DeliveryInv, AnswersOK
  <1>16. SettlementsOK'
    <2>1. ASSUME NEW x \in GatewayTask, NEW z \in SettlementShard
          PROVE  ThreadPasses(settlements[z], sbatch'[x][z], stodo'[x][z], sent)
      <3>1. CASE sbatch'[x][z] = NoBatch /\ stodo'[x][z] = <<>>
        <4>1. settlements[z] \in Seq(Settlement)
          BY <1>5
        <4>. QED BY <3>1, <4>1, FreshPasses
      <3>2. CASE sbatch'[x][z] = sbatch[x][z] /\ stodo'[x][z] = stodo[x][z]
        BY <3>2 DEF DeliveryInv, SettlementsOK
      <3>. QED BY <1>12, <3>1, <3>2
    <2>. QED BY <1>1, <2>1 DEF DeliveryInv, SettlementsOK
  <1>17. GatewayWritesOK'
    <2>. SUFFICES ASSUME fails = 0 PROVE AnswersStored' /\ SettlementsStored'
      BY <1>1 DEF GatewayWritesOK
    <2>1. AnswersStored /\ SettlementsStored
      BY DEF DeliveryInv, GatewayWritesOK
    <2>2. ASSUME NEW x \in GatewayTask, NEW z \in ResponseShard
          PROVE  \A r \in Elements(rtodo'[x][z]) : HasAnswer(r)
      BY <1>11, <2>1, EmptyElements DEF AnswersStored
    <2>3. ASSUME NEW x \in GatewayTask, NEW z \in SettlementShard
          PROVE  Elements(stodo'[x][z]) \subseteq sitems
      BY <1>12, <2>1, EmptyElements DEF SettlementsStored
    <2>4. AnswersStored'
      BY <1>1, <2>1, <2>2 DEF AnswersStored, HasAnswer
    <2>5. SettlementsStored'
      BY <1>1, <2>1, <2>3 DEF SettlementsStored
    <2>. QED BY <2>4, <2>5
  <1>. QED BY <1>13, <1>14, <1>15, <1>16, <1>17 DEF DeliveryInv

(* At the start there are no records, no lists and no items. *)
LEMMA DeliveryStarts ==
  ASSUME EgressAssumption, DeliveryInit
  PROVE  DeliveryInv
  <1>1. EInv /\ TypeOK
    BY EgressInit DEF DeliveryInit, EInv
  <1>2. /\ log = [s \in Shard |-> <<>>] /\ ckpt = [s \in Shard |-> 0]
        /\ batch = [w \in Worker |-> [s \in Shard |-> NoBatch]]
        /\ job = [w \in Worker |-> [s \in Shard |-> NewJob]]
        /\ responses = [z \in ResponseShard |-> <<>>]
        /\ settlements = [z \in SettlementShard |-> <<>>]
        /\ items = {}
    BY DEF DeliveryInit, Init, ShardInit
  <1>3. /\ rckpt = [z \in ResponseShard |-> 0] /\ ritems = {} /\ answers = <<>>
        /\ rowner = [z \in ResponseShard |-> NoWorker]
        /\ rbatch = [g \in GatewayTask |-> [z \in ResponseShard |-> NoBatch]]
        /\ rtodo = [g \in GatewayTask |-> [z \in ResponseShard |-> <<>>]]
        /\ gup = [g \in GatewayTask |-> TRUE]
    BY DEF DeliveryInit, Answers!Init, Answers!ShardInit, Answers!NoBatch, NoBatch
  <1>4. /\ sckpt = [z \in SettlementShard |-> 0] /\ sitems = {} /\ sent = <<>>
        /\ sowner = [z \in SettlementShard |-> NoWorker]
        /\ sbatch = [g \in GatewayTask |-> [z \in SettlementShard |-> NoBatch]]
        /\ stodo = [g \in GatewayTask |-> [z \in SettlementShard |-> <<>>]]
    BY DEF DeliveryInit, Settlements!Init, Settlements!ShardInit, Settlements!NoBatch, NoBatch
  <1>5. NoBatch \in [pos : Nat, end : Nat] /\ NoBatch.pos = 0 /\ NoBatch.end = 0
    BY DEF NoBatch
  <1>6. <<>> \in Seq(Record) /\ <<>> \in Seq(Settlement)
    OBVIOUS
  <1>7. DeliveryTypeOK
    <2>1. /\ responses \in [ResponseShard -> Seq(Record)]
          /\ settlements \in [SettlementShard -> Seq(Settlement)]
          /\ steals \in Nat /\ crashes \in Nat /\ fails \in Nat
      BY <1>1 DEF TypeOK, ShardTypeOK
    <2>2. gup \in [GatewayTask -> BOOLEAN]
      BY <1>3
    <2>3. Answers!TypeOK
      BY <1>3, <1>5, <1>6, <2>1, <2>2 DEF Answers!TypeOK, Answers!ShardTypeOK
    <2>4. Settlements!TypeOK
      BY <1>4, <1>5, <1>6, <2>1, <2>2 DEF Settlements!TypeOK, Settlements!ShardTypeOK
    <2>. QED BY <1>1, <2>3, <2>4 DEF DeliveryTypeOK
  <1>8. WritesOK
    <2>1. Published(settlements) = {} /\ Published(responses) = {}
      BY <1>2, EmptyElements DEF Published
    <2>2. ASSUME NEW w \in Worker, NEW s \in Shard PROVE ThreadWrites(w, s)
      <3>1. /\ job[w][s].trades = <<>> /\ job[w][s].nacks = <<>> /\ job[w][s].tried = 0
        BY <1>2 DEF NewJob
      <3>2. ToSettle(w, s) = <<>>
        BY <3>1, NothingToSettle DEF ToSettle
      <3>. QED BY <3>1, <3>2, EmptyElements DEF ThreadWrites
    <2>. QED BY <2>1, <2>2 DEF WritesOK, PushedIsStored
  <1>9. RecentOK
    <2>1. PassedHasItem
      BY <1>2 DEF PassedHasItem
    <2>2. OneHolder
      BY <1>2, <1>5 DEF OneHolder, Idle
    <2>. QED BY <1>2, <2>1, <2>2 DEF RecentOK
  <1>10. AnswersOK
    BY <1>2, <1>3, <1>5 DEF AnswersOK, ShardPassed, ThreadPasses
  <1>11. SettlementsOK
    BY <1>2, <1>4, <1>5 DEF SettlementsOK, ShardPassed, ThreadPasses
  <1>12. GatewayWritesOK
    BY <1>3, <1>4, EmptyElements DEF GatewayWritesOK, AnswersStored, SettlementsStored
  <1>. QED BY <1>1, <1>7, <1>8, <1>9, <1>10, <1>11, <1>12 DEF DeliveryInv

LEMMA DeliveryContinues ==
  ASSUME EgressAssumption, DeliveryInv, [DeliveryNext]_deliveryVars
  PROVE  DeliveryInv'
  <1>1. CASE RecordArrives \/ EgressStep \/ (\E w \in Worker : CrashEgress(w) \/ RestartEgress(w))
    <2>1. Next /\ UNCHANGED <<answerSide, settlementSide, gup>>
      BY <1>1 DEF RecordArrives, EgressStep, CrashEgress, RestartEgress, OfEgress, Next
    <2>. QED BY <2>1, EgressDelivers
  <1>2. CASE AnswerStep
    BY <1>2, AnswersDeliver
  <1>3. CASE SettlementStep
    BY <1>3, SettlementsDeliver
  <1>4. CASE \E g \in GatewayTask : CrashGateway(g) \/ RestartGateway(g)
    BY <1>4, GatewayCrashDelivers, GatewayRestartDelivers
  <1>5. CASE UNCHANGED deliveryVars
    <2>1. UNCHANGED vars /\ UNCHANGED <<answerSide, settlementSide, gup>>
      BY <1>5 DEF deliveryVars
    <2>. QED BY <2>1, EgressDelivers
  <1>. QED BY <1>1, <1>2, <1>3, <1>4, <1>5 DEF DeliveryNext

----------------------------------------------------------------------------
(* The theorems about the way out as a whole. *)

(* DeliveryInv: what the threads of egress and of the gateway have in hand, *)
(* and what is stored and sent, in every reachable state.                   *)
THEOREM DeliveryInvariance ==
  ASSUME EgressAssumption
  PROVE  DeliverySpec => []DeliveryInv
  <1>1. DeliveryInit => DeliveryInv
    BY DeliveryStarts
  <1>2. DeliveryInv /\ [DeliveryNext]_deliveryVars => DeliveryInv'
    BY DeliveryContinues
  <1>. QED BY <1>1, <1>2, PTL DEF DeliverySpec

(* NothingIsLost: through egress, the two streams and the gateway, no       *)
(* checkpoint is ahead of the push or the send behind it.                   *)
THEOREM DeliveryLosesNothing ==
  ASSUME EgressAssumption
  PROVE  DeliverySpec => []NothingIsLost
  <1>1. ASSUME DeliveryInv PROVE NothingIsLost
    <2>1. DeliveryTypeOK /\ CheckpointedIsSent /\ AnswersOK /\ SettlementsOK
      BY <1>1 DEF DeliveryInv, EInv, CheckpointOK
    <2>2. /\ responses \in [ResponseShard -> Seq(Record)] /\ rckpt \in [ResponseShard -> Nat]
          /\ settlements \in [SettlementShard -> Seq(Settlement)]
          /\ sckpt \in [SettlementShard -> Nat]
      BY <2>1 DEF DeliveryTypeOK, Answers!TypeOK, Answers!ShardTypeOK,
                  Settlements!TypeOK, Settlements!ShardTypeOK
    <2>3. Published(responses) \subseteq Answered \cup Ahead(responses, rckpt)
      <3>. SUFFICES ASSUME NEW z \in ResponseShard, NEW i \in DOMAIN responses[z]
                    PROVE  responses[z][i] \in Answered \cup Ahead(responses, rckpt)
        BY <2>2 DEF Published, Elements
      <3>1. /\ ShardPassed(responses[z], rckpt[z], answers) /\ i \in 1..Len(responses[z])
            /\ rckpt[z] \in Nat
        BY <2>1, <2>2 DEF AnswersOK
      <3>2. i \in 1..rckpt[z] \/ i \in (rckpt[z] + 1)..Len(responses[z])
        BY <3>1
      <3>. QED BY <2>2, <3>1, <3>2 DEF ShardPassed, Answered, Ahead
    <2>4. Published(settlements) \subseteq Ordered \cup Ahead(settlements, sckpt)
      <3>. SUFFICES ASSUME NEW z \in SettlementShard, NEW i \in DOMAIN settlements[z]
                    PROVE  settlements[z][i] \in Ordered \cup Ahead(settlements, sckpt)
        BY <2>2 DEF Published, Elements
      <3>1. /\ ShardPassed(settlements[z], sckpt[z], sent) /\ i \in 1..Len(settlements[z])
            /\ sckpt[z] \in Nat
        BY <2>1, <2>2 DEF SettlementsOK
      <3>2. i \in 1..sckpt[z] \/ i \in (sckpt[z] + 1)..Len(settlements[z])
        BY <3>1
      <3>. QED BY <2>2, <3>1, <3>2 DEF ShardPassed, Ordered, Ahead
    <2>. QED BY <2>1, <2>3, <2>4 DEF NothingIsLost, CheckpointedIsSent
  <1>. QED BY <1>1, DeliveryInvariance, PTL

(* SentIsStored: until a call fails, what egress pushes and what the        *)
(* gateway sends has its item, in spite of the separate loops.              *)
THEOREM DeliveryStoresFirst ==
  ASSUME EgressAssumption
  PROVE  DeliverySpec => []SentIsStored
  <1>1. DeliveryInv => SentIsStored
    BY DEF DeliveryInv, WritesOK, PushedIsStored, HasItem, GatewayWritesOK, AnswersStored,
           SettlementsStored, HasAnswer, SentIsStored, Answered, Ordered
  <1>. QED BY <1>1, DeliveryInvariance, PTL

(* MatchedIsSettled: nor does the gateway, which shares no variable of      *)
(* egress but its streams, leave a trade answered as matched and unsettled. *)
THEOREM DeliveryMatchedIsSettled ==
  ASSUME EgressAssumption
  PROVE  DeliverySpec => []MatchedIsSettled
  <1>1. DeliveryInv => MatchedIsSettled
    BY DEF DeliveryInv, EInv
  <1>. QED BY <1>1, DeliveryInvariance, PTL

(* ItemIsRecent: with everything processed, no lease moved and no write     *)
(* failed, the item of a trade is the last record of some shard, however    *)
(* often crashes had batches delivered again.                               *)
THEOREM DeliveryItemIsRecent ==
  ASSUME EgressAssumption
  PROVE  DeliverySpec => []ItemIsRecent
  <1>1. DeliveryInv => ItemIsRecent
    BY DrainedIsRecent DEF DeliveryInv
  <1>. QED BY <1>1, DeliveryInvariance, PTL

----------------------------------------------------------------------------
(* The last record about a trade in a list that grows. *)

LEMMA LastAppend ==
  ASSUME NEW R, NEW q \in Seq(R), NEW m \in R, NEW t, NEW x \in LastOf(Append(q, m), t)
  PROVE  x.id = t /\ ((m.id = t /\ x = m) \/ (m.id # t /\ x \in LastOf(q, t)))
  <1>1. /\ Len(q) \in Nat /\ DOMAIN q = 1..Len(q) /\ DOMAIN Append(q, m) = 1..(Len(q) + 1)
        /\ Append(q, m)[Len(q) + 1] = m
        /\ \A i \in 1..Len(q) : Append(q, m)[i] = q[i]
    OBVIOUS
  <1>2. PICK j \in 1..(Len(q) + 1) :
           /\ x = Append(q, m)[j] /\ Append(q, m)[j].id = t
           /\ \A k \in 1..(Len(q) + 1) : Append(q, m)[k].id = t => k <= j
    BY <1>1 DEF LastOf
  <1>3. CASE m.id = t
    <2>1. j = Len(q) + 1
      BY <1>1, <1>2, <1>3
    <2>. QED BY <1>1, <1>2, <1>3, <2>1
  <1>4. CASE m.id # t
    <2>1. j \in 1..Len(q) /\ x = q[j]
      BY <1>1, <1>2, <1>4
    <2>2. \A k \in 1..Len(q) : q[k].id = t => k <= j
      BY <1>1, <1>2
    <2>. QED BY <1>1, <1>2, <1>4, <2>1, <2>2 DEF LastOf
  <1>. QED BY <1>3, <1>4

LEMMA LastConcat ==
  ASSUME NEW R, NEW p \in Seq(R), NEW q \in Seq(R), NEW t, NEW x \in LastOf(p \o q, t)
  PROVE  \/ x \in LastOf(q, t)
         \/ x \in LastOf(p, t) /\ \A r \in Elements(q) : r.id # t
  <1>1. /\ Len(p) \in Nat /\ Len(q) \in Nat /\ DOMAIN p = 1..Len(p) /\ DOMAIN q = 1..Len(q)
        /\ DOMAIN (p \o q) = 1..(Len(p) + Len(q))
        /\ \A i \in 1..Len(p) : (p \o q)[i] = p[i]
        /\ \A i \in 1..Len(q) : (p \o q)[Len(p) + i] = q[i]
    <2>1. p \o q \in Seq(R) /\ Len(p \o q) = Len(p) + Len(q)
      OBVIOUS
    <2>2. \A i \in 1..Len(q) : (p \o q)[Len(p) + i] = q[i]
      OBVIOUS
    <2>. QED BY <2>1, <2>2
  <1>2. PICK j \in 1..(Len(p) + Len(q)) :
           /\ x = (p \o q)[j] /\ (p \o q)[j].id = t
           /\ \A k \in 1..(Len(p) + Len(q)) : (p \o q)[k].id = t => k <= j
    BY <1>1 DEF LastOf
  <1>3. \A k \in 1..Len(q) : Len(p) + k \in 1..(Len(p) + Len(q))
    BY <1>1
  <1>4. CASE j > Len(p)
    <2>1. PICK i \in 1..Len(q) : j = Len(p) + i
      <3>1. j - Len(p) \in 1..Len(q) /\ j = Len(p) + (j - Len(p))
        BY <1>1, <1>4
      <3>. QED BY <3>1
    <2>2. x = q[i] /\ q[i].id = t
      BY <1>1, <1>2, <2>1
    <2>3. \A k \in 1..Len(q) : q[k].id = t => k <= i
      BY <1>1, <1>2, <1>3, <2>1
    <2>. QED BY <1>1, <2>2, <2>3 DEF LastOf
  <1>5. CASE j <= Len(p)
    <2>1. j \in 1..Len(p) /\ x = p[j] /\ p[j].id = t
      BY <1>1, <1>2, <1>5
    <2>2. \A k \in 1..Len(p) : p[k].id = t => k <= j
      BY <1>1, <1>2
    <2>3. \A k \in 1..Len(q) : q[k].id # t
      <3>. SUFFICES ASSUME NEW k \in 1..Len(q), q[k].id = t PROVE FALSE
        OBVIOUS
      <3>1. Len(p) + k <= j
        BY <1>1, <1>2, <1>3
      <3>. QED BY <1>1, <1>5, <3>1
    <2>. QED BY <1>1, <2>1, <2>2, <2>3 DEF LastOf, Elements
  <1>. QED BY <1>1, <1>4, <1>5

LEMMA LastEmpty ==
  ASSUME NEW t
  PROVE  LastOf(<<>>, t) = {}
  BY DEF LastOf

(* A record pushed to a stream of one shard comes after all that is there. *)
LEMMA SelectionOfAll ==
  ASSUME NEW R, NEW q \in Seq(R)
  PROVE  Selection(q, DOMAIN q) = q
  <1>1. Len(q) \in Nat /\ DOMAIN q = 1..Len(q) /\ q = [j \in 1..Len(q) |-> q[j]]
    OBVIOUS
  <1>2. Cardinality(1..Len(q)) = Len(q)
    <2>1. 1 \in Int /\ Len(q) \in Int
      BY <1>1
    <2>2. Cardinality(1..Len(q)) = IF 1 > Len(q) THEN 0 ELSE Len(q) - 1 + 1
      BY <2>1, FS_Interval
    <2>. QED BY <1>1, <2>2
  <1>3. ASSUME NEW i \in 1..Len(q)
        PROVE  Cardinality({k \in 1..Len(q) : k < i}) = i - 1
    <2>1. {k \in 1..Len(q) : k < i} = 1..(i - 1)
      BY <1>1
    <2>2. 1 \in Int /\ i - 1 \in Int
      BY <1>1
    <2>3. Cardinality(1..(i - 1)) = IF 1 > i - 1 THEN 0 ELSE i - 1 - 1 + 1
      BY <2>2, FS_Interval
    <2>4. i \in Nat /\ i >= 1
      BY <1>1
    <2>5. Cardinality(1..(i - 1)) = i - 1
      BY <2>3, <2>4
    <2>. QED BY <2>1, <2>5
  <1>4. ASSUME NEW j \in 1..Len(q)
        PROVE  (CHOOSE i \in 1..Len(q) : Cardinality({k \in 1..Len(q) : k < i}) = j - 1) = j
    <2>. DEFINE P(i) == Cardinality({k \in 1..Len(q) : k < i}) = j - 1
    <2>1. P(j) /\ \A i \in 1..Len(q) : P(i) => i = j
      BY <1>1, <1>3
    <2>. HIDE DEF P
    <2>2. \E i \in 1..Len(q) : P(i)
      BY <2>1
    <2>3. (CHOOSE i \in 1..Len(q) : P(i)) \in 1..Len(q) /\ P(CHOOSE i \in 1..Len(q) : P(i))
      BY <2>2
    <2>4. (CHOOSE i \in 1..Len(q) : P(i)) = j
      BY <2>1, <2>3
    <2>. QED BY <2>4 DEF P
  <1>. QED BY <1>1, <1>2, <1>4 DEF Selection

LEMMA ExtendedAlone ==
  ASSUME NEW R, NEW Z, NEW stream \in [Z -> Seq(R)], NEW q \in Seq(R),
         NEW z \in [DOMAIN q -> Z], NEW x \in Z, \A y \in Z : y = x
  PROVE  Extended(stream, q, z, {})[x] = stream[x] \o q
  <1>1. {i \in DOMAIN q \ {} : z[i] = x} = DOMAIN q
    OBVIOUS
  <1>. QED BY <1>1, SelectionOfAll DEF Extended

(* What a shard that grows, or a thread that goes on, leaves of the last    *)
(* record before a position, or but for some positions.                     *)
LEMMA BeforeGrows ==
  ASSUME NEW p, NEW q, Continues(p, q), NEW n \in Nat, n <= Len(p) + 1,
         NEW x, LastBefore(p, n, x)
  PROVE  LastBefore(q, n, x)
  <1>1. PICK i \in 1..Len(p) :
          /\ i < n /\ p[i] = x
          /\ \A k \in 1..Len(p) : i < k /\ k < n => p[k].id # x.id
    BY DEF LastBefore
  <1>2. i \in 1..Len(q) /\ q[i] = x
    BY <1>1 DEF Continues
  <1>3. \A k \in 1..Len(q) : i < k /\ k < n => q[k].id # x.id
    <2>. SUFFICES ASSUME NEW k \in 1..Len(q), i < k, k < n PROVE q[k].id # x.id
      OBVIOUS
    <2>1. k \in 1..Len(p) /\ q[k] = p[k]
      BY DEF Continues
    <2>. QED BY <1>1, <2>1
  <1>. QED BY <1>1, <1>2, <1>3 DEF LastBefore

LEMMA BeforeMoves ==
  ASSUME NEW R, NEW p \in Seq(R), NEW n \in 1..Len(p), NEW x
  PROVE  /\ LastBefore(p, n, x) /\ p[n].id # x.id => LastBefore(p, n + 1, x)
         /\ LastBefore(p, n + 1, p[n])
  <1>1. Len(p) \in Nat
    OBVIOUS
  <1>2. ASSUME LastBefore(p, n, x), p[n].id # x.id
        PROVE  LastBefore(p, n + 1, x)
    <2>1. PICK i \in 1..Len(p) :
            /\ i < n /\ p[i] = x
            /\ \A k \in 1..Len(p) : i < k /\ k < n => p[k].id # x.id
      BY <1>2 DEF LastBefore
    <2>2. \A k \in 1..Len(p) : i < k /\ k < n + 1 => p[k].id # x.id
      BY <1>1, <1>2, <2>1
    <2>. QED BY <1>1, <2>1, <2>2 DEF LastBefore
  <1>3. LastBefore(p, n + 1, p[n])
    BY <1>1 DEF LastBefore
  <1>. QED BY <1>2, <1>3

LEMMA ButGrows ==
  ASSUME NEW p, NEW q, Continues(p, q), NEW V, NEW W, NEW x, LastBut(p, V, x),
         \A k \in 1..Len(p) : k \in V /\ p[k].id = x.id => k \in W,
         \A k \in 1..Len(q) : k > Len(p) => k \in W
  PROVE  LastBut(q, W, x)
  <1>1. PICK i \in 1..Len(p) :
          /\ p[i] = x
          /\ \A k \in 1..Len(p) : i < k /\ p[k].id = x.id => k \in V
    BY DEF LastBut
  <1>2. i \in 1..Len(q) /\ q[i] = x
    BY <1>1 DEF Continues
  <1>3. \A k \in 1..Len(q) : i < k /\ q[k].id = x.id => k \in W
    <2>. SUFFICES ASSUME NEW k \in 1..Len(q), i < k, q[k].id = x.id PROVE k \in W
      OBVIOUS
    <2>1. CASE k > Len(p)
      BY <2>1
    <2>2. CASE k <= Len(p)
      <3>1. k \in 1..Len(p) /\ q[k] = p[k]
        BY <2>2 DEF Continues
      <3>. QED BY <1>1, <3>1
    <2>. QED BY <2>1, <2>2 DEF Continues
  <1>. QED BY <1>2, <1>3 DEF LastBut

LEMMA BeforeBut ==
  ASSUME NEW R, NEW p \in Seq(R), NEW n \in Nat, NEW x, LastBefore(p, n, x), NEW W,
         \A k \in 1..Len(p) : k >= n => k \in W
  PROVE  LastBut(p, W, x)
  <1>1. PICK i \in 1..Len(p) :
          /\ i < n /\ p[i] = x
          /\ \A k \in 1..Len(p) : i < k /\ k < n => p[k].id # x.id
    BY DEF LastBefore
  <1>2. \A k \in 1..Len(p) : i < k /\ p[k].id = x.id => k \in W
    <2>. SUFFICES ASSUME NEW k \in 1..Len(p), i < k, p[k].id = x.id PROVE k \in W
      OBVIOUS
    <2>1. ~(k < n)
      BY <1>1
    <2>. QED BY <2>1
  <1>. QED BY <1>1, <1>2 DEF LastBut

LEMMA ButNothing ==
  ASSUME NEW R, NEW p \in Seq(R), NEW x, LastBut(p, {}, x)
  PROVE  x \in LastOf(p, x.id)
  <1>1. PICK i \in 1..Len(p) :
          /\ p[i] = x
          /\ \A k \in 1..Len(p) : i < k /\ p[k].id = x.id => k \in {}
    BY DEF LastBut
  <1>2. DOMAIN p = 1..Len(p) /\ Len(p) \in Nat
    OBVIOUS
  <1>3. \A k \in DOMAIN p : p[k].id = x.id => k <= i
    BY <1>1, <1>2
  <1>. QED BY <1>1, <1>2, <1>3 DEF LastOf

----------------------------------------------------------------------------
(* EgressIsRecent: the lists of the threads and the response stream. *)

LEMMA LastHasId ==
  ASSUME NEW q, NEW t, NEW x \in LastOf(q, t)
  PROVE  x.id = t
  BY DEF LastOf

(* A list that is as before, or empty, ends as before. *)
LEMMA ListsStay ==
  ASSUME EInv, ListsAreRecent, \A s \in Shard : Continues(log[s], log'[s]),
         \A w \in Worker, s \in Shard :
            \/ job'[w][s].trades = <<>>
            \/ job'[w][s].trades = job[w][s].trades /\ batch'[w][s].pos = batch[w][s].pos
  PROVE  ListsAreRecent'
  <1>. SUFFICES ASSUME NEW w \in Worker, NEW s \in Shard
                PROVE  EndsRecent(job'[w][s].trades, log'[s], batch'[w][s].pos)
    BY DEF ListsAreRecent
  <1>1. CASE job'[w][s].trades = <<>>
    BY <1>1, LastEmpty DEF EndsRecent
  <1>2. CASE job'[w][s].trades = job[w][s].trades /\ batch'[w][s].pos = batch[w][s].pos
    <2>1. /\ EndsRecent(job[w][s].trades, log[s], batch[w][s].pos) /\ Continues(log[s], log'[s])
          /\ batch[w][s].pos \in Nat /\ batch[w][s].pos <= Len(log[s]) + 1
      <3>1. TypeOK /\ ThreadOK(w, s)
        BY DEF EInv
      <3>2. Len(log[s]) \in Nat /\ batch[w][s].pos \in Nat /\ batch[w][s].end \in Nat
        BY <3>1, ThreadTypes
      <3>. QED BY <3>1, <3>2 DEF ThreadOK, ListsAreRecent
    <2>2. EndsRecent(job[w][s].trades, log'[s], batch[w][s].pos)
      BY <2>1, BeforeGrows DEF EndsRecent
    <2>. QED BY <1>2, <2>2
  <1>. QED BY <1>1, <1>2

(* A list to which the record that is passed is added, unless it is a NACK. *)
LEMMA ListsMove ==
  ASSUME EInv, ListsAreRecent, NEW w \in Worker, NEW s \in Shard, Working(w, s), NextRecord(w, s),
         \A x \in Worker, z \in Shard : ~(x = w /\ z = s) => job'[x][z] = job[x][z],
         \/ job'[w][s].trades = Append(job[w][s].trades, Current(w, s))
         \/ job'[w][s].trades = job[w][s].trades /\ Current(w, s).id \notin Trade
  PROVE  ListsAreRecent'
  <1>. DEFINE q == job[w][s].trades
              n == batch[w][s].pos
              c == Current(w, s)
  <1>1. TypeOK
    BY DEF EInv
  <1>2. /\ n \in 1..Len(log[s]) /\ c = log[s][n] /\ c \in Record
        /\ q \in Seq(Record) /\ log[s] \in Seq(Record)
    BY <1>1, CurrentRecord, JobType, ThreadTypes
  <1>3. /\ batch'[w][s].pos = n + 1 /\ log' = log
        /\ \A x \in Worker, z \in Shard : ~(x = w /\ z = s) => batch'[x][z] = batch[x][z]
    BY <1>1, BatchStep DEF NextRecord
  <1>4. EndsRecent(q, log[s], n)
    BY DEF ListsAreRecent
  <1>. HIDE DEF q, n, c
  <1>5. \A t \in Trade : \A x \in LastOf(job'[w][s].trades, t) :
           x = c \/ (x \in LastOf(q, t) /\ c.id # t)
    <2>1. CASE job'[w][s].trades = Append(q, c)
      BY <1>2, <2>1, LastAppend
    <2>2. CASE job'[w][s].trades = q /\ c.id \notin Trade
      BY <2>2
    <2>. QED BY <2>1, <2>2 DEF q, c
  <1>6. EndsRecent(job'[w][s].trades, log[s], n + 1)
    <2>. SUFFICES ASSUME NEW t \in Trade, NEW x \in LastOf(job'[w][s].trades, t)
                  PROVE  LastBefore(log[s], n + 1, x)
      BY DEF EndsRecent
    <2>1. CASE x = c
      BY <1>2, <2>1, BeforeMoves
    <2>2. CASE x \in LastOf(q, t) /\ c.id # t
      <3>1. x.id = t /\ LastBefore(log[s], n, x)
        BY <1>4, <2>2, LastHasId DEF EndsRecent
      <3>. QED BY <1>2, <2>2, <3>1, BeforeMoves
    <2>. QED BY <1>5, <2>1, <2>2
  <1>7. \A x \in Worker, z \in Shard : EndsRecent(job'[x][z].trades, log'[z], batch'[x][z].pos)
    <2>. SUFFICES ASSUME NEW x \in Worker, NEW z \in Shard
                  PROVE  EndsRecent(job'[x][z].trades, log'[z], batch'[x][z].pos)
      OBVIOUS
    <2>1. CASE x = w /\ z = s
      BY <1>3, <1>6, <2>1
    <2>2. CASE ~(x = w /\ z = s)
      <3>1. EndsRecent(job[x][z].trades, log[z], batch[x][z].pos)
        BY DEF ListsAreRecent
      <3>. QED BY <1>3, <2>2, <3>1
    <2>. QED BY <2>1, <2>2
  <1>. QED BY <1>7 DEF ListsAreRecent

(* The stream is as before, and no record is checkpointed, or passed and    *)
(* not listed, that was not.                                                *)
LEMMA ResponsesStay ==
  ASSUME ResponsesAreRecent, responses' = responses, steals' = 0 => steals = 0,
         lost \subseteq lost', \A s \in Shard : Continues(log[s], log'[s]),
         \A s \in Shard : \A k \in Unsent(s) : log[s][k].id \in Trade => k \in Unsent(s)',
         \A s \in Shard : \A k \in 1..Len(log'[s]) : k > Len(log[s]) => k \in Unsent(s)'
  PROVE  ResponsesAreRecent'
  <1>. SUFFICES ASSUME (steals = 0 /\ lost = {} /\ OneResponseShard)',
                       NEW z \in ResponseShard, NEW t \in Trade, NEW x \in LastOf(responses[z], t)
                PROVE  SentLast(x)'
    BY DEF ResponsesAreRecent
  <1>1. SentLast(x) /\ x.id = t
    <2>1. steals = 0 /\ lost = {} /\ OneResponseShard
      BY DEF OneResponseShard
    <2>. QED BY <2>1, LastHasId DEF ResponsesAreRecent
  <1>2. PICK s \in Shard : LastBut(log[s], Unsent(s), x)
    BY <1>1 DEF SentLast
  <1>. DEFINE V == Unsent(s)
              W == Unsent(s)'
  <1>3. /\ \A k \in 1..Len(log[s]) : k \in V /\ log[s][k].id = x.id => k \in W
        /\ \A k \in 1..Len(log'[s]) : k > Len(log[s]) => k \in W
        /\ Continues(log[s], log'[s]) /\ LastBut(log[s], V, x)
    BY <1>1, <1>2
  <1>. HIDE DEF V, W
  <1>4. LastBut(log'[s], W, x)
    BY <1>3, ButGrows
  <1>. QED BY <1>4 DEF SentLast, W

(* Nothing that a thread has passed, checkpointed or listed changes. *)
LEMMA QuietEgress ==
  ASSUME EInv, TypeOK', EgressIsRecent, \A s \in Shard : Continues(log[s], log'[s]),
         ckpt' = ckpt, responses' = responses, steals' >= steals, lost \subseteq lost',
         \A w \in Worker : up'[w] => up[w],
         \A w \in Worker, s \in Shard :
            job'[w][s].trades = job[w][s].trades /\ batch'[w][s].pos = batch[w][s].pos
  PROVE  EgressIsRecent'
  <1>1. ListsAreRecent'
    BY ListsStay DEF EgressIsRecent
  <1>2. \A s \in Shard : \A k \in Unsent(s) : k \in Unsent(s)'
    <2>. SUFFICES ASSUME NEW s \in Shard, NEW k \in Unsent(s)
                  PROVE  k \in Unsent(s)'
      OBVIOUS
    <2>1. /\ k \in 1..Len(log[s]) /\ ckpt[s] < k
          /\ \A w \in Worker : up[w] /\ ~Idle(w, s) /\ k < batch[w][s].pos =>
               log[s][k] \in Elements(job[w][s].trades)
      BY DEF Unsent
    <2>2. k \in 1..Len(log'[s]) /\ log'[s][k] = log[s][k]
      BY <2>1 DEF Continues
    <2>3. \A w \in Worker : (up[w] /\ ~Idle(w, s))' => up[w] /\ ~Idle(w, s)
      BY DEF Idle
    <2>4. \A w \in Worker : (up[w] /\ ~Idle(w, s))' /\ k < batch'[w][s].pos =>
             log'[s][k] \in Elements(job'[w][s].trades)
      BY <2>1, <2>2, <2>3
    <2>. QED BY <2>1, <2>2, <2>4 DEF Unsent
  <1>3. \A s \in Shard : \A k \in 1..Len(log'[s]) : k > Len(log[s]) => k \in Unsent(s)'
    <2>. SUFFICES ASSUME NEW s \in Shard, NEW k \in 1..Len(log'[s]), k > Len(log[s])
                  PROVE  k \in Unsent(s)'
      OBVIOUS
    <2>1. Len(log[s]) \in Nat /\ ckpt[s] \in Nat /\ ckpt[s] <= Len(log[s])
      BY ThreadTypes DEF EInv, CheckpointOK, Continues, TypeOK, ShardTypeOK
    <2>2. \A w \in Worker : ~(k < batch'[w][s].pos)
      <3>. SUFFICES ASSUME NEW w \in Worker PROVE ~(k < batch[w][s].pos)
        OBVIOUS
      <3>1. batch[w][s].pos \in Nat /\ batch[w][s].end \in Nat
        BY ThreadTypes DEF EInv
      <3>2. batch[w][s].pos <= batch[w][s].end + 1 /\ batch[w][s].end <= Len(log[s])
        BY DEF EInv, ThreadOK
      <3>. QED BY <2>1, <3>1, <3>2
    <2>3. ckpt'[s] < k
      BY <2>1
    <2>. QED BY <2>2, <2>3 DEF Unsent
  <1>4. steals' = 0 => steals = 0
    BY DEF EInv, TypeOK, ShardTypeOK
  <1>5. ResponsesAreRecent'
    BY <1>2, <1>3, <1>4, ResponsesStay DEF EgressIsRecent
  <1>. QED BY <1>1, <1>5 DEF EgressIsRecent

(* A thread that only changes its own batch and list, and does not drop a   *)
(* listed record, leaves the stream recent.                                 *)
LEMMA ThreadStays ==
  ASSUME EInv, EgressIsRecent, UNCHANGED <<log, up, responses, steals, lost>>,
         NEW w \in Worker, NEW s \in Shard,
         \A x \in Worker, z \in Shard : ~(x = w /\ z = s) =>
            batch'[x][z] = batch[x][z] /\ job'[x][z] = job[x][z],
         \A z \in Shard : z # s => ckpt'[z] = ckpt[z],
         \A k \in Unsent(s) : log[s][k].id \in Trade =>
            /\ ckpt'[s] < k
            /\ up[w] /\ ~Idle(w, s)' /\ k < batch'[w][s].pos =>
                 log[s][k] \in Elements(job'[w][s].trades)
  PROVE  ResponsesAreRecent'
  <1>1. \A z \in Shard : \A k \in Unsent(z) : log[z][k].id \in Trade => k \in Unsent(z)'
    <2>. SUFFICES ASSUME NEW z \in Shard, NEW k \in Unsent(z), log[z][k].id \in Trade
                  PROVE  k \in Unsent(z)'
      OBVIOUS
    <2>1. /\ k \in 1..Len(log[z]) /\ ckpt[z] < k
          /\ \A x \in Worker : up[x] /\ ~Idle(x, z) /\ k < batch[x][z].pos =>
               log[z][k] \in Elements(job[x][z].trades)
      BY DEF Unsent
    <2>2. ckpt'[z] < k
      BY <2>1
    <2>3. \A x \in Worker : (up[x] /\ ~Idle(x, z))' /\ k < batch'[x][z].pos =>
             log[z][k] \in Elements(job'[x][z].trades)
      <3>. SUFFICES ASSUME NEW x \in Worker, (up[x] /\ ~Idle(x, z))', k < batch'[x][z].pos
                    PROVE  log[z][k] \in Elements(job'[x][z].trades)
        OBVIOUS
      <3>1. CASE x = w /\ z = s
        BY <3>1
      <3>2. CASE ~(x = w /\ z = s)
        <4>1. batch'[x][z] = batch[x][z] /\ job'[x][z] = job[x][z] /\ up[x] /\ ~Idle(x, z)
          BY <3>2 DEF Idle
        <4>. QED BY <2>1, <4>1
      <3>. QED BY <3>1, <3>2
    <2>. QED BY <2>1, <2>2, <2>3 DEF Unsent
  <1>2. \A z \in Shard : Continues(log[z], log'[z])
    BY SameContinues DEF EInv, TypeOK, ShardTypeOK
  <1>3. \A z \in Shard : \A k \in 1..Len(log'[z]) : k > Len(log[z]) => k \in Unsent(z)'
    BY <1>2 DEF Continues
  <1>. QED BY <1>1, <1>2, <1>3, ResponsesStay DEF EgressIsRecent

LEMMA StoreTradeLists ==
  ASSUME EInv, EgressIsRecent, NEW w \in Worker, NEW s \in Shard, StoreTrade(w, s)
  PROVE  EgressIsRecent'
  <1>. DEFINE c == Current(w, s)
              next == [job[w][s] EXCEPT !.trades = Append(@, c)]
              n == batch[w][s].pos
  <1>1. /\ Working(w, s) /\ NextRecord(w, s) /\ Goto(w, s, next) /\ TypeOK
        /\ UNCHANGED <<responses, lost>>
    BY DEF StoreTrade, EInv
  <1>2. /\ c \in Record /\ c = log[s][n] /\ n \in 1..Len(log[s]) /\ job[w][s] \in Job
        /\ job[w][s].trades \in Seq(Record)
    BY <1>1, CurrentRecord, JobType
  <1>3. Append(job[w][s].trades, c) \in Seq(Record)
        /\ Elements(Append(job[w][s].trades, c)) = Elements(job[w][s].trades) \cup {c}
    BY <1>2, AppendElements
  <1>4. next \in Job /\ next.trades = Append(job[w][s].trades, c)
    BY <1>2, <1>3 DEF Job
  <1>. HIDE DEF next, c
  <1>5. /\ job'[w][s] = next
        /\ \A x \in Worker, z \in Shard : ~(x = w /\ z = s) => job'[x][z] = job[x][z]
    BY <1>1, <1>4, GotoJob
  <1>6. ListsAreRecent'
    BY <1>1, <1>4, <1>5, ListsMove DEF EgressIsRecent, c
  <1>7. /\ batch'[w][s].pos = n + 1
        /\ \A x \in Worker, z \in Shard : ~(x = w /\ z = s) => batch'[x][z] = batch[x][z]
        /\ UNCHANGED <<log, ckpt, up, steals>>
    BY <1>1, BatchStep DEF NextRecord, workerVars
  <1>8. \A k \in Unsent(s) :
          /\ ckpt'[s] < k
          /\ k < n + 1 => log[s][k] \in Elements(next.trades)
    <2>. SUFFICES ASSUME NEW k \in Unsent(s)
                  PROVE  /\ ckpt'[s] < k
                         /\ k < n + 1 => log[s][k] \in Elements(next.trades)
      OBVIOUS
    <2>1. /\ k \in 1..Len(log[s]) /\ ckpt[s] < k
          /\ up[w] /\ ~Idle(w, s) /\ k < n => log[s][k] \in Elements(job[w][s].trades)
      BY DEF Unsent
    <2>2. up[w] /\ ~Idle(w, s)
      BY <1>1 DEF Working
    <2>3. k < n + 1 => k < n \/ k = n
      BY <1>2, <2>1
    <2>. QED BY <1>2, <1>3, <1>4, <1>7, <2>1, <2>2, <2>3
  <1>9. ResponsesAreRecent'
    <2>. HIDE DEF n
    <2>. QED BY <1>1, <1>5, <1>7, <1>8, ThreadStays
  <1>. QED BY <1>6, <1>9 DEF EgressIsRecent

LEMMA CollectNackLists ==
  ASSUME EgressAssumption, EInv, EgressIsRecent, NEW w \in Worker, NEW s \in Shard,
         CollectNack(w, s)
  PROVE  EgressIsRecent'
  <1>. DEFINE c == Current(w, s)
              next == [job[w][s] EXCEPT !.nacks = Append(@, c)]
              n == batch[w][s].pos
  <1>1. /\ Working(w, s) /\ NextRecord(w, s) /\ Goto(w, s, next) /\ TypeOK
        /\ c.id \in Nack /\ UNCHANGED <<responses, lost>>
    BY DEF CollectNack, EInv, streams
  <1>2. /\ c \in Record /\ c = log[s][n] /\ n \in 1..Len(log[s]) /\ job[w][s] \in Job
        /\ job[w][s].nacks \in Seq(Record)
    BY <1>1, CurrentRecord, JobType
  <1>3. c.id \notin Trade /\ Append(job[w][s].nacks, c) \in Seq(Record)
    BY <1>1, <1>2, NackHasNoTrade
  <1>4. next \in Job /\ next.trades = job[w][s].trades
    BY <1>2, <1>3 DEF Job
  <1>. HIDE DEF next, c
  <1>5. /\ job'[w][s] = next
        /\ \A x \in Worker, z \in Shard : ~(x = w /\ z = s) => job'[x][z] = job[x][z]
    BY <1>1, <1>4, GotoJob
  <1>6. ListsAreRecent'
    BY <1>1, <1>3, <1>4, <1>5, ListsMove DEF EgressIsRecent, c
  <1>7. /\ batch'[w][s].pos = n + 1
        /\ \A x \in Worker, z \in Shard : ~(x = w /\ z = s) => batch'[x][z] = batch[x][z]
        /\ UNCHANGED <<log, ckpt, up, steals>>
    BY <1>1, BatchStep DEF NextRecord, workerVars
  <1>8. \A k \in Unsent(s) : log[s][k].id \in Trade =>
          /\ ckpt'[s] < k
          /\ k < n + 1 => log[s][k] \in Elements(next.trades)
    <2>. SUFFICES ASSUME NEW k \in Unsent(s), log[s][k].id \in Trade
                  PROVE  /\ ckpt'[s] < k
                         /\ k < n + 1 => log[s][k] \in Elements(next.trades)
      OBVIOUS
    <2>1. /\ k \in 1..Len(log[s]) /\ ckpt[s] < k
          /\ up[w] /\ ~Idle(w, s) /\ k < n => log[s][k] \in Elements(job[w][s].trades)
      BY DEF Unsent
    <2>2. up[w] /\ ~Idle(w, s)
      BY <1>1 DEF Working
    <2>3. k < n + 1 => k < n \/ k = n
      BY <1>2, <2>1
    <2>. QED BY <1>2, <1>3, <1>4, <1>7, <2>1, <2>2, <2>3
  <1>9. ResponsesAreRecent'
    <2>. HIDE DEF n
    <2>. QED BY <1>1, <1>5, <1>7, <1>8, ThreadStays
  <1>. QED BY <1>6, <1>9 DEF EgressIsRecent

LEMMA StoreNextLists ==
  ASSUME EgressAssumption, EInv, TypeOK', EgressIsRecent, NEW w \in Worker, NEW s \in Shard,
         StoreSettlement(w, s) \/ StoreNack(w, s)
  PROVE  EgressIsRecent'
  <1>1. TypeOK /\ job[w][s].trades \in Seq(Record) /\ job[w][s].nacks \in Seq(Record)
    BY JobType DEF EInv
  <1>2. /\ job'[w][s].trades = job[w][s].trades
        /\ \A x \in Worker, z \in Shard : ~(x = w /\ z = s) => job'[x][z] = job[x][z]
        /\ UNCHANGED <<log, ckpt, batch, steals, up, responses>>
    <2>1. CASE StoreSettlement(w, s)
      <3>1. StoreNext(w, s, ToSettle(w, s))
        BY <2>1 DEF StoreSettlement
      <3>2. ToSettle(w, s) \in Seq(Settlement)
        BY <1>1, SettlementListElements DEF ToSettle
      <3>3. Settlement \in SUBSET (Record \cup Settlement)
        OBVIOUS
      <3>. QED BY <3>1, <3>2, <3>3, StoreNextMoves
    <2>2. CASE StoreNack(w, s)
      <3>1. StoreNext(w, s, job[w][s].nacks)
        BY <2>2 DEF StoreNack
      <3>2. Record \in SUBSET (Record \cup Settlement)
        OBVIOUS
      <3>. QED BY <1>1, <3>1, <3>2, StoreNextMoves
    <2>. QED BY <2>1, <2>2
  <1>3. lost' = lost /\ steals' >= steals
    BY <1>1, <1>2 DEF StoreSettlement, StoreNack, StoreNext, TypeOK, ShardTypeOK
  <1>4. \A z \in Shard : Continues(log[z], log'[z])
    BY <1>1, <1>2, SameContinues DEF TypeOK, ShardTypeOK
  <1>5. \A x \in Worker, z \in Shard :
           job'[x][z].trades = job[x][z].trades /\ batch'[x][z].pos = batch[x][z].pos
    BY <1>2
  <1>. QED BY <1>2, <1>3, <1>4, <1>5, QuietEgress

LEMMA PushSettlementsLists ==
  ASSUME EgressAssumption, EInv, TypeOK', EgressIsRecent, NEW w \in Worker, NEW s \in Shard,
         PushSettlements(w, s)
  PROVE  EgressIsRecent'
  <1>. DEFINE q == ToSettle(w, s)
              next == [job[w][s] EXCEPT !.settled = TRUE]
  <1>1. Push(w, s, settlements, q, next) /\ UNCHANGED responses /\ TypeOK
    BY DEF PushSettlements, EInv
  <1>2. job[w][s] \in Job /\ job[w][s].trades \in Seq(Record)
    BY <1>1, JobType
  <1>3. q \in Seq(Settlement)
    BY <1>2, SettlementListElements DEF ToSettle
  <1>4. next \in Job /\ next.trades = job[w][s].trades
    BY <1>2 DEF Job
  <1>. HIDE DEF q, next
  <1>5. lost \subseteq lost' /\ ((Halt(w) /\ job' = job) \/ (Goto(w, s, next) /\ StayAtRecord))
    BY <1>1, <1>3, SettlementsPushed
  <1>6. UNCHANGED <<log, ckpt, batch, steals>> /\ \A x \in Worker : up'[x] => up[x]
    BY <1>1, <1>5, HaltStops DEF Halt, StayAtRecord, shardVars, workerVars
  <1>7. \A x \in Worker, z \in Shard : job'[x][z].trades = job[x][z].trades
    BY <1>1, <1>4, <1>5, GotoJob
  <1>8. /\ \A z \in Shard : Continues(log[z], log'[z])
        /\ steals' >= steals
    BY <1>1, <1>6, SameContinues DEF TypeOK, ShardTypeOK
  <1>. QED BY <1>1, <1>5, <1>6, <1>7, <1>8, QuietEgress

(* A push to one shard of which nothing is refused adds all of q, or fails  *)
(* before the stream accepted it.                                           *)
LEMMA ResponsesAlone ==
  ASSUME TypeOK, NEW w \in Worker, NEW s \in Shard, NEW q \in Seq(Record), NEW next,
         Push(w, s, responses, q, next), lost' = {}, OneResponseShard, NEW y \in ResponseShard
  PROVE  \/ responses'[y] = responses[y] \o q
         \/ responses' = responses /\ Halt(w) /\ job' = job
  <1>1. /\ responses \in [ResponseShard -> Seq(Record)] /\ DOMAIN responses = ResponseShard
        /\ \A a, b \in ResponseShard : a = b
    BY DEF TypeOK, OneResponseShard
  <1>2. ASSUME NEW z \in [DOMAIN q -> DOMAIN responses], responses' = Extended(responses, q, z, {})
        PROVE  responses'[y] = responses[y] \o q
    <2>1. Extended(responses, q, z, {})[y] = responses[y] \o q
      <3>1. z \in [DOMAIN q -> ResponseShard] /\ \A a \in ResponseShard : a = y
        BY <1>1
      <3>. QED BY <1>1, <3>1, ExtendedAlone
    <2>. QED BY <1>2, <2>1
  <1>3. CASE \E z \in [DOMAIN q -> DOMAIN responses], gone \in SUBSET DOMAIN q :
               /\ lost' = lost \cup {q[i] : i \in gone}
               /\ responses' = Extended(responses, q, z, gone)
    <2>1. PICK z \in [DOMAIN q -> DOMAIN responses], gone \in SUBSET DOMAIN q :
            /\ lost' = lost \cup {q[i] : i \in gone}
            /\ responses' = Extended(responses, q, z, gone)
      BY <1>3
    <2>2. gone = {}
      BY <2>1
    <2>. QED BY <1>2, <2>1, <2>2
  <1>4. CASE /\ \/ UNCHANGED responses
                \/ \E z \in [DOMAIN q -> DOMAIN responses] : responses' = Extended(responses, q, z, {})
             /\ Halt(w) /\ UNCHANGED <<job, lost>>
    BY <1>2, <1>4
  <1>5. CASE Halt(w) /\ UNCHANGED <<responses, job, lost, fails>>
    BY <1>5
  <1>. QED BY <1>3, <1>4, <1>5 DEF Push

(* The answers that are pushed are about the last records the thread has    *)
(* passed, and nobody who has passed them too has still to push his.        *)
LEMMA PushAnswersLists ==
  ASSUME EgressAssumption, EInv, TypeOK', RecentOK, EgressIsRecent,
         NEW w \in Worker, NEW s \in Shard, Finished(w, s),
         NEW q \in Seq(Record), EndsRecent(q, log[s], batch[w][s].pos),
         Elements(job[w][s].trades) \subseteq Elements(q),
         NEW next \in Job, next.trades = <<>>, Push(w, s, responses, q, next)
  PROVE  EgressIsRecent'
  <1>1. /\ TypeOK /\ batch[w][s].pos \in Nat /\ batch[w][s].end \in Nat
        /\ log[s] \in Seq(Record) /\ Len(log[s]) \in Nat
    BY ThreadTypes DEF EInv
  <1>2. /\ lost \subseteq lost'
        /\ \/ Halt(w) /\ job' = job
           \/ Goto(w, s, next) /\ StayAtRecord
    BY <1>1, ResponsesPushed
  <1>3. UNCHANGED <<log, ckpt, batch, steals>> /\ \A x \in Worker : up'[x] => up[x]
    BY <1>1, <1>2, HaltStops DEF Halt, StayAtRecord, shardVars, workerVars
  <1>4. /\ \A z \in Shard : Continues(log[z], log'[z])
        /\ steals' >= steals
    BY <1>1, <1>3, SameContinues DEF TypeOK, ShardTypeOK
  <1>5. \A x \in Worker, z \in Shard :
          \/ job'[x][z] = job[x][z]
          \/ x = w /\ z = s /\ job'[x][z].trades = <<>>
    BY <1>1, <1>2, GotoJob
  <1>6. ListsAreRecent'
    BY <1>3, <1>4, <1>5, ListsStay DEF EgressIsRecent
  <1>7. CASE responses' = responses /\ Halt(w) /\ job' = job
    <2>1. \A x \in Worker, z \in Shard :
             job'[x][z].trades = job[x][z].trades /\ batch'[x][z].pos = batch[x][z].pos
      BY <1>3, <1>7
    <2>. QED BY <1>2, <1>3, <1>4, <1>7, <2>1, QuietEgress
  <1>8. CASE ~(responses' = responses /\ Halt(w) /\ job' = job)
    <2>. SUFFICES ASSUME (steals = 0 /\ lost = {} /\ OneResponseShard)',
                         NEW y \in ResponseShard, NEW t \in Trade, NEW x \in LastOf(responses'[y], t)
                  PROVE  SentLast(x)'
      BY <1>6 DEF EgressIsRecent, ResponsesAreRecent
    <2>1. steals = 0 /\ lost = {} /\ lost' = {} /\ OneResponseShard
      BY <1>2, <1>3 DEF OneResponseShard
    <2>2. responses'[y] = responses[y] \o q
      BY <1>1, <1>8, <2>1, ResponsesAlone
    <2>3. responses[y] \in Seq(Record)
      BY <1>1 DEF TypeOK
    <2>4. x \in LastOf(q, t) \/ (x \in LastOf(responses[y], t) /\ \A r \in Elements(q) : r.id # t)
      BY <2>2, <2>3, LastConcat
    <2>5. CASE x \in LastOf(q, t)
      <3>1. LastBefore(log[s], batch[w][s].pos, x)
        BY <2>5 DEF EndsRecent
      <3>2. up[w] /\ ~Idle(w, s)
        BY <1>1 DEF Finished, Idle
      <3>3. OneHolder
        BY <2>1 DEF RecentOK
      <3>4. ASSUME NEW k \in 1..Len(log[s]), k >= batch[w][s].pos PROVE k \in Unsent(s)'
        <4>1. owner[s] = w /\ ckpt[s] < batch[w][s].pos
          BY <3>2, <3>3 DEF OneHolder
        <4>2. ckpt'[s] < k
          BY <1>1, <1>3, <3>4, <4>1 DEF TypeOK, ShardTypeOK
        <4>3. \A v \in Worker : ~(up'[v] /\ ~Idle(v, s)' /\ k < batch'[v][s].pos)
          <5>. SUFFICES ASSUME NEW v \in Worker, up'[v], ~Idle(v, s)', k < batch'[v][s].pos
                        PROVE  FALSE
            OBVIOUS
          <5>1. up[v] /\ ~Idle(v, s)
            BY <1>3 DEF Idle
          <5>2. v = w
            BY <3>3, <4>1, <5>1 DEF OneHolder
          <5>. QED BY <1>1, <1>3, <3>4, <5>2
        <4>. QED BY <1>3, <4>2, <4>3 DEF Unsent
      <3>. DEFINE W == Unsent(s)'
      <3>5. \A k \in 1..Len(log[s]) : k >= batch[w][s].pos => k \in W
        BY <3>4
      <3>. HIDE DEF W
      <3>6. LastBut(log[s], W, x)
        BY <1>1, <3>1, <3>5, BeforeBut
      <3>. QED BY <1>3, <3>6 DEF SentLast, W
    <2>6. CASE x \in LastOf(responses[y], t) /\ \A r \in Elements(q) : r.id # t
      <3>1. SentLast(x) /\ x.id = t
        BY <2>1, <2>6, LastHasId DEF EgressIsRecent, ResponsesAreRecent
      <3>2. PICK z \in Shard : LastBut(log[z], Unsent(z), x)
        BY <3>1 DEF SentLast
      <3>3. ASSUME NEW k \in Unsent(z), log[z][k].id = t PROVE k \in Unsent(z)'
        <4>1. /\ k \in 1..Len(log[z]) /\ ckpt[z] < k
              /\ \A v \in Worker : up[v] /\ ~Idle(v, z) /\ k < batch[v][z].pos =>
                   log[z][k] \in Elements(job[v][z].trades)
          BY DEF Unsent
        <4>2. ASSUME NEW v \in Worker, up'[v], ~Idle(v, z)', k < batch'[v][z].pos
              PROVE  log[z][k] \in Elements(job'[v][z].trades)
          <5>1. log[z][k] \in Elements(job[v][z].trades)
            <6>1. up[v] /\ ~Idle(v, z)
              BY <1>3, <4>2 DEF Idle
            <6>. QED BY <1>3, <4>1, <4>2, <6>1
          <5>2. ~(v = w /\ z = s)
            BY <2>6, <3>3, <5>1
          <5>. QED BY <1>5, <5>1, <5>2
        <4>. QED BY <1>3, <4>1, <4>2 DEF Unsent
      <3>. DEFINE V == Unsent(z)
                  W == Unsent(z)'
      <3>4. /\ \A k \in 1..Len(log[z]) : k \in V /\ log[z][k].id = x.id => k \in W
            /\ LastBut(log[z], V, x)
        BY <3>1, <3>2, <3>3
      <3>. HIDE DEF V, W
      <3>5. /\ Continues(log[z], log[z])
            /\ \A k \in 1..Len(log[z]) : k > Len(log[z]) => k \in W
        BY <1>3, <1>4 DEF Continues
      <3>6. LastBut(log[z], W, x)
        BY <3>4, <3>5, ButGrows
      <3>. QED BY <1>3, <3>6 DEF SentLast, W
    <2>. QED BY <2>4, <2>5, <2>6
  <1>. QED BY <1>7, <1>8

LEMMA PushResponsesLists ==
  ASSUME EgressAssumption, EInv, TypeOK', RecentOK, EgressIsRecent,
         NEW w \in Worker, NEW s \in Shard, PushResponses(w, s)
  PROVE  EgressIsRecent'
  <1>. DEFINE q == job[w][s].trades
              next == [NewJob EXCEPT !.nacks = job[w][s].nacks]
  <1>1. /\ Finished(w, s) /\ Push(w, s, responses, q, next) /\ TypeOK
    BY DEF PushResponses, EInv
  <1>2. q \in Seq(Record) /\ job[w][s].nacks \in Seq(Record)
    BY <1>1, JobType
  <1>3. next \in Job /\ next.trades = <<>>
    BY <1>2, NewJobType DEF NewJob, Job
  <1>4. EndsRecent(q, log[s], batch[w][s].pos)
    BY DEF EgressIsRecent, ListsAreRecent
  <1>5. Elements(job[w][s].trades) \subseteq Elements(q)
    OBVIOUS
  <1>. HIDE DEF next, q
  <1>. QED BY <1>1, <1>2, <1>3, <1>4, <1>5, PushAnswersLists

LEMMA PushNacksLists ==
  ASSUME EgressAssumption, EInv, TypeOK', RecentOK, EgressIsRecent,
         NEW w \in Worker, NEW s \in Shard, PushNacks(w, s)
  PROVE  EgressIsRecent'
  <1>. DEFINE q == job[w][s].nacks
  <1>1. /\ Finished(w, s) /\ Push(w, s, responses, q, NewJob) /\ TypeOK
        /\ job[w][s].trades = <<>>
    BY DEF PushNacks, EInv
  <1>2. q \in Seq(Record) /\ NewJob \in Job /\ NewJob.trades = <<>>
    BY <1>1, JobType, NewJobType DEF NewJob
  <1>3. EndsRecent(q, log[s], batch[w][s].pos)
    <2>1. \A r \in Elements(q) : r.id \notin Trade
      <3>. SUFFICES ASSUME NEW r \in Elements(q) PROVE r.id \notin Trade
        OBVIOUS
      <3>1. r \in Record
        BY <1>2 DEF Elements
      <3>2. r.status = "NACK"
        BY DEF EInv, ThreadOK
      <3>. QED BY <3>1, <3>2, NackHasNoTrade
    <2>2. \A t \in Trade : LastOf(q, t) = {}
      BY <2>1 DEF LastOf, Elements
    <2>. QED BY <2>2 DEF EndsRecent
  <1>4. Elements(job[w][s].trades) \subseteq Elements(q)
    BY <1>1, EmptyElements
  <1>. HIDE DEF q
  <1>. QED BY <1>1, <1>2, <1>3, <1>4, PushAnswersLists

(* What a checkpoint passes is behind its thread, whose list is empty. *)
LEMMA CheckpointLists ==
  ASSUME EInv, TypeOK', EgressIsRecent, NEW w \in Worker, NEW s \in Shard, Checkpoint(w, s)
  PROVE  EgressIsRecent'
  <1>1. /\ job[w][s] = NewJob /\ CheckpointBatch(w, s) /\ Finished(w, s) /\ TypeOK
        /\ UNCHANGED <<job, responses, lost>>
    BY DEF Checkpoint, Rest, streams, CheckpointBatch, EInv
  <1>2. /\ batch[w][s].pos \in Nat /\ batch[w][s].end \in Nat /\ Len(log[s]) \in Nat
        /\ batch[w][s].pos <= batch[w][s].end + 1 /\ batch[w][s].pos > batch[w][s].end
        /\ batch \in [Worker -> [Shard -> [pos : Nat, end : Nat]]] /\ ckpt \in [Shard -> Nat]
    BY <1>1, ThreadTypes DEF EInv, ThreadOK, Finished, TypeOK, ShardTypeOK
  <1>3. CASE owner[s] # w
    <2>1. Halt(w)
      BY <1>1, <1>3 DEF CheckpointBatch
    <2>2. /\ UNCHANGED <<log, ckpt, batch, steals>>
          /\ \A x \in Worker : up'[x] => up[x]
      BY <1>1, <2>1, HaltStops DEF Halt, shardVars
    <2>3. (\A z \in Shard : Continues(log[z], log'[z])) /\ steals' >= steals
      BY <1>1, <2>2, SameContinues DEF TypeOK, ShardTypeOK
    <2>. QED BY <1>1, <2>2, <2>3, QuietEgress
  <1>4. CASE owner[s] = w
    <2>1. /\ ckpt' = [ckpt EXCEPT ![s] = batch[w][s].end]
          /\ batch' = [batch EXCEPT ![w][s] = NoBatch]
          /\ UNCHANGED <<log, steals, up>>
      BY <1>1, <1>4 DEF CheckpointBatch, workerVars
    <2>2. /\ ckpt'[s] = batch[w][s].end /\ batch'[w][s].pos = 0
          /\ \A z \in Shard : z # s => ckpt'[z] = ckpt[z]
          /\ \A x \in Worker, z \in Shard : ~(x = w /\ z = s) => batch'[x][z] = batch[x][z]
      BY <1>2, <2>1 DEF NoBatch
    <2>3. job[w][s].trades = <<>>
      BY <1>1 DEF NewJob
    <2>4. ListsAreRecent'
      <3>1. \A z \in Shard : Continues(log[z], log'[z])
        BY <1>1, <2>1, SameContinues DEF TypeOK, ShardTypeOK
      <3>2. \A x \in Worker, z \in Shard :
               \/ job'[x][z].trades = <<>>
               \/ job'[x][z].trades = job[x][z].trades /\ batch'[x][z].pos = batch[x][z].pos
        BY <1>1, <2>2, <2>3
      <3>. QED BY <3>1, <3>2, ListsStay DEF EgressIsRecent
    <2>5. \A k \in Unsent(s) : ckpt'[s] < k
      <3>. SUFFICES ASSUME NEW k \in Unsent(s) PROVE ckpt'[s] < k
        OBVIOUS
      <3>1. /\ k \in 1..Len(log[s])
            /\ up[w] /\ ~Idle(w, s) /\ k < batch[w][s].pos => log[s][k] \in Elements(job[w][s].trades)
        BY DEF Unsent
      <3>2. up[w] /\ ~Idle(w, s)
        BY <1>1, <1>2 DEF Finished, Idle
      <3>3. ~(k < batch[w][s].pos)
        BY <2>3, <3>1, <3>2, EmptyElements
      <3>. QED BY <1>2, <2>2, <3>1, <3>3
    <2>6. Idle(w, s)'
      BY <2>2 DEF Idle
    <2>7. ResponsesAreRecent'
      BY <1>1, <2>1, <2>2, <2>5, <2>6, ThreadStays
    <2>. QED BY <2>4, <2>7 DEF EgressIsRecent
  <1>. QED BY <1>3, <1>4

LEMMA FetchLists ==
  ASSUME EInv, EgressIsRecent, NEW w \in Worker, NEW s \in Shard, Fetch(w, s)
  PROVE  EgressIsRecent'
  <1>1. /\ FetchBatch(w, s) /\ Idle(w, s) /\ TypeOK
        /\ UNCHANGED <<job, responses, lost, log, ckpt, steals, up>>
    BY DEF Fetch, FetchBatch, Rest, streams, workerVars, EInv
  <1>2. job[w][s].trades = <<>>
    BY <1>1 DEF EInv, ThreadOK, NewJob
  <1>3. PICK e \in (ckpt[s] + 1)..Len(log[s]) :
          batch' = [batch EXCEPT ![w][s] = [pos |-> ckpt[s] + 1, end |-> e]]
    BY <1>1 DEF FetchBatch
  <1>4. /\ batch \in [Worker -> [Shard -> [pos : Nat, end : Nat]]] /\ ckpt[s] \in Nat
        /\ Len(log[s]) \in Nat
    BY <1>1, ThreadTypes DEF TypeOK, ShardTypeOK
  <1>5. /\ batch'[w][s].pos = ckpt[s] + 1
        /\ \A x \in Worker, z \in Shard : ~(x = w /\ z = s) => batch'[x][z] = batch[x][z]
    BY <1>3, <1>4
  <1>6. ListsAreRecent'
    <2>1. \A z \in Shard : Continues(log[z], log'[z])
      BY <1>1, SameContinues DEF TypeOK, ShardTypeOK
    <2>2. \A x \in Worker, z \in Shard :
             \/ job'[x][z].trades = <<>>
             \/ job'[x][z].trades = job[x][z].trades /\ batch'[x][z].pos = batch[x][z].pos
      BY <1>1, <1>2, <1>5
    <2>. QED BY <2>1, <2>2, ListsStay DEF EgressIsRecent
  <1>7. \A k \in Unsent(s) : ckpt'[s] < k /\ ~(k < batch'[w][s].pos)
    BY <1>1, <1>4, <1>5 DEF Unsent
  <1>8. ResponsesAreRecent'
    BY <1>1, <1>5, <1>7, ThreadStays
  <1>. QED BY <1>6, <1>8 DEF EgressIsRecent

LEMMA RestartLists ==
  ASSUME EInv, EgressIsRecent, NEW w \in Worker, Restart(w)
  PROVE  EgressIsRecent'
  <1>1. /\ up' = [up EXCEPT ![w] = TRUE]
        /\ batch' = [batch EXCEPT ![w] = [s \in Shard |-> NoBatch]]
        /\ job' = [job EXCEPT ![w] = [s \in Shard |-> NewJob]]
        /\ UNCHANGED <<log, ckpt, steals, responses, lost>> /\ TypeOK
    BY DEF Restart, RestartWorker, streams, EInv
  <1>2. /\ batch \in [Worker -> [Shard -> [pos : Nat, end : Nat]]]
        /\ up \in [Worker -> BOOLEAN] /\ job \in [Worker -> [Shard -> Job]]
    BY <1>1 DEF TypeOK, ShardTypeOK
  <1>3. \A x \in Worker, z \in Shard :
          /\ x = w => batch'[x][z].pos = 0 /\ job'[x][z].trades = <<>>
          /\ x # w => batch'[x][z] = batch[x][z] /\ up'[x] = up[x] /\ job'[x][z] = job[x][z]
    BY <1>1, <1>2 DEF NoBatch, NewJob
  <1>4. \A z \in Shard : Continues(log[z], log'[z])
    BY <1>1, SameContinues DEF TypeOK, ShardTypeOK
  <1>5. ListsAreRecent'
    <2>1. \A x \in Worker, z \in Shard :
             \/ job'[x][z].trades = <<>>
             \/ job'[x][z].trades = job[x][z].trades /\ batch'[x][z].pos = batch[x][z].pos
      BY <1>3
    <2>. QED BY <1>4, <2>1, ListsStay DEF EgressIsRecent
  <1>6. \A z \in Shard : \A k \in Unsent(z) : k \in Unsent(z)'
    <2>. SUFFICES ASSUME NEW z \in Shard, NEW k \in Unsent(z) PROVE k \in Unsent(z)'
      OBVIOUS
    <2>1. /\ k \in 1..Len(log[z]) /\ ckpt[z] < k
          /\ \A v \in Worker : up[v] /\ ~Idle(v, z) /\ k < batch[v][z].pos =>
               log[z][k] \in Elements(job[v][z].trades)
      BY DEF Unsent
    <2>2. ASSUME NEW v \in Worker, up'[v], ~Idle(v, z)', k < batch'[v][z].pos
          PROVE  log[z][k] \in Elements(job'[v][z].trades)
      <3>1. v # w
        BY <1>3, <2>2 DEF Idle
      <3>2. up[v] /\ ~Idle(v, z) /\ k < batch[v][z].pos /\ job'[v][z] = job[v][z]
        BY <1>3, <2>2, <3>1 DEF Idle
      <3>. QED BY <2>1, <3>2
    <2>. QED BY <1>1, <2>1, <2>2 DEF Unsent
  <1>7. \A z \in Shard : \A k \in 1..Len(log'[z]) : k > Len(log[z]) => k \in Unsent(z)'
    BY <1>1, <1>4 DEF Continues
  <1>8. ResponsesAreRecent'
    BY <1>1, <1>4, <1>6, <1>7, ResponsesStay DEF EgressIsRecent
  <1>. QED BY <1>5, <1>8 DEF EgressIsRecent

LEMMA EgressListsNext ==
  ASSUME EgressAssumption, EInv, EInv', RecentOK, EgressIsRecent, [Next]_vars
  PROVE  EgressIsRecent'
  <1>1. TypeOK /\ TypeOK'
    BY DEF EInv
  <1>2. \A z \in Shard : log[z] \in Seq(Record)
    BY <1>1 DEF TypeOK, ShardTypeOK
  <1>3. ASSUME NEW r \in Record, NEW s \in Shard, ReceiveRecord(r, s)
        PROVE  EgressIsRecent'
    <2>1. /\ log' = [log EXCEPT ![s] = Append(@, r)]
          /\ UNCHANGED <<ckpt, batch, steals, up, job, responses, lost>>
      BY <1>3 DEF ReceiveRecord, Put, streams, workerVars
    <2>2. Continues(log[s], Append(log[s], r))
      <3>. PICK p \in Seq(Record) : p = log[s]
        BY <1>2
      <3>1. Len(p) \in Nat /\ Len(Append(p, r)) = Len(p) + 1 /\ \A i \in 1..Len(p) : Append(p, r)[i] = p[i]
        OBVIOUS
      <3>. QED BY <3>1 DEF Continues
    <2>3. \A z \in Shard : Continues(log[z], log'[z])
      BY <1>1, <1>2, <2>1, <2>2, SameContinues DEF TypeOK, ShardTypeOK
    <2>4. steals' >= steals
      BY <1>1, <2>1 DEF TypeOK, ShardTypeOK
    <2>. QED BY <1>1, <2>1, <2>3, <2>4, QuietEgress
  <1>4. ASSUME UNCHANGED <<log, ckpt, batch, job, responses, lost>>, steals' >= steals,
               \A w \in Worker : up'[w] => up[w]
        PROVE  EgressIsRecent'
    <2>1. \A z \in Shard : Continues(log[z], log'[z])
      BY <1>2, <1>4, SameContinues
    <2>. QED BY <1>1, <1>4, <2>1, QuietEgress
  <1>5. steals \in Nat
    BY <1>1 DEF TypeOK, ShardTypeOK
  <1>6. ASSUME NEW w \in Worker, NEW s \in Shard, WorkerStep(w, s)
        PROVE  EgressIsRecent'
    <2>1. CASE Take(w, s) \/ Steal(w, s)
      <3>1. /\ TakeLease(w, s) \/ StealLease(w, s)
            /\ UNCHANGED <<job, responses, lost, log, ckpt, batch, up>>
        BY <2>1 DEF Take, Steal, TakeLease, StealLease, Rest, streams, workerVars
      <3>2. steals' >= steals
        BY <1>5, <3>1 DEF TakeLease, StealLease
      <3>. QED BY <1>4, <3>1, <3>2
    <2>2. CASE Fetch(w, s)
      BY <2>2, FetchLists
    <2>3. CASE ProcessBatch(w, s)
      BY <1>1, <2>3, StoreTradeLists, CollectNackLists, StoreNextLists, PushSettlementsLists,
         PushResponsesLists, PushNacksLists DEF ProcessBatch
    <2>4. CASE Checkpoint(w, s)
      BY <1>1, <2>4, CheckpointLists
    <2>. QED BY <1>6, <2>1, <2>2, <2>3, <2>4 DEF WorkerStep, ThreadStep
  <1>7. ASSUME NEW w \in Worker, Crash(w)
        PROVE  EgressIsRecent'
    <2>1. /\ UNCHANGED <<log, ckpt, batch, steals, job, responses, lost>>
          /\ up' = [up EXCEPT ![w] = FALSE]
      BY <1>7 DEF Crash, CrashWorker, shardVars, Rest, streams
    <2>2. \A x \in Worker : up'[x] => up[x]
      BY <1>1, <2>1 DEF TypeOK, ShardTypeOK
    <2>. QED BY <1>4, <1>5, <2>1, <2>2
  <1>8. ASSUME NEW w \in Worker, Restart(w)
        PROVE  EgressIsRecent'
    BY <1>8, RestartLists
  <1>9. CASE UNCHANGED vars
    BY <1>4, <1>5, <1>9 DEF vars, shardVars, workerVars, streams
  <1>. QED BY <1>3, <1>6, <1>7, <1>8, <1>9 DEF Next

----------------------------------------------------------------------------
(* GatewayIsRecent: the lists of the gateway, its queue and its table. *)

(* What the proofs about the gateway need of the types and of AnswersOK. *)
LEMMA AnswererTypes ==
  ASSUME DeliveryTypeOK, AnswersOK, NEW g \in GatewayTask, NEW z \in ResponseShard
  PROVE  /\ responses[z] \in Seq(Record) /\ Len(responses[z]) \in Nat
         /\ rckpt[z] \in Nat /\ rckpt[z] <= Len(responses[z])
         /\ rbatch[g][z].pos \in Nat /\ rbatch[g][z].end \in Nat
         /\ rbatch[g][z].end <= Len(responses[z])
         /\ rbatch[g][z].pos <= rbatch[g][z].end + 1
         /\ rtodo[g][z] \in Seq(Record) /\ Len(rtodo[g][z]) \in Nat
         /\ rbatch[g][z].pos = 0 => rtodo[g][z] = <<>>
         /\ Start(rbatch[g][z], rtodo[g][z]) \in Int
         /\ Start(rbatch[g][z], rtodo[g][z]) <= rbatch[g][z].pos
  <1>1. /\ responses[z] \in Seq(Record) /\ rckpt[z] \in Nat /\ rtodo[g][z] \in Seq(Record)
        /\ rbatch[g][z].pos \in Nat /\ rbatch[g][z].end \in Nat
    BY DEF DeliveryTypeOK, Answers!TypeOK, Answers!ShardTypeOK
  <1>2. ShardPassed(responses[z], rckpt[z], answers)
        /\ ThreadPasses(responses[z], rbatch[g][z], rtodo[g][z], answers)
    BY DEF AnswersOK
  <1>3. Len(responses[z]) \in Nat /\ Len(rtodo[g][z]) \in Nat
    BY <1>1
  <1>4. /\ Start(rbatch[g][z], rtodo[g][z]) \in Int
        /\ Start(rbatch[g][z], rtodo[g][z]) <= rbatch[g][z].pos
    BY <1>1, <1>3 DEF Start
  <1>. QED BY <1>1, <1>2, <1>3, <1>4 DEF ShardPassed, ThreadPasses

(* A list remains the end of what is behind its thread while the shard grows. *)
LEMMA EndGrows ==
  ASSUME DeliveryTypeOK, AnswersOK, ListsAreEnds,
         \A z \in ResponseShard : Continues(responses[z], responses'[z]),
         NEW g \in GatewayTask, NEW z \in ResponseShard
  PROVE  EndOf(responses'[z], rbatch[g][z], rtodo[g][z])
  <1>. DEFINE b == rbatch[g][z]
              t == rtodo[g][z]
  <1>1. EndOf(responses[z], b, t) /\ Continues(responses[z], responses'[z])
    BY DEF ListsAreEnds
  <1>2. /\ b.pos \in Nat /\ b.end \in Nat /\ Len(t) \in Nat /\ b.end <= Len(responses[z])
        /\ b.pos <= b.end + 1 /\ (b.pos = 0 => t = <<>>) /\ Len(responses[z]) \in Nat
    BY AnswererTypes
  <1>. HIDE DEF b, t
  <1>3. ASSUME NEW i \in 1..Len(t) PROVE t[i] = responses'[z][Start(b, t) + i - 1]
    <2>1. b.pos # 0
      BY <1>2
    <2>2. Start(b, t) + i - 1 \in 1..Len(responses[z])
      <3>1. Start(b, t) >= 1 /\ Start(b, t) = b.pos - Len(t)
        BY <1>1, <2>1 DEF EndOf, Start
      <3>2. i \in Nat /\ 1 <= i /\ i <= Len(t)
        BY <1>2
      <3>. QED BY <1>2, <3>1, <3>2
    <2>3. t[i] = responses[z][Start(b, t) + i - 1]
      BY <1>1 DEF EndOf
    <2>. QED BY <1>1, <2>2, <2>3 DEF Continues
  <1>4. b.pos # 0 => Start(b, t) >= 1
    BY <1>1 DEF EndOf
  <1>. QED BY <1>3, <1>4 DEF EndOf, b, t

(* Who is up, where threads and checkpoints are, decides what waits. *)
LEMMA LastStays ==
  ASSUME NEW x, \A z \in ResponseShard : Continues(responses[z], responses'[z])
  PROVE  /\ /\ AnsweredLast(x)
            /\ \A z \in ResponseShard : \A k \in Unanswered(z) :
                 responses[z][k].id = x.id => k \in Unanswered(z)'
            /\ \A z \in ResponseShard : \A k \in 1..Len(responses'[z]) :
                 k > Len(responses[z]) => k \in Unanswered(z)'
            => AnsweredLast(x)'
         /\ /\ WrittenLast(x)
            /\ \A z \in ResponseShard : \A k \in Unwritten(z) :
                 responses[z][k].id = x.id => k \in Unwritten(z)'
            /\ \A z \in ResponseShard : \A k \in 1..Len(responses'[z]) :
                 k > Len(responses[z]) => k \in Unwritten(z)'
            => WrittenLast(x)'
  <1>1. ASSUME NEW z \in ResponseShard, NEW V, NEW W, LastBut(responses[z], V, x),
               \A k \in V : responses[z][k].id = x.id => k \in W,
               \A k \in 1..Len(responses'[z]) : k > Len(responses[z]) => k \in W
        PROVE  LastBut(responses'[z], W, x)
    BY <1>1, ButGrows
  <1>2. ASSUME AnsweredLast(x),
               \A z \in ResponseShard : \A k \in Unanswered(z) :
                 responses[z][k].id = x.id => k \in Unanswered(z)',
               \A z \in ResponseShard : \A k \in 1..Len(responses'[z]) :
                 k > Len(responses[z]) => k \in Unanswered(z)'
        PROVE  AnsweredLast(x)'
    <2>1. PICK z \in ResponseShard : LastBut(responses[z], Unanswered(z), x)
      BY <1>2 DEF AnsweredLast
    <2>. DEFINE V == Unanswered(z)
                W == Unanswered(z)'
    <2>2. /\ LastBut(responses[z], V, x)
          /\ \A k \in V : responses[z][k].id = x.id => k \in W
          /\ \A k \in 1..Len(responses'[z]) : k > Len(responses[z]) => k \in W
      BY <1>2, <2>1
    <2>. HIDE DEF V, W
    <2>3. LastBut(responses'[z], W, x)
      BY <1>1, <2>2
    <2>. QED BY <2>3 DEF W, AnsweredLast
  <1>3. ASSUME WrittenLast(x),
               \A z \in ResponseShard : \A k \in Unwritten(z) :
                 responses[z][k].id = x.id => k \in Unwritten(z)',
               \A z \in ResponseShard : \A k \in 1..Len(responses'[z]) :
                 k > Len(responses[z]) => k \in Unwritten(z)'
        PROVE  WrittenLast(x)'
    <2>1. PICK z \in ResponseShard : LastBut(responses[z], Unwritten(z), x)
      BY <1>3 DEF WrittenLast
    <2>. DEFINE V == Unwritten(z)
                W == Unwritten(z)'
    <2>2. /\ LastBut(responses[z], V, x)
          /\ \A k \in V : responses[z][k].id = x.id => k \in W
          /\ \A k \in 1..Len(responses'[z]) : k > Len(responses[z]) => k \in W
      BY <1>3, <2>1
    <2>. HIDE DEF V, W
    <2>3. LastBut(responses'[z], W, x)
      BY <1>1, <2>2
    <2>. QED BY <2>3 DEF W, WrittenLast
  <1>. QED BY <1>2, <1>3

(* Nothing of the gateway changes but its leases and who is up. *)
LEMMA GatewayStays ==
  ASSUME DeliveryTypeOK, AnswersOK, GatewayIsRecent,
         \A z \in ResponseShard : Continues(responses[z], responses'[z]),
         UNCHANGED <<rckpt, rbatch, rtodo, answers, ritems>>,
         steals' = 0 => steals = 0, fails' = 0 => fails = 0,
         \A g \in GatewayTask : gup'[g] => gup[g],
         steals' = 0 => OneAnswerer'
  PROVE  GatewayIsRecent'
  <1>1. ListsAreEnds'
    BY EndGrows DEF GatewayIsRecent, ListsAreEnds
  <1>2. \A z \in ResponseShard :
          /\ \A k \in Unanswered(z) : k \in Unanswered(z)'
          /\ \A k \in Unwritten(z) : k \in Unwritten(z)'
    BY DEF Unanswered, Unwritten, Continues
  <1>3. \A z \in ResponseShard : \A k \in 1..Len(responses'[z]) : k > Len(responses[z]) =>
          k \in Unanswered(z)' /\ k \in Unwritten(z)'
    <2>. SUFFICES ASSUME NEW z \in ResponseShard, NEW k \in 1..Len(responses'[z]),
                         k > Len(responses[z])
                  PROVE  k \in Unanswered(z)' /\ k \in Unwritten(z)'
      OBVIOUS
    <2>1. rckpt[z] < k
      BY DEF AnswersOK, ShardPassed, DeliveryTypeOK, Answers!TypeOK, Answers!ShardTypeOK, Continues
    <2>2. \A g \in GatewayTask :
             rbatch[g][z].pos <= k /\ Start(rbatch[g][z], rtodo[g][z]) <= k
      <3>. SUFFICES ASSUME NEW g \in GatewayTask
                    PROVE  rbatch[g][z].pos <= k /\ Start(rbatch[g][z], rtodo[g][z]) <= k
        OBVIOUS
      <3>. DEFINE a == Start(rbatch[g][z], rtodo[g][z])
                  n == rbatch[g][z].pos
                  e == rbatch[g][z].end
                  l == Len(responses[z])
      <3>1. a \in Int /\ n \in Nat /\ e \in Nat /\ l \in Nat /\ a <= n /\ n <= e + 1 /\ e <= l
        BY AnswererTypes
      <3>2. k \in Int /\ k > l
        OBVIOUS
      <3>. HIDE DEF a, n, e, l
      <3>3. n <= k /\ a <= k
        BY <3>1, <3>2
      <3>. QED BY <3>3 DEF a, n
    <2>. QED BY <2>1, <2>2 DEF Unanswered, Unwritten
  <1>4. \A x : (AnsweredLast(x) => AnsweredLast(x)') /\ (WrittenLast(x) => WrittenLast(x)')
    BY <1>2, <1>3, LastStays
  <1>. QED BY <1>1, <1>4 DEF GatewayIsRecent

(* A step of thread <<g, z>>: what it has to show for its own shard. *)
LEMMA AnswererMoves ==
  ASSUME DeliveryTypeOK, AnswersOK, GatewayIsRecent,
         NEW g \in GatewayTask, NEW z \in ResponseShard, responses' = responses,
         \A h \in GatewayTask, y \in ResponseShard : ~(h = g /\ y = z) =>
            rbatch'[h][y] = rbatch[h][y] /\ rtodo'[h][y] = rtodo[h][y],
         \A y \in ResponseShard : y # z => rckpt'[y] = rckpt[y],
         \A h \in GatewayTask : gup'[h] => gup[h],
         steals' = 0 => steals = 0, fails' = 0 => fails = 0,
         EndOf(responses[z], rbatch'[g][z], rtodo'[g][z]),
         steals' = 0 => OneAnswerer',
         steals' = 0 => \A t \in Trade : \A x \in LastOf(answers', t) :
            \/ LastBut(responses[z], Unanswered(z)', x)
            \/ /\ x \in LastOf(answers, t)
               /\ \A k \in Unanswered(z) : responses[z][k].id = x.id => k \in Unanswered(z)',
         steals' = 0 /\ fails' = 0 => \A x \in ritems' :
            \/ LastBut(responses[z], Unwritten(z)', x)
            \/ /\ x \in ritems
               /\ \A k \in Unwritten(z) : responses[z][k].id = x.id => k \in Unwritten(z)'
  PROVE  GatewayIsRecent'
  <1>1. ListsAreEnds'
    BY DEF GatewayIsRecent, ListsAreEnds
  <1>2. \A y \in ResponseShard : Continues(responses[y], responses'[y])
    BY SameContinues DEF DeliveryTypeOK, Answers!TypeOK, Answers!ShardTypeOK
  <1>3. \A y \in ResponseShard : y # z =>
          /\ \A k \in Unanswered(y) : k \in Unanswered(y)'
          /\ \A k \in Unwritten(y) : k \in Unwritten(y)'
    BY DEF Unanswered, Unwritten
  <1>4. \A y \in ResponseShard : \A k \in 1..Len(responses'[y]) : ~(k > Len(responses[y]))
    BY <1>2 DEF Continues
  <1>5. ASSUME steals' = 0, NEW t \in Trade, NEW x \in LastOf(answers', t)
        PROVE  AnsweredLast(x)'
    <2>1. CASE LastBut(responses[z], Unanswered(z)', x)
      BY <2>1 DEF AnsweredLast
    <2>2. CASE /\ x \in LastOf(answers, t)
               /\ \A k \in Unanswered(z) : responses[z][k].id = x.id => k \in Unanswered(z)'
      <3>1. AnsweredLast(x)
        BY <1>5, <2>2 DEF GatewayIsRecent
      <3>2. \A y \in ResponseShard : \A k \in Unanswered(y) :
               responses[y][k].id = x.id => k \in Unanswered(y)'
        BY <1>3, <2>2
      <3>. QED BY <1>2, <1>4, <3>1, <3>2, LastStays
    <2>. QED BY <1>5, <2>1, <2>2
  <1>6. ASSUME steals' = 0, fails' = 0, NEW x \in ritems'
        PROVE  WrittenLast(x)'
    <2>1. CASE LastBut(responses[z], Unwritten(z)', x)
      BY <2>1 DEF WrittenLast
    <2>2. CASE /\ x \in ritems
               /\ \A k \in Unwritten(z) : responses[z][k].id = x.id => k \in Unwritten(z)'
      <3>1. WrittenLast(x)
        BY <1>6, <2>2 DEF GatewayIsRecent
      <3>2. \A y \in ResponseShard : \A k \in Unwritten(y) :
               responses[y][k].id = x.id => k \in Unwritten(y)'
        BY <1>3, <2>2
      <3>. QED BY <1>2, <1>4, <3>1, <3>2, LastStays
    <2>. QED BY <1>6, <2>1, <2>2
  <1>. QED BY <1>1, <1>5, <1>6 DEF GatewayIsRecent

(* While no lease moves, a step of a thread that keeps its checkpoint, or   *)
(* has the lease, leaves it the only one of its shard.                      *)
LEMMA OneAnswererMoves ==
  ASSUME OneAnswerer, NEW g \in GatewayTask, NEW z \in ResponseShard,
         \A h \in GatewayTask, y \in ResponseShard : ~(h = g /\ y = z) =>
            rbatch'[h][y] = rbatch[h][y] /\ rtodo'[h][y] = rtodo[h][y],
         \A y \in ResponseShard : y # z => rckpt'[y] = rckpt[y],
         \A h \in GatewayTask : gup'[h] => gup[h], rowner' = rowner, rowner[z] = g,
         gup'[g] /\ rbatch'[g][z].pos # 0 => rckpt'[z] < Start(rbatch'[g][z], rtodo'[g][z])
  PROVE  OneAnswerer'
  <1>. SUFFICES ASSUME NEW h \in GatewayTask, NEW y \in ResponseShard,
                       gup'[h], rbatch'[h][y].pos # 0
                PROVE  rowner[y] = h /\ rckpt'[y] < Start(rbatch'[h][y], rtodo'[h][y])
    BY DEF OneAnswerer
  <1>1. CASE h = g /\ y = z
    BY <1>1
  <1>2. CASE ~(h = g /\ y = z)
    <2>1. rowner[y] = h /\ rckpt[y] < Start(rbatch[h][y], rtodo[h][y])
      BY <1>2 DEF OneAnswerer
    <2>2. y # z
      BY <1>2, <2>1
    <2>. QED BY <1>2, <2>1, <2>2
  <1>. QED BY <1>1, <1>2

(* A lease that is taken, and a halt that sends nothing. *)
LEMMA AnswerLeases ==
  ASSUME DeliveryTypeOK, AnswersOK, GatewayIsRecent, NEW g \in GatewayTask, NEW z \in ResponseShard,
         Answers!Take(g, z) \/ Answers!Steal(g, z)
  PROVE  GatewayIsRecent'
  <1>1. /\ rowner \in [ResponseShard -> GatewayTask \cup {NoWorker}] /\ steals \in Nat
        /\ \A y \in ResponseShard : responses[y] \in Seq(Record)
    BY DEF DeliveryTypeOK, Answers!TypeOK, Answers!ShardTypeOK
  <1>2. /\ UNCHANGED <<responses, rckpt, rbatch, gup, rtodo, answers, ritems, fails>>
        /\ rowner' = [rowner EXCEPT ![z] = g]
        /\ \/ steals' = steals /\ (rowner[z] \in GatewayTask => ~gup[rowner[z]])
           \/ steals' = steals + 1
    BY DEF Answers!Take, Answers!Steal, Answers!TakeLease, Answers!StealLease,
           Answers!Rest, Answers!workerVars
  <1>3. ASSUME steals' = 0 PROVE OneAnswerer'
    <2>1. OneAnswerer /\ (rowner[z] \in GatewayTask => ~gup[rowner[z]])
      BY <1>1, <1>2, <1>3 DEF GatewayIsRecent
    <2>2. ASSUME NEW h \in GatewayTask, NEW y \in ResponseShard, gup[h], rbatch[h][y].pos # 0
          PROVE  rowner'[y] = h /\ rckpt[y] < Start(rbatch[h][y], rtodo[h][y])
      <3>1. rowner[y] = h /\ rckpt[y] < Start(rbatch[h][y], rtodo[h][y])
        BY <2>1, <2>2 DEF OneAnswerer
      <3>2. y # z
        BY <2>1, <2>2, <3>1
      <3>. QED BY <1>1, <1>2, <3>1, <3>2
    <2>. QED BY <1>2, <2>2 DEF OneAnswerer
  <1>4. \A y \in ResponseShard : Continues(responses[y], responses'[y])
    BY <1>1, <1>2, SameContinues
  <1>5. /\ steals' = 0 => steals = 0
        /\ fails' = 0 => fails = 0
    BY <1>1, <1>2
  <1>. QED BY <1>2, <1>3, <1>4, <1>5, GatewayStays

LEMMA AnswerFetches ==
  ASSUME DeliveryTypeOK, AnswersOK, GatewayIsRecent, NEW g \in GatewayTask, NEW z \in ResponseShard,
         Answers!Fetch(g, z)
  PROVE  GatewayIsRecent'
  <1>1. /\ UNCHANGED <<responses, rckpt, rowner, steals, gup, rtodo, answers, ritems, fails>>
        /\ rbatch[g][z].pos = 0 /\ gup[g] /\ rowner[z] = g
    BY DEF Answers!Fetch, Answers!FetchBatch, Answers!Idle, Answers!Rest, Answers!workerVars
  <1>2. PICK e \in (rckpt[z] + 1)..Len(responses[z]) :
          rbatch' = [rbatch EXCEPT ![g][z] = [pos |-> rckpt[z] + 1, end |-> e]]
    BY DEF Answers!Fetch, Answers!FetchBatch
  <1>3. /\ rbatch \in [GatewayTask -> [ResponseShard -> [pos : Nat, end : Nat]]]
        /\ rckpt[z] \in Nat /\ rtodo[g][z] = <<>>
    BY <1>1, AnswererTypes DEF DeliveryTypeOK, Answers!TypeOK, Answers!ShardTypeOK
  <1>4. /\ rbatch'[g][z].pos = rckpt[z] + 1 /\ rtodo'[g][z] = <<>>
        /\ \A h \in GatewayTask, y \in ResponseShard : ~(h = g /\ y = z) =>
              rbatch'[h][y] = rbatch[h][y] /\ rtodo'[h][y] = rtodo[h][y]
    BY <1>1, <1>2, <1>3
  <1>5. Start(rbatch'[g][z], rtodo'[g][z]) = rckpt[z] + 1
    BY <1>3, <1>4 DEF Start
  <1>6. EndOf(responses[z], rbatch'[g][z], rtodo'[g][z])
    BY <1>3, <1>4, <1>5 DEF EndOf
  <1>7. ASSUME steals' = 0 PROVE OneAnswerer'
    <2>1. OneAnswerer
      BY <1>1, <1>7 DEF GatewayIsRecent
    <2>2. rckpt'[z] < Start(rbatch'[g][z], rtodo'[g][z])
      BY <1>1, <1>3, <1>5
    <2>. QED BY <1>1, <1>4, <2>1, <2>2, OneAnswererMoves
  <1>8. ASSUME NEW k \in Nat, rckpt[z] < k, NEW h \in GatewayTask
        PROVE  /\ h = g => rbatch'[h][z].pos <= k /\ Start(rbatch'[h][z], rtodo'[h][z]) <= k
               /\ h # g => rbatch'[h][z] = rbatch[h][z] /\ rtodo'[h][z] = rtodo[h][z]
    BY <1>3, <1>4, <1>5, <1>8
  <1>9. (\A k \in Unanswered(z) : k \in Unanswered(z)') /\ (\A k \in Unwritten(z) : k \in Unwritten(z)')
    <2>1. 1..Len(responses[z]) \subseteq Nat
      BY AnswererTypes
    <2>2. ASSUME NEW k \in Unanswered(z) PROVE k \in Unanswered(z)'
      <3>1. /\ k \in 1..Len(responses[z]) /\ k \in Nat /\ rckpt[z] < k
            /\ \A h \in GatewayTask :
                 gup[h] /\ rbatch[h][z].pos # 0 => Start(rbatch[h][z], rtodo[h][z]) <= k
        BY <2>1 DEF Unanswered
      <3>2. \A h \in GatewayTask :
              gup'[h] /\ rbatch'[h][z].pos # 0 => Start(rbatch'[h][z], rtodo'[h][z]) <= k
        BY <1>1, <1>8, <3>1
      <3>. QED BY <1>1, <3>1, <3>2 DEF Unanswered
    <2>3. ASSUME NEW k \in Unwritten(z) PROVE k \in Unwritten(z)'
      <3>1. /\ k \in 1..Len(responses[z]) /\ k \in Nat /\ rckpt[z] < k
            /\ \A h \in GatewayTask : gup[h] /\ rbatch[h][z].pos # 0 => rbatch[h][z].pos <= k
        BY <2>1 DEF Unwritten
      <3>2. \A h \in GatewayTask : gup'[h] /\ rbatch'[h][z].pos # 0 => rbatch'[h][z].pos <= k
        BY <1>1, <1>8, <3>1
      <3>. QED BY <1>1, <3>1, <3>2 DEF Unwritten
    <2>. QED BY <2>2, <2>3
  <1>. QED BY <1>1, <1>4, <1>6, <1>7, <1>9, AnswererMoves

LEMMA EndAppend ==
  ASSUME NEW R, NEW shard \in Seq(R), NEW b \in [pos : Nat, end : Nat], NEW t \in Seq(R),
         EndOf(shard, b, t), b.pos \in 1..Len(shard), NEW c \in [pos : Nat, end : Nat],
         c.pos = b.pos + 1
  PROVE  /\ Start(c, Append(t, shard[b.pos])) = Start(b, t)
         /\ EndOf(shard, c, Append(t, shard[b.pos]))
  <1>. PICK m \in R : m = shard[b.pos]
    OBVIOUS
  <1>1. /\ Len(t) \in Nat /\ Len(Append(t, m)) = Len(t) + 1 /\ Append(t, m)[Len(t) + 1] = m
        /\ \A i \in 1..Len(t) : Append(t, m)[i] = t[i]
    OBVIOUS
  <1>2. b.pos \in Nat /\ c.pos \in Nat /\ b.pos # 0 /\ c.pos # 0
    OBVIOUS
  <1>3. Start(c, Append(t, m)) = Start(b, t) /\ Start(b, t) + Len(t) = b.pos /\ Start(b, t) \in Int
    BY <1>1, <1>2 DEF Start
  <1>4. Start(b, t) >= 1
    BY <1>2 DEF EndOf
  <1>5. ASSUME NEW i \in 1..(Len(t) + 1)
        PROVE  Append(t, m)[i] = shard[Start(b, t) + i - 1]
    <2>1. CASE i \in 1..Len(t)
      BY <1>1, <2>1 DEF EndOf
    <2>2. CASE i = Len(t) + 1
      <3>1. Start(b, t) + i - 1 = b.pos
        BY <1>1, <1>2, <1>3, <2>2
      <3>. QED BY <1>1, <2>2, <3>1
    <2>. QED BY <1>1, <2>1, <2>2
  <1>. QED BY <1>1, <1>3, <1>4, <1>5 DEF EndOf

LEMMA EndTail ==
  ASSUME NEW R, NEW shard \in Seq(R), NEW b \in [pos : Nat, end : Nat], NEW t \in Seq(R),
         EndOf(shard, b, t), t # <<>>, b.pos # 0, b.pos <= Len(shard) + 1
  PROVE  /\ Start(b, t) \in 1..Len(shard) /\ Head(t) = shard[Start(b, t)]
         /\ Start(b, Tail(t)) = Start(b, t) + 1
         /\ EndOf(shard, b, Tail(t))
  <1>1. /\ Len(t) \in Nat \ {0} /\ Head(t) = t[1] /\ Len(Tail(t)) = Len(t) - 1
        /\ \A i \in 1..(Len(t) - 1) : Tail(t)[i] = t[i + 1]
    OBVIOUS
  <1>2. b.pos \in Nat /\ Len(shard) \in Nat /\ Len(shard) + 1 \in Nat
    OBVIOUS
  <1>3. /\ Start(b, Tail(t)) = Start(b, t) + 1 /\ Start(b, t) + Len(t) = b.pos
        /\ Start(b, t) \in Int
    BY <1>1, <1>2 DEF Start
  <1>4. Start(b, t) >= 1
    BY DEF EndOf
  <1>5. Start(b, t) \in 1..Len(shard)
    BY <1>1, <1>2, <1>3, <1>4
  <1>6. Head(t) = shard[Start(b, t)]
    <2>1. t[1] = shard[Start(b, t) + 1 - 1]
      BY <1>1 DEF EndOf
    <2>. QED BY <1>1, <1>3, <2>1
  <1>7. ASSUME NEW i \in 1..(Len(t) - 1)
        PROVE  Tail(t)[i] = shard[Start(b, t) + 1 + i - 1]
    <2>1. i + 1 \in 1..Len(t)
      BY <1>1
    <2>2. t[i + 1] = shard[Start(b, t) + (i + 1) - 1]
      BY <2>1 DEF EndOf
    <2>3. Start(b, t) + (i + 1) - 1 = Start(b, t) + 1 + i - 1
      BY <1>3
    <2>. QED BY <1>1, <2>2, <2>3
  <1>. QED BY <1>1, <1>3, <1>4, <1>5, <1>6, <1>7 DEF EndOf

(* The item of a message that is stored is the last but for those that the  *)
(* thread has still to pass.                                                *)
LEMMA AnswerIsStored ==
  ASSUME DeliveryTypeOK, AnswersOK, GatewayIsRecent, NEW g \in GatewayTask, NEW z \in ResponseShard,
         Answers!StoreMessage(g, z)
  PROVE  GatewayIsRecent'
  <1>. DEFINE n == rbatch[g][z].pos
              m == responses[z][n]
  <1>1. /\ UNCHANGED <<responses, rckpt, rowner, steals, gup, answers>>
        /\ gup[g] /\ n # 0 /\ n <= rbatch[g][z].end
        /\ rtodo' = [rtodo EXCEPT ![g][z] = Append(rtodo[g][z], m)]
        /\ rbatch' = [rbatch EXCEPT ![g][z] = [pos |-> @.pos + 1, end |-> @.end]]
    BY DEF Answers!StoreMessage, Answers!Working, Answers!Idle, Answers!Current,
           Answers!Goto, Answers!NextRecord, Answers!workerVars
  <1>2. /\ rbatch \in [GatewayTask -> [ResponseShard -> [pos : Nat, end : Nat]]]
        /\ rtodo \in [GatewayTask -> [ResponseShard -> Seq(Record)]] /\ fails \in Nat
        /\ ritems \subseteq Record
    BY DEF DeliveryTypeOK, Answers!TypeOK, Answers!ShardTypeOK
  <1>3. /\ responses[z] \in Seq(Record) /\ Len(responses[z]) \in Nat /\ rckpt[z] \in Nat
        /\ n \in Nat /\ rbatch[g][z].end \in Nat /\ rbatch[g][z].end <= Len(responses[z])
        /\ rtodo[g][z] \in Seq(Record)
        /\ Start(rbatch[g][z], rtodo[g][z]) \in Int /\ Start(rbatch[g][z], rtodo[g][z]) <= n
    BY AnswererTypes
  <1>4. n \in 1..Len(responses[z]) /\ m \in Record
    BY <1>1, <1>3
  <1>5. /\ rbatch'[g][z] = [pos |-> n + 1, end |-> rbatch[g][z].end]
        /\ rtodo'[g][z] = Append(rtodo[g][z], m)
        /\ \A h \in GatewayTask, y \in ResponseShard : ~(h = g /\ y = z) =>
              rbatch'[h][y] = rbatch[h][y] /\ rtodo'[h][y] = rtodo[h][y]
    BY <1>1, <1>2
  <1>6. /\ Start(rbatch'[g][z], rtodo'[g][z]) = Start(rbatch[g][z], rtodo[g][z])
        /\ EndOf(responses[z], rbatch'[g][z], rtodo'[g][z])
    <2>1. EndOf(responses[z], rbatch[g][z], rtodo[g][z])
      BY DEF GatewayIsRecent, ListsAreEnds
    <2>2. /\ rbatch[g][z] \in [pos : Nat, end : Nat] /\ rbatch'[g][z] \in [pos : Nat, end : Nat]
          /\ rbatch'[g][z].pos = rbatch[g][z].pos + 1
      BY <1>2, <1>3, <1>5
    <2>. DEFINE b == rbatch[g][z]
                c == rbatch'[g][z]
                t == rtodo[g][z]
                p == responses[z]
    <2>3. /\ p \in Seq(Record) /\ b \in [pos : Nat, end : Nat] /\ t \in Seq(Record) /\ EndOf(p, b, t)
          /\ b.pos \in 1..Len(p) /\ c \in [pos : Nat, end : Nat] /\ c.pos = b.pos + 1
          /\ rtodo'[g][z] = Append(t, p[b.pos])
      BY <1>3, <1>4, <1>5, <2>1, <2>2
    <2>. HIDE DEF b, c, t, p
    <2>4. /\ Start(c, Append(t, p[b.pos])) = Start(b, t)
          /\ EndOf(p, c, Append(t, p[b.pos]))
      BY <2>3, EndAppend
    <2>5. Start(c, rtodo'[g][z]) = Start(b, t) /\ EndOf(p, c, rtodo'[g][z])
      BY <2>3, <2>4
    <2>. QED BY <2>5 DEF b, c, t, p
  <1>. HIDE DEF n, m
  <1>7. /\ fails' = 0 => fails = 0
        /\ fails' = 0 => ritems' = {x \in ritems : x.id # m.id} \cup {m}
    <2>. DEFINE new == {x \in ritems : x.id # m.id} \cup {m}
    <2>1. \/ ritems' = new /\ fails' = fails
          \/ fails' = fails + 1 /\ (ritems' = new \/ ritems' = ritems)
      BY AnswerWrites DEF n, m
    <2>2. fails + 1 # 0
      BY <1>2
    <2>. HIDE DEF new
    <2>3. fails' = 0 => fails = 0 /\ ritems' = new
      BY <2>1, <2>2
    <2>. QED BY <2>3 DEF new
  <1>8. ASSUME steals' = 0
        PROVE  OneAnswerer /\ rowner[z] = g /\ rckpt[z] < Start(rbatch[g][z], rtodo[g][z])
    BY <1>1, <1>8 DEF GatewayIsRecent, OneAnswerer, n
  <1>9. ASSUME steals' = 0 PROVE OneAnswerer'
    BY <1>1, <1>5, <1>6, <1>8, <1>9, OneAnswererMoves
  <1>10. \A k \in Unanswered(z) : k \in Unanswered(z)'
    <2>1. \A h \in GatewayTask :
            /\ gup'[h] /\ rbatch'[h][z].pos # 0 => gup[h] /\ rbatch[h][z].pos # 0
            /\ Start(rbatch'[h][z], rtodo'[h][z]) = Start(rbatch[h][z], rtodo[h][z])
      BY <1>1, <1>5, <1>6 DEF n
    <2>. QED BY <1>1, <2>1 DEF Unanswered
  <1>11. ASSUME NEW k \in Unwritten(z), k # n
         PROVE  k \in Unwritten(z)'
    <2>1. /\ k \in 1..Len(responses[z]) /\ k \in Nat /\ rckpt[z] < k
          /\ \A h \in GatewayTask : gup[h] /\ rbatch[h][z].pos # 0 => rbatch[h][z].pos <= k
      BY <1>3 DEF Unwritten
    <2>2. n + 1 <= k
      BY <1>1, <1>3, <1>11, <2>1 DEF n
    <2>3. \A h \in GatewayTask : gup'[h] /\ rbatch'[h][z].pos # 0 => rbatch'[h][z].pos <= k
      BY <1>1, <1>5, <2>1, <2>2
    <2>. QED BY <1>1, <2>1, <2>3 DEF Unwritten
  <1>12. ASSUME steals' = 0, NEW k \in 1..Len(responses[z]), k > n
         PROVE  k \in Unwritten(z)'
    <2>1. rckpt'[z] < k
      BY <1>1, <1>3, <1>8, <1>12
    <2>2. \A h \in GatewayTask : gup'[h] /\ rbatch'[h][z].pos # 0 => rbatch'[h][z].pos <= k
      <3>. SUFFICES ASSUME NEW h \in GatewayTask, gup'[h], rbatch'[h][z].pos # 0
                    PROVE  rbatch'[h][z].pos <= k
        OBVIOUS
      <3>1. h = g
        BY <1>1, <1>8, <1>9, <1>12 DEF OneAnswerer
      <3>. QED BY <1>3, <1>5, <1>12, <3>1
    <2>. QED BY <1>1, <2>1, <2>2 DEF Unwritten
  <1>13. ASSUME steals' = 0 PROVE LastBut(responses[z], Unwritten(z)', m)
    <2>. DEFINE W == Unwritten(z)'
    <2>1. \A k \in 1..Len(responses[z]) : n < k => k \in W
      BY <1>3, <1>12, <1>13
    <2>. HIDE DEF W
    <2>2. LastBut(responses[z], W, m)
      BY <1>4, <2>1 DEF LastBut, m
    <2>. QED BY <2>2 DEF W
  <1>14. ASSUME steals' = 0, fails' = 0, NEW x \in ritems'
         PROVE  \/ LastBut(responses[z], Unwritten(z)', x)
                \/ /\ x \in ritems
                   /\ \A k \in Unwritten(z) : responses[z][k].id = x.id => k \in Unwritten(z)'
    <2>1. CASE x = m
      BY <1>13, <1>14, <2>1
    <2>2. CASE x \in ritems /\ x.id # m.id
      BY <1>11, <2>2 DEF m
    <2>. QED BY <1>7, <1>14, <2>1, <2>2
  <1>. QED BY <1>1, <1>5, <1>6, <1>7, <1>9, <1>10, <1>14, AnswererMoves

(* A message that is sent is the last but for those that are still to be    *)
(* sent.                                                                    *)
LEMMA AnswerIsSent ==
  ASSUME DeliveryTypeOK, AnswersOK, GatewayIsRecent, NEW g \in GatewayTask, NEW z \in ResponseShard,
         Answers!SendMessage(g, z)
  PROVE  GatewayIsRecent'
  <1>. DEFINE b == rbatch[g][z]
              t == rtodo[g][z]
              p == responses[z]
              n == Start(b, t)
              m == Head(t)
  <1>1. /\ UNCHANGED <<responses, rckpt, rowner, rbatch, steals, ritems>>
        /\ gup[g] /\ b.pos > b.end /\ t # <<>>
        /\ \/ /\ answers' = Append(answers, m) /\ UNCHANGED <<gup, fails>>
              /\ rtodo' = [rtodo EXCEPT ![g][z] = Tail(t)]
           \/ /\ fails' = fails + 1 /\ UNCHANGED rtodo
              /\ gup' = [gup EXCEPT ![g] = FALSE]
              /\ answers' = answers \/ answers' = Append(answers, m)
    BY DEF Answers!SendMessage, Answers!Finished, Answers!Goto, Answers!Fail, Answers!Halt,
           Answers!StayAtRecord, Answers!shardVars, Answers!workerVars
  <1>2. /\ rtodo \in [GatewayTask -> [ResponseShard -> Seq(Record)]] /\ fails \in Nat
        /\ gup \in [GatewayTask -> BOOLEAN] /\ steals \in Nat /\ answers \in Seq(Record)
        /\ b \in [pos : Nat, end : Nat]
    BY DEF DeliveryTypeOK, Answers!TypeOK, Answers!ShardTypeOK
  <1>3. /\ p \in Seq(Record) /\ Len(p) \in Nat /\ rckpt[z] \in Nat /\ t \in Seq(Record)
        /\ b.pos \in Nat /\ b.end \in Nat /\ b.end <= Len(p) /\ b.pos <= b.end + 1
        /\ n \in Int
    BY AnswererTypes
  <1>4. b.pos # 0 /\ b.pos <= Len(p) + 1
    BY <1>1, <1>3
  <1>5. EndOf(p, b, t)
    BY DEF GatewayIsRecent, ListsAreEnds
  <1>6. /\ n \in 1..Len(p) /\ m = p[n]
        /\ Start(b, Tail(t)) = n + 1 /\ EndOf(p, b, Tail(t))
    <2>. HIDE DEF b, t, p
    <2>. QED BY <1>1, <1>2, <1>3, <1>4, <1>5, EndTail
  <1>7. m \in Record /\ n \in Nat
    BY <1>3, <1>6
  <1>8. /\ \A h \in GatewayTask : gup'[h] => gup[h]
        /\ fails' = 0 => fails = 0
    <2>1. gup' = gup \/ gup' = [gup EXCEPT ![g] = FALSE]
      BY <1>1
    <2>2. fails' = fails \/ fails' = fails + 1
      BY <1>1
    <2>3. \A h \in GatewayTask : gup'[h] => gup[h]
      BY <1>2, <2>1
    <2>. QED BY <1>2, <2>2, <2>3
  <1>9. \A y \in ResponseShard : Continues(responses[y], responses'[y])
    BY <1>1, SameContinues DEF DeliveryTypeOK, Answers!TypeOK, Answers!ShardTypeOK
  <1>10. /\ rtodo'[g][z] = t \/ rtodo'[g][z] = Tail(t)
         /\ \A h \in GatewayTask, y \in ResponseShard : ~(h = g /\ y = z) => rtodo'[h][y] = rtodo[h][y]
    <2>. DEFINE u == Tail(t)
    <2>1. rtodo' = rtodo \/ rtodo' = [rtodo EXCEPT ![g][z] = u]
      BY <1>1
    <2>. HIDE DEF u
    <2>2. /\ rtodo'[g][z] = rtodo[g][z] \/ rtodo'[g][z] = u
          /\ \A h \in GatewayTask, y \in ResponseShard :
                ~(h = g /\ y = z) => rtodo'[h][y] = rtodo[h][y]
      BY <1>2, <2>1
    <2>. QED BY <2>2 DEF u
  <1>11. /\ Start(b, rtodo'[g][z]) \in {n, n + 1}
         /\ EndOf(p, b, rtodo'[g][z])
    BY <1>5, <1>6, <1>10
  <1>. HIDE DEF b, t, p, n, m
  <1>12. ASSUME steals = 0 PROVE OneAnswerer /\ rowner[z] = g /\ rckpt[z] < n
    BY <1>1, <1>4, <1>12 DEF GatewayIsRecent, OneAnswerer, b, t, n
  <1>13. ASSUME steals = 0 PROVE OneAnswerer'
    <2>1. rckpt'[z] < Start(rbatch'[g][z], rtodo'[g][z])
      BY <1>1, <1>3, <1>7, <1>11, <1>12, <1>13 DEF b
    <2>. QED BY <1>1, <1>8, <1>10, <1>12, <1>13, <2>1, OneAnswererMoves
  <1>14. CASE answers' = answers /\ rtodo' = rtodo
    BY <1>1, <1>8, <1>9, <1>13, <1>14, GatewayStays
  <1>15. CASE answers' = Append(answers, m)
    <2>1. ASSUME NEW k \in Unanswered(z), k # n PROVE k \in Unanswered(z)'
      <3>1. /\ k \in 1..Len(p) /\ k \in Nat /\ rckpt[z] < k
            /\ \A h \in GatewayTask :
                 gup[h] /\ rbatch[h][z].pos # 0 => Start(rbatch[h][z], rtodo[h][z]) <= k
        BY <1>3 DEF Unanswered, p
      <3>2. n <= k
        BY <1>1, <1>4, <3>1 DEF n, b, t
      <3>3. Start(b, rtodo'[g][z]) <= k
        BY <1>7, <1>11, <2>1, <3>1, <3>2
      <3>4. \A h \in GatewayTask :
              gup'[h] /\ rbatch'[h][z].pos # 0 => Start(rbatch'[h][z], rtodo'[h][z]) <= k
        BY <1>1, <1>8, <1>10, <3>1, <3>3 DEF b
      <3>. QED BY <1>1, <3>1, <3>4 DEF Unanswered, p
    <2>2. ASSUME steals = 0, NEW k \in 1..Len(p), k > n PROVE k \in Unanswered(z)'
      <3>1. rckpt'[z] < k
        BY <1>1, <1>3, <1>7, <1>12, <2>2
      <3>2. ASSUME NEW h \in GatewayTask, gup'[h], rbatch'[h][z].pos # 0
            PROVE  Start(rbatch'[h][z], rtodo'[h][z]) <= k
        <4>1. h = g
          BY <1>1, <1>12, <1>13, <2>2, <3>2 DEF OneAnswerer
        <4>2. Start(b, rtodo'[g][z]) <= k
          BY <1>3, <1>7, <1>11, <2>2
        <4>. QED BY <1>1, <4>1, <4>2 DEF b
      <3>. QED BY <1>1, <3>1, <3>2 DEF Unanswered, p
    <2>3. ASSUME steals = 0 PROVE LastBut(p, Unanswered(z)', m)
      <3>. DEFINE W == Unanswered(z)'
      <3>1. \A k \in 1..Len(p) : n < k => k \in W
        BY <1>3, <1>7, <2>2, <2>3
      <3>. HIDE DEF W
      <3>2. LastBut(p, W, m)
        BY <1>6, <3>1 DEF LastBut
      <3>. QED BY <3>2 DEF W
    <2>4. ASSUME steals' = 0, NEW tr \in Trade, NEW x \in LastOf(answers', tr)
          PROVE  \/ LastBut(p, Unanswered(z)', x)
                 \/ /\ x \in LastOf(answers, tr)
                    /\ \A k \in Unanswered(z) : p[k].id = x.id => k \in Unanswered(z)'
      <3>1. x.id = tr /\ ((m.id = tr /\ x = m) \/ (m.id # tr /\ x \in LastOf(answers, tr)))
        BY <1>2, <1>7, <1>15, <2>4, LastAppend
      <3>2. CASE x = m
        BY <1>1, <2>3, <2>4, <3>2
      <3>3. CASE m.id # tr /\ x \in LastOf(answers, tr)
        BY <1>6, <2>1, <3>1, <3>3
      <3>. QED BY <3>1, <3>2, <3>3
    <2>5. \A k \in Unwritten(z) : k \in Unwritten(z)'
      BY <1>1, <1>8 DEF Unwritten
    <2>6. EndOf(responses[z], rbatch'[g][z], rtodo'[g][z])
      BY <1>1, <1>11 DEF p, b
    <2>. QED BY <1>1, <1>8, <1>10, <1>13, <2>4, <2>5, <2>6, AnswererMoves DEF p
  <1>. QED BY <1>1, <1>14, <1>15

(* What a checkpoint passes is sent. *)
LEMMA AnswersCheckpointed ==
  ASSUME DeliveryTypeOK, AnswersOK, GatewayIsRecent, NEW g \in GatewayTask, NEW z \in ResponseShard,
         Answers!Checkpoint(g, z)
  PROVE  GatewayIsRecent'
  <1>. DEFINE n == rbatch[g][z].pos
              e == rbatch[g][z].end
  <1>1. /\ UNCHANGED <<responses, rowner, steals, rtodo, answers, ritems, fails>>
        /\ gup[g] /\ n > e /\ rtodo[g][z] = <<>>
        /\ \/ /\ rckpt' = [rckpt EXCEPT ![z] = e] /\ gup' = gup /\ rowner[z] = g
              /\ rbatch' = [rbatch EXCEPT ![g][z] = NoBatch]
           \/ UNCHANGED <<rckpt, rbatch>> /\ gup' = [gup EXCEPT ![g] = FALSE]
    BY DEF Answers!Checkpoint, Answers!CheckpointBatch, Answers!Finished, Answers!Halt,
           Answers!Rest, Answers!shardVars, Answers!workerVars, Answers!NoBatch, NoBatch
  <1>2. /\ gup \in [GatewayTask -> BOOLEAN] /\ rckpt \in [ResponseShard -> Nat]
        /\ rbatch \in [GatewayTask -> [ResponseShard -> [pos : Nat, end : Nat]]]
    BY DEF DeliveryTypeOK, Answers!TypeOK, Answers!ShardTypeOK
  <1>3. /\ n \in Nat /\ e \in Nat /\ n <= e + 1 /\ Len(responses[z]) \in Nat
    BY AnswererTypes
  <1>4. n # 0 /\ n = e + 1 /\ Start(rbatch[g][z], rtodo[g][z]) = n
    <2>1. Len(rtodo[g][z]) = 0
      BY <1>1
    <2>. QED BY <1>1, <1>3, <2>1 DEF Start
  <1>5. CASE UNCHANGED <<rckpt, rbatch>> /\ gup' = [gup EXCEPT ![g] = FALSE]
    <2>1. \A h \in GatewayTask : gup'[h] => gup[h]
      BY <1>2, <1>5
    <2>2. \A y \in ResponseShard : Continues(responses[y], responses'[y])
      BY <1>1, SameContinues DEF DeliveryTypeOK, Answers!TypeOK, Answers!ShardTypeOK
    <2>3. steals' = 0 => OneAnswerer'
      BY <1>1, <1>5, <2>1 DEF GatewayIsRecent, OneAnswerer
    <2>. QED BY <1>1, <1>5, <2>1, <2>2, <2>3, GatewayStays
  <1>6. CASE /\ rckpt' = [rckpt EXCEPT ![z] = e] /\ gup' = gup /\ rowner[z] = g
             /\ rbatch' = [rbatch EXCEPT ![g][z] = NoBatch]
    <2>1. /\ rckpt'[z] = e /\ rbatch'[g][z].pos = 0 /\ rtodo'[g][z] = <<>>
          /\ \A y \in ResponseShard : y # z => rckpt'[y] = rckpt[y]
          /\ \A h \in GatewayTask, y \in ResponseShard : ~(h = g /\ y = z) =>
                rbatch'[h][y] = rbatch[h][y] /\ rtodo'[h][y] = rtodo[h][y]
      BY <1>1, <1>2, <1>6 DEF NoBatch
    <2>2. EndOf(responses[z], rbatch'[g][z], rtodo'[g][z])
      BY <2>1 DEF EndOf
    <2>3. steals' = 0 => OneAnswerer'
      BY <1>1, <1>6, <2>1, OneAnswererMoves DEF GatewayIsRecent
    <2>4. ASSUME NEW k \in Unanswered(z) PROVE k \in Unanswered(z)'
      <3>1. /\ k \in 1..Len(responses[z]) /\ k \in Nat
            /\ \A h \in GatewayTask :
                 gup[h] /\ rbatch[h][z].pos # 0 => Start(rbatch[h][z], rtodo[h][z]) <= k
        BY <1>3 DEF Unanswered
      <3>2. e < k
        BY <1>1, <1>3, <1>4, <3>1
      <3>3. \A h \in GatewayTask :
              gup'[h] /\ rbatch'[h][z].pos # 0 => Start(rbatch'[h][z], rtodo'[h][z]) <= k
        BY <1>6, <2>1, <3>1
      <3>. QED BY <1>1, <2>1, <3>1, <3>2, <3>3 DEF Unanswered
    <2>5. ASSUME NEW k \in Unwritten(z) PROVE k \in Unwritten(z)'
      <3>1. /\ k \in 1..Len(responses[z]) /\ k \in Nat
            /\ \A h \in GatewayTask : gup[h] /\ rbatch[h][z].pos # 0 => rbatch[h][z].pos <= k
        BY <1>3 DEF Unwritten
      <3>2. e < k
        BY <1>1, <1>3, <1>4, <3>1
      <3>3. \A h \in GatewayTask : gup'[h] /\ rbatch'[h][z].pos # 0 => rbatch'[h][z].pos <= k
        BY <1>6, <2>1, <3>1
      <3>. QED BY <1>1, <2>1, <3>1, <3>2, <3>3 DEF Unwritten
    <2>. QED BY <1>1, <1>6, <2>1, <2>2, <2>3, <2>4, <2>5, AnswererMoves
  <1>. QED BY <1>1, <1>5, <1>6

(* A new task has no list and holds no lease. *)
LEMMA AnswererRestarts ==
  ASSUME DeliveryTypeOK, AnswersOK, GatewayIsRecent, NEW g \in GatewayTask, RestartGateway(g)
  PROVE  GatewayIsRecent'
  <1>1. /\ UNCHANGED <<responses, rckpt, ritems, answers, steals, fails>>
        /\ gup' = [gup EXCEPT ![g] = TRUE]
        /\ rowner' = [z \in ResponseShard |-> IF rowner[z] = g THEN NoWorker ELSE rowner[z]]
        /\ rbatch' = [rbatch EXCEPT ![g] = [z \in ResponseShard |-> NoBatch]]
        /\ rtodo' = [rtodo EXCEPT ![g] = [z \in ResponseShard |-> <<>>]]
    BY DEF RestartGateway, Answers!Restart, Answers!RestartWorker, Answers!NoBatch, NoBatch
  <1>2. /\ gup \in [GatewayTask -> BOOLEAN]
        /\ rbatch \in [GatewayTask -> [ResponseShard -> [pos : Nat, end : Nat]]]
        /\ rtodo \in [GatewayTask -> [ResponseShard -> Seq(Record)]]
    BY DEF DeliveryTypeOK, Answers!TypeOK, Answers!ShardTypeOK
  <1>3. \A h \in GatewayTask, z \in ResponseShard :
          /\ h = g => rbatch'[h][z].pos = 0 /\ rtodo'[h][z] = <<>>
          /\ h # g => /\ rbatch'[h][z] = rbatch[h][z] /\ rtodo'[h][z] = rtodo[h][z]
                      /\ gup'[h] = gup[h]
    BY <1>1, <1>2 DEF NoBatch
  <1>4. ListsAreEnds'
    <2>. SUFFICES ASSUME NEW h \in GatewayTask, NEW z \in ResponseShard
                  PROVE  EndOf(responses[z], rbatch'[h][z], rtodo'[h][z])
      BY <1>1 DEF ListsAreEnds
    <2>1. CASE h = g
      BY <1>3, <2>1 DEF EndOf
    <2>2. CASE h # g
      BY <1>3, <2>2 DEF GatewayIsRecent, ListsAreEnds
    <2>. QED BY <2>1, <2>2
  <1>5. ASSUME steals' = 0 PROVE OneAnswerer'
    <2>. SUFFICES ASSUME NEW h \in GatewayTask, NEW z \in ResponseShard,
                         gup'[h], rbatch'[h][z].pos # 0
                  PROVE  rowner'[z] = h /\ rckpt[z] < Start(rbatch'[h][z], rtodo'[h][z])
      BY <1>1 DEF OneAnswerer
    <2>1. h # g
      BY <1>3
    <2>2. rowner[z] = h /\ rckpt[z] < Start(rbatch[h][z], rtodo[h][z])
      BY <1>1, <1>3, <1>5, <2>1 DEF GatewayIsRecent, OneAnswerer
    <2>. QED BY <1>1, <1>3, <2>1, <2>2
  <1>6. \A h \in GatewayTask, z \in ResponseShard : gup'[h] /\ rbatch'[h][z].pos # 0 =>
           /\ gup[h] /\ rbatch[h][z].pos # 0
           /\ rbatch'[h][z] = rbatch[h][z] /\ rtodo'[h][z] = rtodo[h][z]
    BY <1>3
  <1>7. \A z \in ResponseShard :
          /\ \A k \in Unanswered(z) : k \in Unanswered(z)'
          /\ \A k \in Unwritten(z) : k \in Unwritten(z)'
    BY <1>1, <1>6 DEF Unanswered, Unwritten
  <1>8. \A z \in ResponseShard : Continues(responses[z], responses'[z])
    BY <1>1, SameContinues DEF DeliveryTypeOK, Answers!TypeOK, Answers!ShardTypeOK
  <1>9. \A z \in ResponseShard : \A k \in 1..Len(responses'[z]) : ~(k > Len(responses[z]))
    BY <1>1, <1>8 DEF Continues
  <1>10. \A x : (AnsweredLast(x) => AnsweredLast(x)') /\ (WrittenLast(x) => WrittenLast(x)')
    BY <1>7, <1>8, <1>9, LastStays
  <1>. QED BY <1>1, <1>4, <1>5, <1>10 DEF GatewayIsRecent

(* The other scheduler of a task can only halt its JVM. *)
LEMMA SettlementStops ==
  ASSUME DeliveryTypeOK, NEW g \in GatewayTask, NEW z \in SettlementShard,
         Settlements!WorkerStep(g, z)
  PROVE  \A h \in GatewayTask : gup'[h] => gup[h]
  <1>1. gup \in [GatewayTask -> BOOLEAN]
    BY DEF DeliveryTypeOK, Settlements!TypeOK, Settlements!ShardTypeOK
  <1>2. gup' = gup \/ gup' = [gup EXCEPT ![g] = FALSE]
    BY DEF Settlements!WorkerStep, Settlements!ThreadStep, Settlements!ProcessBatch,
           Settlements!Take, Settlements!Steal, Settlements!Fetch, Settlements!Checkpoint,
           Settlements!TakeLease, Settlements!StealLease, Settlements!FetchBatch,
           Settlements!CheckpointBatch, Settlements!StoreMessage, Settlements!SendMessage,
           Settlements!NextRecord, Settlements!StayAtRecord, Settlements!Halt,
           Settlements!workerVars, Settlements!shardVars, Settlements!Rest
  <1>. QED BY <1>1, <1>2

LEMMA GatewayListsNext ==
  ASSUME EgressAssumption, DeliveryInv, GatewayIsRecent, [DeliveryNext]_deliveryVars
  PROVE  GatewayIsRecent'
  <1>1. DeliveryTypeOK /\ AnswersOK /\ EInv
    BY DEF DeliveryInv
  <1>2. /\ steals \in Nat /\ fails \in Nat /\ gup \in [GatewayTask -> BOOLEAN]
        /\ \A z \in ResponseShard : responses[z] \in Seq(Record)
    BY <1>1 DEF DeliveryTypeOK, Answers!TypeOK, Answers!ShardTypeOK
  <1>3. DeliveryTypeOK'
    BY DeliveryContinues DEF DeliveryInv
  <1>4. steals' \in Nat /\ fails' \in Nat
    BY <1>3 DEF DeliveryTypeOK, Answers!TypeOK, Answers!ShardTypeOK
  <1>5. ASSUME UNCHANGED answerSide, steals' >= steals, fails' >= fails,
               \A z \in ResponseShard : Continues(responses[z], responses'[z]),
               \A g \in GatewayTask : gup'[g] => gup[g]
        PROVE  GatewayIsRecent'
    <2>1. UNCHANGED <<rckpt, rowner, rbatch, ritems, rtodo, answers>>
      BY <1>5 DEF answerSide
    <2>2. (steals' = 0 => steals = 0) /\ (fails' = 0 => fails = 0)
      BY <1>2, <1>4, <1>5
    <2>3. steals' = 0 => OneAnswerer'
      BY <1>5, <2>1, <2>2 DEF GatewayIsRecent, OneAnswerer
    <2>. QED BY <1>1, <1>5, <2>1, <2>2, <2>3, GatewayStays
  <1>6. CASE Next /\ UNCHANGED <<answerSide, settlementSide, gup>>
    BY <1>1, <1>5, <1>6, StreamsContinue
  <1>7. CASE AnswerStep
    <2>1. PICK g \in GatewayTask : \E z \in ResponseShard : Answers!WorkerStep(g, z)
      BY <1>7 DEF AnswerStep, OfAnswers
    <2>2. PICK z \in ResponseShard : Answers!WorkerStep(g, z)
      BY <2>1
    <2>3. CASE Answers!Take(g, z) \/ Answers!Steal(g, z)
      BY <1>1, <2>3, AnswerLeases
    <2>4. CASE Answers!Fetch(g, z)
      BY <1>1, <2>4, AnswerFetches
    <2>5. CASE Answers!StoreMessage(g, z)
      BY <1>1, <2>5, AnswerIsStored
    <2>6. CASE Answers!SendMessage(g, z)
      BY <1>1, <2>6, AnswerIsSent
    <2>7. CASE Answers!Checkpoint(g, z)
      BY <1>1, <2>7, AnswersCheckpointed
    <2>. QED BY <2>2, <2>3, <2>4, <2>5, <2>6, <2>7
             DEF Answers!WorkerStep, Answers!ThreadStep, Answers!ProcessBatch
  <1>8. CASE SettlementStep
    <2>1. PICK g \in GatewayTask : \E z \in SettlementShard : Settlements!WorkerStep(g, z)
      BY <1>8 DEF SettlementStep, OfSettlements
    <2>2. PICK z \in SettlementShard : Settlements!WorkerStep(g, z)
      BY <2>1
    <2>3. UNCHANGED <<responses, answerSide>>
      BY <1>8 DEF SettlementStep, OfSettlements
    <2>4. steals' >= steals /\ fails' >= fails
      BY <1>1, <2>2, SettlementMoves
    <2>5. \A h \in GatewayTask : gup'[h] => gup[h]
      BY <1>1, <2>2, SettlementStops
    <2>6. \A y \in ResponseShard : Continues(responses[y], responses'[y])
      BY <1>2, <2>3, SameContinues
    <2>. QED BY <1>5, <2>3, <2>4, <2>5, <2>6
  <1>9. ASSUME NEW g \in GatewayTask, CrashGateway(g)
        PROVE  GatewayIsRecent'
    <2>1. /\ UNCHANGED <<responses, rckpt, rowner, rbatch, ritems, rtodo, answers, steals, fails>>
          /\ gup' = [gup EXCEPT ![g] = FALSE]
      BY <1>9 DEF CrashGateway, OfAnswers, Answers!Crash, Answers!CrashWorker, Answers!shardVars,
                  Answers!Rest
    <2>2. UNCHANGED answerSide
      BY <2>1 DEF answerSide
    <2>3. \A h \in GatewayTask : gup'[h] => gup[h]
      BY <1>2, <2>1
    <2>4. \A y \in ResponseShard : Continues(responses[y], responses'[y])
      BY <1>2, <2>1, SameContinues
    <2>5. steals' >= steals /\ fails' >= fails
      BY <1>2, <2>1
    <2>. QED BY <1>5, <2>2, <2>3, <2>4, <2>5
  <1>10. ASSUME NEW g \in GatewayTask, RestartGateway(g)
         PROVE  GatewayIsRecent'
    BY <1>1, <1>10, AnswererRestarts
  <1>11. CASE UNCHANGED deliveryVars
    <2>1. UNCHANGED <<responses, answerSide, steals, fails, gup>>
      BY <1>11 DEF deliveryVars, vars, shardVars, streams
    <2>2. \A y \in ResponseShard : Continues(responses[y], responses'[y])
      BY <1>2, <2>1, SameContinues
    <2>3. steals' >= steals /\ fails' >= fails
      BY <1>2, <2>1
    <2>. QED BY <1>5, <2>1, <2>2, <2>3
  <1>12. CASE RecordArrives \/ EgressStep \/ (\E w \in Worker : CrashEgress(w) \/ RestartEgress(w))
    <2>1. Next /\ UNCHANGED <<answerSide, settlementSide, gup>>
      BY <1>12 DEF RecordArrives, EgressStep, CrashEgress, RestartEgress, OfEgress, Next
    <2>. QED BY <1>6, <2>1
  <1>. QED BY <1>7, <1>8, <1>9, <1>10, <1>11, <1>12 DEF DeliveryNext

LEMMA ListsNext ==
  ASSUME EgressAssumption, DeliveryInv, EgressIsRecent, [DeliveryNext]_deliveryVars
  PROVE  EgressIsRecent'
  <1>1. DeliveryTypeOK /\ TypeOK /\ EInv /\ RecentOK
    BY DEF DeliveryInv, DeliveryTypeOK
  <1>2. EInv' /\ TypeOK'
    <2>1. DeliveryInv'
      BY DeliveryContinues
    <2>. QED BY <2>1 DEF DeliveryInv, EInv
  <1>3. steals \in Nat /\ \A z \in Shard : log[z] \in Seq(Record)
    BY <1>1 DEF TypeOK, ShardTypeOK
  <1>4. CASE RecordArrives \/ EgressStep \/ (\E w \in Worker : CrashEgress(w) \/ RestartEgress(w))
    <2>1. Next
      BY <1>4 DEF RecordArrives, EgressStep, CrashEgress, RestartEgress, OfEgress, Next
    <2>. QED BY <1>1, <1>2, <2>1, EgressListsNext
  <1>5. ASSUME UNCHANGED <<lost, egressSide, responses>>, steals' >= steals
        PROVE  EgressIsRecent'
    <2>1. UNCHANGED <<log, ckpt, batch, up, job>>
      BY <1>5 DEF egressSide
    <2>2. \A z \in Shard : Continues(log[z], log'[z])
      BY <1>3, <2>1, SameContinues
    <2>. QED BY <1>1, <1>2, <1>5, <2>1, <2>2, QuietEgress
  <1>6. CASE AnswerStep
    <2>1. PICK g \in GatewayTask : \E z \in ResponseShard : Answers!WorkerStep(g, z)
      BY <1>6 DEF AnswerStep, OfAnswers
    <2>2. PICK z \in ResponseShard : Answers!WorkerStep(g, z)
      BY <2>1
    <2>3. UNCHANGED responses /\ steals' >= steals
      BY <1>1, <2>2, AnswerMoves
    <2>4. UNCHANGED <<lost, egressSide>>
      BY <1>6 DEF AnswerStep, OfAnswers
    <2>. QED BY <1>5, <2>3, <2>4
  <1>7. CASE SettlementStep
    <2>1. PICK g \in GatewayTask : \E z \in SettlementShard : Settlements!WorkerStep(g, z)
      BY <1>7 DEF SettlementStep, OfSettlements
    <2>2. PICK z \in SettlementShard : Settlements!WorkerStep(g, z)
      BY <2>1
    <2>3. steals' >= steals
      BY <1>1, <2>2, SettlementMoves
    <2>4. UNCHANGED <<lost, egressSide, responses>>
      BY <1>7 DEF SettlementStep, OfSettlements
    <2>. QED BY <1>5, <2>3, <2>4
  <1>8. ASSUME NEW g \in GatewayTask, CrashGateway(g) \/ RestartGateway(g)
        PROVE  EgressIsRecent'
    <2>1. UNCHANGED <<lost, egressSide, responses, steals>>
      BY <1>8 DEF CrashGateway, OfAnswers, Answers!Crash, Answers!CrashWorker, Answers!shardVars,
                  RestartGateway, Answers!Restart, Answers!RestartWorker
    <2>2. steals' >= steals
      BY <1>3, <2>1
    <2>. QED BY <1>5, <2>1, <2>2
  <1>9. CASE UNCHANGED deliveryVars
    <2>1. UNCHANGED vars
      BY <1>9 DEF deliveryVars
    <2>. QED BY <1>1, <1>2, <2>1, EgressListsNext
  <1>. QED BY <1>4, <1>6, <1>7, <1>8, <1>9 DEF DeliveryNext

----------------------------------------------------------------------------
(* The theorems about what is recent. *)

LEMMA RecentStarts ==
  ASSUME EgressAssumption, DeliveryInit
  PROVE  RecentInv
  <1>1. DeliveryInv
    BY DeliveryStarts
  <1>2. /\ batch = [w \in Worker |-> [s \in Shard |-> NoBatch]]
        /\ job = [w \in Worker |-> [s \in Shard |-> NewJob]]
        /\ responses = [z \in ResponseShard |-> <<>>]
    BY DEF DeliveryInit, Init, ShardInit
  <1>3. /\ rckpt = [z \in ResponseShard |-> 0] /\ ritems = {} /\ answers = <<>>
        /\ rbatch = [g \in GatewayTask |-> [z \in ResponseShard |-> NoBatch]]
        /\ rtodo = [g \in GatewayTask |-> [z \in ResponseShard |-> <<>>]]
    BY DEF DeliveryInit, Answers!Init, Answers!ShardInit, Answers!NoBatch, NoBatch
  <1>4. NoBatch.pos = 0 /\ NewJob.trades = <<>>
    BY DEF NoBatch, NewJob
  <1>5. EgressIsRecent
    BY <1>2, <1>4, LastEmpty DEF EgressIsRecent, ListsAreRecent, EndsRecent, ResponsesAreRecent
  <1>6. ListsAreEnds /\ OneAnswerer
    BY <1>3, <1>4 DEF ListsAreEnds, EndOf, OneAnswerer
  <1>7. GatewayIsRecent
    BY <1>3, <1>6, LastEmpty DEF GatewayIsRecent
  <1>. QED BY <1>1, <1>5, <1>7 DEF RecentInv

(* RecentInv: which record a list, a stream, the queue and the table end    *)
(* with, in every reachable state.                                          *)
THEOREM RecentInvariance ==
  ASSUME EgressAssumption
  PROVE  DeliverySpec => []RecentInv
  <1>1. DeliveryInit => RecentInv
    BY RecentStarts
  <1>2. RecentInv /\ [DeliveryNext]_deliveryVars => RecentInv'
    <2>. SUFFICES ASSUME RecentInv, [DeliveryNext]_deliveryVars PROVE RecentInv'
      OBVIOUS
    <2>1. DeliveryInv /\ EgressIsRecent /\ GatewayIsRecent
      BY DEF RecentInv
    <2>. QED BY <2>1, DeliveryContinues, ListsNext, GatewayListsNext DEF RecentInv
  <1>. QED BY <1>1, <1>2, PTL DEF DeliverySpec

(* A sequence has one last record about a trade. *)
LEMMA OneLast ==
  ASSUME NEW R, NEW q \in Seq(R), NEW t, NEW x \in LastOf(q, t), NEW y \in LastOf(q, t)
  PROVE  x = y
  <1>1. DOMAIN q = 1..Len(q) /\ Len(q) \in Nat
    OBVIOUS
  <1>2. PICK i \in 1..Len(q) :
          x = q[i] /\ q[i].id = t /\ \A k \in 1..Len(q) : q[k].id = t => k <= i
    BY <1>1 DEF LastOf
  <1>3. PICK j \in 1..Len(q) :
          y = q[j] /\ q[j].id = t /\ \A k \in 1..Len(q) : q[k].id = t => k <= j
    BY <1>1 DEF LastOf
  <1>4. i = j
    BY <1>1, <1>2, <1>3
  <1>. QED BY <1>2, <1>3, <1>4

(* With everything delivered nothing waits any more, and what is last but   *)
(* for what waits is the last.                                              *)
LEMMA QuietIsRecent ==
  ASSUME EgressAssumption, RecentInv
  PROVE  AnswerIsRecent
  <1>. SUFFICES ASSUME Quiet, steals = 0, lost = {}, Cardinality(ResponseShard) = 1, NEW t \in Trade
                PROVE  /\ LastOf(answers, t) \subseteq Latest(t)
                       /\ fails = 0 => LastOf(answers, t) \subseteq ritems
    BY DEF AnswerIsRecent
  <1>1. /\ DeliveryTypeOK /\ AnswersOK /\ EInv /\ GatewayWritesOK
        /\ EgressIsRecent /\ GatewayIsRecent /\ TypeOK
    BY DEF RecentInv, DeliveryInv, EInv
  <1>2. OneResponseShard
    <2>1. IsFiniteSet(ResponseShard)
      BY DEF EgressAssumption
    <2>2. \E z : ResponseShard = {z}
      BY <2>1, FS_Singleton
    <2>. QED BY <2>2 DEF OneResponseShard
  <1>3. /\ \A z \in ResponseShard : rckpt[z] = Len(responses[z]) /\ responses[z] \in Seq(Record)
        /\ \A s \in Shard : ckpt[s] = Len(log[s]) /\ log[s] \in Seq(Record)
    BY <1>1 DEF Quiet, Drained, Answers!Drained, TypeOK, ShardTypeOK
  <1>4. \A z \in ResponseShard : Unanswered(z) = {} /\ Unwritten(z) = {}
    BY <1>3 DEF Unanswered, Unwritten
  <1>5. \A s \in Shard : Unsent(s) = {}
    BY <1>3 DEF Unsent
  <1>6. ASSUME NEW x \in LastOf(answers, t)
        PROVE  \E z \in ResponseShard : x \in LastOf(responses[z], t)
    <2>1. AnsweredLast(x) /\ x.id = t
      BY <1>1, LastHasId DEF GatewayIsRecent
    <2>2. PICK z \in ResponseShard : LastBut(responses[z], {}, x)
      BY <1>4, <2>1 DEF AnsweredLast
    <2>. QED BY <1>3, <2>1, <2>2, ButNothing
  <1>7. ASSUME NEW x \in LastOf(answers, t)
        PROVE  x \in Latest(t)
    <2>1. SentLast(x) /\ x.id = t
      BY <1>1, <1>2, <1>6, <1>7, LastHasId DEF EgressIsRecent, ResponsesAreRecent
    <2>2. PICK s \in Shard : LastBut(log[s], {}, x)
      BY <1>5, <2>1 DEF SentLast
    <2>3. x \in LastOf(log[s], t)
      BY <1>3, <2>1, <2>2, ButNothing
    <2>. QED BY <2>3 DEF Latest
  <1>8. ASSUME fails = 0, NEW x \in LastOf(answers, t)
        PROVE  x \in ritems
    <2>1. x \in Elements(answers) /\ x.id = t
      BY LastHasId DEF LastOf, Elements
    <2>2. PICK y \in ritems : y.id = t
      BY <1>1, <1>8, <2>1 DEF GatewayWritesOK, AnswersStored, HasAnswer
    <2>3. WrittenLast(y)
      BY <1>1, <1>8 DEF GatewayIsRecent
    <2>4. PICK z \in ResponseShard : LastBut(responses[z], {}, y)
      BY <1>4, <2>3 DEF WrittenLast
    <2>5. y \in LastOf(responses[z], t)
      BY <1>3, <2>2, <2>4, ButNothing
    <2>6. x \in LastOf(responses[z], t)
      BY <1>2, <1>6, <1>8 DEF OneResponseShard
    <2>7. x = y
      BY <1>3, <2>5, <2>6, OneLast
    <2>. QED BY <2>2, <2>7
  <1>. QED BY <1>7, <1>8

(* AnswerIsRecent: with everything delivered, no lease moved and nothing    *)
(* refused, the last answer a client got about a trade is the last record   *)
(* of some shard of egress, and is the item of the table if no call failed, *)
(* however often crashes had records pushed and answers sent again.         *)
THEOREM DeliveryAnswerIsRecent ==
  ASSUME EgressAssumption
  PROVE  DeliverySpec => []AnswerIsRecent
  <1>1. RecentInv => AnswerIsRecent
    BY QuietIsRecent
  <1>. QED BY <1>1, RecentInvariance, PTL
=============================================================================
