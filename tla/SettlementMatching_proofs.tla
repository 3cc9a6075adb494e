--------------------- MODULE SettlementMatching_proofs ---------------------
(***************************************************************************)
(* Proofs about SettlementMatching, for every set of settlements, shards   *)
(* and workers and every bound: twins get one verdict, a settlement is     *)
(* sent twice at most, what is sent is stored unless a call failed, and no *)
(* pair is missed unless something failed.                                 *)
(***************************************************************************)
EXTENDS SettlementMatching, FiniteSetTheorems, TLAPS

(* A thread that has stored its settlement and is not done with it.  The    *)
(* unique id lets one thread get there for a settlement, once.              *)
Past == {"find", "update", "push"}
Claim(w, s, x) == job[w][s].pc \in Past /\ Current(w, s) = x
Claimed(x) == \E w \in Worker, s \in Shard : Claim(w, s, x)

(* Batches lie within their shards, and a thread outside the loop has no    *)
(* claim.                                                                   *)
BatchOK ==
  \A w \in Worker, s \in Shard :
    /\ ~Idle(w, s) => /\ batch[w][s].pos <= batch[w][s].end + 1
                      /\ batch[w][s].end <= Len(log[s])
    /\ job[w][s].pc \in Past => ~Idle(w, s) /\ batch[w][s].pos <= batch[w][s].end
    /\ job[w][s].pc = "skipped" => ~Idle(w, s) /\ batch[w][s].pos = batch[w][s].end + 1

(* What a thread holds is stored, and the pair it found is the twin. *)
FoundOK ==
  \A w \in Worker, s \in Shard : job[w][s].pc \in Past =>
    /\ Current(w, s) \in Settlement
    /\ row[Current(w, s)] # "NONE"
    /\ job[w][s].pc # "find" =>
         /\ job[w][s].pair \in Settlement
         /\ Twin(Current(w, s), job[w][s].pair)
         /\ row[job[w][s].pair] # "NONE"

OneClaim ==
  \A v, w \in Worker, r, s \in Shard, x \in Settlement :
    Claim(v, r, x) /\ Claim(w, s, x) => v = w /\ r = s

(* A verdict is the one that the terms call for, and both twins have it.    *)
VerdictOK ==
  \A x, y \in Settlement : Twin(x, y) /\ row[x] \in Verdict =>
    row[x] = VerdictOf(x, y) /\ row[y] = row[x]

(* A settlement is sent by its own thread and by that of its twin, once     *)
(* each: how often it was sent is paid for by claims that are over.         *)
SentCount(x) == pub[x]["Settled"] + pub[x]["Mismatched"]
Over(x) == IF row[x] = "NONE" \/ Claimed(x) THEN 0 ELSE 1

CountOK ==
  \A x \in Settlement :
    /\ SentCount(x) > 0 => \E y \in Settlement : Twin(x, y)
    /\ \A y \in Settlement : Twin(x, y) => SentCount(x) <= Over(x) + Over(y)

(* Until a call fails, a pair is updated before it is pushed. *)
CleanOK ==
  fails = 0 =>
    /\ \A w \in Worker, s \in Shard : job[w][s].pc \in Past =>
         /\ ~job[w][s].lapsed
         /\ job[w][s].pc = "push" =>
              row[Current(w, s)] = VerdictOf(Current(w, s), job[w][s].pair)
    /\ \A x \in Settlement : \A v \in Verdict : pub[x][v] > 0 => row[x] = v

DataOK == FoundOK /\ OneClaim /\ VerdictOK /\ CountOK /\ CleanOK
IInv == TypeOK /\ BatchOK /\ DataOK

----------------------------------------------------------------------------
(* The two sides of an allocation. *)

LEMMA TwinFacts ==
  ASSUME NEW x \in Settlement, NEW y \in Settlement, Twin(x, y)
  PROVE  /\ x # y /\ Twin(y, x)
         /\ \A z \in Settlement : Twin(x, z) => z = y
         /\ \A z \in Settlement : Twin(z, x) => z = y
         /\ VerdictOf(x, y) = VerdictOf(y, x) /\ VerdictOf(x, y) \in Verdict
  <1>1. x # y /\ Twin(y, x)
    BY DEF Twin
  <1>2. \A z \in Settlement : Twin(x, z) => z = y
    BY TwoSides
  <1>3. \A z \in Settlement : Twin(z, x) => Twin(x, z)
    BY DEF Twin
  <1>4. VerdictOf(x, y) = VerdictOf(y, x) /\ VerdictOf(x, y) \in Verdict
    BY DEF VerdictOf, Verdict
  <1> QED
    BY <1>1, <1>2, <1>3, <1>4

----------------------------------------------------------------------------
(* What a step does to the threads: one stays where it is, or has no claim  *)
(* afterwards.                                                              *)
Stays(w, s)  == job'[w][s] = job[w][s] /\ Current(w, s)' = Current(w, s)
Leaves(w, s) == job'[w][s].pc \notin Past

(* Rows, verdicts and counts do not mind threads that stay or leave. *)
LEMMA QuietKeeps ==
  ASSUME TypeOK, DataOK, UNCHANGED <<row, pub>>, fails' = 0 => fails = 0,
         \A w \in Worker, s \in Shard : Stays(w, s) \/ Leaves(w, s)
  PROVE  DataOK'
  <1>1. FoundOK /\ OneClaim /\ VerdictOK /\ CountOK /\ CleanOK
    BY DEF DataOK
  <1>2. FoundOK'
    BY <1>1 DEF FoundOK, Stays, Leaves
  <1>3. ASSUME NEW w \in Worker, NEW s \in Shard, NEW x \in Settlement, Claim(w, s, x)'
        PROVE  Claim(w, s, x)
    BY <1>3 DEF Claim, Stays, Leaves
  <1>4. OneClaim'
    BY <1>1, <1>3 DEF OneClaim
  <1>5. VerdictOK'
    BY <1>1 DEF VerdictOK
  <1>6. \A x \in Settlement : Over(x) \in {0, 1} /\ Over(x)' \in {0, 1} /\ (Over(x) = 1 => Over(x)' = 1)
    BY <1>3 DEF Over, Claimed
  <1>7. CountOK'
    <2>1. \A x \in Settlement : SentCount(x)' = SentCount(x) /\ SentCount(x) \in Nat
      BY DEF SentCount, TypeOK, Verdict
    <2> QED
      BY <1>1, <1>6, <2>1 DEF CountOK
  <1>8. CleanOK'
    BY <1>1 DEF CleanOK, Stays, Leaves
  <1> QED
    BY <1>2, <1>4, <1>5, <1>7, <1>8 DEF DataOK

(* A settlement without a row gets one; the thread that stored it may claim *)
(* it.                                                                      *)
LEMMA InsertKeeps ==
  ASSUME TypeOK, DataOK, NEW w \in Worker, NEW s \in Shard, NEW x \in Settlement,
         row[x] = "NONE", row' = [row EXCEPT ![x] = "Unmatched"], UNCHANGED pub,
         fails' = 0 => fails = 0,
         \A v \in Worker, r \in Shard :
            \/ Stays(v, r)
            \/ Leaves(v, r)
            \/ /\ v = w /\ r = s
               /\ job'[w][s].pc = "find" /\ Current(w, s)' = x
               /\ fails' = 0 => ~job'[w][s].lapsed
  PROVE  DataOK'
  <1>1. FoundOK /\ OneClaim /\ VerdictOK /\ CountOK /\ CleanOK
    BY DEF DataOK
  <1>2. \A z \in Settlement : row'[z] = IF z = x THEN "Unmatched" ELSE row[z]
    BY DEF TypeOK
  <1>3. ASSUME NEW v \in Worker, NEW r \in Shard, Claim(v, r, x) PROVE FALSE
    BY <1>1, <1>3 DEF FoundOK, Claim
  <1>4. ASSUME NEW v \in Worker, NEW r \in Shard, job'[v][r].pc \in Past
        PROVE  \/ Stays(v, r) /\ job[v][r].pc \in Past
               \/ v = w /\ r = s /\ job'[w][s].pc = "find" /\ Current(w, s)' = x
                  /\ (fails' = 0 => ~job'[w][s].lapsed)
    BY <1>4 DEF Stays, Leaves
  <1>5. ASSUME NEW v \in Worker, NEW r \in Shard, job[v][r].pc \in Past
        PROVE  /\ Current(v, r) # x
               /\ job[v][r].pc # "find" => job[v][r].pair # x
    BY <1>1, <1>5 DEF FoundOK
  <1>6. FoundOK'
    <2> SUFFICES ASSUME NEW v \in Worker, NEW r \in Shard, job'[v][r].pc \in Past
                 PROVE  /\ Current(v, r)' \in Settlement
                        /\ row'[Current(v, r)'] # "NONE"
                        /\ job'[v][r].pc # "find" =>
                             /\ job'[v][r].pair \in Settlement
                             /\ Twin(Current(v, r)', job'[v][r].pair)
                             /\ row'[job'[v][r].pair] # "NONE"
      BY DEF FoundOK
    <2>1. CASE Stays(v, r) /\ job[v][r].pc \in Past
      BY <1>1, <1>2, <1>5, <2>1 DEF FoundOK, Stays, TypeOK
    <2>2. CASE v = w /\ r = s /\ job'[w][s].pc = "find" /\ Current(w, s)' = x
      BY <1>2, <2>2
    <2> QED
      BY <1>4, <2>1, <2>2
  <1>7. ASSUME NEW v \in Worker, NEW r \in Shard, NEW z \in Settlement, Claim(v, r, z)'
        PROVE  Claim(v, r, z) \/ (v = w /\ r = s /\ z = x)
    BY <1>4, <1>7 DEF Claim, Stays
  <1>8. OneClaim'
    <2> SUFFICES ASSUME NEW v \in Worker, NEW u \in Worker, NEW r \in Shard, NEW q \in Shard,
                        NEW z \in Settlement, Claim(v, r, z)', Claim(u, q, z)'
                 PROVE  v = u /\ r = q
      BY DEF OneClaim
    <2>1. CASE z = x
      BY <1>3, <1>7, <2>1
    <2>2. CASE z # x
      BY <1>1, <1>7, <2>2 DEF OneClaim
    <2> QED
      BY <2>1, <2>2
  <1>9. VerdictOK'
    BY <1>1, <1>2 DEF VerdictOK, Verdict
  <1>10. \A z \in Settlement : Over(z) \in {0, 1} /\ Over(z)' \in {0, 1} /\ (Over(z) = 1 => Over(z)' = 1)
    BY <1>2, <1>7 DEF Over, Claimed
  <1>11. CountOK'
    <2>1. \A z \in Settlement : SentCount(z)' = SentCount(z) /\ SentCount(z) \in Nat
      BY DEF SentCount, TypeOK, Verdict
    <2> QED
      BY <1>1, <1>10, <2>1 DEF CountOK
  <1>12. CleanOK'
    <2> SUFFICES ASSUME fails' = 0
                 PROVE  /\ \A v \in Worker, r \in Shard : job'[v][r].pc \in Past =>
                             /\ ~job'[v][r].lapsed
                             /\ job'[v][r].pc = "push" =>
                                  row'[Current(v, r)'] = VerdictOf(Current(v, r)', job'[v][r].pair)
                        /\ \A z \in Settlement : \A d \in Verdict : pub'[z][d] > 0 => row'[z] = d
      BY DEF CleanOK
    <2>1. ASSUME NEW v \in Worker, NEW r \in Shard, job'[v][r].pc \in Past
          PROVE  /\ ~job'[v][r].lapsed
                 /\ job'[v][r].pc = "push" =>
                      row'[Current(v, r)'] = VerdictOf(Current(v, r)', job'[v][r].pair)
      <3>1. CASE Stays(v, r) /\ job[v][r].pc \in Past
        <4>1. row'[Current(v, r)'] = row[Current(v, r)]
          BY <1>5, <3>1 DEF Stays
        <4> QED
          BY <1>1, <3>1, <4>1 DEF CleanOK, Stays
      <3>2. CASE v = w /\ r = s /\ job'[w][s].pc = "find" /\ (fails' = 0 => ~job'[w][s].lapsed)
        BY <3>2
      <3> QED
        BY <1>4, <2>1, <3>1, <3>2
    <2>2. \A z \in Settlement : \A d \in Verdict : pub'[z][d] > 0 => row'[z] = d
      BY <1>1, <1>2 DEF CleanOK, Verdict
    <2> QED
      BY <2>1, <2>2
  <1> QED
    BY <1>6, <1>8, <1>9, <1>11, <1>12 DEF DataOK

(* What a thread past its insert holds. *)
LEMMA HeldFacts ==
  ASSUME TypeOK, DataOK, NEW w \in Worker, NEW s \in Shard,
         job[w][s].pc \in {"update", "push"}
  PROVE  /\ Current(w, s) \in Settlement
         /\ job[w][s].pair \in Settlement
         /\ Twin(Current(w, s), job[w][s].pair)
         /\ row[Current(w, s)] # "NONE" /\ row[job[w][s].pair] # "NONE"
         /\ VerdictOf(Current(w, s), job[w][s].pair) \in Verdict
  <1>1. FoundOK /\ job[w][s].pc \in Past /\ job[w][s].pc # "find"
    BY DEF DataOK, Past
  <1>2. /\ Current(w, s) \in Settlement
        /\ job[w][s].pair \in Settlement
        /\ Twin(Current(w, s), job[w][s].pair)
        /\ row[Current(w, s)] # "NONE" /\ row[job[w][s].pair] # "NONE"
    BY <1>1 DEF FoundOK
  <1> QED
    BY <1>2, TwinFacts

(* A thread finds the pair of its settlement. *)
LEMMA FindKeeps ==
  ASSUME TypeOK, DataOK, NEW w \in Worker, NEW s \in Shard, NEW y \in Settlement,
         job[w][s].pc = "find", y \in Pairs(Current(w, s)), UNCHANGED <<row, pub, fails>>,
         job'[w][s] = [job[w][s] EXCEPT !.pc = "update", !.pair = y],
         Current(w, s)' = Current(w, s),
         \A v \in Worker, r \in Shard : Stays(v, r) \/ (v = w /\ r = s)
  PROVE  DataOK'
  <1>1. FoundOK /\ OneClaim /\ VerdictOK /\ CountOK /\ CleanOK
    BY DEF DataOK
  <1>2. /\ job'[w][s].pc = "update" /\ job'[w][s].pair = y
        /\ job'[w][s].lapsed = job[w][s].lapsed
        /\ job'[w][s].pc \in Past /\ job[w][s].pc \in Past
    BY DEF TypeOK, Job, Past
  <1>3. Twin(Current(w, s), y) /\ row[y] # "NONE"
    BY DEF Pairs
  <1>4. FoundOK'
    <2> SUFFICES ASSUME NEW v \in Worker, NEW r \in Shard, job'[v][r].pc \in Past
                 PROVE  /\ Current(v, r)' \in Settlement
                        /\ row'[Current(v, r)'] # "NONE"
                        /\ job'[v][r].pc # "find" =>
                             /\ job'[v][r].pair \in Settlement
                             /\ Twin(Current(v, r)', job'[v][r].pair)
                             /\ row'[job'[v][r].pair] # "NONE"
      BY DEF FoundOK
    <2>1. CASE v = w /\ r = s
      <3>1. Current(w, s) \in Settlement /\ row[Current(w, s)] # "NONE"
        BY <1>1, <1>2 DEF FoundOK
      <3> QED
        BY <1>2, <1>3, <2>1, <3>1
    <2>2. CASE Stays(v, r)
      <3>1. job[v][r].pc \in Past
        BY <2>2 DEF Stays
      <3> QED
        BY <1>1, <2>2, <3>1 DEF FoundOK, Stays
    <2> QED
      BY <2>1, <2>2
  <1>5. \A v \in Worker, r \in Shard, x \in Settlement : Claim(v, r, x)' <=> Claim(v, r, x)
    <2> SUFFICES ASSUME NEW v \in Worker, NEW r \in Shard, NEW x \in Settlement
                 PROVE  Claim(v, r, x)' <=> Claim(v, r, x)
      OBVIOUS
    <2>1. CASE v = w /\ r = s
      BY <1>2, <2>1 DEF Claim
    <2>2. CASE Stays(v, r)
      BY <2>2 DEF Claim, Stays
    <2> QED
      BY <2>1, <2>2
  <1>6. OneClaim'
    BY <1>1, <1>5 DEF OneClaim
  <1>7. VerdictOK'
    BY <1>1 DEF VerdictOK
  <1>8. CountOK'
    <2>1. \A x \in Settlement : Over(x)' = Over(x) /\ SentCount(x)' = SentCount(x)
      BY <1>5 DEF Over, Claimed, SentCount
    <2> QED
      BY <1>1, <2>1 DEF CountOK
  <1>9. CleanOK'
    <2> SUFFICES ASSUME fails = 0
                 PROVE  /\ \A v \in Worker, r \in Shard : job'[v][r].pc \in Past =>
                             /\ ~job'[v][r].lapsed
                             /\ job'[v][r].pc = "push" =>
                                  row[Current(v, r)'] = VerdictOf(Current(v, r)', job'[v][r].pair)
                        /\ \A z \in Settlement : \A d \in Verdict : pub[z][d] > 0 => row[z] = d
      BY DEF CleanOK
    <2>1. ASSUME NEW v \in Worker, NEW r \in Shard, job'[v][r].pc \in Past
          PROVE  /\ ~job'[v][r].lapsed
                 /\ job'[v][r].pc = "push" =>
                      row[Current(v, r)'] = VerdictOf(Current(v, r)', job'[v][r].pair)
      <3>1. CASE v = w /\ r = s
        BY <1>1, <1>2, <3>1 DEF CleanOK
      <3>2. CASE Stays(v, r)
        BY <1>1, <2>1, <3>2 DEF CleanOK, Stays
      <3> QED
        BY <3>1, <3>2
    <2> QED
      BY <1>1, <2>1 DEF CleanOK
  <1> QED
    BY <1>4, <1>6, <1>7, <1>8, <1>9 DEF DataOK

(* A thread updates its pair, or fails to. *)
LEMMA UpdateKeeps ==
  ASSUME TypeOK, DataOK, NEW w \in Worker, NEW s \in Shard,
         NEW x \in Settlement, NEW y \in Settlement, x = Current(w, s), y = job[w][s].pair,
         job[w][s].pc = "update", UNCHANGED pub,
         \/ row' = [row EXCEPT ![x] = VerdictOf(x, y), ![y] = VerdictOf(x, y)] /\ UNCHANGED fails
         \/ UNCHANGED row /\ fails' # 0,
         job'[w][s] = [job[w][s] EXCEPT !.pc = "push"], Current(w, s)' = Current(w, s),
         \A v \in Worker, r \in Shard : Stays(v, r) \/ (v = w /\ r = s)
  PROVE  DataOK'
  <1>1. FoundOK /\ OneClaim /\ VerdictOK /\ CountOK /\ CleanOK
    BY DEF DataOK
  <1>2. /\ job'[w][s].pc = "push" /\ job'[w][s].pair = y
        /\ job'[w][s].lapsed = job[w][s].lapsed
        /\ job'[w][s].pc \in Past /\ job[w][s].pc \in Past
    BY DEF TypeOK, Job, Past
  <1>3. Twin(x, y) /\ row[x] # "NONE" /\ row[y] # "NONE" /\ VerdictOf(x, y) \in Verdict
    BY HeldFacts
  <1>4. /\ x # y /\ VerdictOf(y, x) = VerdictOf(x, y)
        /\ \A z \in Settlement : Twin(x, z) \/ Twin(z, x) => z = y
        /\ \A z \in Settlement : Twin(y, z) \/ Twin(z, y) => z = x
    <2>1. Twin(y, x)
      BY <1>3, TwinFacts
    <2> QED
      BY <1>3, <2>1, TwinFacts
  <1>5. \A z \in Settlement :
          row'[z] = row[z] \/ (z \in {x, y} /\ row'[z] = VerdictOf(x, y))
    BY DEF TypeOK
  <1>6. \A z \in Settlement : row'[z] = "NONE" <=> row[z] = "NONE"
    BY <1>3, <1>5 DEF Verdict
  <1>7. FoundOK'
    <2> SUFFICES ASSUME NEW v \in Worker, NEW r \in Shard, job'[v][r].pc \in Past
                 PROVE  /\ Current(v, r)' \in Settlement
                        /\ row'[Current(v, r)'] # "NONE"
                        /\ job'[v][r].pc # "find" =>
                             /\ job'[v][r].pair \in Settlement
                             /\ Twin(Current(v, r)', job'[v][r].pair)
                             /\ row'[job'[v][r].pair] # "NONE"
      BY DEF FoundOK
    <2>1. CASE v = w /\ r = s
      BY <1>2, <1>3, <1>6, <2>1
    <2>2. CASE Stays(v, r)
      <3>1. job[v][r].pc \in Past /\ row[Current(v, r)] # "NONE"
        BY <1>1, <2>2 DEF Stays, FoundOK
      <3>2. row'[Current(v, r)] # "NONE"
        BY <1>1, <1>6, <3>1 DEF FoundOK
      <3> QED
        BY <1>1, <1>6, <2>2, <3>1, <3>2 DEF FoundOK, Stays
    <2> QED
      BY <2>1, <2>2
  <1>8. \A v \in Worker, r \in Shard, z \in Settlement : Claim(v, r, z)' <=> Claim(v, r, z)
    BY <1>2 DEF Claim, Stays
  <1>9. OneClaim'
    BY <1>1, <1>8 DEF OneClaim
  <1>10. CountOK'
    <2>1. \A z \in Settlement : Over(z)' = Over(z) /\ SentCount(z)' = SentCount(z)
      BY <1>6, <1>8 DEF Over, Claimed, SentCount
    <2> QED
      BY <1>1, <2>1 DEF CountOK
  <1>11. VerdictOK'
    <2> SUFFICES ASSUME NEW a \in Settlement, NEW b \in Settlement, Twin(a, b), row'[a] \in Verdict
                 PROVE  row'[a] = VerdictOf(a, b) /\ row'[b] = row'[a]
      BY DEF VerdictOK
    <2>1. CASE UNCHANGED row
      BY <1>1, <2>1 DEF VerdictOK
    <2>2. CASE row' = [row EXCEPT ![x] = VerdictOf(x, y), ![y] = VerdictOf(x, y)]
      <3>1. row'[x] = VerdictOf(x, y) /\ row'[y] = VerdictOf(x, y)
        BY <1>4, <2>2 DEF TypeOK
      <3>2. CASE a \in {x, y}
        BY <1>4, <3>1, <3>2
      <3>3. CASE a \notin {x, y}
        <4>1. b \notin {x, y}
          BY <1>4, <3>3
        <4>2. row'[a] = row[a] /\ row'[b] = row[b]
          BY <1>5, <3>3, <4>1
        <4> QED
          BY <1>1, <4>2 DEF VerdictOK
      <3> QED
        BY <3>2, <3>3
    <2> QED
      BY <2>1, <2>2
  <1>12. CleanOK'
    <2> SUFFICES ASSUME fails' = 0
                 PROVE  /\ \A v \in Worker, r \in Shard : job'[v][r].pc \in Past =>
                             /\ ~job'[v][r].lapsed
                             /\ job'[v][r].pc = "push" =>
                                  row'[Current(v, r)'] = VerdictOf(Current(v, r)', job'[v][r].pair)
                        /\ \A z \in Settlement : \A d \in Verdict : pub'[z][d] > 0 => row'[z] = d
      BY DEF CleanOK
    <2>1. /\ fails = 0
          /\ row' = [row EXCEPT ![x] = VerdictOf(x, y), ![y] = VerdictOf(x, y)]
      OBVIOUS
    <2>2. row'[x] = VerdictOf(x, y) /\ row'[y] = VerdictOf(x, y)
      BY <1>4, <2>1 DEF TypeOK
    <2>3. \A z \in Settlement : z \notin {x, y} => row'[z] = row[z]
      BY <1>5
    <2>4. ASSUME NEW v \in Worker, NEW r \in Shard, job'[v][r].pc \in Past
          PROVE  /\ ~job'[v][r].lapsed
                 /\ job'[v][r].pc = "push" =>
                      row'[Current(v, r)'] = VerdictOf(Current(v, r)', job'[v][r].pair)
      <3>1. CASE v = w /\ r = s
        BY <1>1, <1>2, <2>1, <2>2, <3>1 DEF CleanOK
      <3>2. CASE Stays(v, r)
        <4> DEFINE a == Current(v, r)
                   b == job[v][r].pair
        <4>1. job[v][r].pc \in Past /\ ~job[v][r].lapsed
          BY <1>1, <2>1, <2>4, <3>2 DEF Stays, CleanOK
        <4>2. ASSUME job[v][r].pc = "push" PROVE row'[a] = VerdictOf(a, b)
          <5>1. a \in Settlement /\ b \in Settlement /\ Twin(a, b) /\ row[a] = VerdictOf(a, b)
            BY <1>1, <2>1, <4>1, <4>2 DEF FoundOK, CleanOK
          <5>2. CASE a \in {x, y}
            BY <1>4, <2>2, <5>1, <5>2
          <5>3. CASE a \notin {x, y}
            BY <2>3, <5>1, <5>3
          <5> QED
            BY <5>2, <5>3
        <4> QED
          BY <3>2, <4>1, <4>2 DEF Stays
      <3> QED
        BY <3>1, <3>2
    <2>5. ASSUME NEW z \in Settlement, NEW d \in Verdict, pub'[z][d] > 0
          PROVE  row'[z] = d
      <3>1. row[z] = d
        BY <1>1, <2>1, <2>5 DEF CleanOK
      <3>2. CASE z \in {x, y}
        <4>1. row[z] = VerdictOf(x, y)
          <5>1. Twin(y, x)
            BY <1>3, TwinFacts
          <5> QED
            BY <1>1, <1>3, <1>4, <3>1, <3>2, <5>1 DEF VerdictOK
        <4> QED
          BY <2>2, <3>1, <3>2, <4>1
      <3>3. CASE z \notin {x, y}
        BY <2>3, <3>1, <3>3
      <3> QED
        BY <3>2, <3>3
    <2> QED
      BY <2>4, <2>5
  <1> QED
    BY <1>7, <1>9, <1>10, <1>11, <1>12 DEF DataOK

(* A thread sends some of its pair and is done with its settlement. *)
LEMMA PushKeeps ==
  ASSUME TypeOK, DataOK, NEW w \in Worker, NEW s \in Shard,
         NEW x \in Settlement, NEW y \in Settlement, x = Current(w, s), y = job[w][s].pair,
         job[w][s].pc = "push", NEW S \in SUBSET {x, y}, Publish(S, VerdictOf(x, y)),
         UNCHANGED row, fails' = 0 => fails = 0, Leaves(w, s),
         \A v \in Worker, r \in Shard : Stays(v, r) \/ (v = w /\ r = s)
  PROVE  DataOK'
  <1>1. FoundOK /\ OneClaim /\ VerdictOK /\ CountOK /\ CleanOK
    BY DEF DataOK
  <1>2. Twin(x, y) /\ row[x] # "NONE" /\ row[y] # "NONE" /\ VerdictOf(x, y) \in Verdict
    BY HeldFacts
  <1>3. /\ Twin(y, x)
        /\ \A z \in Settlement : Twin(x, z) => z = y
        /\ \A z \in Settlement : Twin(y, z) => z = x
    BY <1>2, TwinFacts
  <1>4. \A z \in Settlement, d \in Verdict :
          /\ pub[z][d] \in Nat
          /\ pub'[z][d] = IF z \in S /\ d = VerdictOf(x, y) THEN pub[z][d] + 1 ELSE pub[z][d]
    BY <1>2 DEF Publish, TypeOK
  <1>5. \A z \in Settlement :
          /\ SentCount(z) \in Nat
          /\ SentCount(z)' = IF z \in S THEN SentCount(z) + 1 ELSE SentCount(z)
    BY <1>2, <1>4 DEF SentCount, Verdict
  <1>6. ASSUME NEW v \in Worker, NEW r \in Shard, job'[v][r].pc \in Past
        PROVE  Stays(v, r) /\ job[v][r].pc \in Past /\ ~(v = w /\ r = s)
    BY <1>6 DEF Stays, Leaves
  <1>7. FoundOK'
    BY <1>1, <1>6 DEF FoundOK, Stays
  <1>8. ASSUME NEW v \in Worker, NEW r \in Shard, NEW z \in Settlement, Claim(v, r, z)'
        PROVE  Claim(v, r, z) /\ ~(v = w /\ r = s)
    BY <1>6, <1>8 DEF Claim, Stays
  <1>9. OneClaim'
    BY <1>1, <1>8 DEF OneClaim
  <1>10. /\ Over(x) = 0 /\ Over(x)' = 1
         /\ \A z \in Settlement : Over(z) \in {0, 1} /\ Over(z)' \in {0, 1} /\ (Over(z) = 1 => Over(z)' = 1)
    <2>1. Claim(w, s, x)
      BY DEF Claim, Past
    <2>2. ~Claimed(x)'
      BY <1>1, <1>8, <2>1 DEF OneClaim, Claimed
    <2> QED
      BY <1>2, <1>8, <2>1, <2>2 DEF Over, Claimed
  <1>11. CountOK'
    <2>1. ASSUME NEW z \in Settlement, SentCount(z)' > 0
          PROVE  \E b \in Settlement : Twin(z, b)
      BY <1>1, <1>2, <1>3, <1>5, <2>1 DEF CountOK
    <2>2. ASSUME NEW a \in Settlement, NEW b \in Settlement, Twin(a, b)
          PROVE  SentCount(a)' <= Over(a)' + Over(b)'
      <3>1. SentCount(a) <= Over(a) + Over(b)
        BY <1>1, <2>2 DEF CountOK
      <3>2. CASE a \in S
        <4>1. (a = x /\ b = y) \/ (a = y /\ b = x)
          BY <1>3, <2>2, <3>2
        <4> QED
          BY <1>5, <1>10, <3>1, <3>2, <4>1
      <3>3. CASE a \notin S
        BY <1>5, <1>10, <3>1, <3>3
      <3> QED
        BY <3>2, <3>3
    <2> QED
      BY <2>1, <2>2 DEF CountOK
  <1>12. VerdictOK'
    BY <1>1 DEF VerdictOK
  <1>13. CleanOK'
    <2> SUFFICES ASSUME fails = 0
                 PROVE  /\ \A v \in Worker, r \in Shard : job'[v][r].pc \in Past =>
                             /\ ~job'[v][r].lapsed
                             /\ job'[v][r].pc = "push" =>
                                  row[Current(v, r)'] = VerdictOf(Current(v, r)', job'[v][r].pair)
                        /\ \A z \in Settlement : \A d \in Verdict : pub'[z][d] > 0 => row[z] = d
      BY DEF CleanOK
    <2>1. row[x] = VerdictOf(x, y) /\ row[y] = VerdictOf(x, y)
      <3>1. row[x] = VerdictOf(x, y)
        BY <1>1 DEF CleanOK, Past
      <3> QED
        BY <1>1, <1>2, <3>1 DEF VerdictOK
    <2>2. ASSUME NEW z \in Settlement, NEW d \in Verdict, pub'[z][d] > 0
          PROVE  row[z] = d
      <3>1. CASE z \in S /\ d = VerdictOf(x, y)
        BY <2>1, <3>1
      <3>2. CASE ~(z \in S /\ d = VerdictOf(x, y))
        BY <1>1, <1>4, <2>2, <3>2 DEF CleanOK
      <3> QED
        BY <3>1, <3>2
    <2>3. ASSUME NEW v \in Worker, NEW r \in Shard, job'[v][r].pc \in Past
          PROVE  /\ ~job'[v][r].lapsed
                 /\ job'[v][r].pc = "push" =>
                      row[Current(v, r)'] = VerdictOf(Current(v, r)', job'[v][r].pair)
      BY <1>1, <1>6, <2>3 DEF CleanOK, Stays
    <2> QED
      BY <2>2, <2>3
  <1> QED
    BY <1>7, <1>9, <1>11, <1>12, <1>13 DEF DataOK

----------------------------------------------------------------------------
(* What a step does to the shards and to its thread. *)

(* The record a thread is at is a settlement of its shard. *)
LEMMA CurrentType ==
  ASSUME TypeOK, BatchOK, NEW w \in Worker, NEW s \in Shard, Working(w, s)
  PROVE  Current(w, s) \in Settlement
  <1>1. /\ log[s] \in Seq(Settlement)
        /\ batch[w][s].pos \in Nat /\ batch[w][s].end \in Nat
    BY DEF TypeOK, ShardTypeOK
  <1>2. batch[w][s].pos \in 1..Len(log[s])
    BY <1>1 DEF BatchOK, Working, Idle
  <1> QED
    BY <1>1, <1>2 DEF Current

NewJobFacts == NewJob \in Job /\ NewJob.pc = "persist" /\ ~NewJob.lapsed

LEMMA NewJobType == NewJobFacts /\ "persist" \notin Past /\ "skipped" \notin Past
  BY DEF NewJobFacts, NewJob, Job, Step, Past

(* What all three kinds of step of a thread leave behind. *)
ThreadKept(w, s) ==
  /\ ShardTypeOK(Settlement)' /\ BatchOK'
  /\ job' \in [Worker -> [Shard -> Job]]
  /\ \A v \in Worker, r \in Shard : Stays(v, r) \/ (v = w /\ r = s)

LEMMA GotoKeeps ==
  ASSUME TypeOK, BatchOK, NEW w \in Worker, NEW s \in Shard, Working(w, s),
         NEW next \in Job, next.pc # "skipped", Goto(w, s, next)
  PROVE  ThreadKept(w, s) /\ job'[w][s] = next /\ Current(w, s)' = Current(w, s)
  <1>1. UNCHANGED <<log, ckpt, owner, batch, steals, up, crashes>>
    BY DEF Goto, StayAtRecord, shardVars, workerVars
  <1>2. /\ job' \in [Worker -> [Shard -> Job]]
        /\ \A v \in Worker, r \in Shard :
             job'[v][r] = IF v = w /\ r = s THEN next ELSE job[v][r]
    BY DEF Goto, TypeOK
  <1>3. ShardTypeOK(Settlement)'
    BY <1>1 DEF TypeOK, ShardTypeOK
  <1>4. BatchOK'
    BY <1>1, <1>2 DEF BatchOK, Idle, Working
  <1>5. \A v \in Worker, r \in Shard : Current(v, r)' = Current(v, r)
    BY <1>1 DEF Current
  <1> QED
    BY <1>2, <1>3, <1>4, <1>5 DEF ThreadKept, Stays

LEMMA DoneKeeps ==
  ASSUME TypeOK, BatchOK, NEW w \in Worker, NEW s \in Shard, Working(w, s), Done(w, s)
  PROVE  ThreadKept(w, s) /\ Leaves(w, s)
  <1>1. batch[w][s].pos \in Nat /\ batch[w][s].end \in Nat
    BY DEF TypeOK, ShardTypeOK
  <1>2. /\ UNCHANGED <<log, ckpt, owner, steals, up, crashes>>
        /\ batch' = [batch EXCEPT ![w][s] =
                       [pos |-> batch[w][s].pos + 1, end |-> batch[w][s].end]]
    BY DEF Done, NextRecord, workerVars
  <1>3. /\ batch' \in [Worker -> [Shard -> [pos : Nat, end : Nat]]]
        /\ \A v \in Worker, r \in Shard :
             batch'[v][r] = IF v = w /\ r = s
                            THEN [pos |-> batch[w][s].pos + 1, end |-> batch[w][s].end]
                            ELSE batch[v][r]
    BY <1>1, <1>2 DEF TypeOK, ShardTypeOK
  <1>4. /\ job' \in [Worker -> [Shard -> Job]]
        /\ \A v \in Worker, r \in Shard :
             job'[v][r] = IF v = w /\ r = s THEN NewJob ELSE job[v][r]
    BY NewJobType DEF NewJobFacts, Done, TypeOK
  <1>5. ShardTypeOK(Settlement)'
    BY <1>2, <1>3 DEF TypeOK, ShardTypeOK
  <1>6. BatchOK'
    <2> SUFFICES ASSUME NEW v \in Worker, NEW r \in Shard
                 PROVE  /\ ~Idle(v, r)' => /\ batch'[v][r].pos <= batch'[v][r].end + 1
                                           /\ batch'[v][r].end <= Len(log'[r])
                        /\ job'[v][r].pc \in Past =>
                             ~Idle(v, r)' /\ batch'[v][r].pos <= batch'[v][r].end
                        /\ job'[v][r].pc = "skipped" =>
                             ~Idle(v, r)' /\ batch'[v][r].pos = batch'[v][r].end + 1
      BY DEF BatchOK
    <2>1. CASE v = w /\ r = s
      <3>1. batch[w][s].end <= Len(log[s]) /\ batch[w][s].pos <= batch[w][s].end
        BY DEF BatchOK, Working
      <3>2. job'[w][s].pc \notin Past /\ job'[w][s].pc # "skipped"
        BY <1>4, NewJobType DEF NewJobFacts
      <3> QED
        BY <1>1, <1>2, <1>3, <2>1, <3>1, <3>2
    <2>2. CASE ~(v = w /\ r = s)
      <3>1. batch'[v][r] = batch[v][r] /\ job'[v][r] = job[v][r]
        BY <1>3, <1>4, <2>2
      <3> QED
        BY <1>2, <3>1 DEF BatchOK, Idle
    <2> QED
      BY <2>1, <2>2
  <1>7. \A v \in Worker, r \in Shard : Stays(v, r) \/ (v = w /\ r = s)
    BY <1>2, <1>3, <1>4 DEF Stays, Current
  <1> QED
    BY <1>4, <1>5, <1>6, <1>7, NewJobType DEF NewJobFacts, ThreadKept, Leaves

LEMMA SkipKeeps ==
  ASSUME TypeOK, BatchOK, NEW w \in Worker, NEW s \in Shard, Working(w, s), SkipBatch(w, s)
  PROVE  ThreadKept(w, s) /\ Leaves(w, s)
  <1> DEFINE skipped == [NewJob EXCEPT !.pc = "skipped"]
  <1>1. batch[w][s].pos \in Nat /\ batch[w][s].end \in Nat
    BY DEF TypeOK, ShardTypeOK
  <1>2. skipped \in Job /\ skipped.pc = "skipped"
    BY DEF NewJob, Job, Step
  <1>3. /\ UNCHANGED <<log, ckpt, owner, steals, up, crashes>>
        /\ batch' = [batch EXCEPT ![w][s].pos = batch[w][s].end + 1]
        /\ job' = [job EXCEPT ![w][s] = skipped]
    BY DEF SkipBatch, workerVars
  <1> HIDE DEF skipped
  <1>4. /\ batch' \in [Worker -> [Shard -> [pos : Nat, end : Nat]]]
        /\ batch'[w][s].pos = batch[w][s].end + 1 /\ batch'[w][s].end = batch[w][s].end
        /\ \A v \in Worker, r \in Shard : batch'[v][r] = batch[v][r] \/ (v = w /\ r = s)
    <2> DEFINE after == [batch[w][s] EXCEPT !.pos = batch[w][s].end + 1]
    <2>1. /\ after \in [pos : Nat, end : Nat]
          /\ after.pos = batch[w][s].end + 1 /\ after.end = batch[w][s].end
      BY <1>1 DEF TypeOK, ShardTypeOK
    <2>2. batch' = [batch EXCEPT ![w][s] = after]
      BY <1>3 DEF TypeOK, ShardTypeOK
    <2> HIDE DEF after
    <2> QED
      BY <2>1, <2>2 DEF TypeOK, ShardTypeOK
  <1>5. /\ job' \in [Worker -> [Shard -> Job]]
        /\ \A v \in Worker, r \in Shard :
             job'[v][r] = IF v = w /\ r = s THEN skipped ELSE job[v][r]
    BY <1>2, <1>3 DEF TypeOK
  <1>6. ShardTypeOK(Settlement)'
    BY <1>3, <1>4 DEF TypeOK, ShardTypeOK
  <1>7. BatchOK'
    <2> SUFFICES ASSUME NEW v \in Worker, NEW r \in Shard
                 PROVE  /\ ~Idle(v, r)' => /\ batch'[v][r].pos <= batch'[v][r].end + 1
                                           /\ batch'[v][r].end <= Len(log'[r])
                        /\ job'[v][r].pc \in Past =>
                             ~Idle(v, r)' /\ batch'[v][r].pos <= batch'[v][r].end
                        /\ job'[v][r].pc = "skipped" =>
                             ~Idle(v, r)' /\ batch'[v][r].pos = batch'[v][r].end + 1
      BY DEF BatchOK
    <2>1. CASE v = w /\ r = s
      <3>1. batch[w][s].end <= Len(log[s]) /\ ~Idle(w, s)
        BY DEF BatchOK, Working
      <3>2. batch'[w][s].pos # 0
        BY <1>1, <1>4
      <3> QED
        BY <1>1, <1>2, <1>3, <1>4, <1>5, <2>1, <3>1, <3>2, NewJobType DEF Idle
    <2>2. CASE ~(v = w /\ r = s)
      <3>1. batch'[v][r] = batch[v][r] /\ job'[v][r] = job[v][r]
        BY <1>4, <1>5, <2>2
      <3> QED
        BY <1>3, <3>1 DEF BatchOK, Idle
    <2> QED
      BY <2>1, <2>2
  <1>8. \A v \in Worker, r \in Shard : Stays(v, r) \/ (v = w /\ r = s)
    BY <1>3, <1>4, <1>5 DEF Stays, Current
  <1> QED
    BY <1>2, <1>5, <1>6, <1>7, <1>8, NewJobType DEF ThreadKept, Leaves

----------------------------------------------------------------------------
(* The invariant holds at first and is kept by each action. *)

LEMMA InvInit == Init => IInv
  <1> SUFFICES ASSUME Init PROVE IInv
    OBVIOUS
  <1>1. \A w \in Worker, s \in Shard :
          job[w][s] = NewJob /\ job[w][s].pc = "persist" /\ batch[w][s] = NoBatch
    BY DEF Init, ShardInit, NewJob
  <1>2. TypeOK
    BY NewJobType DEF NewJobFacts, Init, TypeOK, ShardInit, ShardTypeOK, NoBatch, Status
  <1>3. BatchOK /\ FoundOK /\ OneClaim /\ VerdictOK
    BY <1>1 DEF BatchOK, FoundOK, OneClaim, VerdictOK, Claim, Past, Idle, NoBatch, Init, Verdict
  <1>4. \A x \in Settlement, v \in Verdict : pub[x][v] = 0
    BY DEF Init
  <1>5. CountOK
    <2>1. \A x \in Settlement : SentCount(x) = 0 /\ Over(x) \in {0, 1}
      BY <1>4 DEF SentCount, Verdict, Over
    <2> QED
      BY <2>1 DEF CountOK
  <1>6. CleanOK
    BY <1>1, <1>4 DEF CleanOK, Past
  <1> QED
    BY <1>2, <1>3, <1>5, <1>6 DEF IInv, DataOK

LEMMA ReceiveKeeps ==
  ASSUME IInv, NEW x \in Settlement, NEW s \in Shard, ReceiveSettlement(x, s)
  PROVE  IInv'
  <1>1. TypeOK /\ BatchOK /\ DataOK
    BY DEF IInv
  <1>2. /\ UNCHANGED <<ckpt, owner, batch, steals, up, crashes, row, job, pub, fails, draws>>
        /\ log' = [log EXCEPT ![s] = Append(@, x)]
    BY DEF ReceiveSettlement, Put, workerVars
  <1>3. TypeOK'
    BY <1>1, <1>2 DEF TypeOK, ShardTypeOK
  <1>4. ASSUME NEW r \in Shard
        PROVE  /\ Len(log[r]) \in Nat /\ Len(log'[r]) \in Nat /\ Len(log[r]) <= Len(log'[r])
               /\ \A i \in 1..Len(log[r]) : log'[r][i] = log[r][i]
    BY <1>1, <1>2 DEF TypeOK, ShardTypeOK
  <1>5. \A w \in Worker, r \in Shard : batch[w][r].pos \in Nat /\ batch[w][r].end \in Nat
    BY <1>1 DEF TypeOK, ShardTypeOK
  <1>6. BatchOK'
    BY <1>1, <1>2, <1>4, <1>5 DEF BatchOK, Idle
  <1>7. ASSUME NEW w \in Worker, NEW r \in Shard PROVE Stays(w, r) \/ Leaves(w, r)
    <2>1. CASE job[w][r].pc \in Past
      <3>1. batch[w][r].pos \in 1..Len(log[r])
        BY <1>1, <1>4, <1>5, <2>1 DEF BatchOK, Idle
      <3> QED
        BY <1>2, <1>4, <3>1 DEF Stays, Current
    <2>2. CASE job[w][r].pc \notin Past
      BY <1>2, <2>2 DEF Leaves
    <2> QED
      BY <2>1, <2>2
  <1> QED
    BY <1>1, <1>2, <1>3, <1>6, <1>7, QuietKeeps DEF IInv

(* A step that leaves the shards, the jobs and the data alone. *)
LEMMA StillKeeps ==
  ASSUME IInv, UNCHANGED <<log, batch, job, row, pub, fails, draws>>, ShardTypeOK(Settlement)'
  PROVE  IInv'
  <1>1. TypeOK /\ BatchOK /\ DataOK
    BY DEF IInv
  <1>2. TypeOK' /\ BatchOK'
    BY <1>1 DEF TypeOK, BatchOK, Idle
  <1>3. \A w \in Worker, s \in Shard : Stays(w, s)
    BY DEF Stays, Current
  <1> QED
    BY <1>1, <1>2, <1>3, QuietKeeps DEF IInv

LEMMA LeaseKeeps ==
  ASSUME IInv, NEW w \in Worker, NEW s \in Shard, Take(w, s) \/ Steal(w, s)
  PROVE  IInv'
  <1>1. /\ UNCHANGED <<log, ckpt, batch, up, crashes, row, job, pub, fails, draws>>
        /\ owner' = [owner EXCEPT ![s] = w] /\ steals' \in Nat
    BY DEF Take, TakeLease, Steal, StealLease, Rest, workerVars, IInv, TypeOK, ShardTypeOK
  <1>2. ShardTypeOK(Settlement)'
    BY <1>1 DEF IInv, TypeOK, ShardTypeOK
  <1> QED
    BY <1>1, <1>2, StillKeeps

LEMMA StopKeeps ==
  ASSUME IInv, NEW w \in Worker, Crash(w) \/ (Halt(w) /\ Rest /\ UNCHANGED job)
  PROVE  IInv'
  <1>1. /\ UNCHANGED <<log, ckpt, owner, batch, steals, row, job, pub, fails, draws>>
        /\ up' = [up EXCEPT ![w] = FALSE] /\ crashes' \in Nat
    BY DEF Crash, CrashWorker, Halt, Rest, shardVars, IInv, TypeOK, ShardTypeOK
  <1>2. ShardTypeOK(Settlement)'
    BY <1>1 DEF IInv, TypeOK, ShardTypeOK
  <1> QED
    BY <1>1, <1>2, StillKeeps

(* A thread that is outside the loop, before and after, gets another batch. *)
LEMMA BatchStepKeeps ==
  ASSUME IInv, NEW w \in Worker, NEW s \in Shard, NEW b \in [pos : Nat, end : Nat], NEW j \in Job,
         batch' = [batch EXCEPT ![w][s] = b], job' = [job EXCEPT ![w][s] = j],
         UNCHANGED <<log, owner, steals, workerVars>>, ckpt' \in [Shard -> Nat], Rest,
         b.pos # 0 => b.pos <= b.end + 1 /\ b.end <= Len(log[s]),
         j.pc \notin Past, j.pc # "skipped"
  PROVE  IInv'
  <1>1. TypeOK /\ BatchOK /\ DataOK
    BY DEF IInv
  <1>2. /\ batch' \in [Worker -> [Shard -> [pos : Nat, end : Nat]]]
        /\ \A v \in Worker, r \in Shard :
             batch'[v][r] = IF v = w /\ r = s THEN b ELSE batch[v][r]
    BY <1>1 DEF TypeOK, ShardTypeOK
  <1>3. /\ job' \in [Worker -> [Shard -> Job]]
        /\ \A v \in Worker, r \in Shard :
             job'[v][r] = IF v = w /\ r = s THEN j ELSE job[v][r]
    BY <1>1 DEF TypeOK
  <1>4. TypeOK'
    BY <1>1, <1>2, <1>3 DEF TypeOK, ShardTypeOK, Rest, workerVars
  <1>5. BatchOK'
    <2> SUFFICES ASSUME NEW v \in Worker, NEW r \in Shard
                 PROVE  /\ ~Idle(v, r)' => /\ batch'[v][r].pos <= batch'[v][r].end + 1
                                           /\ batch'[v][r].end <= Len(log'[r])
                        /\ job'[v][r].pc \in Past =>
                             ~Idle(v, r)' /\ batch'[v][r].pos <= batch'[v][r].end
                        /\ job'[v][r].pc = "skipped" =>
                             ~Idle(v, r)' /\ batch'[v][r].pos = batch'[v][r].end + 1
      BY DEF BatchOK
    <2>1. CASE v = w /\ r = s
      BY <1>2, <1>3, <2>1 DEF Idle
    <2>2. CASE ~(v = w /\ r = s)
      <3>1. batch'[v][r] = batch[v][r] /\ job'[v][r] = job[v][r]
        BY <1>2, <1>3, <2>2
      <3> QED
        BY <1>1, <3>1 DEF BatchOK, Idle
    <2> QED
      BY <2>1, <2>2
  <1>6. \A v \in Worker, r \in Shard : Stays(v, r) \/ Leaves(v, r)
    BY <1>2, <1>3 DEF Stays, Leaves, Current
  <1> QED
    BY <1>1, <1>4, <1>5, <1>6, QuietKeeps DEF IInv, Rest

LEMMA FetchKeeps ==
  ASSUME IInv, NEW w \in Worker, NEW s \in Shard, Fetch(w, s)
  PROVE  IInv'
  <1>1. TypeOK /\ BatchOK
    BY DEF IInv
  <1>2. ckpt[s] \in Nat /\ Len(log[s]) \in Nat /\ ckpt \in [Shard -> Nat]
    BY <1>1 DEF TypeOK, ShardTypeOK
  <1>3. PICK e \in (ckpt[s] + 1)..Len(log[s]) :
          batch' = [batch EXCEPT ![w][s] = [pos |-> ckpt[s] + 1, end |-> e]]
    BY DEF Fetch, FetchBatch
  <1>4. UNCHANGED <<log, ckpt, owner, steals, workerVars>> /\ Rest /\ Idle(w, s)
    BY DEF Fetch, FetchBatch
  <1>5. /\ job[w][s] \in Job /\ job[w][s].pc \notin Past /\ job[w][s].pc # "skipped"
        /\ job' = [job EXCEPT ![w][s] = job[w][s]]
    BY <1>1, <1>4 DEF TypeOK, BatchOK, Fetch
  <1>6. [pos |-> ckpt[s] + 1, end |-> e] \in [pos : Nat, end : Nat]
    BY <1>2
  <1>7. ckpt[s] + 1 <= e + 1 /\ e <= Len(log[s]) /\ ckpt' \in [Shard -> Nat]
    BY <1>2, <1>4
  <1> QED
    BY <1>3, <1>4, <1>5, <1>6, <1>7, BatchStepKeeps

LEMMA CheckpointKeeps ==
  ASSUME IInv, NEW w \in Worker, NEW s \in Shard, Checkpoint(w, s)
  PROVE  IInv'
  <1>1. TypeOK /\ BatchOK
    BY DEF IInv
  <1>2. Finished(w, s) /\ Rest /\ UNCHANGED job /\ job[w][s].pc # "skipped"
    BY DEF Checkpoint, CheckpointBatch
  <1>3. CASE owner[s] # w
    <2>1. Halt(w)
      BY <1>3 DEF Checkpoint, CheckpointBatch
    <2> QED
      BY <1>2, <2>1, StopKeeps
  <1>4. CASE owner[s] = w
    <2>1. /\ ckpt' = [ckpt EXCEPT ![s] = batch[w][s].end]
          /\ batch' = [batch EXCEPT ![w][s] = NoBatch]
          /\ UNCHANGED <<log, owner, steals, workerVars>>
      BY <1>4 DEF Checkpoint, CheckpointBatch
    <2>2. ckpt' \in [Shard -> Nat] /\ NoBatch \in [pos : Nat, end : Nat] /\ NoBatch.pos = 0
      BY <1>1, <2>1 DEF TypeOK, ShardTypeOK, NoBatch
    <2>3. /\ job[w][s] \in Job /\ job[w][s].pc \notin Past
          /\ job' = [job EXCEPT ![w][s] = job[w][s]]
      BY <1>1, <1>2 DEF TypeOK, ShardTypeOK, BatchOK, Finished
    <2> QED
      BY <1>2, <2>1, <2>2, <2>3, BatchStepKeeps
  <1> QED
    BY <1>3, <1>4

LEMMA ReadOnKeeps ==
  ASSUME IInv, NEW w \in Worker, NEW s \in Shard, FetchNext(w, s) \/ LoseLease(w, s)
  PROVE  IInv'
  <1>1. TypeOK /\ BatchOK
    BY DEF IInv
  <1>2. /\ batch[w][s] \in [pos : Nat, end : Nat] /\ Len(log[s]) \in Nat
        /\ batch[w][s].pos \in Nat /\ batch[w][s].end \in Nat
        /\ ckpt \in [Shard -> Nat]
    BY <1>1 DEF TypeOK, ShardTypeOK
  <1>3. /\ UNCHANGED <<log, ckpt, owner, steals, workerVars>> /\ Rest
        /\ job' = [job EXCEPT ![w][s] = NewJob] /\ job[w][s].pc = "skipped"
        /\ ckpt' \in [Shard -> Nat]
    BY <1>2 DEF FetchNext, LoseLease
  <1>4. NewJob \in Job /\ NewJob.pc \notin Past /\ NewJob.pc # "skipped"
    BY NewJobType DEF NewJobFacts
  <1>5. CASE FetchNext(w, s)
    <2>1. PICK e \in (batch[w][s].end + 1)..Len(log[s]) : batch' = [batch EXCEPT ![w][s].end = e]
      BY <1>5 DEF FetchNext
    <2> DEFINE b == [batch[w][s] EXCEPT !.end = e]
    <2>2. /\ batch' = [batch EXCEPT ![w][s] = b]
          /\ b \in [pos : Nat, end : Nat] /\ b.pos = batch[w][s].pos /\ b.end = e
      <3>1. e \in Nat
        BY <1>2, <2>1
      <3>2. b \in [pos : Nat, end : Nat] /\ b.pos = batch[w][s].pos /\ b.end = e
        BY <1>2, <3>1
      <3>3. batch' = [batch EXCEPT ![w][s] = b]
        BY <1>1, <2>1 DEF TypeOK, ShardTypeOK
      <3> QED
        BY <3>2, <3>3
    <2>3. batch[w][s].pos = batch[w][s].end + 1
      BY <1>1, <1>3 DEF BatchOK
    <2>4. b.pos <= b.end + 1 /\ b.end <= Len(log[s])
      BY <1>2, <2>1, <2>2, <2>3
    <2> HIDE DEF b
    <2> QED
      BY <1>3, <1>4, <2>2, <2>4, BatchStepKeeps
  <1>6. CASE LoseLease(w, s)
    <2>1. /\ batch' = [batch EXCEPT ![w][s] = NoBatch]
          /\ NoBatch \in [pos : Nat, end : Nat] /\ NoBatch.pos = 0
      BY <1>6 DEF LoseLease, NoBatch
    <2> QED
      BY <1>3, <1>4, <2>1, BatchStepKeeps
  <1> QED
    BY <1>5, <1>6

LEMMA RestartKeeps ==
  ASSUME IInv, NEW w \in Worker, Restart(w)
  PROVE  IInv'
  <1>1. TypeOK /\ BatchOK /\ DataOK
    BY DEF IInv
  <1>2. /\ up' = [up EXCEPT ![w] = TRUE]
        /\ batch' = [batch EXCEPT ![w] = [s \in Shard |-> NoBatch]]
        /\ owner' = [s \in Shard |-> IF owner[s] = w THEN NoWorker ELSE owner[s]]
        /\ job' = [job EXCEPT ![w] = [s \in Shard |-> NewJob]]
        /\ UNCHANGED <<log, ckpt, steals, crashes, row, pub, fails, draws>>
    BY DEF Restart, RestartWorker, Rest
  <1>3. NewJob \in Job /\ NewJob.pc \notin Past /\ NewJob.pc # "skipped"
    BY NewJobType DEF NewJobFacts
  <1>4. TypeOK'
    <2>1. batch' \in [Worker -> [Shard -> [pos : Nat, end : Nat]]]
      BY <1>1, <1>2 DEF TypeOK, ShardTypeOK, NoBatch
    <2>2. job' \in [Worker -> [Shard -> Job]]
      BY <1>1, <1>2, <1>3 DEF TypeOK
    <2>3. owner' \in [Shard -> Worker \cup {NoWorker}] /\ up' \in [Worker -> BOOLEAN]
      BY <1>1, <1>2 DEF TypeOK, ShardTypeOK
    <2> QED
      BY <1>1, <1>2, <2>1, <2>2, <2>3 DEF TypeOK, ShardTypeOK
  <1>5. \A v \in Worker, r \in Shard :
          /\ batch'[v][r] = IF v = w THEN NoBatch ELSE batch[v][r]
          /\ job'[v][r] = IF v = w THEN NewJob ELSE job[v][r]
    BY <1>1, <1>2 DEF TypeOK, ShardTypeOK
  <1>6. BatchOK'
    BY <1>1, <1>2, <1>3, <1>5 DEF BatchOK, Idle, NoBatch
  <1>7. \A v \in Worker, r \in Shard : Stays(v, r) \/ Leaves(v, r)
    BY <1>2, <1>3, <1>5 DEF Stays, Leaves, Current
  <1> QED
    BY <1>1, <1>2, <1>4, <1>6, <1>7, QuietKeeps DEF IInv
----------------------------------------------------------------------------
(* The steps of a record. *)

LEMMA PersistKeeps ==
  ASSUME IInv, NEW w \in Worker, NEW s \in Shard, Persist(w, s)
  PROVE  IInv'
  <1> DEFINE x == Current(w, s)
  <1>1. TypeOK /\ BatchOK /\ DataOK
    BY DEF IInv
  <1>2. Working(w, s) /\ x \in Settlement /\ UNCHANGED <<pub, draws>>
    BY <1>1, CurrentType DEF Persist, At
  <1>3. CASE row[x] # "NONE" /\ Done(w, s) /\ UNCHANGED <<row, fails>>
    <2>1. ThreadKept(w, s) /\ Leaves(w, s)
      BY <1>1, <1>2, <1>3, DoneKeeps
    <2>2. \A v \in Worker, r \in Shard : Stays(v, r) \/ Leaves(v, r)
      BY <2>1 DEF ThreadKept
    <2>3. DataOK'
      BY <1>1, <1>2, <1>3, <2>2, QuietKeeps
    <2> QED
      BY <1>1, <1>2, <1>3, <2>1, <2>3 DEF IInv, TypeOK, ThreadKept
  <1>4. ASSUME row[x] = "NONE", row' = [row EXCEPT ![x] = "Unmatched"], NEW next \in Job,
               next.pc = "find", Goto(w, s, next), fails' \in Nat,
               fails' = 0 => fails = 0 /\ ~next.lapsed
        PROVE  IInv'
    <2>1. ThreadKept(w, s) /\ job'[w][s] = next /\ Current(w, s)' = x
      BY <1>1, <1>2, <1>4, GotoKeeps
    <2>2. \A v \in Worker, r \in Shard :
             \/ Stays(v, r)
             \/ Leaves(v, r)
             \/ /\ v = w /\ r = s
                /\ job'[w][s].pc = "find" /\ Current(w, s)' = x
                /\ fails' = 0 => ~job'[w][s].lapsed
      BY <1>4, <2>1 DEF ThreadKept
    <2> HIDE DEF x
    <2>3. DataOK'
      BY <1>1, <1>2, <1>4, <2>2, InsertKeeps
    <2>4. TypeOK'
      BY <1>1, <1>2, <1>4, <2>1 DEF TypeOK, Status, ThreadKept
    <2> QED
      BY <2>1, <2>3, <2>4 DEF IInv, ThreadKept
  <1>5. /\ [NewJob EXCEPT !.pc = "find"] \in Job
        /\ [NewJob EXCEPT !.pc = "find"].pc = "find"
        /\ ~[NewJob EXCEPT !.pc = "find"].lapsed
        /\ [NewJob EXCEPT !.pc = "find", !.lapsed = TRUE] \in Job
        /\ [NewJob EXCEPT !.pc = "find", !.lapsed = TRUE].pc = "find"
    BY DEF NewJob, Job, Step
  <1>6. CASE /\ row[x] = "NONE" /\ row' = [row EXCEPT ![x] = "Unmatched"]
             /\ Goto(w, s, [NewJob EXCEPT !.pc = "find"]) /\ UNCHANGED fails
    BY <1>1, <1>4, <1>5, <1>6 DEF TypeOK
  <1>7. CASE /\ row[x] = "NONE" /\ row' = [row EXCEPT ![x] = "Unmatched"]
             /\ Fail /\ Goto(w, s, [NewJob EXCEPT !.pc = "find", !.lapsed = TRUE])
    <2>1. fails' \in Nat /\ fails' # 0
      BY <1>1, <1>7 DEF Fail, TypeOK
    <2> QED
      BY <1>4, <1>5, <1>7, <2>1
  <1> QED
    BY <1>3, <1>6, <1>7 DEF Persist, ArrivalStatus

LEMMA FailPersistKeeps ==
  ASSUME IInv, NEW w \in Worker, NEW s \in Shard, FailPersist(w, s)
  PROVE  IInv'
  <1> DEFINE x == Current(w, s)
  <1>1. TypeOK /\ BatchOK /\ DataOK
    BY DEF IInv
  <1>2. Working(w, s) /\ x \in Settlement /\ SkipBatch(w, s) /\ UNCHANGED <<pub, draws>>
    BY <1>1, CurrentType DEF FailPersist, At
  <1>3. fails' \in Nat /\ fails' # 0
    BY <1>1 DEF FailPersist, Fail, TypeOK
  <1>4. ThreadKept(w, s) /\ Leaves(w, s)
    BY <1>1, <1>2, SkipKeeps
  <1>5. \A v \in Worker, r \in Shard : Stays(v, r) \/ Leaves(v, r)
    BY <1>4 DEF ThreadKept
  <1>6. UNCHANGED row \/ (row[x] = "NONE" /\ row' = [row EXCEPT ![x] = "Unmatched"])
    BY DEF FailPersist, ArrivalStatus
  <1> HIDE DEF x
  <1>7. DataOK'
    <2>1. CASE UNCHANGED row
      BY <1>1, <1>2, <1>3, <1>5, <2>1, QuietKeeps
    <2>2. CASE row[x] = "NONE" /\ row' = [row EXCEPT ![x] = "Unmatched"]
      BY <1>1, <1>2, <1>3, <1>5, <2>2, InsertKeeps
    <2> QED
      BY <1>6, <2>1, <2>2
  <1>8. TypeOK'
    BY <1>1, <1>2, <1>3, <1>4, <1>6 DEF TypeOK, Status, ThreadKept
  <1> QED
    BY <1>4, <1>7, <1>8 DEF IInv, ThreadKept

LEMMA FindPairKeeps ==
  ASSUME IInv, NEW w \in Worker, NEW s \in Shard, FindPair(w, s)
  PROVE  IInv'
  <1> DEFINE x == Current(w, s)
  <1>1. TypeOK /\ BatchOK /\ DataOK
    BY DEF IInv
  <1>2. /\ Working(w, s) /\ x \in Settlement /\ UNCHANGED <<row, pub>>
        /\ job[w][s].pc = "find"
    BY <1>1, CurrentType DEF FindPair, At
  <1>3. fails' \in Nat /\ draws' \in Nat /\ (fails' = 0 => fails = 0)
    <2>1. (UNCHANGED fails \/ Fail) /\ (UNCHANGED draws \/ draws' = draws + 1)
      BY DEF FindPair
    <2>2. fails \in Nat /\ draws \in Nat
      BY <1>1 DEF TypeOK
    <2> QED
      BY <2>1, <2>2 DEF Fail
  <1>4. CASE Done(w, s)
    <2>1. ThreadKept(w, s) /\ Leaves(w, s)
      BY <1>1, <1>2, <1>4, DoneKeeps
    <2>2. \A v \in Worker, r \in Shard : Stays(v, r) \/ Leaves(v, r)
      BY <2>1 DEF ThreadKept
    <2>3. DataOK'
      BY <1>1, <1>2, <1>3, <2>2, QuietKeeps
    <2> QED
      BY <1>1, <1>2, <1>3, <2>1, <2>3 DEF IInv, TypeOK, ThreadKept
  <1>5. ASSUME NEW y \in Pairs(x), UNCHANGED <<fails, draws>>,
               Goto(w, s, [job[w][s] EXCEPT !.pc = "update", !.pair = y])
        PROVE  IInv'
    <2> DEFINE next == [job[w][s] EXCEPT !.pc = "update", !.pair = y]
    <2>1. y \in Settlement
      BY DEF Pairs
    <2>2. next \in Job /\ next.pc # "skipped"
      <3>1. job[w][s] \in Job
        BY <1>1 DEF TypeOK
      <3> QED
        BY <2>1, <3>1 DEF Job, Step
    <2> HIDE DEF next
    <2>3. ThreadKept(w, s) /\ job'[w][s] = next /\ Current(w, s)' = Current(w, s)
      BY <1>1, <1>2, <1>5, <2>2, GotoKeeps DEF next
    <2>4. DataOK'
      BY <1>1, <1>2, <1>5, <2>1, <2>3, FindKeeps DEF ThreadKept, next
    <2> QED
      BY <1>1, <1>2, <1>3, <2>3, <2>4 DEF IInv, TypeOK, ThreadKept
  <1> QED
    BY <1>4, <1>5 DEF FindPair

LEMMA UpdatePairKeeps ==
  ASSUME IInv, NEW w \in Worker, NEW s \in Shard, UpdatePair(w, s)
  PROVE  IInv'
  <1> DEFINE x == Current(w, s)
             y == job[w][s].pair
             next == [job[w][s] EXCEPT !.pc = "push"]
  <1>1. TypeOK /\ BatchOK /\ DataOK
    BY DEF IInv
  <1>2. /\ Working(w, s) /\ job[w][s].pc = "update" /\ UNCHANGED <<pub, draws>>
        /\ Goto(w, s, next)
    BY DEF UpdatePair, At
  <1>3. x \in Settlement /\ y \in Settlement /\ VerdictOf(x, y) \in Verdict
    BY <1>1, <1>2, HeldFacts
  <1>4. next \in Job /\ next.pc # "skipped"
    <2>1. job[w][s] \in Job
      BY <1>1 DEF TypeOK
    <2> QED
      BY <2>1 DEF Job, Step
  <1>5. ThreadKept(w, s) /\ job'[w][s] = next /\ Current(w, s)' = x
    <2> HIDE DEF next
    <2> QED
      BY <1>1, <1>2, <1>4, GotoKeeps
  <1>6. fails' \in Nat
    BY <1>1 DEF UpdatePair, Fail, TypeOK
  <1>7. \/ row' = [row EXCEPT ![x] = VerdictOf(x, y), ![y] = VerdictOf(x, y)] /\ UNCHANGED fails
        \/ UNCHANGED row /\ fails' # 0
    <2>1. CASE job[w][s].lapsed /\ UNCHANGED <<row, fails>>
      BY <1>1, <1>2, <2>1 DEF DataOK, CleanOK, Past
    <2>2. CASE Fail /\ UNCHANGED row
      BY <1>1, <2>2 DEF Fail, TypeOK
    <2> QED
      BY <2>1, <2>2 DEF UpdatePair
  <1>8. DataOK'
    <2> HIDE DEF x, y
    <2>1. \A v \in Worker, r \in Shard : Stays(v, r) \/ (v = w /\ r = s)
      BY <1>5 DEF ThreadKept
    <2> QED
      BY <1>1, <1>2, <1>3, <1>5, <1>7, <2>1, UpdateKeeps DEF x, y
  <1>9. row' \in [Settlement -> Status]
    BY <1>1, <1>3, <1>7 DEF TypeOK, Status, Verdict
  <1> QED
    BY <1>1, <1>2, <1>5, <1>6, <1>8, <1>9 DEF IInv, TypeOK, ThreadKept

LEMMA PushStepKeeps ==
  ASSUME IInv, NEW w \in Worker, NEW s \in Shard, PushPair(w, s) \/ FailPush(w, s)
  PROVE  IInv'
  <1> DEFINE x == Current(w, s)
             y == job[w][s].pair
  <1>1. TypeOK /\ BatchOK /\ DataOK
    BY DEF IInv
  <1>2. Working(w, s) /\ job[w][s].pc = "push" /\ UNCHANGED <<row, draws>>
    BY DEF PushPair, FailPush, At
  <1>3. x \in Settlement /\ y \in Settlement /\ VerdictOf(x, y) \in Verdict
    BY <1>1, <1>2, HeldFacts
  <1>4. ThreadKept(w, s) /\ Leaves(w, s)
    BY <1>1, <1>2, DoneKeeps, SkipKeeps DEF PushPair, FailPush
  <1>5. fails' \in Nat /\ (fails' = 0 => fails = 0)
    BY <1>1 DEF PushPair, FailPush, Fail, TypeOK
  <1>6. PICK S \in SUBSET {x, y} : Publish(S, VerdictOf(x, y))
    BY DEF PushPair, FailPush
  <1>7. DataOK'
    <2>1. \A v \in Worker, r \in Shard : Stays(v, r) \/ (v = w /\ r = s)
      BY <1>4 DEF ThreadKept
    <2> QED
      BY <1>1, <1>2, <1>3, <1>4, <1>5, <1>6, <2>1, PushKeeps
  <1>8. pub' \in [Settlement -> [Verdict -> Nat]]
    BY <1>1, <1>3, <1>6 DEF Publish, TypeOK
  <1> QED
    BY <1>1, <1>2, <1>4, <1>5, <1>7, <1>8 DEF IInv, TypeOK, ThreadKept

LEMMA InvNext == IInv /\ [Next]_vars => IInv'
  <1> SUFFICES ASSUME IInv, [Next]_vars PROVE IInv'
    OBVIOUS
  <1>1. CASE UNCHANGED vars
    <2>1. UNCHANGED <<log, batch, job, row, pub, fails, draws>> /\ ShardTypeOK(Settlement)'
      BY <1>1 DEF vars, shardVars, workerVars, IInv, TypeOK, ShardTypeOK
    <2> QED
      BY <2>1, StillKeeps
  <1>2. ASSUME NEW x \in Settlement, NEW s \in Shard, ReceiveSettlement(x, s) PROVE IInv'
    BY <1>2, ReceiveKeeps
  <1>3. ASSUME NEW w \in Worker, NEW s \in Shard, ProcessRecord(w, s) PROVE IInv'
    BY <1>3, PersistKeeps, FailPersistKeeps, FindPairKeeps, UpdatePairKeeps, PushStepKeeps
      DEF ProcessRecord
  <1>4. ASSUME NEW w \in Worker, NEW s \in Shard,
               \/ Take(w, s) \/ Steal(w, s) \/ Fetch(w, s) \/ Checkpoint(w, s)
               \/ FetchNext(w, s) \/ LoseLease(w, s)
        PROVE  IInv'
    BY <1>4, LeaseKeeps, FetchKeeps, CheckpointKeeps, ReadOnKeeps
  <1>5. ASSUME NEW w \in Worker, Crash(w) \/ Restart(w) PROVE IInv'
    BY <1>5, StopKeeps, RestartKeeps
  <1> QED
    BY <1>1, <1>2, <1>3, <1>4, <1>5 DEF Next

(* The invariant that the properties below follow from holds, whatever     *)
(* threads do for twins at the same time, fails, crashes or comes again.   *)
THEOREM SettlementInvariance == Spec => []IInv
  <1> QED
    BY InvInit, InvNext, PTL DEF Spec

----------------------------------------------------------------------------
(* Every variable keeps its type: in particular a thread never stores a    *)
(* status that the table does not know.                                    *)
THEOREM SettlementTypeCorrect == Spec => []TypeOK
  <1>1. IInv => TypeOK
    BY DEF IInv
  <1> QED
    BY <1>1, SettlementInvariance, PTL

(* Both sides of an allocation are stored with one verdict, or neither has *)
(* one, because updateSettlements writes both in one transaction.          *)
THEOREM SettlementTwinsAgree == Spec => []TwinsAgree
  <1>1. IInv => TwinsAgree
    BY DEF IInv, DataOK, VerdictOK, TwinsAgree
  <1> QED
    BY <1>1, SettlementInvariance, PTL

(* The unique id of persistSettlement lets one thread, once, past the      *)
(* insert: so a settlement is sent twice at most.                          *)
THEOREM SettlementSentTwiceAtMost == Spec => []SentTwiceAtMost
  <1>1. IInv => SentTwiceAtMost
    <2> SUFFICES ASSUME IInv, NEW x \in Settlement PROVE SentCount(x) <= 2
      BY DEF SentTwiceAtMost, SentCount
    <2>1. SentCount(x) \in Nat
      BY DEF IInv, TypeOK, SentCount, Verdict
    <2>2. CASE SentCount(x) = 0
      BY <2>2
    <2>3. CASE SentCount(x) > 0
      <3>1. PICK y \in Settlement : Twin(x, y)
        BY <2>3 DEF IInv, DataOK, CountOK
      <3>2. SentCount(x) <= Over(x) + Over(y) /\ Over(x) \in {0, 1} /\ Over(y) \in {0, 1}
        BY <3>1 DEF IInv, DataOK, CountOK, Over
      <3> QED
        BY <2>1, <3>2
    <2> QED
      BY <2>1, <2>2, <2>3
  <1> QED
    BY <1>1, SettlementInvariance, PTL

(* As long as no call fails, egress hears only of verdicts that are stored *)
(* for both sides: updateSettlements comes before pushSettlementsToEgress. *)
THEOREM SettlementSentIsStored == Spec => []SentIsStored
  <1>1. IInv => SentIsStored
    <2> SUFFICES ASSUME IInv, fails = 0, NEW x \in Settlement, NEW y \in Settlement, NEW v \in Verdict,
                        Twin(x, y), pub[x][v] > 0
                 PROVE  row[x] = v /\ row[y] = v
      BY DEF SentIsStored
    <2>1. row[x] = v
      BY DEF IInv, DataOK, CleanOK
    <2> QED
      BY <2>1 DEF IInv, DataOK, VerdictOK
  <1> QED
    BY <1>1, SettlementInvariance, PTL
----------------------------------------------------------------------------
(* What a thread or the checkpoint has left behind is stored, as long as   *)
(* no call failed: no batch is skipped before.                             *)
Behind(s, i) == i <= ckpt[s] \/ \E w \in Worker : i < batch[w][s].pos

StoredOK ==
  \A s \in Shard :
    /\ ckpt[s] <= Len(log[s])
    /\ fails = 0 => \A i \in 1..Len(log[s]) : Behind(s, i) => row[log[s][i]] # "NONE"

(* A row is never deleted, and a failed call is not forgotten. *)
LEMMA RowsStay ==
  ASSUME IInv, [Next]_vars
  PROVE  /\ fails' = 0 => fails = 0
         /\ \A x \in Settlement : row[x] # "NONE" => row'[x] # "NONE"
  <1>1. fails \in Nat /\ row \in [Settlement -> Status]
    BY DEF IInv, TypeOK
  <1>2. CASE UNCHANGED <<row, fails>>
    BY <1>2
  <1>3. ASSUME NEW w \in Worker, NEW s \in Shard, Persist(w, s) \/ FailPersist(w, s)
        PROVE  /\ fails' = 0 => fails = 0
               /\ \A x \in Settlement : row[x] # "NONE" => row'[x] # "NONE"
    <2>1. UNCHANGED fails \/ Fail
      BY <1>3 DEF Persist, FailPersist
    <2>2. UNCHANGED row \/ row' = [row EXCEPT ![Current(w, s)] = "Unmatched"]
      BY <1>3 DEF Persist, FailPersist, ArrivalStatus
    <2> QED
      BY <1>1, <2>1, <2>2 DEF Fail
  <1>4. ASSUME NEW w \in Worker, NEW s \in Shard, UpdatePair(w, s)
        PROVE  /\ fails' = 0 => fails = 0
               /\ \A x \in Settlement : row[x] # "NONE" => row'[x] # "NONE"
    <2>1. UNCHANGED fails \/ Fail
      BY <1>4 DEF UpdatePair
    <2>2. \A x \in Settlement : row'[x] = row[x] \/ row'[x] = VerdictOf(Current(w, s), job[w][s].pair)
      BY <1>1, <1>4 DEF UpdatePair
    <2> QED
      BY <1>1, <2>1, <2>2 DEF Fail, VerdictOf
  <1>5. ASSUME NEW w \in Worker, NEW s \in Shard, FindPair(w, s) \/ PushPair(w, s) \/ FailPush(w, s)
        PROVE  UNCHANGED row /\ (fails' = 0 => fails = 0)
    <2>1. UNCHANGED row /\ (UNCHANGED fails \/ Fail)
      BY <1>5 DEF FindPair, PushPair, FailPush
    <2> QED
      BY <1>1, <2>1 DEF Fail
  <1>6. ASSUME NEW w \in Worker, NEW s \in Shard,
               \/ Take(w, s) \/ Steal(w, s) \/ Fetch(w, s) \/ Checkpoint(w, s)
               \/ FetchNext(w, s) \/ LoseLease(w, s)
        PROVE  UNCHANGED <<row, fails>>
    BY <1>6 DEF Take, Steal, Fetch, Checkpoint, FetchNext, LoseLease, Rest
  <1>7. ASSUME NEW w \in Worker, Crash(w) \/ Restart(w) PROVE UNCHANGED <<row, fails>>
    BY <1>7 DEF Crash, Restart, Rest
  <1>8. ASSUME NEW x \in Settlement, NEW s \in Shard, ReceiveSettlement(x, s)
        PROVE  UNCHANGED <<row, fails>>
    BY <1>8 DEF ReceiveSettlement
  <1>9. CASE UNCHANGED vars
    BY <1>9 DEF vars
  <1> QED
    BY <1>2, <1>3, <1>4, <1>5, <1>6, <1>7, <1>8, <1>9 DEF Next, ProcessRecord

(* What is behind after a step was behind before it, or is stored by then. *)
LEMMA BehindKeeps ==
  ASSUME IInv, StoredOK, [Next]_vars, UNCHANGED log,
         \A s \in Shard : ckpt'[s] <= Len(log[s]),
         fails' = 0 => \A s \in Shard : \A i \in 1..Len(log[s]) :
                         Behind(s, i)' => Behind(s, i) \/ row'[log[s][i]] # "NONE"
  PROVE  StoredOK'
  <1>1. \A s \in Shard : \A i \in 1..Len(log[s]) : log[s][i] \in Settlement
    BY DEF IInv, TypeOK, ShardTypeOK
  <1> QED
    BY <1>1, RowsStay DEF StoredOK

LEMMA StoredNext == IInv /\ StoredOK /\ [Next]_vars => StoredOK'
  <1> SUFFICES ASSUME IInv, StoredOK, [Next]_vars PROVE StoredOK'
    OBVIOUS
  <1>1. TypeOK /\ BatchOK /\ DataOK
    BY DEF IInv
  <1>2. /\ \A s \in Shard : ckpt[s] \in Nat /\ Len(log[s]) \in Nat
        /\ \A w \in Worker, s \in Shard : batch[w][s].pos \in Nat /\ batch[w][s].end \in Nat
    BY <1>1 DEF TypeOK, ShardTypeOK
  <1>3. CASE UNCHANGED <<log, ckpt, batch>>
    <2>1. \A s \in Shard, i \in Nat : Behind(s, i)' = Behind(s, i)
      BY <1>3 DEF Behind
    <2> QED
      BY <1>2, <1>3, <2>1, BehindKeeps DEF StoredOK
  <1>4. ASSUME NEW w \in Worker, NEW s \in Shard, Working(w, s), NextRecord(w, s),
               row'[Current(w, s)] # "NONE"
        PROVE  StoredOK'
    <2>1. UNCHANGED <<log, ckpt>>
      BY <1>4 DEF NextRecord
    <2>2. ASSUME NEW v \in Worker, NEW r \in Shard
          PROVE  batch'[v][r].pos = IF v = w /\ r = s THEN batch[w][s].pos + 1 ELSE batch[v][r].pos
      BY <1>1, <1>4 DEF NextRecord, TypeOK, ShardTypeOK
    <2>3. ASSUME NEW r \in Shard, NEW i \in 1..Len(log[r]), Behind(r, i)'
          PROVE  Behind(r, i) \/ row'[log[r][i]] # "NONE"
      <3>1. CASE i <= ckpt[r]
        BY <3>1 DEF Behind
      <3>2. ASSUME NEW v \in Worker, i < batch'[v][r].pos
            PROVE  Behind(r, i) \/ (r = s /\ i = batch[w][s].pos)
        BY <1>2, <2>2, <3>2 DEF Behind
      <3> QED
        BY <1>4, <2>1, <2>3, <3>1, <3>2 DEF Behind, Current
    <2> QED
      BY <2>1, <2>3, BehindKeeps DEF StoredOK
  <1>5. ASSUME NEW w \in Worker, NEW s \in Shard, SkipBatch(w, s), Fail PROVE StoredOK'
    <2>1. fails' # 0 /\ UNCHANGED <<log, ckpt>>
      BY <1>1, <1>5 DEF Fail, SkipBatch, TypeOK
    <2> QED
      BY <2>1 DEF StoredOK
  <1>6. ASSUME NEW x \in Settlement, NEW s \in Shard, ReceiveSettlement(x, s) PROVE StoredOK'
    <2>1. UNCHANGED <<ckpt, batch, row, fails>> /\ log' = [log EXCEPT ![s] = Append(@, x)]
      BY <1>6 DEF ReceiveSettlement, Put
    <2>2. ASSUME NEW r \in Shard
          PROVE  /\ Len(log'[r]) \in Nat /\ Len(log[r]) <= Len(log'[r])
                 /\ \A i \in 1..Len(log[r]) : log'[r][i] = log[r][i]
      BY <1>1, <2>1 DEF TypeOK, ShardTypeOK
    <2>3. ASSUME NEW r \in Shard, NEW i \in 1..Len(log'[r]), Behind(r, i)
          PROVE  i \in 1..Len(log[r])
      <3>1. CASE i <= ckpt[r]
        BY <1>2, <2>2, <3>1 DEF StoredOK
      <3>2. ASSUME NEW v \in Worker, i < batch[v][r].pos PROVE i <= Len(log[r])
        BY <1>1, <1>2, <2>2, <3>2 DEF BatchOK, Idle
      <3> QED
        BY <1>2, <2>2, <2>3, <3>1, <3>2 DEF Behind
    <2>4. \A r \in Shard, i \in Nat : Behind(r, i)' = Behind(r, i)
      BY <2>1 DEF Behind
    <2> QED
      <3>1. \A r \in Shard : ckpt[r] <= Len(log'[r])
        BY <1>2, <2>2 DEF StoredOK
      <3>2. ASSUME fails = 0, NEW r \in Shard, NEW i \in 1..Len(log'[r]), Behind(r, i)'
            PROVE  row[log'[r][i]] # "NONE"
        <4>1. i \in Nat
          BY <2>2
        <4>2. Behind(r, i) /\ i \in 1..Len(log[r])
          BY <2>3, <2>4, <3>2, <4>1
        <4> QED
          BY <2>2, <3>2, <4>2 DEF StoredOK
      <3> QED
        BY <2>1, <3>1, <3>2 DEF StoredOK
  <1>7. ASSUME NEW w \in Worker, NEW s \in Shard, Fetch(w, s) PROVE StoredOK'
    <2>1. UNCHANGED <<log, ckpt>>
      BY <1>7 DEF Fetch, FetchBatch
    <2>2. PICK e \in (ckpt[s] + 1)..Len(log[s]) :
            batch' = [batch EXCEPT ![w][s] = [pos |-> ckpt[s] + 1, end |-> e]]
      BY <1>7 DEF Fetch, FetchBatch
    <2>3. ASSUME NEW v \in Worker, NEW r \in Shard
          PROVE  batch'[v][r].pos = IF v = w /\ r = s THEN ckpt[s] + 1 ELSE batch[v][r].pos
      BY <1>1, <2>2 DEF TypeOK, ShardTypeOK
    <2>4. ASSUME NEW r \in Shard, NEW i \in 1..Len(log[r]), Behind(r, i)'
          PROVE  Behind(r, i)
      BY <1>2, <2>1, <2>3, <2>4 DEF Behind
    <2> QED
      BY <2>1, <2>4, BehindKeeps DEF StoredOK
  <1>8. ASSUME NEW w \in Worker, NEW s \in Shard, Checkpoint(w, s) PROVE StoredOK'
    <2>1. CASE Halt(w)
      BY <1>3, <2>1 DEF Halt, shardVars
    <2>2. CASE ~Halt(w)
      <3>1. /\ ckpt' = [ckpt EXCEPT ![s] = batch[w][s].end]
            /\ batch' = [batch EXCEPT ![w][s] = NoBatch]
            /\ UNCHANGED log /\ batch[w][s].pos > batch[w][s].end
        BY <1>8, <2>2 DEF Checkpoint, CheckpointBatch, Finished
      <3>2. batch[w][s].end <= Len(log[s])
        BY <1>1, <1>2, <3>1 DEF BatchOK, Idle
      <3>3. \A r \in Shard : ckpt'[r] = IF r = s THEN batch[w][s].end ELSE ckpt[r]
        BY <1>1, <3>1 DEF TypeOK, ShardTypeOK
      <3>4. \A v \in Worker, r \in Shard :
              batch'[v][r].pos = IF v = w /\ r = s THEN 0 ELSE batch[v][r].pos
        BY <1>1, <3>1 DEF TypeOK, ShardTypeOK, NoBatch
      <3>5. ASSUME NEW r \in Shard, NEW i \in 1..Len(log[r]), Behind(r, i)'
            PROVE  Behind(r, i)
        BY <1>2, <3>1, <3>3, <3>4, <3>5 DEF Behind
      <3>6. \A r \in Shard : ckpt'[r] <= Len(log[r])
        BY <3>2, <3>3 DEF StoredOK
      <3> QED
        BY <3>1, <3>5, <3>6, BehindKeeps
    <2> QED
      BY <2>1, <2>2
  <1>9. ASSUME UNCHANGED <<log, ckpt>>,
               \A v \in Worker, r \in Shard : batch'[v][r].pos = batch[v][r].pos \/ batch'[v][r].pos = 0
        PROVE  StoredOK'
    <2>1. \A r \in Shard : \A i \in 1..Len(log[r]) : Behind(r, i)' => Behind(r, i)
      BY <1>2, <1>9 DEF Behind
    <2> QED
      BY <1>9, <2>1, BehindKeeps DEF StoredOK
  <1>10. ASSUME NEW w \in Worker, NEW s \in Shard, FetchNext(w, s) \/ LoseLease(w, s)
         PROVE  StoredOK'
    <2>1. UNCHANGED <<log, ckpt>>
      BY <1>10 DEF FetchNext, LoseLease
    <2>2. CASE FetchNext(w, s)
      <3>1. PICK e \in (batch[w][s].end + 1)..Len(log[s]) : batch' = [batch EXCEPT ![w][s].end = e]
        BY <2>2 DEF FetchNext
      <3>2. \A v \in Worker, r \in Shard : batch'[v][r].pos = batch[v][r].pos
        BY <1>1, <3>1 DEF TypeOK, ShardTypeOK
      <3> QED
        BY <1>9, <2>1, <3>2
    <2>3. CASE LoseLease(w, s)
      <3>1. \A v \in Worker, r \in Shard :
              batch'[v][r].pos = batch[v][r].pos \/ batch'[v][r].pos = 0
        BY <1>1, <2>3 DEF LoseLease, TypeOK, ShardTypeOK, NoBatch
      <3> QED
        BY <1>9, <2>1, <3>1
    <2> QED
      BY <1>10, <2>2, <2>3
  <1>11. ASSUME NEW w \in Worker, Crash(w) \/ Restart(w) PROVE StoredOK'
    <2>1. CASE Crash(w)
      BY <1>3, <2>1 DEF Crash, CrashWorker, shardVars
    <2>2. CASE Restart(w)
      BY <1>1, <1>9, <2>2 DEF Restart, RestartWorker, TypeOK, ShardTypeOK, NoBatch
    <2> QED
      BY <1>11, <2>1, <2>2
  <1>12. ASSUME NEW w \in Worker, NEW s \in Shard, Take(w, s) \/ Steal(w, s) PROVE StoredOK'
    BY <1>3, <1>12 DEF Take, TakeLease, Steal, StealLease
  <1>13. ASSUME NEW w \in Worker, NEW s \in Shard, ProcessRecord(w, s) PROVE StoredOK'
    <2>1. Working(w, s)
      BY <1>13 DEF ProcessRecord, Persist, FailPersist, FindPair, UpdatePair, PushPair, FailPush, At
    <2>2. CASE \E next : Goto(w, s, next)
      BY <1>3, <2>2 DEF Goto, StayAtRecord, shardVars
    <2>3. CASE SkipBatch(w, s) /\ Fail
      BY <1>5, <2>3
    <2>4. CASE Done(w, s) /\ row'[Current(w, s)] # "NONE"
      BY <1>4, <2>1, <2>4 DEF Done
    <2>5. Current(w, s) \in Settlement
      BY <1>1, <2>1, CurrentType
    <2>6. \/ \E next : Goto(w, s, next)
          \/ SkipBatch(w, s) /\ Fail
          \/ Done(w, s) /\ row[Current(w, s)] # "NONE"
      <3>1. job[w][s].pc \in Past => row[Current(w, s)] # "NONE"
        BY <1>1 DEF DataOK, FoundOK
      <3>2. CASE Persist(w, s)
        BY <3>2 DEF Persist
      <3>3. CASE FailPersist(w, s)
        BY <3>3 DEF FailPersist
      <3>4. CASE FindPair(w, s)
        BY <3>1, <3>4 DEF FindPair, At, Past
      <3>5. CASE UpdatePair(w, s)
        BY <3>5 DEF UpdatePair
      <3>6. CASE PushPair(w, s) \/ FailPush(w, s)
        BY <3>1, <3>6 DEF PushPair, FailPush, At, Past
      <3> QED
        BY <1>13, <3>2, <3>3, <3>4, <3>5, <3>6 DEF ProcessRecord
    <2> QED
      BY <2>2, <2>3, <2>4, <2>5, <2>6, RowsStay
  <1>14. CASE UNCHANGED vars
    BY <1>3, <1>14 DEF vars, shardVars
  <1> QED
    BY <1>6, <1>7, <1>8, <1>10, <1>11, <1>12, <1>13, <1>14 DEF Next

(* The checkpoint passes a settlement that is not stored only when a call  *)
(* failed and processRecords left its batch, never because a worker        *)
(* crashed, a lease moved or a settlement was delivered again.             *)
THEOREM SettlementOnlySkippedIsLost == Spec => []OnlySkippedIsLost
  <1>1. Init => StoredOK
    BY DEF Init, ShardInit, StoredOK, Behind, NoBatch
  <1>2. IInv /\ StoredOK => OnlySkippedIsLost
    <2> SUFFICES ASSUME IInv, StoredOK, fails = 0, NEW s \in Shard, NEW i \in 1..ckpt[s]
                 PROVE  row[log[s][i]] # "NONE"
      BY DEF OnlySkippedIsLost, CheckpointedIsStored
    <2>1. ckpt[s] \in Nat /\ Len(log[s]) \in Nat
      BY DEF IInv, TypeOK, ShardTypeOK
    <2>2. i \in 1..Len(log[s]) /\ Behind(s, i)
      BY <2>1 DEF StoredOK, Behind
    <2> QED
      BY <2>2 DEF StoredOK
  <1> QED
    BY <1>1, <1>2, StoredNext, SettlementInvariance, PTL DEF Spec

----------------------------------------------------------------------------
(* No pair is missed.  While no worker crashes and no lease moves, a thread *)
(* in a batch has its lease, so no JVM halts at a checkpoint.               *)
Steady == crashes = 0 /\ steals = 0

SteadyOK ==
  Steady => /\ \A w \in Worker : up[w]
            /\ \A w \in Worker, s \in Shard : ~Idle(w, s) => owner[s] = w

(* While nothing else fails either, two sides that are both stored wait for *)
(* a thread that has stored one of them and is not done; and when they have *)
(* a verdict, for a thread that is about to push it, or it has been pushed. *)
Pushing(x) == \E w \in Worker, s \in Shard : Claim(w, s, x) /\ job[w][s].pc = "push"

Attended(x, y) ==
  row[x] # "NONE" /\ row[y] # "NONE" =>
    IF row[x] \in Verdict THEN pub[x][row[x]] > 0 \/ Pushing(x) \/ Pushing(y)
    ELSE Claimed(x) \/ Claimed(y)

PairOK == Undisturbed => \A x, y \in Settlement : Twin(x, y) => Attended(x, y)

(* What happened is not forgotten. *)
LEMMA QuietBefore ==
  ASSUME IInv, [Next]_vars
  PROVE  /\ Steady' => Steady
         /\ draws' = 0 => draws = 0
         /\ Undisturbed' => Undisturbed
  <1>1. crashes \in Nat /\ steals \in Nat /\ fails \in Nat /\ draws \in Nat
    BY DEF IInv, TypeOK, ShardTypeOK
  <1>2. Steady' => Steady
    <2>1. CASE UNCHANGED <<crashes, steals>>
      BY <2>1 DEF Steady
    <2>2. UNCHANGED <<crashes, steals>> \/ crashes' = crashes + 1 \/ steals' = steals + 1
      <3>1. ASSUME NEW w \in Worker, NEW s \in Shard, ProcessRecord(w, s)
            PROVE  UNCHANGED <<crashes, steals>>
        BY <3>1 DEF ProcessRecord, Persist, FailPersist, FindPair, UpdatePair, PushPair, FailPush,
             Goto, Done, SkipBatch, StayAtRecord, NextRecord, shardVars, workerVars
      <3>2. ASSUME NEW w \in Worker, NEW s \in Shard,
                   Take(w, s) \/ Fetch(w, s) \/ Checkpoint(w, s) \/ FetchNext(w, s) \/ LoseLease(w, s)
            PROVE  UNCHANGED <<crashes, steals>>
        BY <3>2 DEF Take, Fetch, Checkpoint, FetchNext, LoseLease, TakeLease, FetchBatch,
             CheckpointBatch, Halt, shardVars, workerVars
      <3>3. ASSUME NEW w \in Worker, NEW s \in Shard, Steal(w, s) PROVE steals' = steals + 1
        BY <3>3 DEF Steal, StealLease
      <3>4. ASSUME NEW w \in Worker, Crash(w) PROVE crashes' = crashes + 1
        BY <3>4 DEF Crash, CrashWorker
      <3>5. ASSUME NEW w \in Worker, Restart(w) PROVE UNCHANGED <<crashes, steals>>
        BY <3>5 DEF Restart, RestartWorker
      <3>6. ASSUME NEW x \in Settlement, NEW s \in Shard, ReceiveSettlement(x, s)
            PROVE  UNCHANGED <<crashes, steals>>
        BY <3>6 DEF ReceiveSettlement, Put, workerVars
      <3>7. CASE UNCHANGED vars
        BY <3>7 DEF vars, shardVars, workerVars
      <3> QED
        BY <3>1, <3>2, <3>3, <3>4, <3>5, <3>6, <3>7 DEF Next
    <2> QED
      BY <1>1, <2>1, <2>2 DEF Steady
  <1>3. draws' = 0 => draws = 0
    <2>1. ASSUME NEW w \in Worker, NEW s \in Shard, ProcessRecord(w, s)
          PROVE  UNCHANGED draws \/ draws' = draws + 1
      BY <2>1 DEF ProcessRecord, Persist, FailPersist, FindPair, UpdatePair, PushPair, FailPush
    <2>2. ASSUME NEW w \in Worker, NEW s \in Shard,
                 \/ Take(w, s) \/ Steal(w, s) \/ Fetch(w, s) \/ Checkpoint(w, s)
                 \/ FetchNext(w, s) \/ LoseLease(w, s)
          PROVE  UNCHANGED draws
      BY <2>2 DEF Take, Steal, Fetch, Checkpoint, FetchNext, LoseLease, Rest
    <2>3. ASSUME NEW w \in Worker, Crash(w) \/ Restart(w) PROVE UNCHANGED draws
      BY <2>3 DEF Crash, Restart, Rest
    <2>4. ASSUME NEW x \in Settlement, NEW s \in Shard, ReceiveSettlement(x, s)
          PROVE  UNCHANGED draws
      BY <2>4 DEF ReceiveSettlement
    <2>5. ASSUME UNCHANGED vars PROVE UNCHANGED draws
      BY <2>5 DEF vars
    <2>6. UNCHANGED draws \/ draws' = draws + 1
      BY <2>1, <2>2, <2>3, <2>4, <2>5 DEF Next
    <2> QED
      BY <1>1, <2>6
  <1> QED
    BY <1>2, <1>3, RowsStay DEF Undisturbed, Steady

LEMMA SteadyNext == IInv /\ SteadyOK /\ [Next]_vars => SteadyOK'
  <1> SUFFICES ASSUME IInv, SteadyOK, [Next]_vars, Steady' PROVE SteadyOK'
    BY DEF SteadyOK
  <1>1. /\ \A w \in Worker : up[w]
        /\ \A w \in Worker, s \in Shard : ~Idle(w, s) => owner[s] = w
    BY QuietBefore DEF SteadyOK
  <1>2. TypeOK /\ BatchOK
    BY DEF IInv
  <1>3. /\ owner \in [Shard -> Worker \cup {NoWorker}]
        /\ batch \in [Worker -> [Shard -> [pos : Nat, end : Nat]]]
        /\ crashes \in Nat /\ steals \in Nat
    BY <1>2 DEF TypeOK, ShardTypeOK
  <1>4. ASSUME UNCHANGED <<up, owner>>,
               \A v \in Worker, r \in Shard : Idle(v, r) => Idle(v, r)'
        PROVE  SteadyOK'
    BY <1>1, <1>4 DEF SteadyOK
  <1>5. ASSUME NEW w \in Worker, NEW s \in Shard, ProcessRecord(w, s) PROVE SteadyOK'
    <2>1. Working(w, s)
      BY <1>5 DEF ProcessRecord, Persist, FailPersist, FindPair, UpdatePair, PushPair, FailPush, At
    <2>2. (\E next : Goto(w, s, next)) \/ Done(w, s) \/ SkipBatch(w, s)
      BY <1>5 DEF ProcessRecord, Persist, FailPersist, FindPair, UpdatePair, PushPair, FailPush
    <2>3. UNCHANGED <<up, owner>>
      BY <2>2 DEF Goto, Done, SkipBatch, StayAtRecord, NextRecord, shardVars, workerVars
    <2>4. UNCHANGED batch \/ \E b : batch' = [batch EXCEPT ![w][s] = b]
      <3>1. CASE \E next : Goto(w, s, next)
        BY <3>1 DEF Goto, StayAtRecord, shardVars
      <3>2. CASE Done(w, s)
        BY <3>2 DEF Done, NextRecord
      <3>3. CASE SkipBatch(w, s)
        <4>1. batch' = [batch EXCEPT ![w][s] = [batch[w][s] EXCEPT !.pos = batch[w][s].end + 1]]
          BY <1>3, <3>3 DEF SkipBatch
        <4> QED
          BY <4>1
      <3> QED
        BY <2>2, <3>1, <3>2, <3>3
    <2>5. \A v \in Worker, r \in Shard : batch'[v][r] = batch[v][r] \/ (v = w /\ r = s)
      BY <1>3, <2>4
    <2>6. \A v \in Worker, r \in Shard : Idle(v, r) => Idle(v, r)'
      BY <2>1, <2>5 DEF Working, Idle
    <2> QED
      BY <1>4, <2>3, <2>6
  <1>6. ASSUME NEW w \in Worker, NEW s \in Shard, Take(w, s) PROVE SteadyOK'
    <2>1. UNCHANGED <<up, batch>> /\ owner' = [owner EXCEPT ![s] = w] /\ owner[s] \notin Worker
      BY <1>1, <1>6 DEF Take, TakeLease, workerVars
    <2>2. \A r \in Shard : owner'[r] = IF r = s THEN w ELSE owner[r]
      BY <1>3, <2>1
    <2> QED
      BY <1>1, <2>1, <2>2 DEF SteadyOK, Idle
  <1>7. ASSUME NEW w \in Worker, NEW s \in Shard, Steal(w, s) PROVE SteadyOK'
    BY <1>3, <1>7 DEF Steal, StealLease, Steady
  <1>8. ASSUME NEW w \in Worker, NEW s \in Shard, Fetch(w, s) PROVE SteadyOK'
    <2>1. UNCHANGED <<up, owner>> /\ owner[s] = w
      BY <1>8 DEF Fetch, FetchBatch, workerVars
    <2>2. \A v \in Worker, r \in Shard : batch'[v][r] = batch[v][r] \/ (v = w /\ r = s)
      BY <1>3, <1>8 DEF Fetch, FetchBatch
    <2> QED
      BY <1>1, <2>1, <2>2 DEF SteadyOK, Idle
  <1>9. ASSUME NEW w \in Worker, NEW s \in Shard, Checkpoint(w, s) PROVE SteadyOK'
    <2>1. CheckpointBatch(w, s) /\ batch[w][s].pos > batch[w][s].end
      BY <1>9 DEF Checkpoint, CheckpointBatch, Finished
    <2>2. owner[s] = w
      BY <1>1, <1>3, <2>1 DEF Idle
    <2>3. UNCHANGED <<up, owner>> /\ batch' = [batch EXCEPT ![w][s] = NoBatch]
      BY <2>1, <2>2 DEF CheckpointBatch, workerVars
    <2>4. \A v \in Worker, r \in Shard : Idle(v, r) => Idle(v, r)'
      BY <1>3, <2>3 DEF Idle, NoBatch
    <2> QED
      BY <1>4, <2>3, <2>4
  <1>10. ASSUME NEW w \in Worker, NEW s \in Shard, FetchNext(w, s) \/ LoseLease(w, s)
         PROVE  SteadyOK'
    <2>1. UNCHANGED <<up, owner>>
      BY <1>10 DEF FetchNext, LoseLease, workerVars
    <2>2. CASE FetchNext(w, s)
      <3>1. PICK e : batch' = [batch EXCEPT ![w][s].end = e]
        BY <2>2 DEF FetchNext
      <3>2. \A v \in Worker, r \in Shard : batch'[v][r].pos = batch[v][r].pos
        BY <1>3, <3>1
      <3> QED
        BY <1>4, <2>1, <3>2 DEF Idle
    <2>3. CASE LoseLease(w, s)
      BY <1>3, <1>4, <2>1, <2>3 DEF LoseLease, Idle, NoBatch
    <2> QED
      BY <1>10, <2>2, <2>3
  <1>11. ASSUME NEW w \in Worker, Crash(w) \/ Restart(w) PROVE FALSE
    BY <1>1, <1>3, <1>11 DEF Crash, CrashWorker, Restart, RestartWorker, Steady
  <1>12. ASSUME NEW x \in Settlement, NEW s \in Shard, ReceiveSettlement(x, s) PROVE SteadyOK'
    BY <1>4, <1>12 DEF ReceiveSettlement, Put, Idle, workerVars
  <1>13. CASE UNCHANGED vars
    BY <1>4, <1>13 DEF vars, shardVars, workerVars, Idle
  <1> QED
    BY <1>5, <1>6, <1>7, <1>8, <1>9, <1>10, <1>11, <1>12, <1>13 DEF Next

(* Two sides stay attended when a step does not touch them and their        *)
(* threads stay.                                                            *)
LEMMA AttendedStays ==
  ASSUME NEW x \in Settlement, NEW y \in Settlement, Attended(x, y),
         row'[x] = row[x], row'[y] = row[y], pub'[x] = pub[x],
         \A w \in Worker, s \in Shard :
            job[w][s].pc \in Past /\ Current(w, s) \in {x, y} => Stays(w, s)
  PROVE  Attended(x, y)'
  <1>1. \A z \in {x, y} : (Claimed(z) => Claimed(z)') /\ (Pushing(z) => Pushing(z)')
    <2> SUFFICES ASSUME NEW z \in {x, y}, NEW w \in Worker, NEW s \in Shard, Claim(w, s, z)
                 PROVE  Claim(w, s, z)' /\ job'[w][s] = job[w][s]
      BY DEF Claimed, Pushing
    <2>1. Stays(w, s)
      BY DEF Claim
    <2> QED
      BY <2>1 DEF Claim, Stays
  <1> QED
    BY <1>1 DEF Attended

(* A step outside processRecords leaves the threads alone that have stored  *)
(* a settlement and are not done.                                           *)
LEMMA OutsideStays ==
  ASSUME IInv, NEW v \in Worker, NEW r \in Shard, job[v][r].pc \in Past,
         \/ \E x \in Settlement, s \in Shard : ReceiveSettlement(x, s)
         \/ \E w \in Worker, s \in Shard :
              \/ Take(w, s) \/ Steal(w, s) \/ Fetch(w, s) \/ Checkpoint(w, s)
              \/ FetchNext(w, s) \/ LoseLease(w, s)
         \/ \E w \in Worker : Crash(w)
         \/ UNCHANGED vars
  PROVE  Stays(v, r)
  <1>1. /\ ~Idle(v, r) /\ batch[v][r].pos <= batch[v][r].end
        /\ batch[v][r].end <= Len(log[r]) /\ job[v][r].pc # "skipped"
    BY DEF IInv, BatchOK, Past
  <1>2. /\ log \in [Shard -> Seq(Settlement)]
        /\ batch \in [Worker -> [Shard -> [pos : Nat, end : Nat]]]
        /\ job \in [Worker -> [Shard -> Job]]
    BY DEF IInv, TypeOK, ShardTypeOK
  <1>3. batch[v][r].pos \in 1..Len(log[r])
    BY <1>1, <1>2 DEF Idle
  <1>4. ASSUME UNCHANGED log, job'[v][r] = job[v][r], batch'[v][r] = batch[v][r] PROVE Stays(v, r)
    BY <1>4 DEF Stays, Current
  <1>5. ASSUME NEW x \in Settlement, NEW s \in Shard, ReceiveSettlement(x, s) PROVE Stays(v, r)
    <2>1. UNCHANGED <<batch, job>> /\ log' = [log EXCEPT ![s] = Append(log[s], x)]
      BY <1>5 DEF ReceiveSettlement, Put
    <2>2. \A i \in 1..Len(log[r]) : log'[r][i] = log[r][i]
      BY <1>2, <2>1
    <2> QED
      BY <1>3, <2>1, <2>2 DEF Stays, Current
  <1>6. ASSUME NEW w \in Worker, NEW s \in Shard, Take(w, s) \/ Steal(w, s) PROVE Stays(v, r)
    BY <1>4, <1>6 DEF Take, Steal, TakeLease, StealLease
  <1>7. ASSUME NEW w \in Worker, NEW s \in Shard, Fetch(w, s) PROVE Stays(v, r)
    BY <1>1, <1>2, <1>4, <1>7 DEF Fetch, FetchBatch
  <1>8. ASSUME NEW w \in Worker, NEW s \in Shard, Checkpoint(w, s) PROVE Stays(v, r)
    <2>1. batch[w][s].pos > batch[w][s].end /\ UNCHANGED <<log, job>>
      BY <1>8 DEF Checkpoint, CheckpointBatch, Finished, Halt, shardVars
    <2>2. UNCHANGED batch \/ batch' = [batch EXCEPT ![w][s] = NoBatch]
      BY <1>8 DEF Checkpoint, CheckpointBatch, Halt, shardVars
    <2>3. ~(w = v /\ s = r)
      BY <1>1, <1>2, <2>1
    <2>4. batch'[v][r] = batch[v][r]
      <3>1. CASE batch' = [batch EXCEPT ![w][s] = NoBatch]
        BY <1>2, <2>3, <3>1
      <3> QED
        BY <2>2, <3>1
    <2> QED
      BY <1>4, <2>1, <2>4
  <1>9. ASSUME NEW w \in Worker, NEW s \in Shard, FetchNext(w, s) \/ LoseLease(w, s)
        PROVE  Stays(v, r)
    <2>1. ~(w = v /\ s = r) /\ UNCHANGED log /\ job' = [job EXCEPT ![w][s] = NewJob]
      BY <1>1, <1>9 DEF FetchNext, LoseLease
    <2>2. CASE FetchNext(w, s)
      <3>1. PICK e : batch' = [batch EXCEPT ![w] = [batch[w] EXCEPT ![s] = [batch[w][s] EXCEPT !.end = e]]]
        BY <2>2 DEF FetchNext
      <3>2. batch'[v][r] = batch[v][r] /\ job'[v][r] = job[v][r]
        BY <1>2, <2>1, <3>1
      <3> QED
        BY <1>4, <2>1, <3>2
    <2>3. CASE LoseLease(w, s)
      <3>1. batch' = [batch EXCEPT ![w][s] = NoBatch]
        BY <2>3 DEF LoseLease
      <3>2. batch'[v][r] = batch[v][r] /\ job'[v][r] = job[v][r]
        BY <1>2, <2>1, <3>1
      <3> QED
        BY <1>4, <2>1, <3>2
    <2> QED
      BY <1>9, <2>2, <2>3
  <1>10. ASSUME NEW w \in Worker, Crash(w) PROVE Stays(v, r)
    BY <1>4, <1>10 DEF Crash, CrashWorker, Rest, shardVars
  <1>11. CASE UNCHANGED vars
    BY <1>4, <1>11 DEF vars, shardVars
  <1> QED
    BY <1>5, <1>6, <1>7, <1>8, <1>9, <1>10, <1>11

(* The steps of the loop, of a thread at settlement x: a pair without x     *)
(* does not notice.                                                         *)
LEMMA PersistAttends ==
  ASSUME IInv, NEW w \in Worker, NEW s \in Shard, Persist(w, s), UNCHANGED fails,
         NEW x \in Settlement, x = Current(w, s),
         NEW a \in Settlement, NEW b \in Settlement, Twin(a, b), Attended(a, b)
  PROVE  Attended(a, b)'
  <1>1. TypeOK /\ BatchOK /\ DataOK
    BY DEF IInv
  <1>2. Working(w, s) /\ x \in Settlement /\ job[w][s].pc = "persist" /\ UNCHANGED pub
    BY <1>1, CurrentType DEF Persist, At
  <1>3. "persist" \notin Past
    BY NewJobType
  <1>4. fails \in Nat
    BY <1>1 DEF TypeOK
  <1>5. CASE row[x] # "NONE"
    <2>1. Done(w, s) /\ UNCHANGED row
      BY <1>5 DEF Persist
    <2>2. \A v \in Worker, r \in Shard : job[v][r].pc \in Past => Stays(v, r)
      BY <1>1, <1>2, <1>3, <2>1, DoneKeeps DEF ThreadKept
    <2> QED
      BY <1>2, <2>1, <2>2, AttendedStays
  <1>6. CASE row[x] = "NONE"
    <2> DEFINE next == [NewJob EXCEPT !.pc = "find"]
    <2>1. Goto(w, s, next) /\ row' = [row EXCEPT ![x] = "Unmatched"]
      BY <1>4, <1>6 DEF Persist, Fail, ArrivalStatus
    <2>2. next \in Job /\ next.pc = "find"
      BY DEF NewJob, Job, Step
    <2> HIDE DEF next
    <2>3. ThreadKept(w, s) /\ job'[w][s] = next /\ Current(w, s)' = x
      BY <1>1, <1>2, <2>1, <2>2, GotoKeeps
    <2>4. \A v \in Worker, r \in Shard : job[v][r].pc \in Past => Stays(v, r)
      BY <1>2, <1>3, <2>3 DEF ThreadKept
    <2>5. Claimed(x)'
      BY <2>2, <2>3 DEF Claimed, Claim, Past
    <2>6. \A z \in Settlement : row'[z] = IF z = x THEN "Unmatched" ELSE row[z]
      BY <1>1, <2>1 DEF TypeOK
    <2>7. CASE x \notin {a, b}
      BY <1>2, <2>4, <2>6, <2>7, AttendedStays
    <2>8. CASE x \in {a, b}
      <3>1. row'[a] \notin Verdict
        <4>1. CASE a = x
          BY <2>6, <4>1 DEF Verdict
        <4>2. CASE b = x /\ a # x
          BY <1>1, <1>6, <2>6, <4>2 DEF DataOK, VerdictOK, Verdict
        <4> QED
          BY <2>8, <4>1, <4>2
      <3>2. Claimed(a)' \/ Claimed(b)'
        BY <2>5, <2>8
      <3> QED
        BY <3>1, <3>2 DEF Attended
    <2> QED
      BY <2>7, <2>8
  <1> QED
    BY <1>5, <1>6

(* findSettlementPair misses a pair that is stored only when it is settled: *)
(* then the other thread has pushed it, or is about to.                     *)
LEMMA FindAttends ==
  ASSUME IInv, NEW w \in Worker, NEW s \in Shard, FindPair(w, s), UNCHANGED <<fails, draws>>,
         NEW x \in Settlement, x = Current(w, s),
         NEW a \in Settlement, NEW b \in Settlement, Twin(a, b), Attended(a, b)
  PROVE  Attended(a, b)'
  <1>1. TypeOK /\ BatchOK /\ DataOK
    BY DEF IInv
  <1>2. Working(w, s) /\ x \in Settlement /\ job[w][s].pc = "find" /\ UNCHANGED <<row, pub>>
    BY <1>1, CurrentType DEF FindPair, At
  <1>3. fails \in Nat /\ draws \in Nat
    BY <1>1 DEF TypeOK
  <1>4. \/ Pairs(x) = {} /\ Done(w, s)
        \/ \E y \in Pairs(x) : Goto(w, s, [job[w][s] EXCEPT !.pc = "update", !.pair = y])
    <2>1. ~Fail /\ ~(draws' = draws + 1)
      BY <1>3 DEF Fail
    <2> QED
      BY <2>1 DEF FindPair
  <1>5. CASE \E y \in Pairs(x) : Goto(w, s, [job[w][s] EXCEPT !.pc = "update", !.pair = y])
    <2>1. PICK y \in Pairs(x) : Goto(w, s, [job[w][s] EXCEPT !.pc = "update", !.pair = y])
      BY <1>5
    <2> DEFINE next == [job[w][s] EXCEPT !.pc = "update", !.pair = y]
    <2>2. next \in Job /\ next.pc = "update"
      <3>1. job[w][s] \in Job /\ y \in Settlement
        BY <1>1 DEF TypeOK, Pairs
      <3> QED
        BY <3>1 DEF Job, Step
    <2>3. Goto(w, s, next)
      BY <2>1
    <2> HIDE DEF next
    <2>4. ThreadKept(w, s) /\ job'[w][s] = next /\ Current(w, s)' = x
      BY <1>1, <1>2, <2>2, <2>3, GotoKeeps
    <2>5. \A z \in Settlement : (Claimed(z) => Claimed(z)') /\ (Pushing(z) => Pushing(z)')
      <3> SUFFICES ASSUME NEW z \in Settlement, NEW v \in Worker, NEW r \in Shard, Claim(v, r, z)
                   PROVE  Claim(v, r, z)' /\ (job[v][r].pc = "push" => job'[v][r].pc = "push")
        BY DEF Claimed, Pushing
      <3>1. CASE v = w /\ r = s
        BY <1>2, <2>2, <2>4, <3>1 DEF Claim, Past
      <3>2. CASE ~(v = w /\ r = s)
        BY <2>4, <3>2 DEF ThreadKept, Stays, Claim
      <3> QED
        BY <3>1, <3>2
    <2> QED
      BY <1>2, <2>5 DEF Attended
  <1>6. CASE Pairs(x) = {} /\ Done(w, s)
    <2>1. \A v \in Worker, r \in Shard : Stays(v, r) \/ (v = w /\ r = s)
      BY <1>1, <1>2, <1>6, DoneKeeps DEF ThreadKept
    <2>2. CASE x \notin {a, b}
      BY <1>2, <2>1, <2>2, AttendedStays
    <2>3. CASE x \in {a, b}
      <3>1. PICK y \in {a, b} : Twin(x, y) /\ y # x
        BY <2>3, TwinFacts
      <3>2. row[y] \in {"NONE", "Settled"}
        BY <1>6, <3>1 DEF Pairs
      <3>3. row[a] # "NONE" /\ row[b] # "NONE" => row[a] \in Verdict
        BY <1>1, <2>3, <3>1, <3>2, TwinFacts DEF DataOK, VerdictOK, Verdict
      <3>4. \A z \in {a, b} : Pushing(z) => Pushing(z)'
        <4> SUFFICES ASSUME NEW z \in {a, b}, NEW v \in Worker, NEW r \in Shard, Claim(v, r, z),
                            job[v][r].pc = "push"
                     PROVE  Claim(v, r, z)' /\ job'[v][r].pc = "push"
          BY DEF Pushing
        <4>1. Stays(v, r)
          BY <1>2, <2>1
        <4> QED
          BY <4>1 DEF Claim, Stays
      <3> QED
        BY <1>2, <3>3, <3>4 DEF Attended
    <2> QED
      BY <2>2, <2>3
  <1> QED
    BY <1>4, <1>5, <1>6

(* updateSettlements gives both sides their verdict, and the push is next. *)
LEMMA UpdateAttends ==
  ASSUME IInv, NEW w \in Worker, NEW s \in Shard, UpdatePair(w, s), fails = 0, UNCHANGED fails,
         NEW x \in Settlement, x = Current(w, s), NEW y \in Settlement, y = job[w][s].pair,
         NEW a \in Settlement, NEW b \in Settlement, Twin(a, b), Attended(a, b)
  PROVE  Attended(a, b)'
  <1> DEFINE next == [job[w][s] EXCEPT !.pc = "push"]
  <1>1. TypeOK /\ BatchOK /\ DataOK
    BY DEF IInv
  <1>2. /\ Working(w, s) /\ job[w][s].pc = "update" /\ UNCHANGED pub
        /\ Goto(w, s, next)
    BY DEF UpdatePair, At
  <1>3. x \in Settlement /\ y \in Settlement /\ VerdictOf(x, y) \in Verdict /\ Twin(x, y)
    BY <1>1, <1>2, HeldFacts DEF DataOK, FoundOK, Past
  <1>4. next \in Job /\ next.pc = "push"
    <2>1. job[w][s] \in Job
      BY <1>1 DEF TypeOK
    <2> QED
      BY <2>1 DEF Job, Step
  <1>5. row' = [row EXCEPT ![x] = VerdictOf(x, y), ![y] = VerdictOf(x, y)]
    <2>1. ~job[w][s].lapsed
      BY <1>1, <1>2 DEF DataOK, CleanOK, Past
    <2> QED
      BY <2>1 DEF UpdatePair, Fail
  <1>6. ThreadKept(w, s) /\ job'[w][s] = next /\ Current(w, s)' = x
    <2> HIDE DEF next
    <2> QED
      BY <1>1, <1>2, <1>4, GotoKeeps
  <1> HIDE DEF next
  <1>7. Pushing(x)'
    BY <1>4, <1>6, Zenon DEF Pushing, Claim, Past
  <1>8. \A z \in Settlement : row'[z] = IF z \in {x, y} THEN VerdictOf(x, y) ELSE row[z]
    BY <1>1, <1>3, <1>5 DEF TypeOK
  <1>9. CASE x \in {a, b}
    <2>1. {a, b} = {x, y}
      BY <1>3, <1>9, TwinFacts
    <2> QED
      BY <1>3, <1>7, <1>8, <2>1 DEF Attended
  <1>10. CASE x \notin {a, b}
    <2>1. y \notin {a, b}
      BY <1>3, <1>10, TwinFacts
    <2>2. \A v \in Worker, r \in Shard :
            job[v][r].pc \in Past /\ Current(v, r) \in {a, b} => Stays(v, r)
      BY <1>6, <1>10 DEF ThreadKept
    <2> QED
      BY <1>2, <1>8, <1>10, <2>1, <2>2, AttendedStays
  <1> QED
    BY <1>9, <1>10

(* pushSettlementsToEgress sends both with the verdict that is stored. *)
LEMMA PushAttends ==
  ASSUME IInv, NEW w \in Worker, NEW s \in Shard, PushPair(w, s), fails = 0, UNCHANGED fails,
         NEW x \in Settlement, x = Current(w, s), NEW y \in Settlement, y = job[w][s].pair,
         NEW a \in Settlement, NEW b \in Settlement, Twin(a, b), Attended(a, b)
  PROVE  Attended(a, b)'
  <1> DEFINE d == VerdictOf(x, y)
  <1>1. TypeOK /\ BatchOK /\ DataOK
    BY DEF IInv
  <1>2. Working(w, s) /\ job[w][s].pc = "push" /\ UNCHANGED row /\ Done(w, s)
    BY DEF PushPair, At
  <1>3. x \in Settlement /\ y \in Settlement /\ d \in Verdict /\ Twin(x, y)
    BY <1>1, <1>2, HeldFacts DEF DataOK, FoundOK, Past
  <1>4. Publish({x, y}, d)
    BY DEF PushPair, Fail
  <1>5. row[x] = d /\ row[y] = d
    BY <1>1, <1>2, <1>3 DEF DataOK, CleanOK, VerdictOK, Past
  <1>6. \A v \in Worker, r \in Shard : Stays(v, r) \/ (v = w /\ r = s)
    BY <1>1, <1>2, DoneKeeps DEF ThreadKept
  <1> HIDE DEF d
  <1>7. /\ \A z \in {x, y} : pub'[z][d] = pub[z][d] + 1 /\ pub[z][d] \in Nat
        /\ \A z \in Settlement \ {x, y} : pub'[z] = pub[z]
    BY <1>1, <1>3, <1>4 DEF Publish, TypeOK
  <1>8. CASE x \in {a, b}
    <2>1. {a, b} = {x, y}
      BY <1>3, <1>8, TwinFacts
    <2>2. a \in {x, y} /\ row'[a] = d
      BY <1>2, <1>5, <2>1
    <2>3. pub'[a][d] > 0
      BY <1>7, <2>2
    <2> QED
      BY <1>3, <2>2, <2>3 DEF Attended
  <1>9. CASE x \notin {a, b}
    <2>1. y \notin {a, b}
      BY <1>3, <1>9, TwinFacts
    <2>2. \A v \in Worker, r \in Shard :
            job[v][r].pc \in Past /\ Current(v, r) \in {a, b} => Stays(v, r)
      BY <1>6, <1>9
    <2> QED
      BY <1>2, <1>7, <1>9, <2>1, <2>2, AttendedStays
  <1> QED
    BY <1>8, <1>9

LEMMA PairNext == IInv /\ SteadyOK /\ PairOK /\ [Next]_vars => PairOK'
  <1> SUFFICES ASSUME IInv, SteadyOK, PairOK, [Next]_vars, Undisturbed',
                      NEW a \in Settlement, NEW b \in Settlement, Twin(a, b)
               PROVE  Attended(a, b)'
    BY DEF PairOK
  <1>1. Undisturbed /\ Attended(a, b)
    BY QuietBefore DEF PairOK
  <1>2. /\ fails = 0 /\ UNCHANGED <<fails, draws>> /\ fails' \in Nat
        /\ \A w \in Worker : up[w]
    BY <1>1 DEF Undisturbed, SteadyOK, Steady
  <1>3. ~Fail
    BY <1>2 DEF Fail
  <1>4. ASSUME UNCHANGED <<row, pub>>,
               \/ \E x \in Settlement, s \in Shard : ReceiveSettlement(x, s)
               \/ \E w \in Worker, s \in Shard :
                    \/ Take(w, s) \/ Steal(w, s) \/ Fetch(w, s) \/ Checkpoint(w, s)
                    \/ FetchNext(w, s) \/ LoseLease(w, s)
               \/ \E w \in Worker : Crash(w)
               \/ UNCHANGED vars
        PROVE  Attended(a, b)'
    <2>1. \A v \in Worker, r \in Shard : job[v][r].pc \in Past => Stays(v, r)
      BY <1>4, OutsideStays
    <2> QED
      BY <1>1, <1>4, <2>1, AttendedStays
  <1>5. ASSUME NEW w \in Worker, NEW s \in Shard, ProcessRecord(w, s) PROVE Attended(a, b)'
    <2>1. PICK x \in Settlement : x = Current(w, s)
      <3>1. Working(w, s)
        BY <1>5 DEF ProcessRecord, Persist, FailPersist, FindPair, UpdatePair, PushPair, FailPush, At
      <3> QED
        BY <3>1, CurrentType DEF IInv
    <2>2. CASE Persist(w, s)
      BY <1>1, <1>2, <2>1, <2>2, PersistAttends
    <2>3. CASE FindPair(w, s)
      BY <1>1, <1>2, <2>1, <2>3, FindAttends
    <2>4. CASE UpdatePair(w, s) \/ PushPair(w, s)
      <3>1. PICK y \in Settlement : y = job[w][s].pair
        BY <2>4, HeldFacts DEF IInv, UpdatePair, PushPair, At
      <3> QED
        BY <1>1, <1>2, <2>1, <2>4, <3>1, UpdateAttends, PushAttends
    <2>5. ~FailPersist(w, s) /\ ~FailPush(w, s)
      BY <1>3 DEF FailPersist, FailPush
    <2> QED
      BY <1>5, <2>2, <2>3, <2>4, <2>5 DEF ProcessRecord
  <1>6. ASSUME NEW w \in Worker, Restart(w) PROVE FALSE
    BY <1>2, <1>6 DEF Restart, RestartWorker
  <1>7. ASSUME NEW x \in Settlement, NEW s \in Shard, ReceiveSettlement(x, s)
        PROVE  Attended(a, b)'
    BY <1>4, <1>7 DEF ReceiveSettlement
  <1>8. ASSUME NEW w \in Worker, NEW s \in Shard,
               \/ Take(w, s) \/ Steal(w, s) \/ Fetch(w, s) \/ Checkpoint(w, s)
               \/ FetchNext(w, s) \/ LoseLease(w, s)
        PROVE  Attended(a, b)'
    <2>1. UNCHANGED <<row, pub>>
      BY <1>8 DEF Take, Steal, Fetch, Checkpoint, FetchNext, LoseLease, Rest
    <2> QED
      BY <1>4, <1>8, <2>1
  <1>9. ASSUME NEW w \in Worker, Crash(w) PROVE Attended(a, b)'
    BY <1>4, <1>9 DEF Crash, Rest
  <1>10. CASE UNCHANGED vars
    BY <1>4, <1>10 DEF vars
  <1> QED
    BY <1>5, <1>6, <1>7, <1>8, <1>9, <1>10 DEF Next

(* A settlement that was put on the stream is on a shard. *)
LEMMA CopyIsOnShard ==
  ASSUME NEW x \in Settlement, Copies(x) > 0
  PROVE  \E s \in Shard : \E i \in DOMAIN log[s] : log[s][i] = x
  <1> DEFINE places == UNION {{s} \X DOMAIN log[s] : s \in Shard}
             found == {p \in places : log[p[1]][p[2]] = x}
  <1>1. found # {}
    <2> SUFFICES ASSUME found = {} PROVE FALSE
      OBVIOUS
    <2>1. Copies(x) = 0
      BY FS_EmptySet DEF Copies
    <2> QED
      BY <2>1
  <1>2. PICK p : p \in places /\ log[p[1]][p[2]] = x
    BY <1>1
  <1>3. PICK s \in Shard : p \in {s} \X DOMAIN log[s]
    BY <1>2
  <1>4. p[1] = s /\ p[2] \in DOMAIN log[s]
    BY <1>3
  <1> QED
    BY <1>2, <1>4

(* PairIsSent: when both sides of an allocation were received, nothing      *)
(* failed and the stream is drained, both have the verdict of their terms   *)
(* and were sent: whatever threads the two records came to, one of them     *)
(* found the other in the database.                                         *)
THEOREM SettlementPairIsSent == Spec => []PairIsSent
  <1>1. Init => SteadyOK /\ PairOK
    <2> SUFFICES ASSUME Init PROVE SteadyOK /\ PairOK
      OBVIOUS
    <2>1. SteadyOK
      BY DEF Init, ShardInit, SteadyOK, Idle, NoBatch
    <2>2. PairOK
      BY DEF Init, PairOK, Attended
    <2> QED
      BY <2>1, <2>2
  <1>2. IInv /\ StoredOK /\ SteadyOK /\ PairOK => PairIsSent
    <2> SUFFICES ASSUME IInv, StoredOK, SteadyOK, PairOK, Undisturbed, Drained, Threads = {},
                        NEW x \in Settlement, NEW y \in Settlement, Twin(x, y),
                        Copies(x) > 0, Copies(y) > 0
                 PROVE  row[x] = VerdictOf(x, y) /\ pub[x][row[x]] > 0
      BY DEF PairIsSent
    <2>1. ASSUME NEW z \in Settlement, Copies(z) > 0 PROVE row[z] # "NONE"
      <3>1. PICK s \in Shard : \E i \in DOMAIN log[s] : log[s][i] = z
        BY <2>1, CopyIsOnShard
      <3>2. PICK i \in DOMAIN log[s] : log[s][i] = z
        BY <3>1
      <3>3. DOMAIN log[s] = 1..Len(log[s]) /\ ckpt[s] = Len(log[s])
        BY DEF IInv, TypeOK, ShardTypeOK, Drained
      <3>4. i \in 1..Len(log[s]) /\ Behind(s, i)
        BY <3>2, <3>3 DEF Behind
      <3> QED
        BY <3>2, <3>4 DEF StoredOK, Undisturbed
    <2>2. ~Claimed(x) /\ ~Claimed(y)
      <3> SUFFICES ASSUME NEW w \in Worker, NEW s \in Shard, job[w][s].pc \in Past PROVE FALSE
        BY DEF Claimed, Claim
      <3>1. up[w] /\ ~Idle(w, s)
        BY DEF IInv, BatchOK, SteadyOK, Steady, Undisturbed
      <3>2. <<w, s>> \in Threads
        BY <3>1 DEF Threads
      <3> QED
        BY <3>2
    <2>3. ~Pushing(x) /\ ~Pushing(y)
      BY <2>2 DEF Pushing, Claimed
    <2>4. row[x] # "NONE" /\ row[y] # "NONE"
      BY <2>1
    <2>5. row[x] \in Verdict /\ pub[x][row[x]] > 0
      BY <2>2, <2>3, <2>4 DEF PairOK, Attended
    <2> QED
      BY <2>5 DEF IInv, DataOK, VerdictOK
  <1>3. Init => StoredOK
    BY DEF Init, ShardInit, StoredOK, Behind, NoBatch
  <1> QED
    BY <1>1, <1>2, <1>3, StoredNext, SteadyNext, PairNext, SettlementInvariance, PTL DEF Spec
=============================================================================
