-------------------------- MODULE TradeMatchingInv --------------------------
(***************************************************************************)
(* The inductive invariant of TradeMatching, by which TradeMatching_proofs *)
(* proves its safety properties.  What makes them inductive is the state   *)
(* of the threads: what a thread at each step knows of the rows and of the *)
(* published records that other threads keep changing.                     *)
(***************************************************************************)
EXTENDS TradeMatching

VerdictOf(t, u) == IF Terms[t] = Terms[u] THEN "MATCHED" ELSE "MISMATCHED"

InLoop(w, s) == batch[w][s].pos >= 1 /\ batch[w][s].pos <= batch[w][s].end

(* A batch lies within its shard, and a thread outside the loop has no job. *)
BatchOK ==
  \A w \in Worker, s \in Shard :
     /\ batch[w][s].end <= Len(log[s])
     /\ batch[w][s].pos <= batch[w][s].end + 1
     /\ ~InLoop(w, s) => job[w][s] = NewJob

(* A checkpoint lies within its shard; up to it, and up to the record a    *)
(* thread is at, every record is stored.                                   *)
StoredOK ==
  \A s \in Shard :
     /\ ckpt[s] <= Len(log[s])
     /\ \A i \in 1..ckpt[s] : row[log[s][i]] # "NONE"
     /\ \A w \in Worker : \A i \in 1..(batch[w][s].pos - 1) : row[log[s][i]] # "NONE"

(* A counterpart that was found is the other side, stored, with the right  *)
(* verdict; once marked it keeps the verdict, which only this pair can get. *)
KnowsFound(w, s) ==
  LET j == job[w][s]
  IN  /\ j.found = NoTrade =>
           j.pc \in {"check", "match", "mismatch", "persist"} /\ j.verdict = "UNMATCHED"
      /\ j.found # NoTrade =>
           /\ j.pc \in {"mark", "persist", "push"}
           /\ SameBlock(Current(w, s), j.found)
           /\ j.verdict = VerdictOf(Current(w, s), j.found)
           /\ row[j.found] # "NONE"
           /\ j.pc \in {"persist", "push"} => row[j.found] = j.verdict

FoundOK == \A w \in Worker, s \in Shard : InLoop(w, s) => KnowsFound(w, s)

(* A thread that is about to push has stored its trade with the verdict,   *)
(* nobody has pushed this pair before, and nobody else is about to.        *)
Pushing(w, s) == InLoop(w, s) /\ job[w][s].pc = "push"

PushOK ==
  \A w \in Worker, s \in Shard : Pushing(w, s) =>
     /\ row[Current(w, s)] = job[w][s].verdict
     /\ \A v \in Verdict : pub[Current(w, s)][v] = 0 /\ pub[job[w][s].found][v] = 0
     /\ \A x \in Worker, z \in Shard : Pushing(x, z) /\ <<x, z>> # <<w, s>> =>
          Current(x, z) # Current(w, s) /\ Current(x, z) # job[w][s].found

(* A published verdict is the right one, stored on both sides, and alone. *)
PubOK ==
  \A t \in Trade :
     /\ pub[t]["MATCHED"] + pub[t]["MISMATCHED"] <= 1
     /\ \A v \in Verdict : pub[t][v] > 0 =>
          \E u \in Trade : SameBlock(t, u) /\ v = VerdictOf(t, u)
                             /\ row[t] = v /\ row[u] = v

IInv == TypeOK /\ BatchOK /\ StoredOK /\ FoundOK /\ PushOK /\ PubOK

----------------------------------------------------------------------------
(* Why a stored verdict is the right one: rows are of trades that were put *)
(* on the stream, and a thread that writes a verdict into either row of a  *)
(* pair has one side as its record and read the row of the other.          *)
JustOK ==
  \A t \in Trade :
     /\ row[t] # "NONE" => OnStream(t)
     /\ row[t] \in Verdict =>
          \E u \in Trade : SameBlock(t, u) /\ OnStream(u) /\ row[t] = VerdictOf(t, u)

(* Undisturbed, with the single copies said position by position. *)
Calm ==
  /\ crashes = 0 /\ steals = 0 /\ drops = 0
  /\ \A s, z \in Shard : \A i \in 1..Len(log[s]), k \in 1..Len(log[z]) :
        log[s][i] = log[z][k] => s = z /\ i = k

(* No thread has got further with record i of s than looking for its       *)
(* counterpart and marking that.                                           *)
Untouched(s, i) ==
  /\ i > ckpt[s]
  /\ \A w \in Worker :
       \/ batch[w][s].pos < i
       \/ batch[w][s].pos = i /\ job[w][s].pc # "push"

(* The verdicts of the two sides of a block, as VerdictsComeInPairs has them. *)
Paired(t, u) ==
  SameBlock(t, u) /\ row[t] \in Verdict =>
     \/ Pairing(u, t)
     \/ /\ row[u] = row[t]
        /\ Pairing(t, u) \/ (pub[t][row[t]] = 1 /\ pub[u][row[t]] = 1)

(* While it is calm no thread ever halts, a shard is in the hands of the   *)
(* worker that has its lease, and a record that nobody is done with has no *)
(* row: so nobody else gives its counterpart a verdict meanwhile.          *)
AllUp == \A w \in Worker : up[w]

OneHolder ==
  \A w \in Worker, s \in Shard : ~Idle(w, s) => owner[s] = w /\ ckpt[s] < batch[w][s].pos

NoRowYet ==
  \A s \in Shard : \A i \in 1..Len(log[s]) : Untouched(s, i) => row[log[s][i]] = "NONE"

InPairs == \A t, u \in Trade : Paired(t, u)

Orderly == AllUp /\ OneHolder /\ NoRowYet /\ InPairs

CalmOK == Calm => Orderly

FullInv == IInv /\ JustOK /\ CalmOK

----------------------------------------------------------------------------
(* Why a marked counterpart is not settled while no record is put twice and *)
(* no lease moves away from a live worker, whatever crashes: a record is at *)
(* one place, the running thread that has a batch of its shard holds the    *)
(* lease, and until that thread inserts the trade, it has no row.           *)
SinglePlace ==
  \A s, z \in Shard : \A i \in 1..Len(log[s]), k \in 1..Len(log[z]) :
     log[s][i] = log[z][k] => s = z /\ i = k

LiveHolder == \A w \in Worker, s \in Shard : up[w] /\ ~Idle(w, s) => owner[s] = w

(* The thread has found its trade unknown and not stored it yet. *)
Deciding(w, s) == up[w] /\ InLoop(w, s) /\ job[w][s].pc \notin {"check", "push"}

NotStoredYet ==
  \A w \in Worker, s \in Shard : Deciding(w, s) => row[Current(w, s)] = "NONE"

Alone == SinglePlace /\ LiveHolder /\ NotStoredYet
=============================================================================
