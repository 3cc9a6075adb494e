------------------------ MODULE TradeMatchingSerial ------------------------
(***************************************************************************)
(* Where TradeMatching implements PairMatching.  The trade that is being   *)
(* matched counts as absent, and the counterpart it found as unmatched,    *)
(* until the pair is pushed: that is the step that Pair is mapped to, and  *)
(* the insert of an unmatched trade is Wait.  It holds for one shard up to *)
(* the first crash or lease that moves; TradeMatching's other runs show    *)
(* what two shards, or a crash between the statements, make of it.         *)
(***************************************************************************)
EXTENDS TradeMatchingInv

(* Some thread has t, or has found t, and is past the step pc before. *)
Handling(t, pcs) ==
  \E w \in Worker, s \in Shard :
     \E pc \in pcs : At(w, s, pc) /\ Current(w, s) = t
FoundBy(t, pcs) ==
  \E w \in Worker, s \in Shard :
     \E pc \in pcs : At(w, s, pc) /\ job[w][s].found = t

statusBar ==
  [t \in Trade |-> IF Handling(t, {"push"}) THEN "NONE"
                   ELSE IF FoundBy(t, {"persist", "push"}) THEN "UNMATCHED"
                   ELSE row[t]]

Abstract == INSTANCE PairMatching WITH status <- statusBar, sent <- pub

(* One shard, as long as no task crashes, no lease moves and no record is  *)
(* dropped: the statements of a record look like one step, so no pair is   *)
(* missed, halved, sent twice or left unsent.                              *)
ImplementsPairMatching ==
  /\ Abstract!Init
  /\ [][crashes' + steals' + drops' = 0 => [Abstract!Next]_Abstract!vars]_vars

----------------------------------------------------------------------------
(* Why: with one shard there is one thread in the loop at a time, the rows *)
(* it has read stay as they were until it writes them, and it is never     *)
(* halted by its own insert.                                               *)
Serial == crashes = 0 /\ steals = 0

HasLease == \A w \in Worker, s \in Shard : ~Idle(w, s) => owner[s] = w

KnowsRows(w, s) ==
  LET c == Current(w, s)
      j == job[w][s]
  IN  /\ j.pc \in {"match", "mismatch", "mark", "persist"} => row[c] = "NONE"
      /\ j.pc = "mismatch" => \A u \in Trade : Agrees(c, u) => ~Unmatched(u)
      /\ j.pc = "mark" => Unmatched(j.found)
      /\ j.pc = "persist" /\ j.found = NoTrade =>
           \A u \in Trade : SameBlock(c, u) => ~Unmatched(u)

SerialOK ==
  Serial => AllUp /\ HasLease /\ \A w \in Worker, s \in Shard : InLoop(w, s) => KnowsRows(w, s)
=============================================================================
