---------------------------- MODULE PairMatching ----------------------------
(***************************************************************************)
(* What trade matching promises, with no threads, shards or statements: a  *)
(* trade that arrives is compared with the waiting trade of the other side *)
(* and, when there is one, both get the verdict and both are sent, in one  *)
(* step; otherwise it waits.                                               *)
(***************************************************************************)
EXTENDS Naturals

CONSTANTS Trade, Sender, Block, Terms

VARIABLES
  status,   \* status[t]: "NONE" before t arrived, "UNMATCHED" while it waits
  sent      \* sent[t][v]: how often t was sent with status v

vars == <<status, sent>>

Counterpart(t, u) == Sender[t] # Sender[u] /\ Block[t] = Block[u]
Waiting(t) == {u \in Trade : Counterpart(t, u) /\ status[u] = "UNMATCHED"}
VerdictOf(t, u) == IF Terms[t] = Terms[u] THEN "MATCHED" ELSE "MISMATCHED"

Init ==
  /\ status = [t \in Trade |-> "NONE"]
  /\ sent = [t \in Trade |->
               [v \in {"NONE", "UNMATCHED", "MATCHED", "MISMATCHED", "SETTLED"} |-> 0]]

Wait(t) ==
  /\ status[t] = "NONE" /\ Waiting(t) = {}
  /\ status' = [status EXCEPT ![t] = "UNMATCHED"]
  /\ UNCHANGED sent

Pair(t) ==
  /\ status[t] = "NONE"
  /\ \E u \in Waiting(t) :
       LET v == VerdictOf(t, u)
       IN  /\ status' = [status EXCEPT ![t] = v, ![u] = v]
           /\ sent' = [sent EXCEPT ![t][v] = @ + 1, ![u][v] = @ + 1]

Next == \E t \in Trade : Wait(t) \/ Pair(t)

Spec == Init /\ [][Next]_vars
=============================================================================
