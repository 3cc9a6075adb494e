-------------------------- MODULE StoreAndForward --------------------------
(***************************************************************************)
(* What every stage of the pipeline promises: a message is only passed on, *)
(* and only taken off the queue or stream it came from, once the stage has *)
(* stored it, and what is stored stays so.                                 *)
(***************************************************************************)
CONSTANT Message

VARIABLES
  kept,   \* the messages the stage has stored
  sent,   \* those it has passed on
  taken   \* those its input no longer holds for it

vars == <<kept, sent, taken>>

Init == kept = {} /\ sent = {} /\ taken = {}

Keep(m) == kept' = kept \cup {m} /\ UNCHANGED <<sent, taken>>

(* Several messages at once, as a putRecords or a checkpoint does. *)
Send(S) == S \subseteq kept /\ sent' = sent \cup S /\ UNCHANGED <<kept, taken>>
Take(S) == S \subseteq kept /\ taken' = taken \cup S /\ UNCHANGED <<kept, sent>>

Next ==
  \/ \E m \in Message : Keep(m)
  \/ \E S \in SUBSET Message : Send(S) \/ Take(S)

Spec == Init /\ [][Next]_vars
=============================================================================
