----------------------------- MODULE MCRotation -----------------------------
(***************************************************************************)
(* An instance of Rotation for TLC (Trade Matching, rotated and recovered   *)
(* from the acceptance page), and one of Draining, which is about two steps *)
(* of it: they share no variable, so that a behaviour is of one of them.  A *)
(* state with a disturbance is checked but not continued (the CONSTRAINT of *)
(* the cfg): what follows claims nothing.                                   *)
(***************************************************************************)
EXTENDS Rotation, Draining, FiniteSets

CONSTANT MaxPlaces \* bound: places that hold messages at once

VARIABLE within \* whether the waits are followed from the inside

MCOffered == UseCases56 \cup UseCases78

MCInit ==
  /\ within \in BOOLEAN
  /\ Init /\ (within => ~unclear)
  /\ DrainInit /\ (~within => application = "trade-matching" /\ half = "leaving")

MCNext ==
  /\ UNCHANGED within
  /\ \/ ~within /\ Next /\ UNCHANGED drainVars
     \/ within /\ DrainNext /\ UNCHANGED vars

MCSpec == MCInit /\ [][MCNext]_<<within, vars, drainVars>>

Bounded == Undisturbed /\ Cardinality(inflight) <= MaxPlaces
=============================================================================
