---------------------------- MODULE MCIngestion ----------------------------
(* Instances of Ingestion for TLC: two trades, and a message that does not *)
(* parse.                                                                  *)
EXTENDS Ingestion

CONSTANTS t1, t2, junk
CONSTANTS s1, w1, w2
=============================================================================
