---------------------------- MODULE MC_Retention ----------------------------
(* Retention with two instances, two sessions and batches of one. *)
EXTENDS Retention

CONSTANTS s1, s2, a, b
=============================================================================
