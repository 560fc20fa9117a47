--------------------------- MODULE MC_SessionQuota --------------------------
(* SessionQuota with two users whose ceilings are one session each. *)
EXTENDS SessionQuota

CONSTANTS u1, u2, r1, r2
=============================================================================
