---------------------------- MODULE MC_HostKeys -----------------------------
(* HostKeys with three host keys of two types. *)
EXTENDS HostKeys, TLC

CONSTANTS ed1, ed2, rsa1
MCTypeOf == [k \in {ed1, ed2, rsa1} |-> IF k = rsa1 THEN "rsa" ELSE "ed25519"]
Symmetry == Permutations(Reqs)
=============================================================================
