------------------------------ MODULE MC_Auth -------------------------------
(* Auth on small instances. *)
EXTENDS Auth, TLC

Symmetry == Permutations(Reqs) \cup Permutations(Sids) \cup Permutations(Passwords)
\* Where no user is provisioned the users are interchangeable too.
FullSymmetry == Symmetry \cup Permutations(Users)
=============================================================================
