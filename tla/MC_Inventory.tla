---------------------------- MODULE MC_Inventory ----------------------------
(* Inventory with one profile, a host of each of two users, and two        *)
(* identities of the first.                                                *)
EXTENDS Inventory, TLC

CONSTANTS alice, bob, h1, h2, i1, i2, p1
MCOwner == [id \in Ids |-> IF id = h2 THEN bob ELSE alice]
Symmetry == Permutations(Reqs) \cup Permutations(Idents)
=============================================================================
