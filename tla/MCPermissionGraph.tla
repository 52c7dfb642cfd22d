------------------------- MODULE MCPermissionGraph -------------------------
(* Small organisations: a user, two teams, two or three resources.         *)
EXTENDS PermissionGraph, TLC

MCSymmetry == Permutations(Users) \cup Permutations(Teams) \cup Permutations(Resources)
=============================================================================
