----------------------------- MODULE MCGateway -----------------------------
(* Instances of Gateway for TLC. *)
EXTENDS Gateway, TLC

Symmetry == Permutations(Requests) \union Permutations(Containers)
=============================================================================
