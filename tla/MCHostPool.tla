----------------------------- MODULE MCHostPool -----------------------------
(* Instances of HostPool for TLC. *)
EXTENDS HostPool, TLC

Symmetry == Permutations(Requests) \union Permutations(Containers)
            \union Permutations(Ports) \union Permutations(LeaseIds)
=============================================================================
