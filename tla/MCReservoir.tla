---------------------------- MODULE MCReservoir -----------------------------
(* Instances of Reservoir for TLC. *)
EXTENDS Reservoir, TLC

CONSTANTS s1, s2

\* The samplers are interchangeable.
Symmetry == Permutations(Samplers)
=============================================================================
