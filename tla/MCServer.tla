------------------------------ MODULE MCServer ------------------------------
(* Model values and symmetry for model-checking Server.                     *)
EXTENDS Server, TLC

CONSTANTS a1, a2

MCAddr == {a1, a2}

AddrSymmetry == Permutations(MCAddr)
=============================================================================
