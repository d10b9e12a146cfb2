------------------------- MODULE MCServerRefinement -------------------------
(* Model values for checking that Server implements Responder.              *)
EXTENDS ServerRefinement, TLC

CONSTANTS a1, a2

MCAddr == {a1, a2}

AddrSymmetry == Permutations(MCAddr)
=============================================================================
