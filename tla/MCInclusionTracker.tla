------------------------- MODULE MCInclusionTracker -------------------------
(* Small instances of InclusionTracker. *)
EXTENDS InclusionTracker, TLC

CONSTANTS x1, x2

MCTx2 == {x1, x2}

MCSymmetry == Permutations(MCTx2)
=============================================================================
