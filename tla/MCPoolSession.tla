--------------------------- MODULE MCPoolSession ---------------------------
EXTENDS PoolSession, TLC

(* Workers and shares are interchangeable. *)
Symmetry == Permutations(Workers) \cup Permutations(Shares)
=============================================================================
