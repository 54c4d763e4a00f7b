---------------------------- MODULE MCGeneration ----------------------------
(* Two turns, the second superseding the first, and a stop request.        *)
EXTENDS Generation, TLC

CONSTANTS t1, t2, s1

MCTurns == {t1, t2}
MCStops == {s1}
MCRequests == {t1, t2, s1}
Symmetry == Permutations(MCTurns)
=============================================================================
