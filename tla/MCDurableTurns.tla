--------------------------- MODULE MCDurableTurns ---------------------------
(* Model checking DurableTurns: attempts are interchangeable, so are the    *)
(* provider environments.                                                   *)
EXTENDS DurableTurns, TLC

AttemptSymmetry == Permutations(Attempts)
=============================================================================
