--------------------------- MODULE MCEvalRunner ---------------------------
(* A small instance of EvalRunner: two repeats of an item with two turns, three commands *)
(* and two candidates.                                                                   *)
EXTENDS EvalRunner, TLC

MCRepeats == {0, 1}
MCItems == {1}
MCTurns == [i \in MCItems |-> 2]

\* The candidates are alike.
Symmetry == Permutations(Models)
=============================================================================
