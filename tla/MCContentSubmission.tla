-------------------------- MODULE MCContentSubmission --------------------------
(* ContentSubmission with answers worth everything, answers worth nothing  *)
(* and an essay that a teacher has to grade.                               *)
EXTENDS ContentSubmission, TLC

CONSTANTS right, wrong, essay

MCMark == [d \in Answers |-> CASE d = right -> 100 [] d = wrong -> 0 [] d = essay -> NoScore]

Symmetry == Permutations(Requests)
===============================================================================
