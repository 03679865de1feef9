--------------------------- MODULE MCBookSubmission ---------------------------
(* BookSubmission with two kinds of answers, right ones worth every point  *)
(* and wrong ones worth none.                                              *)
EXTENDS BookSubmission, TLC

CONSTANTS right, wrong

MCAnswers == {right, wrong}
MCMark == [d \in MCAnswers |-> IF d = right THEN MaxPoints ELSE 0]

Symmetry == Permutations(Activities) \cup Permutations(Requests)
===============================================================================
