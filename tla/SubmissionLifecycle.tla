------------------------- MODULE SubmissionLifecycle -------------------------
(***************************************************************************)
(* What the assignment API promises of one submission, with no requests,   *)
(* caches or records in sight: it is started once, submitted once with an  *)
(* answer sheet that is final from then on, and scored by the submission   *)
(* or by the teacher.                                                      *)
(***************************************************************************)
EXTENDS Integers

CONSTANT AnswerSheet

VARIABLES status, score, answers

Score == -1..100          \* -1: not scored

Init ==
    /\ status = "not_started"
    /\ score = -1
    /\ answers \in AnswerSheet

Start ==
    /\ status = "not_started"
    /\ status' = "in_progress"
    /\ UNCHANGED <<score, answers>>

Submit ==
    /\ status = "in_progress"
    /\ status' = "completed"
    /\ score' \in Score \ {-1}
    /\ answers' \in AnswerSheet

Grade ==
    /\ score' \in Score \ {-1}
    /\ UNCHANGED <<status, answers>>

Next == Start \/ Submit \/ Grade

Spec == Init /\ [][Next]_<<status, score, answers>>
==============================================================================
