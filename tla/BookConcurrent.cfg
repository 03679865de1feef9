CONSTANTS
    right = right
    wrong = wrong
    Answers <- MCAnswers
    NoAnswers = NoAnswers
    Activities = {a1, a2}
    MaxPoints = 1
    Mark <- MCMark
    Requests = {r1, r2}
    Endpoints = {"start_multi", "save_activity", "submit_multi", "grade", "publish_scheduled"}
SPECIFICATION Spec
SYMMETRY Symmetry
INVARIANTS
    TypeOK
    OpenedIsStamped
    CompletedIsScored
    FinishedIsAnswered
