CONSTANTS
    right = right
    wrong = wrong
    essay = essay
    Answers = {right, essay}
    NoAnswers = NoAnswers
    Mark <- MCMark
    Grades = {50}
    Sent = {right, essay}
    Requests = {r1, r2}
    Endpoints = {"start", "start_multi", "save_progress", "save_activity", "submit", "submit_multi", "grade"}
SPECIFICATION Spec
SYMMETRY Symmetry
INVARIANTS
    TypeOK
    OpenedIsStamped
    ResultIsServed
    CompletedIsAttributed
