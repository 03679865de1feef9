SPECIFICATION Spec
CONSTANTS
    Answers = {a1, a2}
    NoAnswers = none
    NumActivities = 2
    Habits = {"revise"}
    MaxCalls = 2
INVARIANTS
    LeftBehindIsSaved
CHECK_DEADLOCK FALSE
