SPECIFICATION Spec
CONSTANTS
    Answers = {a1}
    NoAnswers = none
    NumActivities = 3
    Habits = {}
    MaxCalls = 2
INVARIANTS
    TypeOK
    LeftBehindIsSaved
PROPERTIES
    SubmittedIsShown
    CompleteIsAccepted
    PausedWorkIsSaved
CHECK_DEADLOCK FALSE
