SPECIFICATION Spec
CONSTANTS
    Milestones = {10, 80}
    MaxJobs = 2
INVARIANTS
    TypeOK
    CompletedHasFile
    UnfinishedIsInWork
PROPERTIES
    ShownNeverGoesBack
    WatchedReportEnds
CHECK_DEADLOCK FALSE
