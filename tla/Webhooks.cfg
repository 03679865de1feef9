SPECIFICATION Spec
CONSTANTS
    Tasks = {t1, t2}
    Workers = {w1, w2}
    MaxEdits = 2
INVARIANTS
    DuplicatesOverlapped
    StaleImportOverlapped
PROPERTIES
    EventEnds
CHECK_DEADLOCK FALSE
