SPECIFICATION Spec
CONSTANTS
    NumPages = 2
    Strokes = {s1, s2}
    MaxHistory = 2
SYMMETRY StrokeSymmetry
INVARIANTS
    TypeOK
    IndexInHistory
    CopiesAgree
    DiskIsBehindByUndo
PROPERTIES
    StrokesAreKept
    StrokeCanBeUndone
