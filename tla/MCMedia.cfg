SPECIFICATION Spec
CONSTANTS
    p1 = p1
    p2 = p2
    r1 = r1
    r2 = r2
    Photo <- MCPhoto
    Request <- MCRequest
    MaxFaults = 2
SYMMETRY Symmetries
CHECK_DEADLOCK FALSE
INVARIANTS
    TypeOK
    FilesMatchRows
PROPERTIES
    SavedPicturesCanBeShown
    AnsweredIdsAreGood
