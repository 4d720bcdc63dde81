CONSTANTS
    Layouts <- Instances
    BulkPanes = 3
    BulkDepth = 2
    MaxEdits = 2
    NoFile = NoFile
SPECIFICATION Spec
CHECK_DEADLOCK FALSE
INVARIANTS
    TypeOK
    SplitsInPlace
    LayoutReproduced
    EvidenceTellsAll
    NeverTwice
