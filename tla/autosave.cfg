CONSTANTS
    Invocations = {i1, i2}
    Kinds = {"save"}
    Panes = {p1}
    Sessions = {s1, s2}
    Places = {d1, d2}
    AtStart = {"shell", "agent"}
    Debounce = 1
    Retention = 1
    MaxTime = 0
    MaxChanges = 2
    MaxSaves = 2
    NoFile = NoFile
    None = None
SPECIFICATION Spec
SYMMETRY Symmetry
INVARIANTS
    TypeOK
    SessionsAreSaved
PROPERTIES
    SessionsKeptOrCaptured
    DetectedAsNamed
