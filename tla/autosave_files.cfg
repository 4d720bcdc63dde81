CONSTANTS
    Invocations = {i1}
    Kinds = {"timer", "save"}
    Panes = {p1}
    Sessions = {s1}
    Places = {d1}
    AtStart = {"shell"}
    Debounce = 1
    Retention = 1
    MaxTime = 1
    MaxChanges = 1
    MaxSaves = 3
    NoFile = NoFile
    None = None
SPECIFICATION Spec
SYMMETRY Symmetry
INVARIANTS
    LastSaveNotAhead
    LatestInHistory
