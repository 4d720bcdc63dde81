CONSTANTS
    t1 = t1
    t2 = t2
    t3 = t3
    Sessions = {sa, sb}
    Invocations = {i1, i2}
    Names = {n1}
    Sources = {a, b}
    Panes = {p1, p2}
    Tabs = {t1, t2, t3}
    SpaceOf <- TwoSpaces
    MaxUnsynced = 2
    NoFile = NoFile
    None = None
SPECIFICATION Spec
SYMMETRY Symmetry
INVARIANTS
    SpaceTypeOK
    ReportsLast
    StoredAsSeen
PROPERTIES
    ChangedByHolder
