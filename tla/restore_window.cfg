CONSTANTS
    Invocations = {i1}
    Kinds = {"save", "event"}
    Configs <- RestoreOn
    Generations = {g1, g2}
    ManualClaims = {}
    NumPanes = 1
    MaxSaves = 2
    NoFile = NoFile
    None = None
SPECIFICATION Spec
SYMMETRY Symmetry
PROPERTIES
    RestoreBeforeAutosave
