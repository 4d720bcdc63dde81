CONSTANTS
    Invocations = {i1}
    Kinds = {"event", "acknowledge"}
    Configs <- RestoreOnOff
    Generations = {g1, g2}
    ManualClaims = {}
    NumPanes = 2
    MaxSaves = 1
    NoFile = NoFile
    None = None
SPECIFICATION Spec
SYMMETRY Symmetry
INVARIANTS
    AtMostOnce
    JournalTruthful
    EvidenceSurvives
    OneUncertainPane
    StopsWhenSwitchedOff
    StopsWithItsServer
PROPERTIES
    OutcomesAreFinal
    ImplementsContract
