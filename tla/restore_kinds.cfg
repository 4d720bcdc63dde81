CONSTANTS
    Invocations = {i1, i2}
    Kinds = {"startup", "event", "autosave", "timer", "restore", "save", "rebuild", "acknowledge"}
    Configs <- RestoreOn
    Generations = {g1}
    ManualClaims = {}
    NumPanes = 1
    MaxSaves = 2
    NoFile = NoFile
    None = None
SPECIFICATION FairSpec
INVARIANTS
    TypeOK
    OncePerBoot
PROPERTIES
    SentUnderTheLock
    EvidenceBlocks
    EveryProcessEnds
