CONSTANTS
    p1 = p1
    p2 = p2
    w1 = w1
    w2 = w2
    t1 = t1
    t2 = t2
    Saved <- TwoWorkspaces
    Tabs = {t1, t2}
    SpaceOf <- TabOfEach
    MaxChanges = 2
    None = None
SPECIFICATION Spec
CHECK_DEADLOCK FALSE
INVARIANTS
    RebuildsTheMissing
