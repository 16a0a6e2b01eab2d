CONSTANTS
    Tabs = {tab1, tab2}
    Reqs = {r1, r2, r3, r4}
    MaxFiles = 2
    None = None
SPECIFICATION Spec
SYMMETRY Symmetry
INVARIANTS
    InSyncWhenUndisturbed
PROPERTIES
    AnsweredTokenIsSpent
CHECK_DEADLOCK FALSE
