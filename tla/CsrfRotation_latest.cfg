CONSTANTS
    Tabs = {tab1}
    Reqs = {r1, r2, r3}
    MaxFiles = 2
    None = None
SPECIFICATION Spec
PROPERTIES
    NextUsesLatest
CHECK_DEADLOCK FALSE
