CONSTANTS
    Tasks = {t1, t2}
    Convs = {a, b}
    Known = {b}
    Requests = {r1, r2}
    None = None
    MaxTexts = 1
    MaxQueue = 3
    MaxMoves = 3
SPECIFICATION Spec
SYMMETRY Symmetry
CONSTRAINT Bounded
INVARIANTS
    OwnConversation
    StopNamesRunning
    QuestionsSurviveReload
    RunningTaskRecorded
    LockedByStream
PROPERTIES
    ComposerLock
CHECK_DEADLOCK FALSE
