CONSTANTS
    Blank = blank
    Lines = {blank, x, y}
    Contents <- MCContents
    MaxLines = 3
    Inner = inner
    Deep = deep
    Dirs <- MCDirs
    Uploads = {u1, u2}
    MaxAsked = 4
    Keys = {k1, k2}
    NoKey = NoKey
    MaxSaves = 3
    MaxOpens = 2
    Brief = brief
    Long = long
    Convs = {a, b}
    NoConv = NoConv
    Requests = {brief, long}
    NoRequest = NoRequest
    Questions <- MCQuestions
    Options = {o1, o2}
    Other = Other
    Files = {f1, f2}
    NoText = ""
    Text = "text"
    Slash = {"/c"}
    Matching <- MCMatching
    Known = {b}
    MaxMessages = 2
    MaxAsks = 3
    MaxHistory = 1
    Vms = {v1, v2}
    MaxIssued = 3
SPECIFICATION Spec
SYMMETRY Symmetry
CONSTRAINT Bounded
INVARIANTS
    ShowsBoth
    ContextIsLongest
    ListIsCurrent
    SuccessIsSaved
    PanelFits
    OneChoice
    SendsOneAtATime
    FilesSentOnce
    OneEntryPerSession
    DeletedStaysAway
    RefreshReachesAll
PROPERTIES
    FollowUpsContinue
CHECK_DEADLOCK FALSE
