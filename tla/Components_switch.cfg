CONSTANTS
    Blank = blank
    Lines = {blank}
    Contents <- MCEmpty
    MaxLines = 1
    Inner = inner
    Deep = deep
    Dirs <- MCDirs
    Uploads = {}
    MaxAsked = 1
    Keys = {k1}
    NoKey = NoKey
    MaxSaves = 0
    MaxOpens = 0
    Brief = brief
    Long = long
    Convs = {a, b}
    NoConv = NoConv
    Requests = {brief, long}
    NoRequest = NoRequest
    Questions <- MCQuestions
    Options = {o1}
    Other = Other
    Files = {}
    NoText = ""
    Text = "text"
    Slash = {}
    Matching <- MCNone
    Known = {b}
    MaxMessages = 2
    MaxAsks = 0
    MaxHistory = 0
    Vms = {}
    MaxIssued = 1
SPECIFICATION Spec
CONSTRAINT Bounded
PROPERTIES
    SwitchRestoresPanel
CHECK_DEADLOCK FALSE
