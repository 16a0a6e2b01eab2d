CONSTANTS
    Tasks = {t1, t2}
    Conns = {c1, c2, c3}
    Requests = {r1}
    Uuids = {r1}
    None = None
    MaxTexts = 1
SPECIFICATION FairServerSpec
INVARIANTS
    EventsReachStreams
    NoQueryIsCancelled
    NothingAfterDone
    QuestionReachesRejoined
PROPERTIES
    SessionsAreFreed
    SubmitterHearsDone
    RejoinedHearsDone
