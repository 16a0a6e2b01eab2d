CONSTANTS
    Tasks = {t1}
    Conns = {c1, c2}
    Requests = {r1}
    Uuids = {r1}
    None = None
    MaxTexts = 0
SPECIFICATION ServerSpec
PROPERTIES
    StopCancels
