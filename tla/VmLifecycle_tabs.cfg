CONSTANTS
    Users = {u1}
    VmIds = {v1, v2}
    Tasks = {t1, t2}
    Main = Main
    None = None
    MaxVms = 2
SPECIFICATION FairSpec
INVARIANTS
    OneVmPerUser
    NoLeakedVm
    OneSaver
    CopyTargetAbsent
    QuietResetErases
PROPERTIES
    ReservationsEnd
    RetiredVmsEnd
