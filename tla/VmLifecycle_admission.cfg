CONSTANTS
    Users = {u1, u2}
    VmIds = {v1, v2}
    Tasks = {t1, t2}
    Main = Main
    None = None
    MaxVms = 1
SPECIFICATION Spec
SYMMETRY Symmetry
INVARIANTS
    CapacityRespected
    DiskIsolation
PROPERTIES
    ImplementsSlots
