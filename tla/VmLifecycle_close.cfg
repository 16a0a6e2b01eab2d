CONSTANTS
    Users = {u1}
    VmIds = {v1}
    Tasks = {t1}
    Main = Main
    None = None
    MaxVms = 1
SPECIFICATION Spec
PROPERTIES
    CloseSavesRootfs
