SPECIFICATION Spec
CONSTANTS
    Procs = {p1, p2}
    Profiles = {"prod"}
    Values = {"v"}
    MaxBackups = 2
SYMMETRY Symmetry
PROPERTIES
    DeletedIsBackedUp
CHECK_DEADLOCK FALSE
