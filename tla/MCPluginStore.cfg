SPECIFICATION Spec
CONSTANTS
    Jobs = {j1, j2, j3}
    Plugins = {ecs}
    Versions = {1}
    Files = {manifest, waiters}
    Required = {manifest}
SYMMETRY Symmetry
INVARIANTS
    InstalledIsWhole
    SuccessLeavesNothing
    CleanRoot
PROPERTIES
    NoPluginLost
    ImplementsSlots
CHECK_DEADLOCK FALSE
