SPECIFICATION CmdSpec
CONSTANTS
    ecs = ecs
    ebs = ebs
    Procs = {p1, p2}
    MaxTargets = 2
    Jobs <- MCJobs
    Requests <- PairRequests
    Overlap = 1
    Plugins = {ecs}
    Versions = {1, 2}
    Files = {manifest}
    Required = {manifest}
SYMMETRY Symmetry
INVARIANTS
    OverlapDelivers
PROPERTIES
    SuccessDelivers
CHECK_DEADLOCK FALSE
