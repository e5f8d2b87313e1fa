SPECIFICATION CmdSpec
CONSTANTS
    ecs = ecs
    ebs = ebs
    Procs = {p1, p2}
    MaxTargets = 2
    Jobs <- MCJobs
    Requests <- UpdateAll
    Overlap = 0
    Plugins = {ecs}
    Versions = {1, 2, 3}
    Files = {manifest}
    Required = {manifest}
PROPERTIES
    UpdateRaises
CHECK_DEADLOCK FALSE
