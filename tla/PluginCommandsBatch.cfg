SPECIFICATION CmdFairSpec
CONSTANTS
    ecs = ecs
    ebs = ebs
    Procs = {p1}
    MaxTargets = 2
    Jobs <- MCJobs
    Requests <- BatchRequests
    Overlap = 0
    Plugins = {ecs, ebs}
    Versions = {1, 2}
    Files = {manifest}
    Required = {manifest}
PROPERTIES
    SuccessDelivers
    FailureHarmless
    CommandsEnd
CHECK_DEADLOCK FALSE
