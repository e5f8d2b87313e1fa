SPECIFICATION FairSpec
CONSTANTS
    p1 = p1
    p2 = p2
    Procs = {p1, p2}
    Commands <- MCCommands
    MaxRetries = 2
    MaxPolls = 2
    Payloads <- MCPayloads
    SuccessValues = {"running"}
    FailureValues = {"broken"}
INVARIANTS
    NoStrayResponse
    ExecutedOnce
    SuccessIsTrue
PROPERTIES
    PublishedWhole
    EndsByDeadline
CHECK_DEADLOCK FALSE
