SPECIFICATION Spec
CONSTANTS
    Products = {"ecs", "ebs"}
    History <- MCHistory
    MaxVersion <- MCMaxVersion
    Edited = {"tables.json"}
    MaxBreaks = 1
    MaxApis = 4
INVARIANTS
    SettledIsAcyclic
    InterruptionIsSeen
    RequirementCovers
    GraphReviewIsExact
PROPERTIES
    GuidanceResolves
    IdentityKept
CHECK_DEADLOCK FALSE
