SPECIFICATION Spec
CONSTANTS
    Plugins = {"ecs", "oos"}
    Order <- MCOrder
    BundleOf <- MCBundleOf
    Tokens <- MCTokens
    Goals <- MCGoals
    Files <- MCFiles
    Envs <- MCEnvs
    MaxTokens = 3
    MaxChanges = 1
INVARIANTS
    OfferedIsKnown
    ExplainIsUsed
    HealthIsTrue
PROPERTY
    RepairsEnd
CHECK_DEADLOCK FALSE
