SPECIFICATION Spec
CONSTANTS
    github = github
    gitee = gitee
    Procs = {p1, p2}
    Sources = {github, gitee}
    Choices <- MCChoices
    Versions = {1, 2, 3}
    Original = original
SYMMETRY Symmetry
INVARIANTS
    SingleFaultTolerated
    OnlySigned
PROPERTIES
    OutcomeIsTrue
    ImplementsSlots
CHECK_DEADLOCK FALSE
