SPECIFICATION FairSpec
CONSTANTS
    Inputs <- MCInputs
    Publications = {"old", "new"}
INVARIANT
    ReportIsTrue
PROPERTIES
    ProbedOverPassed
    DoctorEnds
CHECK_DEADLOCK FALSE
