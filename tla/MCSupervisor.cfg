SPECIFICATION Spec
CONSTANTS
    Children <- TwoChildren
    ExitCode <- SomeExitCodes
    Signal <- SigIntAndSigTerm
CHECK_DEADLOCK FALSE
INVARIANTS
    KilledWasAsked
    ExitTellsWhy
PROPERTIES
    StopTogether
