SPECIFICATION CliSpec
CONSTANTS
    p1 = p1  p2 = p2
    NULL = NULL
    Process = {p1}
    Invocations <- MakeTargets
    MaxCommands = 2
    MaxCrashes = 0
PROPERTIES MakeDownRollsBackOne
CHECK_DEADLOCK FALSE
