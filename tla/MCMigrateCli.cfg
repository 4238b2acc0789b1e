SPECIFICATION CliSpec
CONSTANTS
    p1 = p1  p2 = p2
    NULL = NULL
    Process = {p1, p2}
    Invocations <- AllInvocations
    MaxCommands = 3
    MaxCrashes = 1
INVARIANTS CliTypeOK VersionTrue DirtyHasCause
PROPERTIES SuccessIsTrue CommandsEnd
CHECK_DEADLOCK FALSE
