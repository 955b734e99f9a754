SPECIFICATION Spec
CONSTANTS
    MaxCommands = 2
    MaxReconnectAttempts = 2
INVARIANT ClosedRunsNothing
CHECK_DEADLOCK FALSE
