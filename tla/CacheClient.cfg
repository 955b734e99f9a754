SPECIFICATION FairSpec
CONSTANTS
    MaxCommands = 3
    MaxReconnectAttempts = 2
INVARIANTS TypeOK AnswerIsOwn ExecutedAtMostOnce AnsweredInOrder
PROPERTIES FailureIsOwn CommandsSettle
CHECK_DEADLOCK FALSE
