SPECIFICATION FairSpec
CONSTANTS
    Conns = {1, 2}
    Streams <- MCStreams
    MaxLine = 2
    MaxListens = 2
    MaxEngines = 2
    Closers = {1, 2}
INVARIANTS TypeOK FramingIsExact AnsweredWritesAreHandedOver
PROPERTIES CloseSettles IdleConnectionsGo
CHECK_DEADLOCK FALSE
