SPECIFICATION Spec
CONSTANTS
    Nodes = {1, 2, 3}
    Clients = {1, 2}
    ids = ids  addresses = addresses
    Configs = {ids, addresses}
    Null = Null
    Setups <- MCSetups
    Factor = 2
    MaxPending = 1
    Refused <- MCRefused
    MaxWrites = 2
    MaxBroadcasts = 1
    Broadcasters = {2}
    Closers = {2}
    Restarting = {1}
    MaxRestarts = 1
INVARIANTS TypeOK AcknowledgedIsHandedOn AcknowledgedIsNotUndone TakenOnce
CHECK_DEADLOCK FALSE
