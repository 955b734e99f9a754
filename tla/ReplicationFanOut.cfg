SPECIFICATION FairSpec
CONSTANTS
    n1 = n1  n2 = n2  n3 = n3  k1 = k1  k2 = k2  small = small  large = large
    Nodes = {n1, n2, n3}
    Keys = {k1}
    Commands = {large}
    Refused <- MCRefused
    ReplicaIndices <- MCThreeReplicas
    Writers <- MCToPrimary
    MaxPending = 2
    MaxWrites = 3
    MaxRestarts <- MCOneRestart
INVARIANTS TypeOK PendingTracksFanOuts SucceededIsTaken TakenAtMostOnce ConvergesOnOneConnection
PROPERTY FanOutsSettle
CHECK_DEADLOCK FALSE
