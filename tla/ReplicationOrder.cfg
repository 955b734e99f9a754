SPECIFICATION Spec
CONSTANTS
    n1 = n1  n2 = n2  n3 = n3  k1 = k1  k2 = k2  small = small  large = large
    Nodes = {n1, n2}
    Keys = {k1, k2}
    Commands = {small}
    Refused <- MCNoneRefused
    ReplicaIndices <- MCTwoReplicas
    Writers <- MCToPrimary
    MaxPending = 4
    MaxWrites = 4
    MaxRestarts <- MCNoRestarts
INVARIANT ReplicasConverge
CHECK_DEADLOCK FALSE
