SPECIFICATION Spec
CONSTANTS
    Nodes = {0, 1, 2}
    VirtualNodesPerNode = 2
    MaxHash = 2
    MaxFactor = 2
INVARIANTS TypeOK ReplicasAreNearest MinimalRemap
