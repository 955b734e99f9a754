SPECIFICATION Spec
CONSTANTS
    k1 = k1  k2 = k2  k3 = k3
    small = small  large = large  huge = huge
    Null = Null
    Keys = {k1, k2, k3}
    Values = {small, large, huge}
    EntrySizeBytes <- MCSizes
    MaxEntries = 2
    MaxMemoryBytes = 6
    MaxExamined = 1
    Exs = {Null, 1}
    MsPerSecond = 1
    MonotoneClock = FALSE
    MaxTime = 1
    MaxCount = 2
SYMMETRY KeySymmetry
INVARIANTS TypeOK LruTracksStore MemoryAccounting CapacityRespected NoLateRejection
PROPERTY LruEviction
