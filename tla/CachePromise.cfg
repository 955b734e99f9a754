SPECIFICATION FairSpec
CONSTANTS
    k1 = k1  k2 = k2  k3 = k3
    small = small  large = large  huge = huge
    Null = Null
    Keys = {k1, k2, k3}
    Values = {small, large}
    EntrySizeBytes <- MCSizes
    MaxEntries = Null
    MaxMemoryBytes = 5
    MaxExamined = 1
    Exs = {Null, 1}
    MsPerSecond = 1
    MonotoneClock = TRUE
    MaxTime = 2
    MaxCount = 1
PROPERTIES PromisedCache SweeperDrains
