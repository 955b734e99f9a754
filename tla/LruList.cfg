SPECIFICATION Spec
CONSTANTS
    Null = Null
    Keys = {k1, k2, k3, k4, k5}
INVARIANTS TypeOK LinkedInOrder
PROPERTY NamesTheOldest
