SPECIFICATION FairSpec
CONSTANTS
    k1 = k1  k2 = k2  k3 = k3
    w1 = w1  w2 = w2
    None = None
    Keys <- MCKeys
    Workers <- MCWorkers
INVARIANTS Consistent NoLostChange
PROPERTIES EventuallyRead
