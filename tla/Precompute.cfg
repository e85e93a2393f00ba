SPECIFICATION FairSpec
CONSTANTS
    Threads = {t1, t2, t3}
    Keys = {k1}
    Sizes = {0, 1}
    DEFAULT_PRECOMPUTE_SIZE = 2
    Null = Null
    MaxCalls = 4
    MaxTornReads = 1
INVARIANTS
    TypeOK
    NoReuse
    NothingLost
    OldestFirst
    AtMostOnePairAfterStop
    OvershootBounded
PROPERTIES
    ImplementsPool
    CallsReturn
