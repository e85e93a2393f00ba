SPECIFICATION Spec
CONSTANTS
    Threads = {t1}
    Ballots = {1}
    Votes = {1}
    Modes <- MCModes
    ContestCount = 1
    ElectionKey = k
    OtherKeys = {}
    DeviceHash = DeviceHash
    Garbage = Garbage
    Null = Null
    MaxCalls = 3
    MaxPopulate = 1
INVARIANT
    ExpandReproduces
