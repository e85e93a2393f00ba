SPECIFICATION Spec
CONSTANTS
    Threads = {t1, t2}
    Ballots = {1}
    Votes = {1}
    Modes <- MCModes
    ContestCount = 2
    ElectionKey = k
    OtherKeys = {k2}
    DeviceHash = DeviceHash
    Garbage = Garbage
    Null = Null
    MaxCalls = 3
    MaxPopulate = 1
SYMMETRY ThreadSymmetry
INVARIANTS
    NonceSeparation
    VerifiedUnderElectionKey
    ChainUnbroken
    DerivedExpansion
