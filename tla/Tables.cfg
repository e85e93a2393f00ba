SPECIFICATION FairSpec
CONSTANTS
    P = 23
    MontgomeryR = 32
    OrderBits = 4
    TableLength = 3
    Threads = {t1, t2, t3}
    Bases = {2, 5}
    Torn = Torn
    Null = Null
    Count = 1
    First = t1
    MaxCalls = 1
INVARIANTS
    PowerIsExact
    BuiltOnce
PROPERTY CallsReturn
