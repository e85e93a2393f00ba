SPECIFICATION Spec
CONSTANTS
    a = a
    b = b
    x = x
    Candidates <- MCCandidates
    WriteIns <- MCWriteIns
    Strangers <- MCStrangers
    VoteLimit = 4
    MaxMarks = 3
    MaxAllowed = 3
INVARIANTS
    AlwaysSumsToNumberElected
    HonestBallotAccepted
    VoterIntent
    ExtendedDataComplete
