SPECIFICATION Spec
CONSTANTS
    P = 11
    Q = 5
    G = 3
    Secrets = {2, 3}
    NonceChoices = {1}
    Headers = {1, 2}
    MaxAdded = 1
    MaxClaim = 2
INVARIANTS
    HonestProofAccepted
    WrongClaimRejected
    BoundToStatement
    VoteHidden
    DecryptsTotal
    ProofsSound
