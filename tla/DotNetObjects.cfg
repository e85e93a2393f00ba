SPECIFICATION DotNetSpec
CONSTANTS
  Slots = {"r1", "r2", "r3"}
  Focuses = {"AnnotatedString", "Language", "InternationalizedText", "ContactInformation", "GeopoliticalUnit",
             "BallotStyle", "Party", "Candidate", "SelectionDescription", "ContestDescription",
             "ContestDescriptionWithPlaceholders", "Manifest", "InternalManifest", "ExtendedData",
             "PlaintextBallotSelection", "CiphertextBallotSelection", "PlaintextBallotContest",
             "CiphertextBallotContest", "PlaintextBallot", "CiphertextBallot", "SubmittedBallot",
             "CompactPlaintextBallot", "CompactCiphertextBallot", "ElementModP", "ElementModQ",
             "Constants", "ElGamalKeyPair", "ElGamalCiphertext", "DisjunctiveChaumPedersenProof",
             "ConstantChaumPedersenProof", "ContextConfiguration", "CiphertextElectionContext",
             "EncryptionDevice", "EncryptionMediator", "Encrypt", "LinkedList"}
  MaxWrapped = 3
  Careful = TRUE
INVARIANTS
  NoFault
  BallotsReclaimed
CHECK_DEADLOCK FALSE
