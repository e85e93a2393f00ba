SPECIFICATION Spec
CONSTANTS
  Slots = {"r1", "r2", "r3"}
  Focuses = {"AnnotatedString", "Language", "InternationalizedText", "ContactInformation", "GeopoliticalUnit",
             "BallotStyle", "Party", "Candidate", "SelectionDescription", "ContestDescription",
             "ContestDescriptionWithPlaceholders", "Manifest", "InternalManifest", "ExtendedData",
             "PlaintextBallotSelection", "CiphertextBallotSelection", "PlaintextBallotContest",
             "CiphertextBallotContest", "PlaintextBallot", "CiphertextBallot", "SubmittedBallot",
             "CompactPlaintextBallot", "CompactCiphertextBallot", "Text", "Bytes", "ElementModP", "ElementModQ",
             "Constants", "ElGamalKeyPair", "ElGamalCiphertext", "DisjunctiveChaumPedersenProof",
             "ConstantChaumPedersenProof", "ContextConfiguration", "CiphertextElectionContext",
             "EncryptionDevice", "EncryptionMediator", "Encrypt", "Hash", "LinkedList"}
  Extra = 3
  ByTheHeader = FALSE
INVARIANTS
  OneOwner
  RefsAlive
  ClassSound
CHECK_DEADLOCK FALSE
