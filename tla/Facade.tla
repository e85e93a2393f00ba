------------------------------ MODULE Facade ------------------------------
(* The C interface as a whole: its functions, table by table, and what the
   headers in include/electionguard say of the handles they give out.        *)
EXTENDS FacadeManifest, FacadeBallot, FacadeElection, TLC

CONSTANTS Slots,    \* bound: the names of the objects a caller has at a time besides its arguments
          Focuses   \* the tables a run looks at, one at a time

ASSUME SlotsAssumption == Library[1] \notin Slots

Tables ==
  [AnnotatedString |-> AnnotatedString, Language |-> Language,
   InternationalizedText |-> InternationalizedText, ContactInformation |-> ContactInformation,
   GeopoliticalUnit |-> GeopoliticalUnit, BallotStyle |-> BallotStyle, Party |-> Party,
   Candidate |-> Candidate, SelectionDescription |-> SelectionDescription,
   ContestDescription |-> NewContestDescription \cup ContestDescription,
   ContestDescriptionWithPlaceholders |->
     NewContestWithPlaceholders \cup NewContestWithTitleAndParties
     \cup ContestDescriptionWithPlaceholders,
   Manifest |-> NewManifest \cup Manifest \cup ManifestRest \cup ManifestData,
   InternalManifest |-> InternalManifest \cup InternalManifestRest,
   ExtendedData |-> ExtendedData, PlaintextBallotSelection |-> PlaintextBallotSelection,
   CiphertextBallotSelection |-> CiphertextBallotSelection,
   PlaintextBallotContest |-> PlaintextBallotContest,
   CiphertextBallotContest |-> CiphertextBallotContest \cup CiphertextBallotContestMade,
   PlaintextBallot |-> PlaintextBallot \cup PlaintextBallotData,
   CiphertextBallot |-> CiphertextBallot \cup CiphertextBallotMade,
   SubmittedBallot |-> SubmittedBallot, CompactPlaintextBallot |-> CompactPlaintextBallot,
   CompactCiphertextBallot |-> CompactCiphertextBallot, Text |-> TextBlock, Bytes |-> ByteBlock,
   ElementModP |-> ElementModP, ElementModQ |-> ElementModQ, Constants |-> Constants \cup ElementMath,
   ElGamalKeyPair |-> ElGamalKeyPair, ElGamalCiphertext |-> ElGamalCiphertext,
   DisjunctiveChaumPedersenProof |-> DisjunctiveProof, ConstantChaumPedersenProof |-> ConstantProof,
   ContextConfiguration |-> ContextConfiguration,
   CiphertextElectionContext |-> CiphertextElectionContext \cup MakeContext \cup ContextData,
   EncryptionDevice |-> EncryptionDevice, EncryptionMediator |-> EncryptionMediator,
   Encrypt |-> EncryptParts \cup EncryptBallot \cup EncryptCompactBallot,
   Hash |-> BallotCode \cup HashElems, LinkedList |-> LinkedList]

\* tables of functions that are not about a handle of one class
Loose == {"Constants", "Encrypt", "Hash"}
\* blocks of memory that no function takes: a view into an element, the strings of a list's node
Blocks == {"Limbs", "NodeText"}
Types == DOMAIN Tables \cup Blocks

\* (@@ <<>> changes nothing: it makes TLC tabulate a function instead of evaluating it each time)
\* the functions of a class, and those that accept its handles: its own, and those of its base
Own == [c \in Types |-> IF c \in Blocks THEN {} ELSE Tables[c]] @@ <<>>
On == [c \in Types |-> {op \in UNION {Own[b] : b \in Bases(c)} : op.self}] @@ <<>>

Makers(c) == {op \in Own[c] : op.kind = "new" /\ op.class = c}

\* the members of an object, and those of them it has whoever made it
Members == [c \in Types |-> {op.role : op \in {f \in On[c] : f.kind = "part"}}] @@ <<>>
Inner == [c \in Types |-> Members[c] \ UNION {Roles(op, {"moved", "copied"}) : op \in Makers(c)}] @@ <<>>

\* the members that are there but have not been handed out when op has made its result
OpenAfter(op) ==
  IF op.kind = "new" THEN Inner[op.class] \cup Roles(op, {"copied"})
  ELSE Members[op.class] \ Roles(op, {"adopted"})

\* what paths are made of: the names of objects that are no arguments, those of arguments, and members
Reserved == Slots \cup {Library[1]}
Names ==
  Reserved \cup Types
  \cup UNION {{op.role} \cup {a.role : a \in op.takes} : op \in UNION {Own[t] : t \in Types}}

(***************************************************************************)
(* The results the headers leave to their caller: "Caller is responsible   *)
(* for lifecycle". Of the others they say "The value is a reference and is *)
(* not owned by the caller". The strings and buffers are the caller's,     *)
(* except where a header says otherwise (References).                      *)
(***************************************************************************)
TextsOwned == [c \in {"AnnotatedString", "Language", "InternationalizedText"} |-> {"new", "crypto_hash"}]
ContactsOwned ==
  [ContactInformation |-> {"new", "new_with_collections", "crypto_hash"},
   GeopoliticalUnit |-> {"new", "new_with_contact_info", "crypto_hash"}]
PartiesOwned ==
  [BallotStyle |-> {"new", "new_with_parties", "crypto_hash"},
   Party |-> {"new", "new_with_extras", "crypto_hash"},
   Candidate |-> {"new", "new_with_party", "new_with_extras", "crypto_hash"}]
ContestsOwned ==
  [SelectionDescription |-> {"new", "crypto_hash"},
   ContestDescription |->
     {"new", "new_with_title", "new_with_parties", "new_with_title_and_parties", "crypto_hash"}]
WithPlaceholdersOwned ==
  [ContestDescriptionWithPlaceholders |->
     {"new", "new_with_title", "new_with_parties", "new_with_title_and_parties"}]
ImportsOwned == {"from_json", "from_bson", "from_msgpack"}
ManifestOwned == [Manifest |-> {"new", "new_with_contact", "crypto_hash"} \cup ImportsOwned]
InternalManifestOwned == [InternalManifest |-> {"new"} \cup ImportsOwned]
PlaintextSelectionOwned ==
  [ExtendedData |-> {"new"}, PlaintextBallotSelection |-> {"new", "new_with_write_in"}]
CiphertextSelectionOwned == [CiphertextBallotSelection |-> {"crypto_hash_with"}]
PlaintextContestOwned == [PlaintextBallotContest |-> {"new"}]
CiphertextContestOwned ==
  [CiphertextBallotContest |-> {"crypto_hash_with", "aggregate_nonce", "elgamal_accumulate"}]
PlaintextBallotOwned == [PlaintextBallot |-> {"new"} \cup ImportsOwned]
CiphertextBallotOwned == [CiphertextBallot |-> {"crypto_hash_with"} \cup ImportsOwned]
SubmittedBallotOwned == [SubmittedBallot |-> {"from"} \cup ImportsOwned]
CompactBallotsOwned ==
  [c \in {"CompactPlaintextBallot", "CompactCiphertextBallot"} |-> {"from_msgpack"}]
GroupOwned ==
  [ElementModP |-> {"new", "new_unchecked"},
   ElementModQ |-> {"new", "new_unchecked", "from_hex", "from_hex_unchecked"},
   Constants |-> {"pow_mod_p", "rand_q_new"}]
ElGamalOwned ==
  [ElGamalKeyPair |-> {"from_secret_new"}, ElGamalCiphertext |-> {"crypto_hash", "encrypt"}]
DisjunctiveOwned == [DisjunctiveChaumPedersenProof |-> {"make", "make_deterministic"}]
ConstantOwned == [ConstantChaumPedersenProof |-> {"make"}]
ContextOwned ==
  [ContextConfiguration |-> {"make"},
   CiphertextElectionContext |->
     {"make", "make_with_configuration", "make_with_extended_data",
      "make_with_configuration_and_extended_data", "make_from_hex",
      "make_from_hex_with_extended_data", "from_json", "from_bson", "get_extended_data"}]
MediatorOwned ==
  [EncryptionDevice |-> {"new", "from_json", "get_hash"},
   EncryptionMediator |-> {"new", "encrypt_ballot", "encrypt_ballot_verify_proofs",
                           "compact_encrypt_ballot", "compact_encrypt_ballot_verify_proofs"}]
EncryptOwned ==
  [Encrypt |-> {"selection", "contest", "ballot", "ballot_with_nonce",
                "compact_ballot", "compact_ballot_with_nonce"}]
HashOwned == [Hash |-> {"get_hash_for_device", "get_ballot_code",
                        "elems_string", "elems_strings", "elems_int"}]
LinkedListOwned == [LinkedList |-> {"new"}]

Owned == TextsOwned @@ ContactsOwned @@ PartiesOwned @@ ContestsOwned @@ WithPlaceholdersOwned
         @@ ManifestOwned @@ InternalManifestOwned @@ PlaintextSelectionOwned @@ CiphertextSelectionOwned
         @@ PlaintextContestOwned @@ CiphertextContestOwned @@ PlaintextBallotOwned
         @@ CiphertextBallotOwned @@ SubmittedBallotOwned @@ CompactBallotsOwned @@ GroupOwned
         @@ ElGamalOwned @@ DisjunctiveOwned @@ ConstantOwned @@ ContextOwned @@ MediatorOwned
         @@ EncryptOwned @@ HashOwned @@ LinkedListOwned

References == {<<"ContactInformation", "get_address_line_at_index">>}

\* does the caller own what function op of table t gives? (op of the base for a derived handle)
GivesAway(t, op) ==
  \/ op.as \in {"Text", "Bytes"} /\ <<t, op.fn>> \notin References
  \/ \E b \in Bases(t) \cap DOMAIN Owned : op.fn \in Owned[b]

\* declared with a class that is not the object's, or reading the handle as one that it is not
Mistyped ==
  {<<"ContactInformation", "get_email_line_at_index">>, <<"ContactInformation", "get_phone_line_at_index">>,
   <<"ContactInformation", "get_name">>, <<"ContactInformation", "crypto_hash">>,
   <<"Candidate", "crypto_hash">>, <<"CiphertextBallotContest", "get_proof">>,
   <<"ContestDescriptionWithPlaceholders", "get_placeholder_at_index">>}

(***************************************************************************)
(* What a call does to the heap.                                           *)
(***************************************************************************)
\* one object for each argument the functions take, and one to start from if nothing makes it
Arguments(t, ops) ==
  UNION {op.takes : op \in ops}
  \cup (IF t \in Loose \/ \E op \in ops : ~op.self THEN {} ELSE {Read(t)})

ArgumentHeap(args) ==
  [x \in {<<a.role>> : a \in args} |->
     LET a == CHOOSE b \in args : b.role = x[1]
     IN  Object(a.class, Alone, x, Members[a.class], {})]

Results == {<<s>> : s \in Slots}

\* the paths of the arguments that op takes in one of these ways
Took(op, hows) == {<<role>> : role \in Roles(op, hows)}

\* op makes the object n
AfterMake(heap, n, op) ==
  LET with == Placed(heap, n, Object(op.class, Alone, n, OpenAfter(op), Took(op, {"kept"})))
  IN  Removed(AdoptedBy(MovedInto(with, n, Roles(op, {"moved"})), n, Roles(op, {"adopted"})),
              UNION {Within(heap, x) : x \in Took(op, {"consumed"})})

\* Mutant: what it took over is not freed when it throws.
AfterThrow_Leaks(heap, op, moved) ==
  Removed(Lost(heap, moved), UNION {Within(heap, x) : x \in Took(op, {"consumed"})})

\* it throws after it has moved from some of its arguments
AfterThrow(heap, op, moved) ==
  Removed(Lost(heap, moved), UNION {Within(heap, x) : x \in Took(op, {"adopted", "consumed"})})

\* it hands out a member of the object at x that nobody has a handle of yet
AfterHandOut(heap, x, op) ==
  Placed([heap EXCEPT ![x].open = @ \ {op.role}], Append(x, op.role),
         Object(op.class, x, heap[x].whole, Members[op.class], {}))

\* it gives a constant of the library
ConstantAt(op) == Append(Library, op.role)
AfterConstant(heap, op) ==
  Placed(heap, ConstantAt(op), Object(op.class, Library, ConstantAt(op), Members[op.class], {}))

(***************************************************************************)
(* What a caller has when a run looks at one table, and what the tables    *)
(* are like, for every class and every function that is called. TLC        *)
(* evaluates it; the proofs take nothing else from the tables.             *)
(***************************************************************************)
\* the arguments of the functions of a class and of its base
ArgumentsOf == [t \in Focuses |-> Arguments(t, Tables[t] \cup On[t])] @@ <<>>

ArgumentClass(f, role) == (CHOOSE a \in ArgumentsOf[f] : a.role = role).class

\* the functions called on handles that are no part of another, and the arguments they refer to
Calls(f) == Tables[f] \cup UNION {On[c] : c \in {t \in Types : f \in Bases(t)}}
Keepable(f) == UNION {Roles(op, {"kept"}) : op \in Calls(f)}

Droppable(c) == \E op \in Own[c] : op.kind = "drop"
HeaderGives(t, op) == <<t, op.fn>> \in References \/ GivesAway(t, op)

\* an object of this class can be the member that the getters of class c hand out for the role
Fits(c, role, class) ==
  \A b \in Bases(c) : \A op \in On[b] : op.kind = "part" /\ op.role = role => op.class \in Bases(class)

ClassesSound ==
  \A c \in Types :
    /\ Bases(c) \subseteq Types /\ Members[c] \subseteq Names
    /\ \A b \in Bases(c) :
         /\ Droppable(b) => Droppable(c)
         /\ \A op \in On[b] : (op.cast # "" /\ <<b, op.fn>> \notin Mistyped) => op.cast \in Bases(c)

ArgumentsSound(f) ==
  \A a, b \in ArgumentsOf[f] :
    /\ a.role \in Names \ Reserved /\ a.class \in Types
    /\ a.role = b.role => a.class \in Bases(b.class)

\* no argument is taken in two ways, and none is taken that a mediator refers to
TakesSound(f, op) ==
  \A a, b \in op.takes :
    /\ a.role \in Names \ Reserved
    /\ a.role = b.role => a.how = b.how
    /\ a.how \in {"moved", "adopted", "consumed"} => a.role \notin Keepable(f)

MakesSound(f, t, op) ==
  /\ op.class \in Types /\ op.as \in Bases(op.class) /\ HeaderGives(t, op)
  /\ OpenAfter(op) \subseteq Names \ Roles(op, {"moved"})
  /\ \A a \in op.takes : a.how \in {"moved", "adopted"} =>
       Fits(op.class, a.role, ArgumentClass(f, a.role)) /\ ~Droppable(ArgumentClass(f, a.role))

HandsOutSound(t, op) ==
  /\ op.class \in Types /\ op.role \in Names /\ ~Droppable(op.class)
  /\ \A c \in Types : t \in Bases(c) => Fits(c, op.role, op.class)
  /\ <<t, op.fn>> \notin Mistyped => op.as \in Bases(op.class) /\ ~HeaderGives(t, op)

ConstantsSound(f, op) ==
  /\ op.class \in Types /\ ~HeaderGives(f, op) /\ op.role \in Names /\ ~Droppable(op.class)
  /\ \A other \in Tables[f] :
       (other.kind = "static" /\ other.role = op.role) => other.as \in Bases(op.class)

ASSUME TablesAssumption ==
  /\ ClassesSound
  /\ Focuses \subseteq DOMAIN Tables
  /\ \A t \in Types : \A op \in On[t] : op.kind = "part" => HandsOutSound(t, op)
  /\ \A f \in Focuses :
       /\ ArgumentsSound(f)
       /\ \A op \in Calls(f) : TakesSound(f, op)
       /\ \A op \in Tables[f] :
            ~op.self => IF op.kind = "static" THEN ConstantsSound(f, op) ELSE MakesSound(f, f, op)
       /\ \A t \in Types : \A op \in On[t] :
            (f \in Bases(t) /\ op.kind = "made" /\ <<t, op.fn>> \notin Mistyped) => MakesSound(f, t, op)

=============================================================================
