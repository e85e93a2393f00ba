-------------------------- MODULE FacadeElection --------------------------
(* What the functions of the facades group, elgamal, chaum_pedersen, election,
   encrypt, ballot_code, hash and collections do to the objects behind their
   handles.                                                                  *)
EXTENDS NativeHeap

ElementModP ==
  {Made(fn, "ElementModP", {}) : fn \in {"new", "new_unchecked"}}
  \cup {Frees("free"), Part("get_data", "data", "Limbs")} \cup Texts({"to_hex"})

ElementModQ ==
  {Made(fn, "ElementModQ", {}) : fn \in {"new", "new_unchecked", "from_hex", "from_hex_unchecked"}}
  \cup {Frees("free"), Part("get_data", "data", "Limbs")} \cup Texts({"to_hex"})

\* references to G(), P(), ...
Constants ==
  {Static(fn, "ElementModP") : fn \in {"g", "p", "r", "zero_mod_p", "one_mod_p", "two_mod_p"}}
  \cup {Static(fn, "ElementModQ") : fn \in {"q", "zero_mod_q", "one_mod_q", "two_mod_q"}}

ElementMath ==
  {Made("pow_mod_p", "ElementModP", {Read("ElementModP"), Read("ElementModQ")}),
   Made("rand_q_new", "ElementModQ", {}), Unbound(Fresh("to_json", "Text", {}))}

ElGamalKeyPair ==
  {Made("from_secret_new", "ElGamalKeyPair", {Read("ElementModQ")}), Frees("free"),
   Part("get_secret_key", "secret_key", "ElementModQ"),
   Part("get_public_key", "public_key", "ElementModP")}

ElGamalCiphertext ==
  {Frees("free"), Part("get_pad", "pad", "ElementModP"), Part("get_data", "data", "ElementModP"),
   Fresh("crypto_hash", "ElementModQ", {}),
   Function("decrypt_with_secret", "value", "", {Read("ElementModQ")}),
   Made("encrypt", "ElGamalCiphertext", {Read("ElementModQ"), Read("ElementModP")})}

ProofFrom == {Read("ElGamalCiphertext"), Read("ElementModQ"), Read("ElementModP")}

DisjunctiveProof ==
  {Part("get_" \o r, r, "ElementModP") : r \in {"zero_pad", "zero_data", "one_pad", "one_data"}}
  \cup {Part("get_" \o r, r, "ElementModQ") :
          r \in {"zero_challenge", "one_challenge", "challenge", "zero_response", "one_response"}}
  \cup {Made(fn, "DisjunctiveChaumPedersenProof", ProofFrom) : fn \in {"make", "make_deterministic"}}
  \cup {Frees("free"), Function("is_valid", "value", "", ProofFrom)}

ConstantProof ==
  {Part("get_pad", "pad", "ElementModP"), Part("get_data", "data", "ElementModP"),
   Part("get_challenge", "challenge", "ElementModQ"), Part("get_response", "response", "ElementModQ"),
   Made("make", "ConstantChaumPedersenProof", ProofFrom),
   Frees("free"), Function("is_valid", "value", "", ProofFrom)}

ContextConfiguration ==
  {Made("make", "ContextConfiguration", {}), Frees("free")}
  \cup Values({"get_allowed_overvotes", "get_max_ballots"})

KeyAndHashes == {Read("ElementModP"), Read("ElementModQ")}

\* the extended data are copied out into a list that the caller gets
CiphertextElectionContext ==
  {Frees("free"), Part("get_elgamal_public_key", "elgamal_public_key", "ElementModP"),
   Part("get_configuration", "configuration", "ContextConfiguration"),
   Fresh("get_extended_data", "LinkedList", {})}
  \cup {Part("get_" \o r, r, "ElementModQ") :
          r \in {"commitment_hash", "manifest_hash", "crypto_base_hash", "crypto_extended_base_hash"}}

\* the nodes of a list of extended data are copied, one by one
MakeContext ==
  {Made("make", "CiphertextElectionContext", KeyAndHashes),
   Made("make_with_extended_data", "CiphertextElectionContext", KeyAndHashes \cup {Read("LinkedList")}),
   Made("make_with_configuration", "CiphertextElectionContext", KeyAndHashes \cup {Read("ContextConfiguration")}),
   Made("make_with_configuration_and_extended_data", "CiphertextElectionContext",
        KeyAndHashes \cup {Read("ContextConfiguration"), Read("LinkedList")})}

\* with_extended_data reads the list, and makes the context without it
ContextData ==
  Loaded("CiphertextElectionContext", {"make_from_hex", "from_json", "from_bson"})
  \cup {Made("make_from_hex_with_extended_data", "CiphertextElectionContext", {Read("LinkedList")})}
  \cup Texts({"to_json"}) \cup Bytes({"to_bson"})

EncryptionDevice ==
  {Made("new", "EncryptionDevice", {}), Made("from_json", "EncryptionDevice", {}), Frees("free"),
   Fresh("get_hash", "ElementModQ", {})}
  \cup Texts({"to_json"})

\* EncryptionMediator holds references, not copies
EncryptionMediator ==
  {New("new", "EncryptionMediator",
       {Kept("manifest", "InternalManifest"), Kept("context", "CiphertextElectionContext"),
        Kept("encryption_device", "EncryptionDevice")}),
   Frees("free")}
  \cup {Fresh(fn, "CiphertextBallot", {Read("PlaintextBallot")}) :
          fn \in {"encrypt_ballot", "encrypt_ballot_verify_proofs"}}
  \cup {Fresh(fn, "CompactCiphertextBallot", {Read("PlaintextBallot")}) :
          fn \in {"compact_encrypt_ballot", "compact_encrypt_ballot_verify_proofs"}}

EncryptParts ==
  {Made("selection", "CiphertextBallotSelection",
        {Read("PlaintextBallotSelection"), Read("SelectionDescription")} \cup KeyAndHashes),
   Made("contest", "CiphertextBallotContest",
        {Read("PlaintextBallotContest"), Read("InternalManifest"),
         Read("ContestDescriptionWithPlaceholders")} \cup KeyAndHashes)}

EncryptFrom == {Read("PlaintextBallot"), Read("InternalManifest"),
                Read("CiphertextElectionContext"), Read("ElementModQ")}

\* with_nonce wraps the caller's nonce in a unique_ptr: the ballot keeps the object itself
EncryptBallot ==
  {Made("ballot", "CiphertextBallot", EncryptFrom),
   Made("ballot_with_nonce", "CiphertextBallot", EncryptFrom \cup {Adopted("nonce", "ElementModQ")})}

\* here it dies with the full ciphertext the compact one is made of
EncryptCompactBallot ==
  {Made("compact_ballot", "CompactCiphertextBallot", EncryptFrom),
   Made("compact_ballot_with_nonce", "CompactCiphertextBallot",
        EncryptFrom \cup {Consumed("nonce", "ElementModQ")})}

BallotCode ==
  {Made("get_hash_for_device", "ElementModQ", {}),
   Made("get_ballot_code", "ElementModQ", {Read("ElementModQ")})}

HashElems == {Made(fn, "ElementModQ", {}) : fn \in {"elems_string", "elems_strings", "elems_int"}}

\* the strings of a node are handed out as they are, and deleted with their node
LinkedList ==
  {Made("new", "LinkedList", {}), Frees("free"), Drops("delete_last")}
  \cup {Part(fn, "node", "NodeText") : fn \in {"get_element_at", "get_value_at"}}
  \cup Values({"append", "get_count"})

=============================================================================
