--------------------------- MODULE FacadeBallot ---------------------------
(* What the functions of facades/ballot.cpp and facades/ballot_compact.cpp do
   to the objects behind their handles.                                      *)
EXTENDS NativeHeap

ElementParts(fnRoles) == {Part(p[1], p[2], "ElementModQ") : p \in fnRoles}
DataOf(c) ==
  Loaded(c, {"from_json", "from_bson", "from_msgpack"})
  \cup Texts({"to_json"}) \cup Bytes({"to_bson", "to_msgpack"})
ValidFor == {Read("ElementModQ"), Read("ElementModP")}

ExtendedData ==
  {New("new", "ExtendedData", {}), Frees("free")}
  \cup Texts({"get_value"}) \cup Values({"get_length"})

PlaintextBallotSelection ==
  {New(fn, "PlaintextBallotSelection", {}) : fn \in {"new", "new_with_write_in"}}
  \cup {Frees("free")} \cup Texts({"get_object_id", "get_write_in"})
  \cup Values({"get_vote", "get_is_placeholder", "is_valid"})

CiphertextBallotSelection ==
  {Frees("free"), Part("get_ciphertext", "ciphertext", "ElGamalCiphertext"),
   Part("get_proof", "proof", "DisjunctiveChaumPedersenProof"),
   Fresh("crypto_hash_with", "ElementModQ", {Read("ElementModQ")}),
   Function("is_valid_encryption", "value", "", ValidFor)}
  \cup ElementParts({<<"get_description_hash", "description_hash">>,
                     <<"get_crypto_hash", "crypto_hash">>, <<"get_nonce", "nonce">>})
  \cup Texts({"get_object_id"}) \cup Values({"get_sequence_order", "get_is_placeholder"})

PlaintextBallotContest ==
  {New("new", "PlaintextBallotContest", {Moved("selections", "PlaintextBallotSelection")}),
   Frees("free"), Part("get_selection_at_index", "selections", "PlaintextBallotSelection")}
  \cup Texts({"get_object_id"}) \cup Values({"get_selections_size", "is_valid"})

\* the proof of a contest is a ConstantChaumPedersenProof
CiphertextBallotContest ==
  {Frees("free"), Part("get_selection_at_index", "selections", "CiphertextBallotSelection"),
   Part("get_ciphertext_accumulation", "ciphertext_accumulation", "ElGamalCiphertext"),
   TypedAs("DisjunctiveChaumPedersenProof", Part("get_proof", "proof", "ConstantChaumPedersenProof"))}
  \cup ElementParts({<<"get_description_hash", "contest_hash">>, <<"get_crypto_hash", "crypto_hash">>,
                     <<"get_nonce", "nonce">>})
  \cup Texts({"get_object_id"}) \cup Values({"get_sequence_order", "get_selections_size"})

CiphertextBallotContestMade ==
  {Fresh("crypto_hash_with", "ElementModQ", {Read("ElementModQ")}),
   Fresh("aggregate_nonce", "ElementModQ", {}),
   Fresh("elgamal_accumulate", "ElGamalCiphertext", {}),
   Function("is_valid_encryption", "value", "", ValidFor)}

PlaintextBallot ==
  {New("new", "PlaintextBallot", {Moved("ballot_contests", "PlaintextBallotContest")}), Frees("free"),
   Part("get_contest_at_index", "ballot_contests", "PlaintextBallotContest")}
  \cup Texts({"get_object_id", "get_style_id"}) \cup Values({"get_contests_size"})

PlaintextBallotData == DataOf("PlaintextBallot")

CiphertextBallot ==
  {Frees("free"), Part("get_contest_at_index", "contests", "CiphertextBallotContest")}
  \cup ElementParts({<<"get_manifest_hash", "manifest_hash">>, <<"get_ballot_code", "ballot_code">>,
                     <<"get_ballot_code_seed", "ballot_code_seed">>,
                     <<"get_nonce", "nonce">>, <<"get_crypto_hash", "crypto_hash">>})
  \cup Texts({"get_object_id", "get_style_id"}) \cup Values({"get_contests_size", "get_timestamp"})

CiphertextBallotMade ==
  {Fresh("crypto_hash_with", "ElementModQ", {Read("ElementModQ")}),
   Function("is_valid_encryption", "value", "", ValidFor)}
  \cup DataOf("CiphertextBallot")
  \cup Texts({"to_json_with_nonces"}) \cup Bytes({"to_bson_with_nonces", "to_msgpack_with_nonces"})

\* SubmittedBallot::from copies the ballot it is given
SubmittedBallot ==
  {Frees("free"), Made("from", "SubmittedBallot", {Read("CiphertextBallot")})}
  \cup Values({"get_state"}) \cup DataOf("SubmittedBallot")

CompactPlaintextBallot ==
  {Frees("free"), Made("from_msgpack", "CompactPlaintextBallot", {})} \cup Bytes({"to_msgpack"})

CompactCiphertextBallot ==
  {Frees("free"), Made("from_msgpack", "CompactCiphertextBallot", {})}
  \cup Texts({"get_object_id"}) \cup Bytes({"to_msgpack"})

\* what is allocated with malloc goes to free(), what is allocated with new[] to delete[]
TextBlock == {Frees("free_int_ptr")}

ByteBlock == {Frees("delete_int_ptr"), Frees("msgpack_free")}

=============================================================================
