------------------------------ MODULE Interop ------------------------------
(* The declarations of NativeInterface.cs through which the .NET binding calls
   the C interface: for each class the entry points it imports, by the handle
   their `out` parameter is declared with, and the test with which the Free of
   its handle decides that there is nothing to do.                           *)
EXTENDS Sequences, TLC

Closed == "IsClosed"   \* set by SafeHandle before it calls ReleaseHandle
Freed == "IsFreed"     \* set by ReleaseHandle when Free has returned

\* Raw: an `out IntPtr`; Plain: no `out` at all, or one of a number
Imports(guard, outs) == [guard |-> guard, outs |-> outs, takes |-> <<>>]

NativeLinkedList ==
  Imports(Closed, [LinkedList |-> {"new"}, Plain |-> {"append", "delete_last", "get_count"},
                   Raw |-> {"get_element_at", "get_value_at"}])

NativeElementModP ==
  Imports(Closed, [ElementModP |-> {"new", "new_unchecked"}, Plain |-> {"get_data"}, Raw |-> {"to_hex"}])

NativeElementModQ ==
  Imports(Closed, [ElementModQ |-> {"new", "new_unchecked", "from_hex", "from_hex_unchecked", "rand_q_new"},
                   Plain |-> {"get_data"}, Raw |-> {"to_hex"}])

NativeConstants ==
  Imports("", [ElementModP |-> {"g", "p", "r", "zero_mod_p", "one_mod_p", "two_mod_p"},
               ElementModQ |-> {"q", "zero_mod_q", "one_mod_q", "two_mod_q"}, Raw |-> {"to_json"}])

NativeElGamalKeyPair ==
  Imports(Closed, [ElGamalKeyPair |-> {"from_secret_new"}, ElementModP |-> {"get_public_key"},
                   ElementModQ |-> {"get_secret_key"}])

\* with eg_elgamal_encrypt, which has a class of its own
NativeElGamalCiphertext ==
  Imports(Closed, [ElementModP |-> {"get_pad", "get_data"}, ElementModQ |-> {"crypto_hash"},
                   ElGamalCiphertext |-> {"encrypt"}, Plain |-> {"decrypt_with_secret"}])

NativeDisjunctiveProof ==
  Imports(Closed,
    [ElementModP |-> {"get_zero_pad", "get_zero_data", "get_one_pad", "get_one_data"},
     ElementModQ |-> {"get_zero_challenge", "get_one_challenge", "get_challenge",
                      "get_zero_response", "get_one_response"},
     DisjunctiveChaumPedersenProof |-> {"make", "make_deterministic"}, Plain |-> {"is_valid"}])

NativeConstantProof ==
  Imports(Closed, [ElementModP |-> {"get_pad", "get_data"}, ElementModQ |-> {"get_challenge", "get_response"},
                   ConstantChaumPedersenProof |-> {"make"}, Plain |-> {"is_valid"}])

NativeAnnotatedString ==
  Imports(Closed, [AnnotatedString |-> {"new"}, Raw |-> {"get_annotation", "get_value"},
                   ElementModQ |-> {"crypto_hash"}])

NativeLanguage ==
  Imports(Closed, [Language |-> {"new"}, Raw |-> {"get_value", "get_language"}, ElementModQ |-> {"crypto_hash"}])

NativeInternationalizedText ==
  Imports(Closed, [InternationalizedText |-> {"new"}, Language |-> {"get_text_at_index"},
                   ElementModQ |-> {"crypto_hash"}, Plain |-> {"get_text_size"}])

\* GetPhoneLineAtIndex imports eg_contact_information_get_email_line_at_index a second time
NativeContactInformation ==
  Imports(Closed, [ContactInformation |-> {"new"}, InternationalizedText |-> {"get_email_line_at_index"},
                   Raw |-> {"get_address_line_at_index", "get_name"}, ElementModQ |-> {"crypto_hash"},
                   Plain |-> {"get_address_line_size", "get_email_line_size", "get_phone_line_size"}])

NativeGeopoliticalUnit ==
  Imports(Closed, [GeopoliticalUnit |-> {"new", "new_with_contact_info"}, Raw |-> {"get_object_id", "get_name"},
                   ElementModQ |-> {"crypto_hash"}, Plain |-> {"get_type"}])

NativeBallotStyle ==
  Imports(Closed,
    [BallotStyle |-> {"new"}, ElementModQ |-> {"crypto_hash"},
     Raw |-> {"get_object_id", "get_geopolitical_unit_id_at_index", "get_party_id_at_index", "get_image_uri"},
     Plain |-> {"get_geopolitical_unit_ids_size", "get_party_ids_size"}])

NativeParty ==
  Imports(Closed, [Party |-> {"new", "new_with_extras"}, InternationalizedText |-> {"get_name"},
                   Raw |-> {"get_object_id", "get_abbreviation", "get_color", "get_logo_uri"},
                   ElementModQ |-> {"crypto_hash"}])

NativeCandidate ==
  Imports(Closed, [Candidate |-> {"new", "new_with_party", "new_with_extras"}, ElementModQ |-> {"crypto_hash"},
                   Raw |-> {"get_object_id", "get_candidate_id", "get_name", "get_party_id", "get_image_uri"}])

NativeSelectionDescription ==
  Imports(Closed, [SelectionDescription |-> {"new"}, Raw |-> {"get_object_id", "get_candidate_id"},
                   ElementModQ |-> {"crypto_hash"}, Plain |-> {"get_sequence_order"}])

NewContests == {"new", "new_with_title", "new_with_parties", "new_with_title_and_parties"}
ContestTexts == {"get_object_id", "get_electoral_district_id", "get_name"}
ContestValues == {"get_sequence_order", "get_vote_variation", "get_number_elected", "get_votes_allowed",
                  "get_selections_size"}

NativeContestDescription ==
  Imports(Closed, [ContestDescription |-> NewContests, Raw |-> ContestTexts, Plain |-> ContestValues,
                   InternationalizedText |-> {"get_ballot_title", "get_ballot_subtitle"},
                   SelectionDescription |-> {"get_selection_at_index"}, ElementModQ |-> {"crypto_hash"}])

\* selection_for_id has lost its `out`: the result is written over the object passed for it
NativeContestWithPlaceholders ==
  Imports(Closed,
    [ContestDescriptionWithPlaceholders |-> NewContests, Raw |-> ContestTexts,
     Plain |-> ContestValues \cup {"get_placeholders_size", "is_placeholder", "selection_for_id"},
     InternationalizedText |-> {"get_ballot_title", "get_ballot_subtitle"},
     SelectionDescription |-> {"get_selection_at_index", "get_placeholder_at_index"},
     ElementModQ |-> {"crypto_hash"}])

Loads == {"from_json", "from_bson", "from_msgpack"}
Saves == {"to_json", "to_bson", "to_msgpack"}

NativeManifest ==
  Imports(Closed,
    [Manifest |-> {"new", "new_with_contact"} \cup Loads, Raw |-> {"get_election_scope_id"} \cup Saves,
     GeopoliticalUnit |-> {"get_geopolitical_unit_at_index"}, Party |-> {"get_party_at_index"},
     Candidate |-> {"get_candidate_at_index"}, ContestDescription |-> {"get_contest_at_index"},
     BallotStyle |-> {"get_ballot_style_at_index"}, InternationalizedText |-> {"get_name"},
     ContactInformation |-> {"get_contact_info"}, ElementModQ |-> {"crypto_hash"},
     Plain |-> {"get_type", "get_start_date", "get_end_date", "get_geopolitical_units_size", "get_parties_size",
                "get_candidates_size", "get_contests_size", "get_ballot_styles_size", "is_valid"}])

\* a contest with placeholders is declared as a plain one, its base
NativeInternalManifest ==
  Imports(Closed,
    [InternalManifest |-> {"new"} \cup Loads, Raw |-> Saves, ElementModQ |-> {"get_manifest_hash"},
     GeopoliticalUnit |-> {"get_geopolitical_unit_at_index"}, ContestDescription |-> {"get_contest_at_index"},
     BallotStyle |-> {"get_ballot_style_at_index"},
     Plain |-> {"get_geopolitical_units_size", "get_contests_size", "get_ballot_styles_size"}])

NativeContextConfiguration ==
  Imports(Closed, [ContextConfiguration |-> {"make"}, Plain |-> {"get_allowed_overvotes", "get_max_ballots"}])

\* from_bson is declared without an `out`; no member calls it
NativeCiphertextElectionContext ==
  Imports(Closed,
    [ContextConfiguration |-> {"get_configuration"}, ElementModP |-> {"get_elgamal_public_key"},
     ElementModQ |-> {"get_commitment_hash", "get_manifest_hash", "get_crypto_base_hash",
                      "get_crypto_extended_base_hash"},
     LinkedList |-> {"get_extended_data"},
     CiphertextElectionContext |->
       {"make", "make_with_configuration", "make_with_extended_data",
        "make_with_configuration_and_extended_data", "make_from_hex", "make_from_hex_with_extended_data",
        "from_json"},
     Plain |-> {"from_bson"}, Raw |-> {"to_json", "to_bson"}])

NativeExtendedData ==
  Imports(Closed, [ExtendedData |-> {"new"}, Raw |-> {"get_value"}, Plain |-> {"get_length"}])

\* the C interface calls these two new_with_write_in and get_write_in
NativePlaintextSelection ==
  Imports(Closed, [PlaintextBallotSelection |-> {"new", "new_with_extended_data"}, Raw |-> {"get_object_id"},
                   ExtendedData |-> {"get_extended_data"},
                   Plain |-> {"get_vote", "get_is_placeholder", "is_valid"}])

NativeCiphertextSelection ==
  Imports(Closed,
    [Raw |-> {"get_object_id"}, Plain |-> {"get_sequence_order", "get_is_placeholder", "is_valid_encryption"},
     ElementModQ |-> {"get_description_hash", "get_crypto_hash", "get_nonce", "crypto_hash_with"},
     ElGamalCiphertext |-> {"get_ciphertext"}, DisjunctiveChaumPedersenProof |-> {"get_proof"}])

NativePlaintextContest ==
  Imports(Closed, [PlaintextBallotContest |-> {"new"}, Raw |-> {"get_object_id"},
                   Plain |-> {"get_selections_size", "is_valid"},
                   PlaintextBallotSelection |-> {"get_selection_at_index"}])

\* IsValidEncryption imports the entry point of a selection
NativeCiphertextContest ==
  Imports(Closed,
    [Raw |-> {"get_object_id"},
     Plain |-> {"get_sequence_order", "get_selections_size", "selection_is_valid_encryption"},
     ElementModQ |-> {"get_description_hash", "get_nonce", "get_crypto_hash", "crypto_hash_with",
                      "aggregate_nonce"},
     CiphertextBallotSelection |-> {"get_selection_at_index"},
     ElGamalCiphertext |-> {"get_ciphertext_accumulation", "elgamal_accumulate"},
     ConstantChaumPedersenProof |-> {"get_proof"}])

NativePlaintextBallot ==
  Imports(Freed, [PlaintextBallot |-> {"new"} \cup Loads, Raw |-> {"get_object_id", "get_style_id"} \cup Saves,
                  Plain |-> {"get_contests_size"}, PlaintextBallotContest |-> {"get_contest_at_index"}])

NativeCompactPlaintextBallot ==
  Imports(Closed, [CompactPlaintextBallot |-> {"from_msgpack"}, Raw |-> {"to_msgpack"}])

NativeCiphertextBallot ==
  Imports(Freed,
    [Raw |-> {"get_object_id", "get_style_id"} \cup Saves \cup {fn \o "_with_nonces" : fn \in Saves},
     ElementModQ |-> {"get_manifest_hash", "get_ballot_code_seed", "get_ballot_code", "get_nonce",
                      "get_crypto_hash", "crypto_hash_with"},
     Plain |-> {"get_contests_size", "get_timestamp", "is_valid_encryption"},
     CiphertextBallotContest |-> {"get_contest_at_index"}, CiphertextBallot |-> Loads])

NativeCompactCiphertextBallot ==
  Imports(Closed, [CompactCiphertextBallot |-> {"from_msgpack"}, Raw |-> {"get_object_id", "to_msgpack"}])

\* the getters are those of CiphertextBallot
NativeSubmittedBallot ==
  Imports(Freed,
    [SubmittedBallot |-> {"from"} \cup Loads, Raw |-> {"get_object_id", "get_style_id"} \cup Saves,
     ElementModQ |-> {"get_manifest_hash", "get_ballot_code_seed", "get_ballot_code", "get_crypto_hash"},
     Plain |-> {"get_state", "get_contests_size", "get_timestamp", "is_valid_encryption"},
     CiphertextBallotContest |-> {"get_contest_at_index"}])

NativeEncryptionDevice ==
  Imports(Closed, [EncryptionDevice |-> {"new", "from_json"}, ElementModQ |-> {"get_hash"}, Raw |-> {"to_json"}])

NativeEncryptionMediator ==
  Imports(Closed,
    [EncryptionMediator |-> {"new"}, CiphertextBallot |-> {"encrypt_ballot", "encrypt_ballot_verify_proofs"},
     CompactCiphertextBallot |-> {"compact_encrypt_ballot", "compact_encrypt_ballot_verify_proofs"}])

\* eg_encrypt_contest is declared without the manifest that it takes second
NativeEncrypt ==
  [Imports("", [CiphertextBallotSelection |-> {"selection"}, CiphertextBallotContest |-> {"contest"},
                CiphertextBallot |-> {"ballot", "ballot_with_nonce"},
                CompactCiphertextBallot |-> {"compact_ballot", "compact_ballot_with_nonce"}])
   EXCEPT !.takes =
     "contest" :> {"PlaintextBallotContest", "ContestDescription", "ElementModP", "ElementModQ"}]

Interop ==
  [LinkedList |-> NativeLinkedList, ElementModP |-> NativeElementModP, ElementModQ |-> NativeElementModQ,
   Constants |-> NativeConstants, ElGamalKeyPair |-> NativeElGamalKeyPair,
   ElGamalCiphertext |-> NativeElGamalCiphertext,
   DisjunctiveChaumPedersenProof |-> NativeDisjunctiveProof,
   ConstantChaumPedersenProof |-> NativeConstantProof, AnnotatedString |-> NativeAnnotatedString,
   Language |-> NativeLanguage, InternationalizedText |-> NativeInternationalizedText,
   ContactInformation |-> NativeContactInformation, GeopoliticalUnit |-> NativeGeopoliticalUnit,
   BallotStyle |-> NativeBallotStyle, Party |-> NativeParty, Candidate |-> NativeCandidate,
   SelectionDescription |-> NativeSelectionDescription, ContestDescription |-> NativeContestDescription,
   ContestDescriptionWithPlaceholders |-> NativeContestWithPlaceholders, Manifest |-> NativeManifest,
   InternalManifest |-> NativeInternalManifest, ContextConfiguration |-> NativeContextConfiguration,
   CiphertextElectionContext |-> NativeCiphertextElectionContext, ExtendedData |-> NativeExtendedData,
   PlaintextBallotSelection |-> NativePlaintextSelection,
   CiphertextBallotSelection |-> NativeCiphertextSelection, PlaintextBallotContest |-> NativePlaintextContest,
   CiphertextBallotContest |-> NativeCiphertextContest, PlaintextBallot |-> NativePlaintextBallot,
   CompactPlaintextBallot |-> NativeCompactPlaintextBallot, CiphertextBallot |-> NativeCiphertextBallot,
   CompactCiphertextBallot |-> NativeCompactCiphertextBallot, SubmittedBallot |-> NativeSubmittedBallot,
   EncryptionDevice |-> NativeEncryptionDevice, EncryptionMediator |-> NativeEncryptionMediator,
   Encrypt |-> NativeEncrypt]

\* what the entry point is declared to give
DeclaredAs(c, fn) == CHOOSE a \in DOMAIN Interop[c].outs : fn \in Interop[c].outs[a]

============================================================================
