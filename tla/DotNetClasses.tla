--------------------------- MODULE DotNetClasses ---------------------------
(* The classes of the .NET binding: which entry points the members of each
   call, and what they do with the result. They all derive from DisposableBase
   and hold a Handle.                                                         *)
EXTENDS Interop

(***************************************************************************)
(* wraps:    the result is given to the caller in a wrapper of its own     *)
(*           (new X(value), or the Handle that a constructor fills);       *)
(* strings:  PtrToStringAnsi, then Memory.FreeIntPtr, which calls free;    *)
(* buffers:  Marshal.Copy, then MsgPackFree, which calls delete[];         *)
(* values:   numbers, truth values, and limbs that are copied out;         *)
(* views:    PtrToStringAnsi and no more;                                  *)
(* disposes: the array arguments of its constructors, whose elements are   *)
(*           disposed of as soon as their pointers have been copied.       *)
(***************************************************************************)
Class(wraps, strings, values) ==
  [wraps |-> wraps, strings |-> strings, values |-> values, buffers |-> {}, views |-> {}, disposes |-> {}]
Disposing(roles, class) == [class EXCEPT !.disposes = roles]
Copying(fns, class) == [class EXCEPT !.buffers = fns]
Viewing(fns, class) == [class EXCEPT !.views = fns]

AnnotatedStringClass == Class({"new", "crypto_hash"}, {"get_annotation", "get_value"}, {})

LanguageClass == Class({"new", "crypto_hash"}, {"get_value", "get_language"}, {})

InternationalizedTextClass ==
  Disposing({"texts"}, Class({"new", "get_text_at_index", "crypto_hash"}, {}, {"get_text_size"}))

ContactInformationClass ==
  Class({"new", "get_email_line_at_index", "crypto_hash"}, {"get_address_line_at_index"},
        {"get_address_line_size", "get_email_line_size", "get_phone_line_size"})

GeopoliticalUnitClass == Class({"new", "crypto_hash"}, {"get_object_id", "get_name"}, {"get_type"})

BallotStyleClass ==
  Class({"new", "crypto_hash"},
        {"get_object_id", "get_geopolitical_unit_id_at_index", "get_party_id_at_index"},
        {"get_geopolitical_unit_ids_size", "get_party_ids_size"})

PartyClass ==
  Class({"new", "new_with_extras", "get_name", "crypto_hash"},
        {"get_object_id", "get_abbreviation", "get_color", "get_logo_uri"}, {})

\* Name takes the text that it is given for a string
CandidateClass ==
  Class({"new", "new_with_party", "new_with_extras", "crypto_hash"},
        {"get_object_id", "get_candidate_id", "get_name", "get_party_id", "get_image_uri"}, {})

SelectionDescriptionClass ==
  Class({"new", "crypto_hash"}, {"get_object_id", "get_candidate_id"}, {"get_sequence_order"})

ContestProperties ==
  Class({"get_ballot_title", "get_ballot_subtitle"}, ContestTexts, ContestValues)

NewContestClass ==
  Disposing({"selections"},
    Class(NewContests \cup {"get_selection_at_index", "crypto_hash"}, {}, {}))

ContestWithPlaceholdersProperties ==
  Class({"get_ballot_title", "get_ballot_subtitle"}, ContestTexts, ContestValues \cup {"get_placeholders_size"})

NewContestWithPlaceholdersClass ==
  Disposing({"selections", "placeholders"}, Class(NewContests, {}, {}))

ContestWithPlaceholdersParts ==
  Class({"get_selection_at_index", "get_placeholder_at_index", "crypto_hash"}, {}, {})

ManifestProperties ==
  Class({"get_name", "get_contact_info"}, {"get_election_scope_id"},
        {"get_type", "get_start_date", "get_end_date", "get_geopolitical_units_size", "get_parties_size",
         "get_candidates_size", "get_contests_size", "get_ballot_styles_size"})

NewManifestClass ==
  Disposing({"geopolitical_units", "parties", "candidates", "contests", "ballot_styles"},
    Class(Loads \cup {"new", "new_with_contact"}, {}, {}))

ManifestMembers ==
  Copying({"to_bson", "to_msgpack"},
    Class({"get_geopolitical_unit_at_index", "get_party_at_index", "get_candidate_at_index",
           "get_contest_at_index", "get_ballot_style_at_index", "crypto_hash"}, {"to_json"}, {"is_valid"}))

InternalManifestProperties ==
  Class({"get_manifest_hash", "new"} \cup Loads, {},
        {"get_geopolitical_units_size", "get_contests_size", "get_ballot_styles_size"})

InternalManifestMembers ==
  Copying({"to_bson", "to_msgpack"},
    Class({"get_geopolitical_unit_at_index", "get_contest_at_index", "get_ballot_style_at_index"},
          {"to_json"}, {}))

ExtendedDataClass == Class({"new"}, {"get_value"}, {"get_length"})

PlaintextBallotSelectionClass ==
  Class({"new", "new_with_extended_data", "get_extended_data"}, {"get_object_id"},
        {"get_vote", "get_is_placeholder", "is_valid"})

CiphertextBallotSelectionClass ==
  Class({"get_description_hash", "get_ciphertext", "get_crypto_hash", "get_nonce", "get_proof",
         "crypto_hash_with"}, {"get_object_id"},
        {"get_sequence_order", "get_is_placeholder", "is_valid_encryption"})

PlaintextBallotContestClass ==
  Disposing({"selections"},
    Class({"new", "get_selection_at_index"}, {"get_object_id"}, {"get_selections_size", "is_valid"}))

CiphertextBallotContestClass ==
  Class({"get_description_hash", "get_crypto_hash", "get_nonce", "get_proof", "get_selection_at_index",
         "crypto_hash_with", "aggregate_nonce", "elgamal_accumulate"}, {"get_object_id"},
        {"get_sequence_order", "get_selections_size", "selection_is_valid_encryption"})

PlaintextBallotClass ==
  Disposing({"ballot_contests"},
    Copying({"to_bson", "to_msgpack"},
      Class(Loads \cup {"new", "get_contest_at_index"}, {"get_object_id", "get_style_id", "to_json"},
            {"get_contests_size"})))

CompactPlaintextBallotClass == Copying({"to_msgpack"}, Class({"from_msgpack"}, {}, {}))

CiphertextBallotProperties ==
  Class(Loads \cup {"get_manifest_hash", "get_ballot_code_seed", "get_ballot_code", "get_nonce"},
        {"get_object_id", "get_style_id"}, {"get_contests_size", "get_timestamp"})

\* ToMsgPack(withNonces) calls the same function in both cases
CiphertextBallotMembers ==
  Copying({"to_bson", "to_bson_with_nonces", "to_msgpack"},
    Class({"get_contest_at_index"}, {"to_json", "to_json_with_nonces"}, {"is_valid_encryption"}))

CompactCiphertextBallotClass == Copying({"to_msgpack"}, Class({"from_msgpack"}, {"get_object_id"}, {}))

SubmittedBallotProperties ==
  Class({"from", "get_manifest_hash", "get_ballot_code_seed", "get_ballot_code"},
        {"get_object_id", "get_style_id"}, {"get_state", "get_contests_size", "get_timestamp"})

SubmittedBallotMembers ==
  Copying({"to_bson", "to_msgpack"},
    Class(Loads \cup {"get_contest_at_index"}, {"to_json"}, {"is_valid_encryption"}))

ElementModPClass == Class({"new"}, {"to_hex"}, {"get_data"})

ElementModQClass == Class({"new", "from_hex", "from_hex_unchecked"}, {"to_hex"}, {"get_data"})

\* ONE_MOD_P and TWO_MOD_P call zero_mod_p
ConstantsClass ==
  Class({"g", "p", "r", "zero_mod_p", "q", "zero_mod_q", "one_mod_q", "two_mod_q"}, {"to_json"}, {})

ElGamalKeyPairClass == Class({"get_public_key", "get_secret_key", "from_secret_new"}, {}, {})

ElGamalCiphertextClass == Class({"get_pad", "get_data", "crypto_hash", "encrypt"}, {}, {"decrypt_with_secret"})

DisjunctiveProofProperties ==
  Class({"get_zero_pad", "get_zero_data", "get_one_pad", "get_one_data", "get_zero_challenge",
         "get_one_challenge", "get_challenge", "get_zero_response", "get_one_response"}, {}, {})

DisjunctiveProofMembers == Class({"make", "make_deterministic"}, {}, {"is_valid"})

ConstantProofClass ==
  Class({"get_pad", "get_data", "get_challenge", "get_response", "make"}, {}, {"is_valid"})

ContextConfigurationClass == Class({"make"}, {}, {"get_allowed_overvotes", "get_max_ballots"})

ContextProperties ==
  Class({"get_elgamal_public_key", "get_commitment_hash", "get_manifest_hash", "get_crypto_base_hash",
         "get_crypto_extended_base_hash", "get_extended_data", "get_configuration"}, {}, {})

ContextMembers ==
  Class({"from_json", "make", "make_with_configuration", "make_with_extended_data",
         "make_with_configuration_and_extended_data"}, {"to_json"}, {})

EncryptionDeviceClass == Class({"new", "from_json", "get_hash"}, {"to_json"}, {})

\* it keeps its Handle, and none of the objects it was made from
EncryptionMediatorClass ==
  Class({"new", "encrypt_ballot", "encrypt_ballot_verify_proofs", "compact_encrypt_ballot",
         "compact_encrypt_ballot_verify_proofs"}, {}, {})

EncryptClass ==
  Class({"selection", "contest", "ballot", "ballot_with_nonce", "compact_ballot",
         "compact_ballot_with_nonce"}, {}, {})

LinkedListClass ==
  Viewing({"get_element_at", "get_value_at"}, Class({"new"}, {}, {"append", "delete_last", "get_count"}))

DotNetClasses ==
  [AnnotatedString |-> {AnnotatedStringClass}, Language |-> {LanguageClass},
   InternationalizedText |-> {InternationalizedTextClass},
   ContactInformation |-> {ContactInformationClass}, GeopoliticalUnit |-> {GeopoliticalUnitClass},
   BallotStyle |-> {BallotStyleClass}, Party |-> {PartyClass}, Candidate |-> {CandidateClass},
   SelectionDescription |-> {SelectionDescriptionClass},
   ContestDescription |-> {ContestProperties, NewContestClass},
   ContestDescriptionWithPlaceholders |->
     {ContestWithPlaceholdersProperties, NewContestWithPlaceholdersClass, ContestWithPlaceholdersParts},
   Manifest |-> {ManifestProperties, NewManifestClass, ManifestMembers},
   InternalManifest |-> {InternalManifestProperties, InternalManifestMembers},
   ExtendedData |-> {ExtendedDataClass}, PlaintextBallotSelection |-> {PlaintextBallotSelectionClass},
   CiphertextBallotSelection |-> {CiphertextBallotSelectionClass},
   PlaintextBallotContest |-> {PlaintextBallotContestClass},
   CiphertextBallotContest |-> {CiphertextBallotContestClass}, PlaintextBallot |-> {PlaintextBallotClass},
   CompactPlaintextBallot |-> {CompactPlaintextBallotClass},
   CiphertextBallot |-> {CiphertextBallotProperties, CiphertextBallotMembers},
   CompactCiphertextBallot |-> {CompactCiphertextBallotClass},
   SubmittedBallot |-> {SubmittedBallotProperties, SubmittedBallotMembers},
   ElementModP |-> {ElementModPClass}, ElementModQ |-> {ElementModQClass}, Constants |-> {ConstantsClass},
   ElGamalKeyPair |-> {ElGamalKeyPairClass}, ElGamalCiphertext |-> {ElGamalCiphertextClass},
   DisjunctiveChaumPedersenProof |-> {DisjunctiveProofProperties, DisjunctiveProofMembers},
   ConstantChaumPedersenProof |-> {ConstantProofClass},
   ContextConfiguration |-> {ContextConfigurationClass},
   CiphertextElectionContext |-> {ContextProperties, ContextMembers},
   EncryptionDevice |-> {EncryptionDeviceClass}, EncryptionMediator |-> {EncryptionMediatorClass},
   Encrypt |-> {EncryptClass}, LinkedList |-> {LinkedListClass}]

\* the entry points that class c uses in this way
Uses(c, way) == UNION {part[way] : part \in DotNetClasses[c]}
Ways == {"wraps", "strings", "values", "buffers", "views"}
Called == [c \in DOMAIN DotNetClasses |-> UNION {Uses(c, way) : way \in Ways}] @@ <<>>
Disposed == [c \in DOMAIN DotNetClasses |-> Uses(c, "disposes")] @@ <<>>

============================================================================
