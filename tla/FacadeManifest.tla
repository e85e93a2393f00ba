-------------------------- MODULE FacadeManifest --------------------------
(* What the functions of facades/manifest.cpp do to the objects behind their
   handles, a table for each class.                                          *)
EXTENDS NativeHeap

HashOf == Fresh("crypto_hash", "ElementModQ", {})
TextPart(fn, role) == Part(fn, role, "InternationalizedText")

AnnotatedString ==
  {New("new", "AnnotatedString", {}), Frees("free"), HashOf}
  \cup Texts({"get_annotation", "get_value"})

Language ==
  {New("new", "Language", {}), Frees("free"), HashOf}
  \cup Texts({"get_value", "get_language"})

\* the only constructor that copies the elements of its array
InternationalizedText ==
  {New("new", "InternationalizedText", {Copied("texts", "Language")}), Frees("free"),
   Part("get_text_at_index", "texts", "Language"), HashOf}
  \cup Values({"get_text_size"})

\* email and phone lines are AnnotatedStrings; the name is read as that of a GeopoliticalUnit
ContactInformation ==
  {New("new", "ContactInformation", {}),
   New("new_with_collections", "ContactInformation",
       {Moved("email_lines", "AnnotatedString"), Moved("phone_lines", "AnnotatedString")}),
   Frees("free"),
   TypedAs("InternationalizedText", Part("get_email_line_at_index", "email_lines", "AnnotatedString")),
   TypedAs("InternationalizedText", Part("get_phone_line_at_index", "phone_lines", "AnnotatedString")),
   CastTo("InternationalizedText", HashOf)}
  \cup Texts({"get_address_line_at_index"})
  \cup {CastTo("GeopoliticalUnit", op) : op \in Texts({"get_name"})}
  \cup Values({"get_address_line_size", "get_email_line_size", "get_phone_line_size"})

GeopoliticalUnit ==
  {New("new", "GeopoliticalUnit", {}),
   New("new_with_contact_info", "GeopoliticalUnit", {Moved("contact_information", "ContactInformation")}),
   Frees("free"), HashOf}
  \cup Texts({"get_object_id", "get_name"}) \cup Values({"get_type"})

BallotStyle ==
  {New("new", "BallotStyle", {}), New("new_with_parties", "BallotStyle", {}), Frees("free"), HashOf}
  \cup Texts({"get_object_id", "get_geopolitical_unit_id_at_index", "get_party_id_at_index",
              "get_image_uri"})
  \cup Values({"get_geopolitical_unit_ids_size", "get_party_ids_size"})

Party ==
  {New("new", "Party", {}),
   New("new_with_extras", "Party", {Moved("name", "InternationalizedText")}),
   Frees("free"), TextPart("get_name", "name"), HashOf}
  \cup Texts({"get_object_id", "get_abbreviation", "get_color", "get_logo_uri"})

Candidate ==
  {New("new", "Candidate", {}), New("new_with_party", "Candidate", {}),
   New("new_with_extras", "Candidate", {Moved("name", "InternationalizedText")}),
   Frees("free"), TextPart("get_name", "name"), CastTo("Party", HashOf)}
  \cup Texts({"get_object_id", "get_candidate_id", "get_party_id", "get_image_uri"})
  \cup Values({"get_is_write_in"})

SelectionDescription ==
  {New("new", "SelectionDescription", {}), Frees("free"), HashOf}
  \cup Texts({"get_object_id", "get_candidate_id"}) \cup Values({"get_sequence_order"})

SelectionsIn == Moved("selections", "SelectionDescription")
PlaceholdersIn == Moved("placeholders", "SelectionDescription")
TitlesIn == {Moved("ballot_title", "InternationalizedText"),
             Moved("ballot_subtitle", "InternationalizedText")}

NewContestDescription ==
  {New(fn, "ContestDescription", {SelectionsIn}) : fn \in {"new", "new_with_parties"}}
  \cup {New(fn, "ContestDescription", {SelectionsIn} \cup TitlesIn) :
          fn \in {"new_with_title", "new_with_title_and_parties"}}

ContestDescription ==
  {Frees("free"), TextPart("get_ballot_title", "ballot_title"),
   TextPart("get_ballot_subtitle", "ballot_subtitle"),
   Part("get_selection_at_index", "selections", "SelectionDescription"), HashOf}
  \cup Texts({"get_object_id", "get_electoral_district_id", "get_name"})
  \cup Values({"get_sequence_order", "get_vote_variation", "get_number_elected",
               "get_votes_allowed", "get_selections_size"})

NewContestWithPlaceholders ==
  {New(fn, "ContestDescriptionWithPlaceholders", {SelectionsIn, PlaceholdersIn}) :
     fn \in {"new", "new_with_parties"}}
  \cup {New("new_with_title", "ContestDescriptionWithPlaceholders",
            {SelectionsIn, PlaceholdersIn} \cup TitlesIn)}

NewContestWithTitleAndParties ==
  {New("new_with_title_and_parties", "ContestDescriptionWithPlaceholders",
       {SelectionsIn, PlaceholdersIn} \cup TitlesIn)}

\* a placeholder is a SelectionDescription
ContestDescriptionWithPlaceholders ==
  {Frees("free"),
   TypedAs("ContestDescriptionWithPlaceholders",
           Part("get_placeholder_at_index", "placeholders", "SelectionDescription")),
   Part("selection_for_id", "selections", "SelectionDescription")}
  \cup Values({"get_placeholders_size"})
  \cup {Function("is_placeholder", "value", "", {Read("SelectionDescription")})}

ManifestIn ==
  {Moved("geopolitical_units", "GeopoliticalUnit"), Moved("parties", "Party"),
   Moved("candidates", "Candidate"), Moved("contests", "ContestDescription"),
   Moved("ballot_styles", "BallotStyle")}

NewManifest ==
  {New("new", "Manifest", ManifestIn),
   New("new_with_contact", "Manifest",
       ManifestIn \cup {Moved("name", "InternationalizedText"),
                        Moved("contact_info", "ContactInformation")})}

Manifest ==
  {Frees("free"), Part("get_geopolitical_unit_at_index", "geopolitical_units", "GeopoliticalUnit"),
   Part("get_party_at_index", "parties", "Party"),
   Part("get_candidate_at_index", "candidates", "Candidate"),
   Part("get_contest_at_index", "contests", "ContestDescription")}
  \cup Texts({"get_election_scope_id"})
  \cup Values({"get_type", "get_start_date", "get_end_date", "get_geopolitical_units_size",
               "get_parties_size", "get_candidates_size", "get_contests_size"})

ManifestRest ==
  {Part("get_ballot_style_at_index", "ballot_styles", "BallotStyle"),
   TextPart("get_name", "name"), Part("get_contact_info", "contact_info", "ContactInformation"),
   HashOf}
  \cup Loaded("Manifest", {"from_json", "from_bson", "from_msgpack"})

ManifestData ==
  Texts({"to_json"}) \cup Bytes({"to_bson", "to_msgpack"})
  \cup Values({"get_ballot_styles_size", "is_valid"})

\* built from a Manifest, of which it keeps nothing
InternalManifest ==
  {Made("new", "InternalManifest", {Read("Manifest")}), Frees("free"),
   Part("get_manifest_hash", "manifest_hash", "ElementModQ"),
   Part("get_geopolitical_unit_at_index", "geopolitical_units", "GeopoliticalUnit"),
   Part("get_contest_at_index", "contests", "ContestDescriptionWithPlaceholders")}
  \cup Values({"get_geopolitical_units_size", "get_contests_size", "get_ballot_styles_size"})

InternalManifestRest ==
  {Part(fn, "ballot_styles", "BallotStyle") : fn \in {"get_ballot_style_at_index", "get_ballot_style"}}
  \cup Loaded("InternalManifest", {"from_json", "from_bson", "from_msgpack"})
  \cup Texts({"to_json"}) \cup Bytes({"to_bson", "to_msgpack"})

=============================================================================
