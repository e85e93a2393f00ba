---------------------------- MODULE ManifestData ----------------------------
(* The objects of an election manifest and of the internal manifest that is
   made from it: how they are hashed, copied, checked, written to JSON and read
   back (manifest.cpp, serialize.hpp, and what hash.cpp makes of their parts).

   An object is a record of the members of its Impl; a null pointer is NULL.
   A text is the sequence of its languages. A hash is the tuple of what is
   hashed: equal hashes are equal tuples. Names, addresses and ids are strings
   of the instance, and what only ever travels with an id (a contest's name, a
   unit's type, the election's scope, type and dates, which are kept to the
   second) is part of it. A JSON object is a record of the keys that may be
   written; every reader takes an absent key like a null, and NULL is both.
   BSON and MessagePack hold the same objects.                               *)
EXTENDS Naturals, FiniteSets, SequencesExt

CONSTANTS NULL,        \* a null pointer, a JSON null, what absent values are hashed as
          OrderLimit   \* maxSequenceOrder wraps here: 2^32 in the code

Or(S) == S \cup {NULL}

Strings == STRING \cup {""}   \* (the provers do not know the empty one)
Texts == Seq(Strings)
Contacts == [name : Strings, addressLine : Texts, email : Texts, phone : Texts]
Units == [id : Strings, contact : Or(Contacts)]
Parties == [id : Strings, name : Or(Texts), abbreviation : Strings]
Candidates == [id : Strings, name : Or(Texts), partyId : Strings, imageUri : Strings, isWriteIn : BOOLEAN]
BallotStyles == [id : Strings, unitIds : Texts, partyIds : Texts, imageUri : Strings]
Selections == [id : Strings, candidateId : Strings, order : Nat]
Contests == [id : Strings, district : Strings, order : Nat, variation : Strings,
             elected : Nat, allowed : Nat, title : Or(Texts), subtitle : Or(Texts),
             selections : Seq(Selections), primaryPartyIds : Texts]
AllManifests == [scope : Strings, units : Seq(Units), parties : Seq(Parties),
                 candidates : Seq(Candidates), contests : Seq(Contests),
                 styles : Seq(BallotStyles), name : Or(Texts), contact : Or(Contacts)]

\* Null is none of the values it stands in for.
JsonTexts == [shape : {"array", "object"}, languages : Texts]
JsonContacts == [name : Or(Strings), address_line : Or(Texts), email : Or(Texts), phone : Or(Texts)]
ASSUME ManifestAssumption ==
  /\ OrderLimit \in Nat \ {0}
  /\ NULL \notin Nat \cup BOOLEAN \cup Strings \cup Seq(Or(Strings)) \cup Contacts
                 \cup BallotStyles \cup JsonTexts \cup JsonContacts

(***************************************************************************)
(* Hashes. Null pointers, empty strings, zeros and empty vectors are all    *)
(* hashed as the same string. The hash of a text without languages is the   *)
(* hash of something, though, and not that string.                          *)
(***************************************************************************)
OrNull(value, empty) == IF value = empty THEN NULL ELSE value

Each(Convert(_), s) == [i \in DOMAIN s |-> Convert(s[i])]

HashAll(hashes) == OrNull(hashes, <<>>)

HashText(t) == t

HashContact(c) ==
  <<OrNull(c.name, ""), OrNull(c.addressLine, <<>>), OrNull(c.email, <<>>), OrNull(c.phone, <<>>)>>

HashUnit(u) == <<u.id, IF u.contact # NULL THEN HashContact(u.contact) ELSE NULL>>

HashParty(p) == <<p.id, IF p.name # NULL THEN HashText(p.name) ELSE NULL, OrNull(p.abbreviation, "")>>

HashStyle(s) == <<s.id, OrNull(s.unitIds, <<>>), OrNull(s.partyIds, <<>>), OrNull(s.imageUri, "")>>

HashSelection(s) == <<s.id, OrNull(s.order, 0), s.candidateId>>

\* (primaryPartyIds are not hashed)
HashContest(c) ==
  <<c.id, OrNull(c.order, 0), c.district, c.variation,
    IF c.title # NULL THEN HashText(c.title) ELSE NULL,
    IF c.title # NULL THEN HashText(c.subtitle) ELSE NULL,
    OrNull(c.elected, 0), OrNull(c.allowed, 0), HashAll(Each(HashSelection, c.selections))>>

\* The parts are hashed in the order they are stored in; candidates are not hashed.
HashManifest(m) ==
  <<m.scope, IF m.name # NULL THEN HashText(m.name) ELSE NULL,
    IF m.name # NULL THEN HashContact(m.contact) ELSE NULL,
    HashAll(Each(HashUnit, m.units)), HashAll(Each(HashParty, m.parties)),
    HashAll(Each(HashContest, m.contests)), HashAll(Each(HashStyle, m.styles))>>

\* The null pointers that hashing, or copying, reads through.
HalfTitled(c) == c.title # NULL /\ c.subtitle = NULL
HashReadsNull(m) ==
  \/ m.name # NULL /\ m.contact = NULL
  \/ \E c \in ToSet(m.contests) : HalfTitled(c)

(***************************************************************************)
(* Constructors and copies.                                                 *)
(***************************************************************************)
DefaultVotes(variation, elected) == IF variation \in {"n_of_m", "one_of_m"} THEN elected ELSE 0

\* The getters of contests, selections and placeholders sort what they return.
Rank(s, i) ==
  Cardinality({j \in DOMAIN s : s[j].order < s[i].order \/ (s[j].order = s[i].order /\ j <= i)})
InOrder(s) == [n \in DOMAIN s |-> s[CHOOSE i \in DOMAIN s : Rank(s, i) = n]]

\* (std::sort leaves the order of equal numbers open.)
Numbered(s) == \A i, j \in DOMAIN s : s[i].order = s[j].order => i = j

CloneContest(c) ==
  IF c.title # NULL THEN [c EXCEPT !.primaryPartyIds = <<>>]
  ELSE [c EXCEPT !.primaryPartyIds = <<>>, !.subtitle = NULL,
                 !.allowed = DefaultVotes(c.variation, c.elected)]

(***************************************************************************)
(* Validation. ContestDescription::isValid, then Manifest::isValid.         *)
(***************************************************************************)
AllDistinct(values, s) == Cardinality(values \ {""}) = Len(s)
IdsOf(s) == {e.id : e \in ToSet(s)}

ContestIsValid(c) ==
  /\ c.elected <= Len(c.selections)
  /\ c.allowed = 0 \/ c.elected <= c.allowed
  /\ AllDistinct({s.candidateId : s \in ToSet(c.selections)}, c.selections)
  /\ AllDistinct(IdsOf(c.selections), c.selections)
  /\ Cardinality({s.order : s \in ToSet(c.selections)}) = Len(c.selections)

ManifestIsValid(m) ==
  LET units == IdsOf(m.units) \ {""} IN
    /\ AllDistinct(units, m.units)
    /\ AllDistinct(IdsOf(m.styles), m.styles)
    /\ \A s \in ToSet(m.styles) : s.unitIds # <<>> /\ ToSet(s.unitIds) \subseteq units
    /\ AllDistinct(IdsOf(m.parties), m.parties)
    /\ AllDistinct(IdsOf(m.candidates), m.candidates)
    /\ \A c \in ToSet(m.candidates) : c.partyId \in IdsOf(m.parties) \cup {""}
    /\ AllDistinct(IdsOf(m.contests), m.contests)
    /\ Cardinality({c.order : c \in ToSet(m.contests)}) = Len(m.contests)
    /\ \A c \in ToSet(m.contests) : ContestIsValid(c) /\ c.district \in units

(***************************************************************************)
(* The internal manifest: copies, with as many placeholders in each contest *)
(* as it has seats. The largest order of the selections is looked for in a  *)
(* variable that is narrower than the orders.                               *)
(***************************************************************************)
Narrow(n) == n % OrderLimit

LargestOrder(c) ==
  LET s == InOrder(c.selections)
      max[i \in 0..Len(s)] ==
        IF i = 0 THEN 0
        ELSE IF s[i].order > max[i - 1] THEN Narrow(s[i].order) ELSE max[i - 1]
  IN  max[Len(s)]

\* Mutant: the placeholders start at the largest order itself.
MaxSequenceOrder_NoIncrement(c) == LargestOrder(c)
MaxSequenceOrder(c) == Narrow(LargestOrder(c) + 1)

Placeholder(c, order) ==
  [id |-> <<c.id, order, "placeholder">>, candidateId |-> <<c.id, order, "candidate">>, order |-> order]

PlaceholdersOf(c) == [i \in 1..c.elected |-> Placeholder(c, MaxSequenceOrder(c) + i - 1)]

WithPlaceholders(c) ==
  LET copy == CloneContest(c) IN
    [id |-> copy.id, district |-> copy.district, order |-> copy.order, variation |-> copy.variation,
     elected |-> copy.elected, allowed |-> copy.allowed, title |-> copy.title, subtitle |-> copy.subtitle,
     selections |-> copy.selections, primaryPartyIds |-> copy.primaryPartyIds,
     placeholders |-> PlaceholdersOf(c)]

InternalManifest(m) ==
  LET contests == InOrder(m.contests) IN
    [units |-> m.units, candidates |-> m.candidates, styles |-> m.styles,
     contests |-> [i \in DOMAIN contests |-> WithPlaceholders(contests[i])],
     manifestHash |-> HashManifest(m)]

BallotStyle(internal, id) ==
  LET found == SelectInSeq(internal.styles, LAMBDA s : s.id = id)
  IN  IF found = 0 THEN NULL ELSE internal.styles[found]

\* Mutant: the search stops at the first unit.
Times_FirstUnit(style, c) == IF c.district = style.unitIds[1] THEN 1 ELSE 0

\* The contests of a style, one for each of its units that is the contest's district.
Times(style, c) == Cardinality({n \in DOMAIN style.unitIds : style.unitIds[n] = c.district})

ContestsFor(internal, style) ==
  LET contests == internal.contests
      found[i \in 0..Len(contests)] ==
        IF i = 0 THEN <<>>
        ELSE found[i - 1] \o [k \in 1..Times(style, contests[i]) |-> contests[i]]
  IN  InOrder(found[Len(contests)])

(***************************************************************************)
(* JSON.                                                                    *)
(***************************************************************************)
Read(value, default) == IF value # NULL THEN value ELSE default

\* The languages stand in an array; an object in its place cannot be read.
TextToJson(t) == IF t # NULL THEN [shape |-> "array", languages |-> t] ELSE NULL
TextFromJson(j) == IF j # NULL THEN j.languages ELSE <<>>
TextThrows(j) == j # NULL /\ j.shape # "array"

\* The object of a contact that says nothing has no keys, and is null.
ContactToJson(c) ==
  OrNull([name |-> OrNull(c.name, ""), address_line |-> OrNull(c.addressLine, <<>>),
          email |-> OrNull(c.email, <<>>), phone |-> OrNull(c.phone, <<>>)],
         [name |-> NULL, address_line |-> NULL, email |-> NULL, phone |-> NULL])

NoContact == [name |-> "", addressLine |-> <<>>, email |-> <<>>, phone |-> <<>>]

ContactFromJson(j) ==
  IF j = NULL THEN NoContact
  ELSE [name |-> Read(j.name, ""), addressLine |-> Read(j.address_line, <<>>),
        email |-> Read(j.email, <<>>), phone |-> Read(j.phone, <<>>)]

UnitToJson(u) ==
  [object_id |-> u.id,
   contact_information |-> IF u.contact # NULL THEN ContactToJson(u.contact) ELSE NULL]

\* Mutant: the contact is not read.
UnitFromJson_NoContact(j) == [id |-> j.object_id, contact |-> NULL]

UnitFromJson(j) ==
  [id |-> j.object_id,
   contact |-> IF j.contact_information # NULL THEN ContactFromJson(j.contact_information) ELSE NULL]

\* (A name that is absent is read as one without languages.)
PartyToJson(p) ==
  [object_id |-> p.id, abbreviation |-> OrNull(p.abbreviation, ""), name |-> TextToJson(p.name)]

PartyFromJson(j) ==
  [id |-> j.object_id, name |-> TextFromJson(j.name), abbreviation |-> Read(j.abbreviation, "")]

CandidateToJson(c) ==
  [object_id |-> c.id, is_write_in |-> OrNull(c.isWriteIn, FALSE), name |-> TextToJson(c.name),
   party_id |-> OrNull(c.partyId, ""), image_uri |-> OrNull(c.imageUri, "")]

CandidateFromJson(j) ==
  [id |-> j.object_id, name |-> TextFromJson(j.name), isWriteIn |-> Read(j.is_write_in, FALSE),
   partyId |-> Read(j.party_id, ""), imageUri |-> Read(j.image_uri, "")]

StyleToJson(s) ==
  [object_id |-> s.id, geopolitical_unit_ids |-> OrNull(s.unitIds, <<>>),
   party_ids |-> OrNull(s.partyIds, <<>>), image_uri |-> OrNull(s.imageUri, "")]

StyleFromJson(j) ==
  [id |-> j.object_id, unitIds |-> Read(j.geopolitical_unit_ids, <<>>),
   partyIds |-> Read(j.party_ids, <<>>), imageUri |-> Read(j.image_uri, "")]

SelectionToJson(s) == [object_id |-> s.id, candidate_id |-> s.candidateId, sequence_order |-> s.order]
SelectionFromJson(j) == [id |-> j.object_id, candidateId |-> j.candidate_id, order |-> j.sequence_order]

ContestToJson(c) ==
  [object_id |-> c.id, electoral_district_id |-> c.district, sequence_order |-> c.order,
   vote_variation |-> c.variation, number_elected |-> c.elected, votes_allowed |-> OrNull(c.allowed, 0),
   ballot_title |-> TextToJson(c.title), ballot_subtitle |-> TextToJson(c.subtitle),
   ballot_selections |-> Each(SelectionToJson, InOrder(c.selections))]

\* Mutant: one vote is allowed unless the file says otherwise.
VotesAllowedFromJson_One(j) == Read(j.votes_allowed, 1)
VotesAllowedFromJson(j) == Read(j.votes_allowed, DefaultVotes(j.vote_variation, j.number_elected))

ContestFromJson(j) ==
  [id |-> j.object_id, district |-> j.electoral_district_id, order |-> j.sequence_order,
   variation |-> j.vote_variation, elected |-> j.number_elected, allowed |-> VotesAllowedFromJson(j),
   title |-> IF j.ballot_title # NULL THEN TextFromJson(j.ballot_title) ELSE NULL,
   subtitle |-> IF j.ballot_subtitle # NULL THEN TextFromJson(j.ballot_subtitle) ELSE NULL,
   selections |-> Each(SelectionFromJson, j.ballot_selections), primaryPartyIds |-> <<>>]

\* Mutant: from the back.
ContestsToJson_Backwards(contests) == Each(ContestToJson, Reverse(contests))
ContestsToJson(contests) == Each(ContestToJson, InOrder(contests))

ManifestToJson(m) ==
  [election_scope_id |-> m.scope, geopolitical_units |-> Each(UnitToJson, m.units),
   parties |-> Each(PartyToJson, m.parties), candidates |-> Each(CandidateToJson, m.candidates),
   contests |-> ContestsToJson(m.contests), ballot_styles |-> Each(StyleToJson, m.styles),
   name |-> TextToJson(m.name),
   contact_information |-> IF m.contact # NULL THEN ContactToJson(m.contact) ELSE NULL]

\* Mutant: a contact that is absent is a null pointer.
ManifestContact_Null(j) ==
  IF j.contact_information # NULL THEN ContactFromJson(j.contact_information) ELSE NULL

\* The contact of a manifest is read only where there is a name, and is made then.
ManifestContact(j) == IF j.name # NULL THEN ContactFromJson(j.contact_information) ELSE NULL

ManifestFromJson(j) ==
  [scope |-> j.election_scope_id, units |-> Each(UnitFromJson, j.geopolitical_units),
   parties |-> Each(PartyFromJson, j.parties), candidates |-> Each(CandidateFromJson, j.candidates),
   contests |-> Each(ContestFromJson, j.contests), styles |-> Each(StyleFromJson, j.ballot_styles),
   name |-> IF j.name # NULL THEN TextFromJson(j.name) ELSE NULL, contact |-> ManifestContact(j)]

\* The title is wrapped once more on its way out.
WrappedText(t) == IF t # NULL THEN [shape |-> "object", languages |-> t] ELSE NULL

InternalContestToJson(c) ==
  [object_id |-> c.id, electoral_district_id |-> c.district, sequence_order |-> c.order,
   vote_variation |-> c.variation, number_elected |-> c.elected, votes_allowed |-> c.allowed,
   ballot_title |-> WrappedText(c.title), ballot_subtitle |-> WrappedText(c.subtitle),
   ballot_selections |-> Each(SelectionToJson, InOrder(c.selections)),
   ballot_placeholders |-> Each(SelectionToJson, InOrder(c.placeholders))]

InternalToJson(m) ==
  [manifest_hash |-> m.manifestHash, geopolitical_units |-> Each(UnitToJson, m.units),
   candidates |-> Each(CandidateToJson, m.candidates), ballot_styles |-> Each(StyleToJson, m.styles),
   contests |-> Each(InternalContestToJson, InOrder(m.contests))]

InternalThrows(j) == \E c \in ToSet(j.contests) : TextThrows(c.ballot_title)

\* A contest without a title is made by the constructor that sets votesAllowed itself.
InternalContestFromJson(j) ==
  LET titled == j.ballot_title # NULL IN
  [id |-> j.object_id, district |-> j.electoral_district_id, order |-> j.sequence_order,
   variation |-> j.vote_variation, elected |-> j.number_elected,
   allowed |-> IF titled THEN j.votes_allowed ELSE DefaultVotes(j.vote_variation, j.number_elected),
   title |-> IF titled THEN TextFromJson(j.ballot_title) ELSE NULL,
   subtitle |-> IF titled THEN TextFromJson(j.ballot_subtitle) ELSE NULL,
   selections |-> Each(SelectionFromJson, j.ballot_selections), primaryPartyIds |-> <<>>,
   placeholders |-> Each(SelectionFromJson, j.ballot_placeholders)]

InternalFromJson(j) ==
  [units |-> Each(UnitFromJson, j.geopolitical_units),
   candidates |-> Each(CandidateFromJson, j.candidates),
   contests |-> Each(InternalContestFromJson, j.contests),
   styles |-> Each(StyleFromJson, j.ballot_styles), manifestHash |-> j.manifest_hash]

(***************************************************************************)
(* The election context.                                                    *)
(***************************************************************************)
MakeContext(guardians, commitment, manifestHash, config, extendedData) ==
  LET base == <<guardians, manifestHash>> IN
    [guardians |-> guardians, commitmentHash |-> commitment, manifestHash |-> manifestHash,
     cryptoBaseHash |-> base, cryptoExtendedBaseHash |-> <<base, commitment>>,
     config |-> config, extendedData |-> extendedData, keyIsFixedBase |-> TRUE]

ContextToJson(c) ==
  [crypto_base_hash |-> c.cryptoBaseHash, crypto_extended_base_hash |-> c.cryptoExtendedBaseHash,
   commitment_hash |-> c.commitmentHash, manifest_hash |-> c.manifestHash,
   number_of_guardians |-> c.guardians, configuration |-> c.config,
   extended_data |-> OrNull(c.extendedData, <<>>)]

ContextFromJson(j) ==
  [guardians |-> j.number_of_guardians, commitmentHash |-> j.commitment_hash,
   manifestHash |-> j.manifest_hash, cryptoBaseHash |-> j.crypto_base_hash,
   cryptoExtendedBaseHash |-> j.crypto_extended_base_hash, config |-> j.configuration,
   extendedData |-> Read(j.extended_data, <<>>), keyIsFixedBase |-> TRUE]
=============================================================================
