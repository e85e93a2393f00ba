------------------------- MODULE ManifestLifecycle -------------------------
(* A manifest on its way from the one who writes it to the devices that encrypt
   ballots: it is saved and loaded any number of times, its hash goes into the
   election context, an internal manifest is made from it, which may be saved
   and loaded as well, a mediator compares the two hashes, and ballots of the
   manifest's styles, and of a style it does not know, are encrypted.
   (manifest.cpp, election.cpp, the mediator and the ballot level of
   encrypt.cpp; what encrypting a contest computes is in ContestEncryption.)  *)
EXTENDS ManifestData

CONSTANTS Manifests,   \* the manifests that are looked at
          Styles,      \* the ids of ballot styles that ballots ask for
          MaxLoads     \* bound: how often a manifest is saved and loaded

ASSUME ManifestsAssumption ==
  /\ Manifests \subseteq AllManifests /\ MaxLoads \in Nat
  /\ NULL \notin [style : Styles, contests : {NULL}]   \* (a ballot that was not encrypted)
  /\ \A m \in Manifests : /\ Numbered(m.contests)
                          /\ \A c \in ToSet(m.contests) : Numbered(c.selections)

VARIABLES
  original,   \* the manifest as it was put together
  manifest,   \* the manifest as it is now
  loads,      \* how often it was saved and loaded
  context,    \* the election context
  internal,   \* the internal manifest
  refused,    \* the constructor of the mediator threw
  mediator,   \* the mediator could be made
  ballot,     \* the last call that was to encrypt a ballot
  failed      \* "null" if a null pointer was read, "thrown" if a load threw

vars == <<original, manifest, loads, context, internal, refused, mediator, ballot, failed>>
setup == <<original, manifest, loads, context, internal, mediator, refused>>

Init ==
  /\ original \in Manifests /\ manifest = original /\ loads = 0
  /\ context = NULL /\ internal = NULL /\ ballot = NULL
  /\ refused = FALSE /\ mediator = FALSE /\ failed = "no"

Going == failed = "no" /\ ~refused
SettingUp == Going /\ ~mediator

\* Manifest::fromJson(manifest.toJson()), or the same through BSON or MessagePack.
SaveLoadManifest ==
  /\ SettingUp /\ loads < MaxLoads
  /\ manifest' = ManifestFromJson(ManifestToJson(manifest))
  /\ loads' = loads + 1
  /\ UNCHANGED <<original, context, internal, refused, mediator, ballot, failed>>

NewElection(manifestHash) == MakeContext("guardians", "commitment", manifestHash, "config", <<>>)

\* The context of the election is made from the manifest's hash.
NewContext ==
  /\ SettingUp /\ context = NULL
  /\ IF HashReadsNull(manifest) THEN failed' = "null" /\ UNCHANGED context
     ELSE /\ context' = NewElection(HashManifest(manifest))
          /\ UNCHANGED failed
  /\ UNCHANGED <<original, manifest, loads, internal, refused, mediator, ballot>>

SaveLoadContext ==
  /\ SettingUp /\ context # NULL
  /\ context' = ContextFromJson(ContextToJson(context))
  /\ UNCHANGED <<original, manifest, loads, internal, refused, mediator, ballot, failed>>

\* InternalManifest(manifest)
NewInternalManifest ==
  /\ SettingUp /\ internal = NULL
  /\ IF HashReadsNull(manifest) THEN failed' = "null" /\ UNCHANGED internal
     ELSE internal' = InternalManifest(manifest) /\ UNCHANGED failed
  /\ UNCHANGED <<original, manifest, loads, context, refused, mediator, ballot>>

SaveLoadInternalManifest ==
  /\ SettingUp /\ internal # NULL
  /\ LET j == InternalToJson(internal) IN
       IF InternalThrows(j) THEN failed' = "thrown" /\ UNCHANGED internal
       ELSE internal' = InternalFromJson(j) /\ UNCHANGED failed
  /\ UNCHANGED <<original, manifest, loads, context, refused, mediator, ballot>>

\* Mutant: the hashes are not compared.
NewMediator_Unchecked ==
  /\ SettingUp /\ internal # NULL /\ context # NULL
  /\ mediator' = TRUE
  /\ UNCHANGED <<original, manifest, loads, context, internal, refused, ballot, failed>>

\* EncryptionMediator(internal, context, device)
NewMediator ==
  /\ SettingUp /\ internal # NULL /\ context # NULL
  /\ IF internal.manifestHash # context.manifestHash THEN refused' = TRUE /\ UNCHANGED mediator
     ELSE mediator' = TRUE /\ UNCHANGED refused
  /\ UNCHANGED <<original, manifest, loads, context, internal, ballot, failed>>

\* The encrypted ballot, or none if encryptBallot or getContestsFor throws: what
\* was left out on the ballot is filled in for every contest of the style, and a
\* contest is encrypted under the hash of its description.
EncryptedBallot(id) ==
  LET style == BallotStyle(internal, id)
      Encrypted(c) == [id |-> c.id, descriptionHash |-> HashContest(c)]
  IN  [style |-> id, contests |-> IF style = NULL \/ style.unitIds = <<>> THEN NULL
                                  ELSE Each(Encrypted, ContestsFor(internal, style))]

Encrypt(id) ==
  /\ Going /\ mediator
  /\ ballot' = EncryptedBallot(id)
  /\ UNCHANGED setup /\ UNCHANGED failed

\* compactEncrypt fills in before anything is checked, and asks the style for its id.
CompactEncrypt(id) ==
  /\ Going /\ mediator
  /\ ballot' = EncryptedBallot(id)
  /\ failed' = IF BallotStyle(internal, id) = NULL THEN "null" ELSE failed
  /\ UNCHANGED setup

Next ==
  \/ SaveLoadManifest \/ NewContext \/ SaveLoadContext
  \/ NewInternalManifest \/ SaveLoadInternalManifest \/ NewMediator
  \/ \E id \in Styles : Encrypt(id) \/ CompactEncrypt(id)

Spec == Init /\ [][Next]_vars

-----------------------------------------------------------------------------
(***************************************************************************)
(* A manifest whose hash does not change when it is saved and loaded: its   *)
(* contests and selections are stored in the order of their numbers, every  *)
(* contact says something, every party has a name, and no contest has       *)
(* votesAllowed = 0 where the loaded one gets the number of seats.          *)
(***************************************************************************)
Canonical(m) ==
  /\ InOrder(m.contests) = m.contests
  /\ \A c \in ToSet(m.contests) :
       InOrder(c.selections) = c.selections /\ (c.allowed = 0 => DefaultVotes(c.variation, c.elected) = 0)
  /\ \A u \in ToSet(m.units) : u.contact # NULL => ContactToJson(u.contact) # NULL
  /\ \A p \in ToSet(m.parties) : p.name # NULL

\* Saving and loading keeps the hash of a manifest that can be hashed if it is
\* canonical, and changes it if it is not (toObject, fromObject, crypto_hash).
HashSurvives ==
  HashReadsNull(original) \/ HashReadsNull(manifest)
    \/ (HashManifest(manifest) = HashManifest(original) <=> loads = 0 \/ Canonical(original))

\* One load is enough: every later one gives the same manifest again.
LoadedIsStable == [][loads > 0 => manifest' = manifest]_vars

\* A device refuses the election's context only if the manifest that was put
\* together was not canonical, whoever saved and loaded what before; and one that
\* accepts it encrypts the contests of the manifest, first or loaded, whose hash is
\* in the base hash, and allows as many votes in each that has a title.
MediatorAgrees ==
  /\ refused => ~Canonical(original)
  /\ mediator => \E m \in {original, ManifestFromJson(ManifestToJson(original))} :
       /\ ~HashReadsNull(m)
       /\ context.cryptoExtendedBaseHash = NewElection(HashManifest(m)).cryptoExtendedBaseHash
       /\ Len(internal.contests) = Len(m.contests)
       /\ \A i \in DOMAIN internal.contests :
            LET c == InOrder(m.contests)[i] IN
              /\ internal.contests[i].id = c.id
              /\ c.title # NULL => internal.contests[i].allowed = c.allowed

\* isValid says the same of a manifest before and after it is saved and loaded.
ValidityKept == ManifestIsValid(manifest) <=> ManifestIsValid(original)

\* An encrypted ballot of a style whose units differ has every contest of these
\* units once, in order, under the hash the manifest's own contest has; but a
\* contest without a title loses a number of votes other than the default, and
\* its hash with it.
Unfaithful(c) == c.title = NULL /\ c.allowed # DefaultVotes(c.variation, c.elected)
BallotMatchesManifest ==
  LET style == BallotStyle(original, ballot.style) IN
    (/\ ballot # NULL /\ Canonical(original)
     /\ style # NULL /\ style.unitIds # <<>> /\ IsInjective(style.unitIds))
      => LET wanted == {i \in DOMAIN original.contests :
                          original.contests[i].district \in ToSet(style.unitIds)} IN
           /\ Len(ballot.contests) = Cardinality(wanted)
           /\ \A i \in wanted :
                LET c == original.contests[i]
                    cast == ballot.contests[Cardinality({j \in wanted : j <= i})]
                IN  cast.id = c.id /\ (cast.descriptionHash = HashContest(c) <=> ~Unfaithful(c))

\* As long as the next order fits maxSequenceOrder, a contest has a placeholder
\* for every seat, and no two of its selections and placeholders have one order.
PlaceholdersDistinct ==
  internal # NULL =>
    \A c \in ToSet(internal.contests) :
      (\A s \in ToSet(c.selections) : s.order + 1 < OrderLimit)
        => Cardinality({s.order : s \in ToSet(c.selections)} \cup {s.order : s \in ToSet(c.placeholders)})
             = Len(c.selections) + c.elected

\* A null pointer is read only for a title without subtitle, for the name of a
\* manifest without contact that was never loaded, and for a compact ballot of
\* an unknown style; loading an internal manifest throws only if a contest has
\* a title.
FailsOnlyWhen ==
  /\ failed = "null" =>
       \/ \E c \in ToSet(original.contests) : HalfTitled(c)
       \/ loads = 0 /\ original.name # NULL /\ original.contact = NULL
       \/ ballot # NULL /\ ballot.style \notin IdsOf(original.styles)
  /\ failed = "thrown" => \E c \in ToSet(original.contests) : c.title # NULL
=============================================================================
