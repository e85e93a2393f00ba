------------------------- MODULE ContestEncryption -------------------------
(***************************************************************************)
(* How a voter's marks in one contest become encrypted votes: encrypt.cpp  *)
(* (emplaceMissingValues, encryptContest, encryptSelection,                *)
(* getOvervoteAndWriteIns) and PlaintextBallotContest::isValid of          *)
(* ballot.cpp.  The ciphertexts are represented by the votes they encrypt; *)
(* their keys, nonces and proofs are the subject of BallotEncryption and   *)
(* ChaumPedersen.                                                          *)
(*                                                                         *)
(* The marks are whatever the caller passes: any order, repeated ids, ids  *)
(* that are not in the contest, any vote value.  There are two ways in:    *)
(* encryptBallot, which normalises the contest against the manifest before *)
(* it is validated, and encryptContest called directly, which validates    *)
(* the marks as they are.                                                  *)
(***************************************************************************)
EXTENDS Integers, Sequences, FiniteSets, FiniteSetsExt, SequencesExt

CONSTANTS
    Candidates,     \* the ids of the contest's selections, in sequence order
    WriteIns,       \* those of them whose candidate is a write-in
    Strangers,      \* ids that are not in the contest
    VoteLimit,      \* the vote counters wrap here (2^64 in the code)
    MaxMarks,       \* bound: marks a caller passes
    MaxAllowed      \* bound: votesAllowed of a contest

Ids == ToSet(Candidates)

ASSUME ContestAssumption ==
    /\ IsInjective(Candidates)
    /\ WriteIns \subseteq Ids
    /\ Strangers \cap Ids = {}
    /\ VoteLimit \in Nat /\ MaxMarks \in Nat /\ MaxAllowed \in Nat
    \* a list is shorter than its counters can count
    /\ Candidates \in Seq(Ids) /\ Len(Candidates) < VoteLimit

Vote == 0..(VoteLimit - 1)
Mark == [id : Ids \cup Strangers, vote : Vote]

\* ContestDescription::isValid, the two conditions on the numbers.  The ids are
\* distinct by the assumption on Candidates.
Description_isValid(d) ==
    /\ d.numberElected <= Len(Candidates)
    /\ d.votesAllowed = 0 \/ d.numberElected <= d.votesAllowed

Descriptions ==
    {d \in [numberElected : 0..Len(Candidates), votesAllowed : 0..MaxAllowed] :
        Description_isValid(d)}

VARIABLES
    description,    \* the contest in the manifest
    entry,          \* "encryptBallot" or "encryptContest"
    sameContest,    \* the marks are filed under this contest's id
    marks,          \* what the caller passed
    contest,        \* the PlaintextBallotContest that encryptContest is given
    validity,       \* is_valid_contest
    extendedData,   \* the overvote and write-in record
    normalized,     \* normalizedContest
    selectionCount,
    encrypted,      \* votes of the encrypted selections, real ones first
    phase

vars == << description, entry, sameContest, marks, contest, validity,
           extendedData, normalized, selectionCount, encrypted, phase >>

NoData == [overvote |-> FALSE, error_data |-> {}, write_ins |-> {}]

Init ==
    /\ description \in Descriptions
    /\ entry \in {"encryptBallot", "encryptContest"}
    /\ sameContest \in BOOLEAN
    /\ marks \in BoundedSeq(Mark, MaxMarks)
    /\ contest = << >> /\ normalized = << >>
    /\ validity = "SUCCESS"
    /\ extendedData = NoData
    /\ selectionCount = 0
    /\ encrypted = << >>
    /\ phase = "called"

-----------------------------------------------------------------------------
(* Normalisation: one selection per description, in its order, with the    *)
(* first mark for that id or, where there is none, selectionFrom's zero.   *)

MarksFor(ms, id) == {i \in 1..Len(ms) : ms[i].id = id}

FirstMark_Last(ms, id) == IF MarksFor(ms, id) = {} THEN 0 ELSE Max(MarksFor(ms, id))
\* The position of the mark the inner loop stops at, or 0.
FirstMark(ms, id) == IF MarksFor(ms, id) = {} THEN 0 ELSE Min(MarksFor(ms, id))

selectionFrom(id) == [id |-> id, vote |-> 0]

emplaceMissingValues(ms) ==
    [i \in 1..Len(Candidates) |->
        LET k == FirstMark(ms, Candidates[i])
        IN  IF k = 0 THEN selectionFrom(Candidates[i]) ELSE ms[k]]

\* contestFrom: the ballot says nothing about this contest.
contestFrom == emplaceMissingValues(<< >>)

\* encryptContests files the contests of the ballot style by id; encryptContest
\* called directly takes the contest it is given.
Enter ==
    /\ phase = "called"
    /\ \/ /\ entry = "encryptBallot"
          /\ contest' = IF sameContest THEN emplaceMissingValues(marks)
                                       ELSE contestFrom
       \/ entry = "encryptContest" /\ contest' = marks
    /\ phase' = "validate"
    /\ UNCHANGED << description, entry, sameContest, marks, validity,
                    extendedData, normalized, selectionCount, encrypted >>

-----------------------------------------------------------------------------
(* PlaintextBallotContest::isValid, with supportOvervotes = true.          *)

AddVotes(n, m) == (n + m.vote) % VoteLimit
votes(ms) ==
    LET upTo[i \in 0..Len(ms)] == IF i = 0 THEN 0 ELSE AddVotes(upTo[i - 1], ms[i])
    IN  upTo[Len(ms)]
numberMarked(ms) == Cardinality({i \in 1..Len(ms) : ms[i].vote >= 1})

IdMatches == entry = "encryptBallot" \/ sameContest

TooManyMarked_OffByOne(ms, d) == numberMarked(ms) > d.numberElected + 1
TooManyMarked(ms, d) == numberMarked(ms) > d.numberElected

TooManyVotes(ms, d) ==
    votes(ms) > (IF d.votesAllowed = 0 THEN d.numberElected ELSE d.votesAllowed)

Contest_isValid(ms, d) ==
    IF ~IdMatches THEN "INVALID_OBJECT_ID_ERROR"
    ELSE IF Len(ms) > Len(Candidates) THEN "TOO_MANY_SELECTIONS_ERROR"
    ELSE IF TooManyMarked(ms, d) \/ TooManyVotes(ms, d) THEN "OVERVOTE"
    ELSE "SUCCESS"

Validate ==
    /\ phase = "validate"
    /\ validity' = Contest_isValid(contest, description)
    /\ phase' = IF validity' \in {"SUCCESS", "OVERVOTE"} THEN "extended"
                                                         ELSE "refused"
    /\ UNCHANGED << description, entry, sameContest, marks, contest,
                    extendedData, normalized, selectionCount, encrypted >>

-----------------------------------------------------------------------------
(* getOvervoteAndWriteIns, then the contest is normalised (again).         *)

MarkedOnce(ms) == {ms[i].id : i \in {k \in 1..Len(ms) : ms[k].vote = 1}}

\* Mutant: the write-ins of an overvote are not recorded.
getOvervoteAndWriteIns_OvervoteOnly(ms, v) ==
    [overvote   |-> v = "OVERVOTE",
     error_data |-> IF v = "OVERVOTE" THEN MarkedOnce(ms) ELSE {},
     write_ins  |-> IF v = "OVERVOTE" THEN {} ELSE MarkedOnce(ms) \cap WriteIns]
getOvervoteAndWriteIns(ms, v) ==
    [overvote   |-> v = "OVERVOTE",
     error_data |-> IF v = "OVERVOTE" THEN MarkedOnce(ms) ELSE {},
     write_ins  |-> MarkedOnce(ms) \cap WriteIns]

RecordExtendedData ==
    /\ phase = "extended"
    /\ extendedData' = getOvervoteAndWriteIns(contest, validity)
    /\ normalized' = emplaceMissingValues(contest)
    /\ phase' = "real"
    /\ UNCHANGED << description, entry, sameContest, marks, contest, validity,
                    selectionCount, encrypted >>

-----------------------------------------------------------------------------
(* encryptSelection refuses any vote that is not 0 or 1.                   *)

Selection_isValid(vote) == vote <= 1

Encrypt(vote, next) ==
    \/ /\ Selection_isValid(vote)
       /\ encrypted' = Append(encrypted, vote)
       /\ phase' = next
    \/ /\ ~Selection_isValid(vote)
       /\ phase' = "refused"
       /\ UNCHANGED encrypted

\* An overvote encrypts zero for every real selection.
CountedVote(m) == IF validity = "OVERVOTE" THEN 0 ELSE m.vote

EncryptSelection ==
    /\ phase = "real"
    /\ LET i == Len(encrypted) + 1
       IN  \/ /\ i <= Len(normalized)
              /\ selectionCount' = (selectionCount + CountedVote(normalized[i]))
                                      % VoteLimit
              /\ Encrypt(CountedVote(normalized[i]), "real")
           \/ /\ i > Len(normalized)
              /\ phase' = "placeholder"
              /\ UNCHANGED << selectionCount, encrypted >>
    /\ UNCHANGED << description, entry, sameContest, marks, contest, validity,
                    extendedData, normalized >>

selectPlaceholder_UndervoteOnly == selectionCount < description.numberElected /\ validity # "OVERVOTE"
\* All placeholders of an overvote are selected; otherwise one per open seat.
selectPlaceholder ==
    \/ validity = "OVERVOTE"
    \/ selectionCount < description.numberElected

\* InternalManifest::generateContestsWithPlaceholders makes numberElected of them.
PlaceholderCount == description.numberElected

EncryptPlaceholder ==
    /\ phase = "placeholder"
    /\ \/ /\ Len(encrypted) < Len(Candidates) + PlaceholderCount
          /\ Encrypt(IF selectPlaceholder THEN 1 ELSE 0, "placeholder")
          /\ selectionCount' = IF selectPlaceholder /\ validity # "OVERVOTE"
                               THEN (selectionCount + 1) % VoteLimit
                               ELSE selectionCount
       \/ /\ Len(encrypted) = Len(Candidates) + PlaceholderCount
          /\ phase' = "verify"
          /\ UNCHANGED << selectionCount, encrypted >>
    /\ UNCHANGED << description, entry, sameContest, marks, contest, validity,
                    extendedData, normalized >>

\* CiphertextBallotContest::make proves that the accumulation encrypts
\* numberElected.  The proof verifies exactly when that is so.
Total(s) ==
    LET upTo[i \in 0..Len(s)] == IF i = 0 THEN 0 ELSE upTo[i - 1] + s[i]
    IN  upTo[Len(s)]

accumulation == Total(encrypted)

Verify ==
    /\ phase = "verify"
    /\ phase' = IF accumulation = description.numberElected THEN "done"
                                                            ELSE "refused"
    /\ UNCHANGED << description, entry, sameContest, marks, contest, validity,
                    extendedData, normalized, selectionCount, encrypted >>

Finished ==
    /\ phase \in {"done", "refused"}
    /\ UNCHANGED vars

Next == \/ Enter \/ Validate \/ RecordExtendedData \/ EncryptSelection
        \/ EncryptPlaceholder \/ Verify \/ Finished

Spec == Init /\ [][Next]_vars

-----------------------------------------------------------------------------
(* Properties.                                                             *)

\* What the voter asked for in encryptBallot: the first mark for each candidate.
Asked(id) ==
    LET at == {i \in 1..Len(marks) : sameContest /\ marks[i].id = id}
    IN  IF at = {} THEN 0 ELSE marks[Min(at)].vote

AskedFor == {id \in Ids : Asked(id) >= 1}

\* More candidates than seats, or more votes than the contest allows, counted
\* without the code's fixed width.
AskedTooMuch ==
    \/ Cardinality(AskedFor) > description.numberElected
    \/ Total([i \in 1..Len(Candidates) |-> Asked(Candidates[i])]) >
          IF description.votesAllowed = 0 THEN description.numberElected
                                          ELSE description.votesAllowed

Real(id) == encrypted[CHOOSE i \in 1..Len(Candidates) : Candidates[i] = id]

\* Whatever the marks, a contest that reaches the constant Chaum-Pedersen proof
\* encrypts exactly numberElected votes, so the verification that ends
\* encryptContest never fails: undervotes are filled with placeholders, and an
\* overvote has all its placeholders selected.
AlwaysSumsToNumberElected ==
    phase = "verify" => accumulation = description.numberElected

\* A ballot with no mark above 1 is never refused, whatever is missing,
\* repeated, unknown or overvoted on it.
HonestBallotAccepted ==
    (entry = "encryptBallot" /\ \A id \in Ids : Asked(id) <= 1)
       => phase # "refused"

\* encryptBallot encrypts what the voter asked for, or nothing at all if the
\* voter asked for too much: no mark for an unknown id and no second mark for
\* the same id changes the result.
VoterIntent ==
    (entry = "encryptBallot" /\ phase = "done") =>
       \A id \in Ids : Real(id) = IF AskedTooMuch THEN 0 ELSE Asked(id)

\* Overvote or not, the extended data has every write-in the voter marked; and an
\* overvote encrypts nothing the voter asked for, so its record is the only place
\* the selections survive: it names each candidate marked with a 1 and no other.
\* (One marked with more than 1 is left out, encrypt.cpp:355.)
ExtendedDataComplete ==
    (entry = "encryptBallot" /\ phase = "done") =>
       /\ extendedData.write_ins = {id \in WriteIns : Asked(id) = 1}
       /\ validity = "OVERVOTE" => extendedData.error_data = {id \in Ids : Asked(id) = 1}
=============================================================================
