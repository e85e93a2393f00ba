-------------------------- MODULE BallotEncryption --------------------------
(***************************************************************************)
(* Whole ballots: the EncryptionMediator of encrypt.cpp with its chain of  *)
(* ballot codes, encryptBallot below it, and the compact ballots of        *)
(* ballot_compact.cpp, run by several threads that share one mediator and  *)
(* the precompute buffers.                                                 *)
(*                                                                         *)
(* What matters here is which nonce and which public key go into each      *)
(* ciphertext, and which seed into each ballot code.  A nonce is a term: a *)
(* random draw, or a hash of a nonce with something else (rand_q never     *)
(* repeats, hash_elems is injective).  A ballot code is the term that was  *)
(* hashed.  A proof verifies exactly if it was made under the key it is    *)
(* verified with.                                                          *)
(*                                                                         *)
(* A contest has one candidate and one placeholder, so a vote v encrypts   *)
(* v and 1 - v; how marks become votes is the subject of ContestEncryption.*)
(* The buffers are a pool with atomic operations; that this is what they   *)
(* are is shown in PrecomputeBuffers.                                      *)
(***************************************************************************)
EXTENDS Integers, Sequences, FiniteSets, SequencesExt

CONSTANTS
    Threads,        \* threads that use the mediator
    Ballots,        \* object ids of plaintext ballots, as numbers
    Votes,          \* what voters may want, of 0 and 1
    Modes,          \* how the mediator is called: the entry, with or without
                    \* verifyProofs
    ContestCount,   \* contests of the ballot style
    ElectionKey,    \* context.getElGamalPublicKey()
    OtherKeys,      \* keys of other elections populate may be called with
    DeviceHash,     \* encryptionDevice.getHash()
    Garbage,        \* what is read through a dangling reference
    Null,
    MaxCalls,       \* bound: mediator and expand calls and iterations of populate
    MaxPopulate     \* bound: iterations of populate among them

Keys == {ElectionKey} \cup OtherKeys

ASSUME BallotAssumption ==
    /\ Ballots \subseteq Nat /\ Votes \subseteq {0, 1}
    /\ Modes \subseteq [op : {"encrypt", "compactEncrypt"}, verify : BOOLEAN]
    /\ ContestCount \in Nat \ {0}
    /\ ElectionKey \notin OtherKeys
    /\ MaxCalls \in Nat /\ MaxPopulate \in Nat
    /\ DeviceHash # Garbage

VARIABLES
    pairs, triples,   \* the precompute buffers: sequences of [root, key]
    draws,            \* rand_q draws so far
    ballotCodeSeed,   \* the mediator's seed, a unique_ptr: << >> or << seed >>
    seedObject,       \* which heap object holds it: each store allocates one
    at, call,         \* the step and the data of each thread's call
    calls, populated, \* bounds
    \* History.
    uses,             \* every use of a nonce, in ciphertexts and proofs
    released,         \* ballots the mediator returned, in order of the stores
    compacts,         \* compact ballots among them
    expansions,       \* outcomes of expandCompactCiphertextBallot
    overlapped        \* two calls of the mediator have run at a time

pool == << pairs, triples >>
seedVars == << ballotCodeSeed, seedObject >>
history == << uses, released, compacts, expansions >>
vars == << pool, draws, seedVars, at, call, calls, populated, history, overlapped >>

Init ==
    /\ pairs = << >> /\ triples = << >>
    /\ draws = 0
    /\ ballotCodeSeed = << >> /\ seedObject = 0
    /\ at = [t \in Threads |-> "idle"]
    /\ call = [t \in Threads |-> Null]
    /\ calls = 0 /\ populated = 0
    /\ uses = {} /\ released = << >> /\ compacts = {} /\ expansions = {}
    /\ overlapped = FALSE

-----------------------------------------------------------------------------
(* Nonces.                                                                 *)

Random(n) == [draw |-> n]
\* hash_elems of a nonce with something else.
Hash(nonce, what, n, item) == [of |-> nonce, what |-> what, n |-> n, item |-> item]

\* CiphertextBallot::nonceSeed.  The manifest hash is the same for all ballots.
nonceSeed(c) == Hash(Random(c.root), "ballot", c.ballot, 0)

\* Nonces(header, seed).get(item): encryptContest takes item sequenceOrder for
\* the contest, and next() for the constant proof.
contestNonce(c) == Hash(nonceSeed(c), "contest", c.contest, c.contest)
chaumPedersenNonce(c) == Hash(nonceSeed(c), "contest", c.contest, c.contest + 1)

selectionNonce_Shared(c, slot) == contestNonce(c)
selectionNonce(c, slot) == Hash(contestNonce(c), "selection", slot, slot)
\* Both are item 0 of a sequence with a string as its header.
extendedDataNonce(c) == Hash(contestNonce(c), "constant-extended-data", 0, 0)
proofNonce(c) == Hash(chaumPedersenNonce(c), "constant-chaum-pedersen-proof", 0, 0)

\* Bound: calls and iterations of populate together.
MayCall == calls + populated < MaxCalls

-----------------------------------------------------------------------------
(* The precompute buffers, from another thread.                            *)

\* One iteration of populate: a pair, and for every third pair two triples.
populate ==
    /\ MayCall /\ populated < MaxPopulate
    /\ \E key \in Keys :
          LET value(n) == [root |-> draws + n, key |-> key]
          IN  /\ pairs' = Append(pairs, value(1))
              /\ \/ triples' = triples \o << value(2), value(3) >> /\ draws' = draws + 3
                 \/ UNCHANGED triples /\ draws' = draws + 1
    /\ populated' = populated + 1
    /\ UNCHANGED << seedVars, at, call, calls, history, overlapped >>

empty_queues ==
    /\ pairs # << >> \/ triples # << >>
    /\ pairs' = << >> /\ triples' = << >>
    /\ UNCHANGED << draws, seedVars, at, call, calls, populated, overlapped, history >>

\* What a getter leaves in the queue, and what the caller computes with: the
\* precomputed value, or the derived nonce under the election key if there is none.
AfterGet(q) == IF q = << >> THEN q ELSE Tail(q)
PrecomputedOr(q, nonce) ==
    IF q = << >> THEN [nonce |-> nonce, key |-> ElectionKey]
                 ELSE [nonce |-> Random(Head(q).root), key |-> Head(q).key]

-----------------------------------------------------------------------------
(* The entry points.                                                       *)

Goto(t, step) == at' = [at EXCEPT ![t] = step]
\* The call is over, with a result or an exception.  What it did to shared state
\* stays done.
Leave(t) == Goto(t, "idle") /\ call' = [call EXCEPT ![t] = Null]

Start(t, step, c) ==
    /\ at[t] = "idle" /\ MayCall
    /\ calls' = calls + 1
    /\ Goto(t, step)
    /\ call' = [call EXCEPT ![t] = c]

\* A call that has encrypted nothing yet.
NewCall(op, verify, ballot, vote, root, seed, expected) ==
    [op |-> op, verify |-> verify, ballot |-> ballot, vote |-> vote, root |-> root,
     seed |-> seed, object |-> 0, expected |-> expected, contest |-> 1,
     selections |-> << >>, extended |-> << >>, proofs |-> << >>]

\* EncryptionMediator::encrypt and compactEncrypt.
mediate(t) ==
    /\ \E mode \in Modes, b \in Ballots, v \in Votes :
          Start(t, "check_seed", NewCall(mode.op, mode.verify, b, v, 0, Null, Null))
    /\ overlapped' = (overlapped \/ \E u \in Threads : at[u] # "idle" /\ call[u].op # "expand")
    /\ UNCHANGED << pool, draws, seedVars, populated, history >>

\* expandCompactCiphertextBallot: encryptBallot with the nonce and the seed of
\* the compact ballot, and with the proofs verified.
ExpansionOf_FreshNonce(k, n) ==
    NewCall("expand", TRUE, k.ballot, k.vote, n, k.seed, k.code)
ExpansionOf(k, n) ==
    NewCall("expand", TRUE, k.ballot, k.vote, k.root, k.seed, k.code)

expand(t) ==
    /\ \E k \in compacts : Start(t, "selection", ExpansionOf(k, draws + 1))
    /\ UNCHANGED << pool, draws, seedVars, populated, overlapped, history >>

\* if (!ballotCodeSeed): a check, and a swap with the device hash.
check_seed(t) ==
    /\ at[t] = "check_seed"
    /\ Goto(t, IF ballotCodeSeed = << >> THEN "new_seed" ELSE "deref_seed")
    /\ UNCHANGED << pool, draws, seedVars, call, calls, populated, overlapped, history >>

new_seed(t) ==
    /\ at[t] = "new_seed"
    /\ ballotCodeSeed' = << DeviceHash >>
    /\ seedObject' = seedObject + 1
    /\ Goto(t, "deref_seed")
    /\ UNCHANGED << pool, draws, call, calls, populated, overlapped, history >>

\* encryptBallot is given a reference to the seed, and draws the ballot's nonce.
deref_seed(t) ==
    /\ at[t] = "deref_seed"
    /\ draws' = draws + 1
    /\ call' = [call EXCEPT ![t].seed = Head(ballotCodeSeed), ![t].object = seedObject,
                            ![t].root = draws + 1]
    /\ Goto(t, "selection")
    /\ UNCHANGED << pool, seedVars, calls, populated, overlapped, history >>

-----------------------------------------------------------------------------
(* encryptBallot.                                                          *)

\* A nonce and what it was used for.
Use(c, nonce, what, slot, vote) ==
    [nonce |-> nonce, root |-> c.root, ballot |-> c.ballot,
     contest |-> c.contest, what |-> what, slot |-> slot, vote |-> vote]

VoteFor(c, slot) == IF slot = 1 THEN c.vote ELSE 1 - c.vote

\* isValidEncryption of a selection and of a contest.
ValidUnder_Any(key) == TRUE
ValidUnder(key) == key = ElectionKey

\* Record the outcome of an expansion.
Outcome(c, o) == IF c.op = "expand" THEN expansions \cup {o} ELSE expansions

\* Unless verification is off, an object that is not valid is an exception;
\* otherwise the call goes on with its data c.
VerifyThenGoto(t, valid, step, c) ==
    IF c.verify /\ ~valid
    THEN Leave(t) /\ expansions' = Outcome(c, "threw")
    ELSE /\ Goto(t, step)
         /\ call' = [call EXCEPT ![t] = c]
         /\ UNCHANGED expansions

encryptSelection(t) ==
    /\ at[t] = "selection"
    /\ LET c == call[t]
           slot == Cardinality({i \in 1..Len(c.selections) :
                                   c.selections[i].contest = c.contest}) + 1
           e == PrecomputedOr(pairs, selectionNonce(c, slot))
           s == [contest |-> c.contest, slot |-> slot, vote |-> VoteFor(c, slot),
                 nonce |-> e.nonce, key |-> e.key]
       IN  /\ pairs' = AfterGet(pairs)
           /\ uses' = uses \cup {Use(c, e.nonce, "selection", slot, s.vote)}
           /\ VerifyThenGoto(t, ValidUnder(e.key),
                             IF slot = 2 THEN "extended" ELSE "selection",
                             [c EXCEPT !.selections = Append(@, s)])
    /\ UNCHANGED << triples, draws, seedVars, calls, populated, overlapped, released, compacts >>

\* hashedElgamalEncrypt of the overvote and write-in record.
hashedElgamalEncrypt(t) ==
    /\ at[t] = "extended"
    /\ LET c == call[t]
           e == PrecomputedOr(triples, extendedDataNonce(c))
       IN  /\ uses' = uses \cup {Use(c, e.nonce, "extended", 0, c.vote)}
           /\ call' = [call EXCEPT ![t].extended = Append(@, e.key)]
    /\ triples' = AfterGet(triples)
    /\ Goto(t, "contest")
    /\ UNCHANGED << pairs, draws, seedVars, calls, populated, overlapped, released, compacts,
                    expansions >>

NextContest(c) == IF c.contest < ContestCount THEN c.contest + 1 ELSE c.contest

\* CiphertextBallotContest::make with its constant proof, and its verification.
\* The accumulation is under the election key if the selections are.
makeContest(t) ==
    /\ at[t] = "contest"
    /\ LET c == call[t]
           e == PrecomputedOr(triples, proofNonce(c))
       IN  /\ uses' = uses \cup {Use(c, e.nonce, "proof", 0, c.vote)}
           /\ VerifyThenGoto(t, ValidUnder(e.key),
                 IF c.contest < ContestCount THEN "selection" ELSE "ballot",
                 [c EXCEPT !.proofs = Append(@, e.key),
                           !.contest = NextContest(c)])
    /\ triples' = AfterGet(triples)
    /\ UNCHANGED << pairs, draws, seedVars, calls, populated, overlapped, released, compacts >>

\* Reading the seed through the reference: if another call has stored a new seed
\* meanwhile, the object is freed, and may or may not still hold the value.
SeedRead(t) ==
    IF call[t].op = "expand" \/ call[t].object = seedObject
    THEN {call[t].seed} ELSE {call[t].seed, Garbage}

\* CiphertextBallot::make: the code hashes the seed and the ciphertexts, not
\* the proofs or the extended data.
BallotCode(c, seed) == [seed |-> seed, ballot |-> c.ballot, selections |-> c.selections]

\* CiphertextBallot::isValidEncryption checks every proof once more.
Ballot_isValidEncryption(c) ==
    /\ \A s \in ToSet(c.selections) : ValidUnder(s.key)
    /\ \A key \in ToSet(c.proofs) : ValidUnder(key)

makeBallot(t) ==
    /\ at[t] = "ballot"
    /\ \E seed \in SeedRead(t) :
          VerifyThenGoto(t, Ballot_isValidEncryption(call[t]),
             IF call[t].op = "expand" THEN "compare_code" ELSE "store_seed",
             [call[t] EXCEPT !.seed = seed])
    /\ UNCHANGED << pool, draws, seedVars, calls, populated, overlapped, uses, released,
                    compacts >>

\* The last check of expandCompactCiphertextBallot.
compare_code(t) ==
    /\ at[t] = "compare_code"
    /\ expansions' = Outcome(call[t],
          IF BallotCode(call[t], call[t].seed) = call[t].expected THEN "same"
                                                                  ELSE "threw")
    /\ Leave(t)
    /\ UNCHANGED << pool, draws, seedVars, calls, populated, overlapped, uses, released,
                    compacts >>

\* The mediator stores the code as the next seed and returns the ballot, or what
\* compressCiphertextBallot keeps of it.
NextSeed_Kept(c) == << c.seed >>
NextSeed(c) == << BallotCode(c, c.seed) >>

store_seed(t) ==
    /\ at[t] = "store_seed"
    /\ ballotCodeSeed' = NextSeed(call[t])
    /\ LET c == call[t]
           code == BallotCode(c, c.seed)
       IN  /\ released' = Append(released,
                 [seed |-> c.seed, code |-> code, verify |-> c.verify,
                  selections |-> c.selections, extended |-> c.extended,
                  proofs |-> c.proofs])
           /\ compacts' = IF c.op = "encrypt" THEN compacts
                          ELSE compacts \cup {[ballot |-> c.ballot, vote |-> c.vote,
                                  root |-> c.root, seed |-> c.seed, code |-> code]}
    /\ seedObject' = seedObject + 1
    /\ Leave(t)
    /\ UNCHANGED << pool, draws, calls, populated, overlapped, uses, expansions >>

\* All calls have returned and the bounds allow no more.
Quiescent ==
    /\ ~MayCall
    /\ \A t \in Threads : at[t] = "idle"
    /\ UNCHANGED vars

Next ==
    \/ populate \/ empty_queues \/ Quiescent
    \/ \E t \in Threads :
          \/ mediate(t) \/ expand(t)
          \/ check_seed(t) \/ new_seed(t) \/ deref_seed(t)
          \/ encryptSelection(t) \/ hashedElgamalEncrypt(t) \/ makeContest(t)
          \/ makeBallot(t) \/ compare_code(t) \/ store_seed(t)

Spec == Init /\ [][Next]_vars

-----------------------------------------------------------------------------
(* Properties.                                                             *)

\* A nonce is used for one thing only: one selection, extended data or proof of
\* one ballot, encrypting one vote.  Expanding a compact ballot repeats a use
\* exactly, so it reveals nothing new.
NonceSeparation == \A u, w \in uses : u.nonce = w.nonce => u = w

\* A ballot returned with its proofs verified is encrypted and proved under the
\* election's key throughout, whatever keys populate was called with.
VerifiedUnderElectionKey ==
    \A i \in 1..Len(released) : released[i].verify =>
       /\ \A s \in ToSet(released[i].selections) : s.key = ElectionKey
       /\ \A key \in ToSet(released[i].proofs) : key = ElectionKey

\* "this implementation chains each ballot encrypted by the mediator to every
\* subsequent ballot ... no gaps in the election record" (encrypt.cpp:143): each
\* ballot returned has the code of the previous one as its seed, the first the
\* device's hash, also when calls in between have thrown, were verified or not,
\* or gave a compact ballot, as long as two calls never run at a time.
ChainUnbroken ==
    ~overlapped => \A i \in 1..Len(released) :
       released[i].seed = IF i = 1 THEN DeviceHash ELSE released[i - 1].code

\* Expanding a compact ballot yields the ballot with the same code when all its
\* nonces are derived from the one the compact ballot stores, whatever the
\* mediator does in other threads meanwhile.
DerivedExpansion == populated = 0 => expansions \subseteq {"same"}

\* ballot_compact.hpp:115 "includes the encryption parameters to properly
\* re-encrypt the same ballot": the same, with precomputed values or without.
ExpandReproduces == expansions \subseteq {"same"}
=============================================================================
