----------------------- MODULE ChaumPedersenProtocol -----------------------
(* The life of a proof: a ciphertext is encrypted, ciphertexts may be added  *)
(* to it, a proof of a claim about it is made and perhaps cloned, and it is  *)
(* checked, against that statement or one that differs in the ciphertext,    *)
(* the key or the hash header.                                               *)
(*                                                                           *)
(* The hash is a random oracle: an input that was hashed before gives the    *)
(* same challenge, any other gives any challenge.                            *)
EXTENDS ChaumPedersen, FiniteSets

CONSTANTS
    Secrets,        \* secret keys
    NonceChoices,   \* nonces of encryptions
    Headers,        \* hash headers
    MaxAdded,       \* bound: ciphertexts added to the first one
    MaxClaim        \* bound: constants claimed

ASSUME Assumption ==
    /\ Secrets \subseteq 2..(Q - 1) /\ NonceChoices \subseteq 1..(Q - 1)
    /\ MaxAdded \in Nat /\ MaxClaim \in Nat
    /\ (Q - 1) * MaxClaim < P   \* c * L does not wrap: 2^256 * 2^64 < P
    /\ MaxAdded + 1 < Q /\ MaxClaim < Q    \* counts have 64 bits, Q has 256

VARIABLES
    at,             \* "encrypt", "prove", "proved", "verified"
    secret,         \* of the key the ciphertext and the proof are made with
    message,        \* the ciphertext
    r, total,       \* its nonce, and the plaintext it holds
    added,          \* how many ciphertexts were added
    header, kind, claim, proof,     \* what is proved, and how
    hashed,         \* what was hashed for the proof: [input, challenge]
    asked,          \* what the verifier was given: [message, secret, header]
    verdict

statement == <<secret, message, r, total, added>>
vars == <<at, statement, header, kind, claim, proof, hashed, asked, verdict>>

Nothing == [input |-> <<>>, challenge |-> 0]

----------------------------------------------------------------------------
Init ==
    /\ at = "encrypt"
    /\ secret \in Secrets
    /\ message = [pad |-> 1, data |-> 1]
    /\ r = 0 /\ total = 0 /\ added = 0
    /\ header \in Headers /\ kind = "none" /\ claim = 0
    /\ proof = <<>> /\ hashed = Nothing
    /\ asked = <<>> /\ verdict = FALSE

\* An encryption of 0 or 1, and a sum of encryptions with the sum of their
\* nonces: what a contest accumulates.
elgamalEncryptAndAdd ==
    /\ at \in {"encrypt", "prove"} /\ added <= MaxAdded
    /\ \E m \in {0, 1}, nonce \in NonceChoices :
          /\ message' = elgamalAdd(message, elgamalEncrypt(m, nonce, PublicKey(secret)))
          /\ r' = add_mod_q(r, nonce)
          /\ total' = total + m
    /\ added' = added + 1 /\ at' = "prove"
    /\ UNCHANGED <<secret, header, kind, claim, proof, hashed, asked, verdict>>

\* What is hashed for a proof of x with these commitments.
DisjunctiveInput(h, x, p) == <<h, x, p.a0, p.b0, p.a1, p.b1>>
ConstantInput(h, x, p) == <<h, x, p.a, p.b>>

Fields(f, g) == [x \in DOMAIN f \cup DOMAIN g |-> IF x \in DOMAIN f THEN f[x] ELSE g[x]]

\* DisjunctiveChaumPedersenProof::make and make_with_precomputed: the three
\* values are rand_q, derived nonces, or precomputed exponents.
makeDisjunctive ==
    /\ at = "prove"
    /\ \E vote \in {0, 1}, seeded \in BOOLEAN, x, y, z \in Zq, c \in Zq :
          LET k == PublicKey(secret)
              commitments == CASE vote = 0 /\ ~seeded -> ZeroCommitments(k, message, x, y, z)
                               [] vote = 1 /\ ~seeded -> OneCommitments(k, message, x, y, z)
                               [] vote = 0 /\ seeded  -> SeededZeroCommitments(k, message, x, y, z)
                               [] vote = 1 /\ seeded  -> SeededOneCommitments(k, message, x, y, z)
              responses == CASE vote = 0 /\ ~seeded -> ZeroResponses(r, c, x, y, z)
                             [] vote = 1 /\ ~seeded -> OneResponses(r, c, x, y, z)
                             [] vote = 0 /\ seeded  -> SeededZeroResponses(r, c, x, y, z)
                             [] vote = 1 /\ seeded  -> SeededOneResponses(r, c, x, y, z)
          IN  /\ claim' = vote
              /\ proof' = Fields(commitments, responses)
              /\ hashed' = [input |-> DisjunctiveInput(header, message, commitments),
                            challenge |-> c]
    /\ kind' = "disjunctive" /\ at' = "proved"
    /\ UNCHANGED <<statement, header, asked, verdict>>

\* ConstantChaumPedersenProof::make.
makeConstant ==
    /\ at = "prove"
    /\ \E constant \in 0..MaxClaim, u \in Zq, c \in Zq :
          LET commitments == ConstantCommitments(PublicKey(secret), u)
          IN  /\ claim' = constant
              /\ proof' = Fields(commitments, ConstantResponse(r, c, u, constant))
              /\ hashed' = [input |-> ConstantInput(header, message, commitments),
                            challenge |-> c]
    /\ kind' = "constant" /\ at' = "proved"
    /\ UNCHANGED <<statement, header, asked, verdict>>

\* DisjunctiveChaumPedersenProof::clone, which passes proof_one_pad twice; only
\* in SpecWithClones.
clone ==
    /\ at = "proved" /\ kind = "disjunctive"
    /\ proof' = [proof EXCEPT !.b1 = proof.a1]
    /\ UNCHANGED <<at, statement, header, kind, claim, hashed, asked, verdict>>

\* Ciphertexts that differ from x in one part; one is outside the subgroup.
Altered(x) == {[x EXCEPT !.pad = mul_mod_p(@, G)], [x EXCEPT !.data = mul_mod_p(@, G)],
               [x EXCEPT !.pad = P - @]}

Questions ==
    {[message |-> message, secret |-> s, header |-> header] : s \in Secrets}
    \cup {[message |-> message, secret |-> secret, header |-> h] : h \in Headers}
    \cup {[message |-> x, secret |-> secret, header |-> header] : x \in Altered(message)}

isValid ==
    /\ at = "proved"
    /\ \E question \in Questions :
          LET input == IF kind = "constant"
                       THEN ConstantInput(question.header, question.message, proof)
                       ELSE DisjunctiveInput(question.header, question.message, proof)
              k == PublicKey(question.secret)
          IN  \E c \in IF input = hashed.input THEN {hashed.challenge} ELSE Zq :
                 /\ asked' = question
                 /\ verdict' = IF kind = "constant"
                               THEN ConstantIsValid(proof, question.message, k, c)
                               ELSE DisjunctiveIsValid(proof, question.message, k, c)
    /\ at' = "verified"
    /\ UNCHANGED <<statement, header, kind, claim, proof, hashed>>

Verified == at = "verified" /\ UNCHANGED vars

Next == elgamalEncryptAndAdd \/ makeDisjunctive \/ makeConstant \/ isValid \/ Verified

Spec == Init /\ [][Next]_vars
SpecWithClones == Init /\ [][Next \/ clone]_vars

----------------------------------------------------------------------------
\* Properties.

SameStatement == asked.message = message /\ asked.secret = secret /\ asked.header = header

\* Challenges and responses are compared with (0, Q).
NonZero ==
    \A f \in {"c0", "c1", "v0", "v1"} \cup (IF kind = "constant" THEN {"c", "v"} ELSE {}) :
        f \in DOMAIN proof => proof[f] # 0

\* A proof of what the ciphertext holds is accepted, whichever way it was
\* made, whatever the random values, for single votes and for sums, except
\* when a challenge or a response happens to be zero (make against isValid).
HonestProofAccepted ==
    at = "verified" /\ SameStatement /\ claim = total => (verdict <=> NonZero)

\* A proof of what the ciphertext does not hold is not accepted.
WrongClaimRejected ==
    at = "verified" /\ SameStatement /\ claim # total => ~verdict

Residues == {g_pow_p(e) : e \in Zq}

\* The challenges to these commitments that have an answer the verifiers accept.
AnsweredDisjunctive(a0, b0, a1, b1) ==
    {x.c : x \in {y \in {[a0 |-> a0, b0 |-> b0, a1 |-> a1, b1 |-> b1, c0 |-> c0, c1 |-> c1,
                         c |-> add_mod_q(c0, c1), v0 |-> v0, v1 |-> v1] : c0, c1, v0, v1 \in Zq} :
                     DisjunctiveIsValid(y, message, PublicKey(secret), y.c)}}
AnsweredConstant(a, b, constant) ==
    {c \in Zq : \E v \in Zq :
        ConstantIsValid([a |-> a, b |-> b, c |-> c, v |-> v, constant |-> constant],
                        message, PublicKey(secret), c)}

\* A sum that is neither 0 nor 1 has no disjunctive proof, and none has a constant
\* proof of another constant: whatever commitments a prover chooses, and however
\* the sum was made, it can answer one challenge at most, so one it guessed
\* before it hashed.
ProofsSound ==
    at = "prove" =>
        /\ total \notin {0, 1} =>
             \A a0, b0, a1, b1 \in Residues : Cardinality(AnsweredDisjunctive(a0, b0, a1, b1)) <= 1
        /\ \A constant \in (0..MaxClaim) \ {total}, a, b \in Residues :
             Cardinality(AnsweredConstant(a, b, constant)) <= 1

\* A proof is for one ciphertext and one key: no other is accepted with it,
\* even if the hash of the other statement is the same.
BoundToStatement ==
    at = "verified" /\ claim = total /\ <<asked.message, asked.secret>> # <<message, secret>>
        => ~verdict

\* The transcript of a 0 can be the transcript of a 1 and the other way
\* around, whatever the nonce: a proof says nothing about the vote.
VoteHidden ==
    at = "proved" /\ kind = "disjunctive" /\ claim = total =>
        \A nonce \in Zq : \E u, v, w \in Zq :
            LET other == IF claim = 0 THEN OneResponses(nonce, proof.c, u, v, w)
                                      ELSE ZeroResponses(nonce, proof.c, u, v, w)
            IN  \A f \in DOMAIN other : proof[f] = other[f]

\* Decryption gives back a 0 or a 1, and finds no other sum.
DecryptsTotal ==
    at = "prove" => decrypt(message, secret) = IF total \in {0, 1} THEN total ELSE NotFound

\* Every documented clone() is "a deep copy" (elgamal.hpp:105, group.hpp:73; that
\* of proofs has no comment): a cloned proof should be accepted where the original is.
CloneAccepted ==
    at = "verified" /\ SameStatement /\ claim = total /\ NonZero => verdict
=============================================================================
