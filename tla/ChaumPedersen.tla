--------------------------- MODULE ChaumPedersen ---------------------------
(* ElGamal ciphertexts and the two Chaum-Pedersen proofs about them, over a  *)
(* small group: a prime P, a prime Q that divides P - 1, a generator G of    *)
(* the subgroup of order Q (elgamal.cpp, chaum_pedersen.cpp).                *)
(*                                                                           *)
(* Random values, derived nonces and precomputed exponents are parameters:   *)
(* ChaumPedersenProtocol makes and checks proofs with all of them.           *)
EXTENDS Integers

CONSTANTS P, Q, G

\* P and Q are primes: every number but zero has an inverse.
ASSUME GroupAssumption ==
    /\ P \in Nat /\ Q \in Nat /\ G \in 2..(P - 1)
    /\ 2 < Q /\ Q < P
    /\ \A x \in 1..(P - 1) : \E y \in 1..(P - 1) : (x * y) % P = 1
    /\ \A x \in 1..(Q - 1) : \E y \in 1..(Q - 1) : (x * y) % Q = 1

Zq == 0..(Q - 1)

----------------------------------------------------------------------------
\* The group.

PowerTable ==
    [b \in 0..(P - 1) |->
        LET power[e \in 0..(P - 1)] == IF e = 0 THEN 1 ELSE (power[e - 1] * b) % P
        IN  power]

pow_mod_p(b, e) == PowerTable[b][e]
g_pow_p(e) == pow_mod_p(G, e)
mul_mod_p(a, b) == (a * b) % P
add_mod_q(a, b) == (a + b) % Q
sub_mod_q(a, b) == (a - b) % Q
a_plus_bc_mod_q(a, b, c) == (a + b * c) % Q
sub_from_q(a) == Q - a

isValidResidue(x) == 0 < x /\ x < P /\ pow_mod_p(x, Q) = 1
isInBounds(x) == 0 < x /\ x < Q

PublicKey(s) == g_pow_p(s)

\* The order of G divides Q, so it is Q.
ASSUME GeneratorAssumption == g_pow_p(Q) = 1

----------------------------------------------------------------------------
\* Ciphertexts.

elgamalEncrypt(m, nonce, k) ==
    [pad |-> g_pow_p(nonce),
     data |-> IF m = 1 THEN mul_mod_p(G, pow_mod_p(k, nonce)) ELSE pow_mod_p(k, nonce)]

\* Mutant: the pads are not multiplied.
elgamalAdd_FirstPad(x, y) == [pad |-> x.pad, data |-> mul_mod_p(x.data, y.data)]

elgamalAdd(x, y) == [pad |-> mul_mod_p(x.pad, y.pad), data |-> mul_mod_p(x.data, y.data)]

NotFound == -1

\* The data divided by pad^secret, compared with 1 and G.
decrypt(x, s) ==
    LET divisor == pow_mod_p(x.pad, s)
        quotient == CHOOSE d \in 0..(P - 1) : mul_mod_p(d, divisor) = x.data
    IN  IF quotient = 1 THEN 0 ELSE IF quotient = G THEN 1 ELSE NotFound

----------------------------------------------------------------------------
\* The disjunctive proof, "the ciphertext holds a 0 or a 1".

\* The commitments of a proof that the plaintext is 0: branch 0 is honest and
\* branch 1 is made up.  Both have the same form whether u, v and w are drawn
\* or are the exponents of a precomputed triple and quadruple.
ZeroCommitments(k, x, u, v, w) ==
    [a0 |-> g_pow_p(u), b0 |-> pow_mod_p(k, u),
     a1 |-> g_pow_p(v), b1 |-> mul_mod_p(g_pow_p(w), pow_mod_p(k, v))]

\* Mutant: the response of the honest branch uses the whole challenge.
ZeroResponses_WholeChallenge(nonce, c, u, v, w) ==
    [c0 |-> sub_mod_q(c, w), c1 |-> w, c |-> c,
     v0 |-> a_plus_bc_mod_q(u, c, nonce), v1 |-> a_plus_bc_mod_q(v, w, nonce)]

\* Mutant: one random value commits both branches.
ZeroResponses_SharedNonce(nonce, c, u, v, w) ==
    LET c0 == sub_mod_q(c, w)
    IN  [c0 |-> c0, c1 |-> w, c |-> c,
         v0 |-> a_plus_bc_mod_q(u, c0, nonce), v1 |-> a_plus_bc_mod_q(u, w, nonce)]

ZeroResponses(nonce, c, u, v, w) ==
    LET c0 == sub_mod_q(c, w)
    IN  [c0 |-> c0, c1 |-> w, c |-> c,
         v0 |-> a_plus_bc_mod_q(u, c0, nonce), v1 |-> a_plus_bc_mod_q(v, w, nonce)]

OneCommitments(k, x, u, v, w) ==
    [a0 |-> g_pow_p(v), b0 |-> mul_mod_p(g_pow_p(w), pow_mod_p(k, v)),
     a1 |-> g_pow_p(u), b1 |-> pow_mod_p(k, u)]

OneResponses(nonce, c, u, v, w) ==
    LET c0 == sub_mod_q(Q, w)
        c1 == add_mod_q(c, w)
    IN  [c0 |-> c0, c1 |-> c1, c |-> c,
         v0 |-> a_plus_bc_mod_q(v, c0, nonce), v1 |-> a_plus_bc_mod_q(u, c1, nonce)]

\* With a seed, three nonces are derived from it: the challenge and response
\* of the branch that is made up, and the commitment of the other.
SeededZeroCommitments(k, x, u0, v1, c1) ==
    [a0 |-> g_pow_p(u0), b0 |-> pow_mod_p(k, u0),
     a1 |-> mul_mod_p(g_pow_p(v1), pow_mod_p(x.pad, sub_from_q(c1))),
     b1 |-> mul_mod_p(mul_mod_p(pow_mod_p(k, v1), g_pow_p(c1)),
                      pow_mod_p(x.data, sub_from_q(c1)))]

SeededZeroResponses(nonce, c, u0, v1, c1) ==
    LET c0 == sub_mod_q(c, c1)
    IN  [c0 |-> c0, c1 |-> c1, c |-> c, v0 |-> a_plus_bc_mod_q(u0, c0, nonce), v1 |-> v1]

SeededOneCommitments(k, x, u1, v0, c0) ==
    [a0 |-> mul_mod_p(g_pow_p(v0), pow_mod_p(x.pad, sub_from_q(c0))),
     b0 |-> mul_mod_p(pow_mod_p(k, v0), pow_mod_p(x.data, sub_from_q(c0))),
     a1 |-> g_pow_p(u1), b1 |-> pow_mod_p(k, u1)]

SeededOneResponses(nonce, c, u1, v0, c0) ==
    LET c1 == sub_mod_q(c, c0)
    IN  [c0 |-> c0, c1 |-> c1, c |-> c, v0 |-> v0, v1 |-> a_plus_bc_mod_q(u1, c1, nonce)]

\* Mutants: the equations of the data are left out, for both branches or one.
DisjunctiveIsValid_PadsOnly(p, x, k, c) ==
    /\ add_mod_q(p.c0, p.c1) = p.c /\ p.c = c
    /\ g_pow_p(p.v0) = mul_mod_p(p.a0, pow_mod_p(x.pad, p.c0))
    /\ g_pow_p(p.v1) = mul_mod_p(p.a1, pow_mod_p(x.pad, p.c1))

DisjunctiveIsValid_ZeroDataOnly(p, x, k, c) ==
    /\ DisjunctiveIsValid_PadsOnly(p, x, k, c)
    /\ pow_mod_p(k, p.v0) = mul_mod_p(p.b0, pow_mod_p(x.data, p.c0))

\* The verifier's checks; c is the hash it computes.
DisjunctiveIsValid(p, x, k, c) ==
    /\ \A e \in {x.pad, x.data, p.a0, p.b0, p.a1, p.b1} : isValidResidue(e)
    /\ \A e \in {p.c0, p.c1, p.v0, p.v1} : isInBounds(e)
    /\ add_mod_q(p.c0, p.c1) = p.c /\ p.c = c
    /\ g_pow_p(p.v0) = mul_mod_p(p.a0, pow_mod_p(x.pad, p.c0))
    /\ g_pow_p(p.v1) = mul_mod_p(p.a1, pow_mod_p(x.pad, p.c1))
    /\ pow_mod_p(k, p.v0) = mul_mod_p(p.b0, pow_mod_p(x.data, p.c0))
    /\ mul_mod_p(g_pow_p(p.c1), pow_mod_p(k, p.v1)) = mul_mod_p(p.b1, pow_mod_p(x.data, p.c1))

----------------------------------------------------------------------------
\* The constant proof, "the ciphertext holds the constant".

ConstantCommitments(k, u) == [a |-> g_pow_p(u), b |-> pow_mod_p(k, u)]

ConstantResponse(nonce, c, u, constant) ==
    [c |-> c, v |-> a_plus_bc_mod_q(u, c, nonce), constant |-> constant]

\* Mutant: the constant is left out of the equation.
ConstantIsValid_AnyConstant(p, x, k, c) ==
    /\ isInBounds(p.c) /\ isInBounds(p.v) /\ p.c = c
    /\ g_pow_p(p.v) = mul_mod_p(p.a, pow_mod_p(x.pad, p.c))
    /\ mul_mod_p(g_pow_p(p.c), pow_mod_p(k, p.v)) = mul_mod_p(p.b, pow_mod_p(x.data, p.c))

ConstantIsValid(p, x, k, c) ==
    /\ \A e \in {x.pad, x.data, p.a, p.b} : isValidResidue(e)
    /\ isInBounds(p.c) /\ isInBounds(p.v)
    /\ p.c = c
    /\ g_pow_p(p.v) = mul_mod_p(p.a, pow_mod_p(x.pad, p.c))
    /\ mul_mod_p(g_pow_p(mul_mod_p(p.c, p.constant)), pow_mod_p(k, p.v)) =
            mul_mod_p(p.b, pow_mod_p(x.data, p.c))
=============================================================================
