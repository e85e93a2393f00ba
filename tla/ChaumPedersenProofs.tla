------------------------ MODULE ChaumPedersenProofs ------------------------
(* Proofs about ChaumPedersenProtocol, for every prime P, prime Q and         *)
(* generator G: what holds of numbers in the exponent holds of the group.     *)
EXTENDS ChaumPedersenProtocol, ArithmeticLemmas, FiniteSetTheorems

----------------------------------------------------------------------------
(* The group.                                                                *)

\* G to the power of any integer.
GPower(x) == PowerMod(G, x % Q, P)

\* What the assumptions say of the constants.
LEMMA Moduli ==
    /\ P \in Nat \ {0, 1} /\ Q \in Nat \ {0, 1} /\ P \in Nat \ {0} /\ Q \in Nat \ {0}
    /\ P \in Int /\ Q \in Int /\ 2 < Q /\ Q < P /\ G \in Nat /\ G \in 2..(P - 1)
BY GroupAssumption

\* Multiples of Q do not change the exponent.
LEMMA ModSame ==
    ASSUME NEW x \in Int, NEW y \in Int
    PROVE  /\ x % Q \in 0..(Q - 1) /\ x % Q \in Nat
           /\ (x % Q) % Q = x % Q
           /\ \E k \in Int : x = (x % Q) + Q * k
           /\ (x + Q * y) % Q = x % Q
           /\ ((x % Q) + (y % Q)) % Q = (x + y) % Q
           /\ x % Q = y % Q <=> (x - y) % Q = 0
<1>1. Q \in Nat \ {0} BY Moduli
<1>2. x % Q \in 0..(Q - 1) /\ y % Q \in 0..(Q - 1) BY <1>1, DivMod
<1>3. x % Q \in Int /\ y % Q \in Int /\ x % Q \in Nat BY <1>1, <1>2
<1>4. (x % Q) % Q = x % Q BY <1>1, <1>2, ModOfSmall
<1>5. PICK k \in Int : x = Q * k + (x % Q) BY <1>1, DivMod
<1>6. x = (x % Q) + Q * k BY <1>1, <1>3, <1>5
<1>7. PICK j \in Int : y = Q * j + (y % Q) BY <1>1, DivMod
<1>8. (x + Q * y) % Q = x % Q BY <1>1, ModAddMultiple
<1>9. ((x % Q) + (y % Q)) % Q = (x + y) % Q
  <2>1. ((x % Q) + (y % Q)) % Q = ((x % Q) + y) % Q BY <1>1, <1>3, ModOfSum
  <2>2. (y + (x % Q)) % Q = (y + x) % Q BY <1>1, ModOfSum
  <2>3. (x % Q) + y = y + (x % Q) /\ x + y = y + x BY <1>3
  <2>4. QED BY <2>1, <2>2, <2>3
<1>10. x % Q = y % Q => (x - y) % Q = 0
  <2> SUFFICES ASSUME x % Q = y % Q PROVE (x - y) % Q = 0 OBVIOUS
  <2> DEFINE a == x % Q
             b == y % Q
  <2>1. a \in Int /\ b = a BY <1>3
  <2>2. x = Q * k + a /\ y = Q * j + b BY <1>5, <1>7
  <2> HIDE DEF a, b
  <2>3. Q * k \in Int /\ Q * j \in Int /\ Q * (k - j) = Q * k - Q * j BY <1>1
  <2>4. x - y = 0 + Q * (k - j) BY <2>1, <2>2, <2>3
  <2>5. (0 + Q * (k - j)) % Q = 0 % Q
    <3>1. 0 \in Int /\ k - j \in Int OBVIOUS
    <3>2. QED BY <1>1, <3>1, ModAddMultiple
  <2>6. 0 % Q = 0
    <3>1. 0 \in 0..(Q - 1) BY <1>1
    <3>2. QED BY <1>1, <3>1, ModOfSmall
  <2>7. QED BY <2>4, <2>5, <2>6
<1>11. (x - y) % Q = 0 => x % Q = y % Q
  <2> SUFFICES ASSUME (x - y) % Q = 0 PROVE x % Q = y % Q OBVIOUS
  <2>1. x - y \in Int OBVIOUS
  <2>2. PICK i \in Int : x - y = Q * i + ((x - y) % Q) BY <1>1, <2>1, DivMod
  <2>3. Q * i \in Int BY <1>1
  <2>4. x = y + Q * i BY <2>2, <2>3
  <2>5. (y + Q * i) % Q = y % Q BY <1>1, ModAddMultiple
  <2>6. QED BY <2>4, <2>5
<1>12. QED BY <1>2, <1>3, <1>4, <1>6, <1>8, <1>9, <1>10, <1>11

\* The table holds the powers.
LEMMA TableHoldsPowers ==
    ASSUME NEW b \in 0..(P - 1), NEW e \in 0..(P - 1)
    PROVE  pow_mod_p(b, e) = PowerMod(b, e, P)
<1> DEFINE m == P - 1
           power[n \in 0..m] == IF n = 0 THEN 1 ELSE (power[n - 1] * b) % P
           f == [n \in 0..m |-> PowerMod(b, n, P)]
<1>1. P \in Nat \ {0, 1} /\ m \in Nat /\ b \in Nat BY Moduli
<1>2. f = [n \in 0..m |-> IF n = 0 THEN 1 ELSE (f[n - 1] * b) % P]
  <2>1. f[0] = 1 BY <1>1, PowerModRecursion
  <2>2. ASSUME NEW n \in 0..m, n # 0 PROVE f[n] = (f[n - 1] * b) % P
    <3>1. n - 1 \in 0..m /\ n - 1 \in Nat /\ n - 1 + 1 = n BY <1>1, <2>2
    <3>2. PowerMod(b, n - 1 + 1, P) = (PowerMod(b, n - 1, P) * b) % P
      BY <1>1, <3>1, PowerModRecursion
    <3>3. QED BY <3>1, <3>2
  <2>3. QED BY <2>1, <2>2
<1>3. power = [n \in 0..m |-> IF n = 0 THEN 1 ELSE (power[n - 1] * b) % P] BY <1>2
<1>4. pow_mod_p(b, e) = power[e] BY DEF pow_mod_p, PowerTable
<1> HIDE DEF power, m
<1> DEFINE A == {n \in Nat : power[n] = PowerMod(b, n, P)}
<1>5. 0 \in A
  <2>1. power[0] = 1
    <3>1. 0 \in 0..m BY <1>1
    <3>2. QED BY <1>3, <3>1
  <2>2. QED BY <1>1, <2>1, PowerModRecursion
<1>6. ASSUME NEW n \in Nat, n < m, n \in A PROVE n + 1 \in A
  <2>1. n + 1 \in 0..m /\ n + 1 # 0 /\ n + 1 - 1 = n BY <1>1, <1>6
  <2>2. power[n + 1] = (power[n] * b) % P
    <3>1. \A k \in 0..m : k # 0 => power[k] = (power[k - 1] * b) % P BY <1>3, Zenon
    <3>2. QED BY <2>1, <3>1
  <2>3. PowerMod(b, n + 1, P) = (PowerMod(b, n, P) * b) % P BY <1>1, PowerModRecursion
  <2>4. power[n] = PowerMod(b, n, P) BY <1>6
  <2>5. power[n + 1] = PowerMod(b, n + 1, P) BY <2>2, <2>3, <2>4
  <2>6. QED BY <2>5
<1> HIDE DEF A
<1>7. 0..m \subseteq A BY <1>1, <1>5, <1>6, BoundedInduction
<1>8. e \in A BY <1>7 DEF m
<1>9. QED BY <1>4, <1>8 DEF A

\* The exponent may be reduced.
LEMMA PowerReduced ==
    ASSUME NEW n \in Nat PROVE PowerMod(G, n, P) = GPower(n)
<1>1. PowerMod(G, Q, P) = 1
  <2>1. G \in 0..(P - 1) /\ Q \in 0..(P - 1) BY Moduli
  <2>2. QED BY <2>1, TableHoldsPowers, GeneratorAssumption DEF g_pow_p
<1>2. PICK d \in Nat, e \in Nat : n = Q * d + e /\ e = n % Q
  <2>1. n \in Int /\ n >= 0 OBVIOUS
  <2>2. /\ n = Q * (n \div Q) + (n % Q) /\ n \div Q \in Nat /\ n % Q \in 0..(Q - 1)
    BY <2>1, Moduli, DivMod
  <2>3. n % Q \in Nat BY <2>2
  <2>4. QED BY <2>2, <2>3
<1>3. Q * d \in Nat BY Moduli
<1>4. PowerMod(G, Q * d, P) = 1
  <2>1. PowerMod(PowerMod(G, Q, P), d, P) = PowerMod(G, Q * d, P)
    BY Moduli, PowerModProduct
  <2>2. QED BY <1>1, <2>1, Moduli, PowerModOfOne
<1>5. PowerMod(G, Q * d + e, P) = (PowerMod(G, Q * d, P) * PowerMod(G, e, P)) % P
  BY <1>3, Moduli, PowerModSum
<1>6. PowerMod(G, e, P) \in 0..(P - 1) BY Moduli, PowerModRecursion
<1>7. 1 * PowerMod(G, e, P) = PowerMod(G, e, P) BY <1>6, Moduli
<1>8. PowerMod(G, e, P) % P = PowerMod(G, e, P) BY <1>6, Moduli, ModOfSmall
<1>9. QED BY <1>2, <1>4, <1>5, <1>7, <1>8 DEF GPower

\* Products of powers are powers.
LEMMA GPowerSum ==
    ASSUME NEW x \in Int, NEW y \in Int
    PROVE  mul_mod_p(GPower(x), GPower(y)) = GPower(x + y)
<1> DEFINE a == x % Q
           b == y % Q
<1>1. a \in Nat /\ b \in Nat /\ a + b \in Nat
  <2>1. a \in Nat BY ModSame
  <2>2. b \in Nat BY ModSame
  <2> HIDE DEF a, b
  <2>3. QED BY <2>1, <2>2
<1>2. (a + b) % Q = (x + y) % Q BY ModSame
<1>3. PowerMod(G, a + b, P) = (PowerMod(G, a, P) * PowerMod(G, b, P)) % P
  BY <1>1, Moduli, PowerModSum
<1>4. PowerMod(G, a + b, P) = GPower(a + b) BY <1>1, PowerReduced
<1>5. QED BY <1>2, <1>3, <1>4 DEF GPower, mul_mod_p

\* The first two powers.
LEMMA GPowerZero == GPower(0) = 1 /\ GPower(1) = G
<1>1. 0 \in Nat /\ 1 \in Nat /\ 0 + 1 = 1 OBVIOUS
<1>2. PowerMod(G, 0, P) = 1 BY Moduli, PowerModRecursion
<1>3. PowerMod(G, 0 + 1, P) = (PowerMod(G, 0, P) * G) % P BY <1>1, Moduli, PowerModRecursion
<1>4. 1 * G = G /\ G \in 0..(P - 1) BY Moduli
<1>5. G % P = G BY <1>4, Moduli, ModOfSmall
<1>6. \A n \in Nat : GPower(n) = PowerMod(G, n, P) BY PowerReduced
<1>7. QED BY <1>1, <1>2, <1>3, <1>4, <1>5, <1>6

\* A power of G is in the group: it is not zero.
LEMMA GPowerType ==
    ASSUME NEW x \in Int
    PROVE  GPower(x) \in 1..(P - 1) /\ GPower(x) \in 0..(P - 1) /\ GPower(x) \in Nat
<1>1. x % Q \in Nat BY ModSame
<1>2. GPower(x) \in 0..(P - 1) BY <1>1, Moduli, PowerModRecursion DEF GPower
<1>3. GPower(x) # 0
  <2> SUFFICES ASSUME GPower(x) = 0 PROVE FALSE OBVIOUS
  <2>1. -x \in Int /\ x + (-x) = 0 OBVIOUS
  <2>2. mul_mod_p(GPower(x), GPower(-x)) = GPower(x + (-x)) BY <2>1, GPowerSum
  <2>3. mul_mod_p(GPower(x), GPower(-x)) = 1 BY <2>1, <2>2, GPowerZero
  <2>4. -x % Q \in Nat /\ (-x) % Q \in Nat BY <2>1, ModSame
  <2>5. GPower(-x) \in Int BY <2>4, Moduli, PowerModRecursion DEF GPower
  <2>6. 0 * GPower(-x) = 0 BY <2>5
  <2>7. 0 % P = 0
    <3>1. 0 \in 0..(P - 1) BY Moduli
    <3>2. QED BY <3>1, Moduli, ModOfSmall
  <2>8. QED BY <2>3, <2>6, <2>7 DEF mul_mod_p
<1>4. QED BY <1>2, <1>3, Moduli

\* Exponents multiply.
LEMMA GPowerProduct ==
    ASSUME NEW x \in Int, NEW n \in 0..(P - 1)
    PROVE  pow_mod_p(GPower(x), n) = GPower(x * n)
<1> DEFINE a == x % Q
<1>1. a \in Nat /\ n \in Nat /\ n \in Int /\ a * n \in Nat BY ModSame, Moduli
<1>2. pow_mod_p(GPower(x), n) = PowerMod(GPower(x), n, P) BY GPowerType, TableHoldsPowers
<1>3. PowerMod(PowerMod(G, a, P), n, P) = PowerMod(G, a * n, P)
  BY <1>1, Moduli, PowerModProduct
<1>4. PowerMod(G, a * n, P) = GPower(a * n) BY <1>1, PowerReduced
<1>5. (a * n) % Q = (x * n) % Q BY <1>1, Moduli, ModOfProduct
<1>6. QED BY <1>2, <1>3, <1>4, <1>5 DEF GPower

\* An exponent that is in range is looked up in the table of powers.
LEMMA GPowerIs == ASSUME NEW n \in 0..(P - 1) PROVE g_pow_p(n) = GPower(n)
<1>1. G \in 0..(P - 1) /\ n \in Nat BY Moduli
<1>2. QED BY <1>1, TableHoldsPowers, PowerReduced DEF g_pow_p

\* Q is prime: no product of two numbers that Q does not divide is divided by Q.
LEMMA NoZeroDivisors ==
    ASSUME NEW x \in Int, NEW y \in Int, (x * y) % Q = 0, x % Q # 0
    PROVE  y % Q = 0
<1> DEFINE a == x % Q
<1>1. a \in 1..(Q - 1) BY ModSame, Moduli
<1>2. PICK b \in 1..(Q - 1) : (a * b) % Q = 1 BY <1>1, GroupAssumption
<1>3. a \in Int /\ b \in Int /\ a * b \in Int /\ a * y \in Int /\ x * y \in Int
  BY <1>1, <1>2, Moduli
<1>4. (a * y) % Q = 0 BY <1>3, Moduli, ModOfProduct
<1> HIDE DEF a
<1>5. (((a * b) % Q) * y) % Q = ((a * b) * y) % Q BY <1>3, Moduli, ModOfProduct
<1>6. (((a * y) % Q) * b) % Q = ((a * y) * b) % Q BY <1>3, Moduli, ModOfProduct
<1>7. (a * b) * y = (a * y) * b /\ 1 * y = y /\ 0 * b = 0 BY <1>3
<1>8. 0 % Q = 0
  <2>1. 0 \in 0..(Q - 1) BY Moduli
  <2>2. QED BY <2>1, Moduli, ModOfSmall
<1>9. QED BY <1>2, <1>4, <1>5, <1>6, <1>7, <1>8

\* The order of G is Q: different exponents give different powers.
LEMMA GPowerInjective ==
    ASSUME NEW x \in Int, NEW y \in Int
    PROVE  GPower(x) = GPower(y) <=> x % Q = y % Q
<1>1. ASSUME NEW d \in Int, GPower(d) = 1, d % Q # 0 PROVE FALSE
  <2> DEFINE a == d % Q
  <2>1. a \in 1..(Q - 1) BY <1>1, ModSame, Moduli
  <2>2. PICK b \in 1..(Q - 1) : (a * b) % Q = 1 BY <2>1, GroupAssumption
  <2>3. a \in Nat /\ b \in Nat /\ a * b \in Nat BY <2>1, <2>2, Moduli
  <2>4. PowerMod(PowerMod(G, a, P), b, P) = PowerMod(G, a * b, P)
    BY <2>3, Moduli, PowerModProduct
  <2>5. PowerMod(1, b, P) = 1 BY <2>3, Moduli, PowerModOfOne
  <2>6. PowerMod(G, a * b, P) = GPower(a * b) BY <2>3, PowerReduced
  <2>7. GPower(a * b) = GPower(1)
    <3>1. 1 % Q = 1
      <4>1. 1 \in 0..(Q - 1) BY Moduli
      <4>2. QED BY <4>1, Moduli, ModOfSmall
    <3>2. QED BY <2>2, <3>1 DEF GPower
  <2>8. PowerMod(G, a, P) = 1 BY <1>1 DEF GPower
  <2>9. G = 1 BY <2>4, <2>5, <2>6, <2>7, <2>8, GPowerZero
  <2>10. QED BY <2>9, Moduli
<1>2. ASSUME GPower(x) = GPower(y) PROVE x % Q = y % Q
  <2>1. -y \in Int /\ x - y \in Int /\ x + (-y) = x - y /\ y + (-y) = 0 OBVIOUS
  <2>2. mul_mod_p(GPower(x), GPower(-y)) = GPower(x - y) BY <2>1, GPowerSum
  <2>3. mul_mod_p(GPower(y), GPower(-y)) = GPower(0) BY <2>1, GPowerSum
  <2>4. GPower(x - y) = 1 BY <1>2, <2>2, <2>3, GPowerZero
  <2>5. (x - y) % Q = 0 BY <1>1, <2>1, <2>4
  <2>6. QED BY <2>5, ModSame
<1>3. QED BY <1>2 DEF GPower

\* The powers of G are what the verifiers accept as residues.
LEMMA GPowerResidue == ASSUME NEW x \in Int PROVE isValidResidue(GPower(x))
<1>1. Q \in 0..(P - 1) BY Moduli
<1>2. pow_mod_p(GPower(x), Q) = GPower(x * Q) BY <1>1, GPowerProduct
<1>3. x * Q = 0 + Q * x BY Moduli
<1>4. (0 + Q * x) % Q = 0 % Q
  <2>1. 0 \in Int OBVIOUS
  <2>2. QED BY <2>1, ModSame
<1>5. GPower(x * Q) = GPower(0) BY <1>3, <1>4 DEF GPower
<1>6. QED BY <1>2, <1>5, GPowerZero, GPowerType, Moduli DEF isValidResidue

----------------------------------------------------------------------------
(* The inductive invariant.                                                  *)

Subgroup == {g_pow_p(e) : e \in Zq}

\* The ciphertext encrypts the total, with the sum of the nonces as its nonce.
StatementOK ==
    /\ secret \in Secrets /\ header \in Headers
    /\ r \in Zq
    /\ total \in Nat /\ added \in Nat /\ total <= added /\ added <= MaxAdded + 1
    /\ message = [pad |-> g_pow_p(r), data |-> g_pow_p((total + secret * r) % Q)]
    /\ at \in {"encrypt", "prove", "proved", "verified"}
    /\ at \in {"proved", "verified"} => kind \in {"disjunctive", "constant"}

\* How far a proof of a claim is off, for the challenge c.
Off(claimed, c) == ((claimed - total) * c) % Q

\* The equations of the disjunctive proof, with a factor that the data are off by.
Answers(p, x, k, d0, d1) ==
    /\ g_pow_p(p.v0) = mul_mod_p(p.a0, pow_mod_p(x.pad, p.c0))
    /\ g_pow_p(p.v1) = mul_mod_p(p.a1, pow_mod_p(x.pad, p.c1))
    /\ pow_mod_p(k, p.v0) = mul_mod_p(mul_mod_p(p.b0, pow_mod_p(x.data, p.c0)), g_pow_p(d0))
    /\ mul_mod_p(g_pow_p(p.c1), pow_mod_p(k, p.v1)) =
            mul_mod_p(mul_mod_p(p.b1, pow_mod_p(x.data, p.c1)), g_pow_p(d1))

\* What the makers build.  Of the two branches the one that is honest is off,
\* by the claim, and the one that is made up is not or is off in the same way.
ProvesDisjunctive(p, claimed) ==
    /\ claimed \in {0, 1}
    /\ DOMAIN p = {"a0", "b0", "a1", "b1", "c0", "c1", "c", "v0", "v1"}
    /\ {p.a0, p.b0, p.a1, p.b1} \subseteq Subgroup
    /\ {p.c0, p.c1, p.c, p.v0, p.v1} \subseteq Zq
    /\ add_mod_q(p.c0, p.c1) = p.c
    /\ \E d0 \in {0, Off(claimed, p.c0)}, d1 \in {0, Off(claimed, p.c1)} :
          /\ claimed = 0 => d0 = Off(claimed, p.c0)
          /\ claimed = 1 => d1 = Off(claimed, p.c1)
          /\ Answers(p, message, PublicKey(secret), d0, d1)

ProvesConstant(p, claimed) ==
    /\ claimed \in 0..MaxClaim
    /\ DOMAIN p = {"a", "b", "c", "v", "constant"}
    /\ {p.a, p.b} \subseteq Subgroup /\ {p.c, p.v} \subseteq Zq
    /\ p.constant = claimed
    /\ g_pow_p(p.v) = mul_mod_p(p.a, pow_mod_p(message.pad, p.c))
    /\ mul_mod_p(g_pow_p(mul_mod_p(p.c, claimed)), pow_mod_p(PublicKey(secret), p.v)) =
          mul_mod_p(mul_mod_p(p.b, pow_mod_p(message.data, p.c)), g_pow_p(Off(claimed, p.c)))

DisjunctiveOK ==
    (at \in {"proved", "verified"} /\ kind = "disjunctive") =>
       /\ ProvesDisjunctive(proof, claim)
       /\ hashed = [input |-> DisjunctiveInput(header, message, proof),
                    challenge |-> proof.c]

ConstantOK ==
    (at \in {"proved", "verified"} /\ kind = "constant") =>
       /\ ProvesConstant(proof, claim)
       /\ hashed = [input |-> ConstantInput(header, message, proof), challenge |-> proof.c]

\* What the verifier hashes for a question, and what it says.
InputOf(question) ==
    IF kind = "constant" THEN ConstantInput(question.header, question.message, proof)
                         ELSE DisjunctiveInput(question.header, question.message, proof)

Verdict(question, c) ==
    IF kind = "constant"
    THEN ConstantIsValid(proof, question.message, PublicKey(question.secret), c)
    ELSE DisjunctiveIsValid(proof, question.message, PublicKey(question.secret), c)

VerdictOK ==
    at = "verified" =>
       /\ asked \in Questions
       /\ \E c \in Zq : /\ InputOf(asked) = hashed.input => c = hashed.challenge
                        /\ verdict = Verdict(asked, c)

ProtocolInv == StatementOK /\ DisjunctiveOK /\ ConstantOK /\ VerdictOK

----------------------------------------------------------------------------
(* The equations in the exponent.                                            *)

\* The exponents x and y give the same power.
Same(x, y) == \E k \in Int : x = y + Q * k

\* Exponents that are equal modulo Q, as the group sees them.
LEMMA SameMod ==
    ASSUME NEW x \in Int, NEW y \in Int
    PROVE  /\ Same(x, y) <=> x % Q = y % Q
           /\ Same(x, y) <=> GPower(x) = GPower(y)
<1>1. ASSUME Same(x, y) PROVE x % Q = y % Q
  <2>1. PICK k \in Int : x = y + Q * k BY <1>1 DEF Same
  <2>2. (y + Q * k) % Q = y % Q BY ModSame
  <2>3. QED BY <2>1, <2>2
<1>2. ASSUME x % Q = y % Q PROVE Same(x, y)
  <2>1. PICK k \in Int : x = (x % Q) + Q * k BY ModSame
  <2>2. PICK j \in Int : y = (y % Q) + Q * j BY ModSame
  <2>3. x % Q \in Nat BY ModSame
  <2> DEFINE e == x % Q
  <2>4. e \in Int /\ x = e + Q * k /\ y = e + Q * j BY <1>2, <2>1, <2>2, <2>3
  <2> HIDE DEF e
  <2>5. k - j \in Int /\ x = y + Q * (k - j) BY <2>4, Moduli
  <2>6. QED BY <2>5 DEF Same
<1>3. QED BY <1>1, <1>2, GPowerInjective

\* Exponents of Zq are equal if they are the same.
LEMMA SameZq ==
    ASSUME NEW x \in Zq, NEW y \in Zq, Same(x, y) PROVE x = y
<1>1. x \in Int /\ y \in Int /\ x \in 0..(Q - 1) /\ y \in 0..(Q - 1) BY Moduli DEF Zq
<1>2. x % Q = y % Q BY <1>1, SameMod
<1>3. x % Q = x /\ y % Q = y BY <1>1, Moduli, ModOfSmall
<1>4. QED BY <1>2, <1>3

\* Reduction modulo Q leaves the exponent the same.
LEMMA SameAsMod ==
    ASSUME NEW x \in Int PROVE x % Q \in Zq /\ x % Q \in Int /\ Same(x % Q, x)
<1>1. x % Q \in Zq /\ x % Q \in Int BY ModSame DEF Zq
<1>2. (x % Q) % Q = x % Q BY ModSame
<1>3. QED BY <1>1, <1>2, SameMod

\* A product is a multiple of Q only if a factor is: Q is prime.
LEMMA SameTimes ==
    ASSUME NEW x \in Int, NEW y \in Int, Same(x * y, 0) PROVE Same(x, 0) \/ Same(y, 0)
<1>1. x * y \in Int /\ 0 \in Int OBVIOUS
<1>2. 0 % Q = 0
  <2>1. 0 \in 0..(Q - 1) BY Moduli
  <2>2. QED BY <2>1, Moduli, ModOfSmall
<1>3. (x * y) % Q = 0 BY <1>1, <1>2, SameMod
<1>4. x % Q = 0 \/ y % Q = 0 BY <1>3, NoZeroDivisors
<1>5. QED BY <1>1, <1>2, <1>4, SameMod

\* One branch of a proof that the plaintext is b, for the commitments with the
\* exponents x and y, the challenge c, the response v, and the data off by d.
Branch(b, x, y, c, v, d) ==
    /\ Same(v, x + r * c)
    /\ Same(b * c + secret * v, y + (total + secret * r) * c + d)

\* A branch that knows the nonce is off by the difference of the claims.
LEMMA HonestBranch ==
    ASSUME r \in Int, secret \in Int, total \in Int,
           NEW b \in Int, NEW u \in Int, NEW c \in Int, NEW v \in Int, NEW d \in Int,
           Same(v, u + c * r), Same(d, (b - total) * c)
    PROVE  Branch(b, u, secret * u, c, v, d)
<1>1. PICK k \in Int : v = u + c * r + Q * k BY DEF Same
<1>2. PICK j \in Int : d = (b - total) * c + Q * j BY DEF Same
<1>3. v = u + r * c + Q * k BY <1>1, Moduli
<1>4. b * c + secret * v =
        secret * u + (total + secret * r) * c + d + Q * (secret * k - j)
  BY <1>1, <1>2, Moduli
<1>5. secret * k - j \in Int OBVIOUS
<1>6. QED BY <1>3, <1>4, <1>5 DEF Branch, Same

\* A branch made up from exponents is off in the same way.
LEMMA MadeUpZero ==
    ASSUME r \in Int, secret \in Int, total \in Int,
           NEW v \in Int, NEW w \in Int, NEW c \in Int, NEW z \in Int, NEW d \in Int,
           Same(c, -w), Same(z, v + c * r), Same(d, (1 - total) * c)
    PROVE  Branch(0, v, w + secret * v, c, z, d)
<1>1. PICK k \in Int : z = v + c * r + Q * k BY DEF Same
<1>2. PICK j \in Int : d = (1 - total) * c + Q * j BY DEF Same
<1>3. PICK i \in Int : c = -w + Q * i BY DEF Same
<1>4. z = v + r * c + Q * k BY <1>1, Moduli
<1>5. 0 * c = 0 BY Moduli
<1>6. secret * z =
        (w + secret * v) + (total + secret * r) * c + d + Q * (secret * k - j - i)
  <2>1. secret * z = secret * v + secret * r * c + Q * (secret * k) BY <1>1, Moduli
  <2>2. (w + secret * v) + (total + secret * r) * c + d =
          w + secret * v + secret * r * c + c + Q * j
    BY <1>2, Moduli
  <2>3. w + c = Q * i BY <1>3, Moduli
  <2> DEFINE e == secret * v + secret * r * c
  <2>4. /\ e \in Int /\ secret * k \in Int /\ Q * i \in Int /\ Q * j \in Int
        /\ Q * (secret * k) \in Int
        /\ Q * (secret * k - j - i) = Q * (secret * k) - Q * j - Q * i
    BY Moduli
  <2>5. w + secret * v + secret * r * c + c + Q * j = e + Q * i + Q * j BY <2>3, Moduli
  <2>6. secret * z = e + Q * (secret * k) BY <2>1
  <2> HIDE DEF e
  <2>7. e + Q * (secret * k) =
          (e + Q * i + Q * j) + (Q * (secret * k) - Q * j - Q * i)
    BY <2>4
  <2>8. QED BY <2>2, <2>4, <2>5, <2>6, <2>7
<1>7. secret * k - j - i \in Int OBVIOUS
<1>8. 0 * c + secret * z = secret * z BY <1>5, Moduli
<1>9. QED BY <1>4, <1>6, <1>7, <1>8 DEF Branch, Same

\* The same of the branch that claims 1, whose challenge is drawn itself.
LEMMA MadeUpOne ==
    ASSUME r \in Int, secret \in Int, total \in Int,
           NEW v \in Int, NEW w \in Int, NEW z \in Int, NEW d \in Int,
           Same(z, v + w * r), Same(d, (0 - total) * w)
    PROVE  Branch(1, v, w + secret * v, w, z, d)
<1>1. PICK k \in Int : z = v + w * r + Q * k BY DEF Same
<1>2. PICK j \in Int : d = (0 - total) * w + Q * j BY DEF Same
<1>3. z = v + r * w + Q * k BY <1>1, Moduli
<1>4. 1 * w + secret * z =
        (w + secret * v) + (total + secret * r) * w + d + Q * (secret * k - j)
  BY <1>1, <1>2, Moduli
<1>5. secret * k - j \in Int OBVIOUS
<1>6. QED BY <1>3, <1>4, <1>5 DEF Branch, Same

\* With a seed a branch is made up from its response and its challenge, which
\* divide the ciphertext out of the commitments: it is not off at all.
LEMMA MadeUpSeeded ==
    ASSUME r \in Int, secret \in Int, total \in Int,
           NEW b \in Int, NEW v \in Int, NEW c \in Int
    PROVE  Branch(b, v + r * (Q - c), (secret * v + b * c) + (total + secret * r) * (Q - c),
                  c, v, 0)
<1>1. v = (v + r * (Q - c)) + r * c + Q * (-r) BY Moduli
<1>2. b * c + secret * v =
        ((secret * v + b * c) + (total + secret * r) * (Q - c))
          + (total + secret * r) * c + 0 + Q * (-(total + secret * r))
  <2> DEFINE e == total + secret * r
  <2>1. /\ e \in Int /\ e * (Q - c) = Q * e - e * c /\ Q * (-e) = -(Q * e)
        /\ e * c \in Int /\ Q * e \in Int /\ secret * v \in Int /\ b * c \in Int
    BY Moduli
  <2> HIDE DEF e
  <2>2. b * c + secret * v =
          ((secret * v + b * c) + e * (Q - c)) + e * c + 0 + Q * (-e)
    BY <2>1
  <2>3. QED BY <2>2 DEF e
<1>3. -r \in Int /\ -(total + secret * r) \in Int OBVIOUS
<1>4. QED BY <1>1, <1>2, <1>3 DEF Branch, Same

----------------------------------------------------------------------------
(* The equations of the verifiers.                                           *)

\* Elements of Zq are exponents that the table of powers has.
LEMMA ZqIn ==
    ASSUME NEW c \in Zq
    PROVE  c \in Int /\ c \in Nat /\ c \in 0..(P - 1) /\ g_pow_p(c) = GPower(c)
<1>1. c \in Int /\ c \in Nat /\ c \in 0..(P - 1) BY Moduli DEF Zq
<1>2. QED BY <1>1, GPowerIs

\* A power of the public key is a power of G.
LEMMA KeyPower ==
    ASSUME NEW s \in Zq, NEW v \in Zq
    PROVE  pow_mod_p(PublicKey(s), v) = GPower(s * v)
<1>1. s \in Int /\ v \in 0..(P - 1) /\ PublicKey(s) = GPower(s) BY ZqIn DEF PublicKey
<1>2. QED BY <1>1, GPowerProduct

\* The equations of the pad and of the data, for a pad with the exponent f and
\* data with the exponent g; e is 0, the challenge or a multiple of it.
LEMMA PadEquation ==
    ASSUME NEW x \in Int, NEW f \in Int, NEW c \in Zq, NEW v \in Zq
    PROVE  g_pow_p(v) = mul_mod_p(GPower(x), pow_mod_p(GPower(f), c)) <=> Same(v, x + f * c)
<1>1. v \in Int /\ c \in Int /\ c \in 0..(P - 1) /\ g_pow_p(v) = GPower(v) BY ZqIn
<1>2. pow_mod_p(GPower(f), c) = GPower(f * c) BY <1>1, GPowerProduct
<1>3. f * c \in Int /\ x + f * c \in Int BY <1>1
<1>4. mul_mod_p(GPower(x), GPower(f * c)) = GPower(x + f * c) BY <1>3, GPowerSum
<1>5. Same(v, x + f * c) <=> GPower(v) = GPower(x + f * c) BY <1>1, <1>3, SameMod
<1>6. QED BY <1>1, <1>2, <1>4, <1>5

\* The equation of the data, with and without the factor e and the defect d.
LEMMA DataEquation ==
    ASSUME NEW y \in Int, NEW g \in Int, NEW c \in Zq, NEW v \in Zq, NEW s \in Zq,
           NEW e \in 0..(P - 1), NEW d \in Zq
    PROVE  /\ mul_mod_p(g_pow_p(e), pow_mod_p(PublicKey(s), v)) =
                  mul_mod_p(mul_mod_p(GPower(y), pow_mod_p(GPower(g), c)), g_pow_p(d))
                <=> Same(e + s * v, y + g * c + d)
           /\ mul_mod_p(g_pow_p(e), pow_mod_p(PublicKey(s), v)) =
                  mul_mod_p(GPower(y), pow_mod_p(GPower(g), c))
                <=> Same(e + s * v, y + g * c)
           /\ pow_mod_p(PublicKey(s), v) =
                  mul_mod_p(mul_mod_p(GPower(y), pow_mod_p(GPower(g), c)), g_pow_p(d))
                <=> Same(s * v, y + g * c + d)
           /\ pow_mod_p(PublicKey(s), v) = mul_mod_p(GPower(y), pow_mod_p(GPower(g), c))
                <=> Same(s * v, y + g * c)
<1>1. c \in Int /\ c \in 0..(P - 1) BY ZqIn
<1>2. v \in Int /\ s \in Int BY ZqIn
<1>3. d \in Int /\ g_pow_p(d) = GPower(d) BY ZqIn
<1>4. e \in Int /\ g_pow_p(e) = GPower(e) BY GPowerIs, Moduli
<1>5. /\ g * c \in Int /\ y + g * c \in Int /\ y + g * c + d \in Int
      /\ s * v \in Int /\ e + s * v \in Int
  BY <1>1, <1>2, <1>3, <1>4
<1>6. mul_mod_p(GPower(y), pow_mod_p(GPower(g), c)) = GPower(y + g * c)
  <2>1. pow_mod_p(GPower(g), c) = GPower(g * c) BY <1>1, GPowerProduct
  <2>2. QED BY <1>5, <2>1, GPowerSum
<1>7. mul_mod_p(GPower(y + g * c), g_pow_p(d)) = GPower(y + g * c + d)
  BY <1>3, <1>5, GPowerSum
<1>8. pow_mod_p(PublicKey(s), v) = GPower(s * v) BY KeyPower
<1>9. mul_mod_p(g_pow_p(e), GPower(s * v)) = GPower(e + s * v) BY <1>4, <1>5, GPowerSum
<1>10. Same(e + s * v, y + g * c + d) <=> GPower(e + s * v) = GPower(y + g * c + d)
  BY <1>5, SameMod
<1>11. Same(e + s * v, y + g * c) <=> GPower(e + s * v) = GPower(y + g * c)
  BY <1>5, SameMod
<1>12. Same(s * v, y + g * c + d) <=> GPower(s * v) = GPower(y + g * c + d)
  BY <1>5, SameMod
<1>13. Same(s * v, y + g * c) <=> GPower(s * v) = GPower(y + g * c) BY <1>5, SameMod
<1>14. QED BY <1>6, <1>7, <1>8, <1>9, <1>10, <1>11, <1>12, <1>13

\* The parts of the statement as powers.
LEMMA StatementExponents ==
    ASSUME StatementOK
    PROVE  /\ secret \in Zq /\ secret \in Int /\ secret \in 2..(Q - 1)
           /\ r \in Zq /\ r \in Int /\ total \in Int /\ total \in Nat
           /\ total < Q
           /\ message.pad = GPower(r) /\ message.data = GPower(total + secret * r)
           /\ message = [pad |-> GPower(r), data |-> GPower(total + secret * r)]
           /\ total + secret * r \in Int
<1>1. secret \in Zq /\ secret \in Int /\ secret \in 2..(Q - 1)
  BY Moduli, Assumption DEF StatementOK, Zq
<1>2. r \in Zq /\ r \in Int /\ g_pow_p(r) = GPower(r) BY ZqIn DEF StatementOK
<1>3. total \in Int /\ total \in Nat /\ total < Q BY Moduli, Assumption DEF StatementOK
<1>4. total + secret * r \in Int BY <1>1, <1>2, <1>3
<1> DEFINE e == total + secret * r
<1>5. g_pow_p(e % Q) = GPower(e)
  <2>1. e % Q \in Zq /\ (e % Q) % Q = e % Q BY <1>4, SameAsMod, ModSame
  <2>2. g_pow_p(e % Q) = GPower(e % Q) BY <2>1, ZqIn
  <2>3. QED BY <2>1, <2>2 DEF GPower
<1>6. message = [pad |-> g_pow_p(r), data |-> g_pow_p(e % Q)] BY DEF StatementOK
<1> HIDE DEF e
<1>7. message = [pad |-> GPower(r), data |-> GPower(e)] BY <1>2, <1>5, <1>6
<1>8. QED BY <1>1, <1>2, <1>3, <1>4, <1>7 DEF e

\* The disjunctive equations are the two branches.
LEMMA AnswersExponents ==
    ASSUME StatementOK, NEW p, NEW x0 \in Int, NEW y0 \in Int, NEW x1 \in Int, NEW y1 \in Int,
           p.a0 = GPower(x0), p.b0 = GPower(y0), p.a1 = GPower(x1), p.b1 = GPower(y1),
           p.c0 \in Zq, p.c1 \in Zq, p.v0 \in Zq, p.v1 \in Zq,
           NEW d0 \in Zq, NEW d1 \in Zq
    PROVE  Answers(p, message, PublicKey(secret), d0, d1) <=>
               Branch(0, x0, y0, p.c0, p.v0, d0) /\ Branch(1, x1, y1, p.c1, p.v1, d1)
<1> DEFINE c0 == p.c0
           c1 == p.c1
           v0 == p.v0
           v1 == p.v1
           e == total + secret * r
<1>1. c0 \in Zq /\ c1 \in Zq /\ v0 \in Zq /\ v1 \in Zq OBVIOUS
<1>2. c0 \in Int /\ c1 \in Int /\ v0 \in Int /\ v1 \in Int /\ c1 \in 0..(P - 1)
  BY <1>1, ZqIn
<1>3. /\ secret \in Zq /\ secret \in Int /\ r \in Int /\ e \in Int
      /\ message.pad = GPower(r) /\ message.data = GPower(e)
  BY StatementExponents
<1>4. 0 * c0 + secret * v0 = secret * v0 /\ 1 * c1 = c1 BY <1>2, <1>3
<1> HIDE DEF c0, c1, v0, v1, e
<1>5. g_pow_p(v0) = mul_mod_p(GPower(x0), pow_mod_p(GPower(r), c0)) <=> Same(v0, x0 + r * c0)
  BY <1>1, <1>3, PadEquation
<1>6. g_pow_p(v1) = mul_mod_p(GPower(x1), pow_mod_p(GPower(r), c1)) <=> Same(v1, x1 + r * c1)
  BY <1>1, <1>3, PadEquation
<1>7. pow_mod_p(PublicKey(secret), v0) =
          mul_mod_p(mul_mod_p(GPower(y0), pow_mod_p(GPower(e), c0)), g_pow_p(d0))
        <=> Same(secret * v0, y0 + e * c0 + d0)
  BY <1>1, <1>2, <1>3, DataEquation
<1>8. mul_mod_p(g_pow_p(c1), pow_mod_p(PublicKey(secret), v1)) =
          mul_mod_p(mul_mod_p(GPower(y1), pow_mod_p(GPower(e), c1)), g_pow_p(d1))
        <=> Same(c1 + secret * v1, y1 + e * c1 + d1)
  BY <1>1, <1>2, <1>3, DataEquation
<1>9. Branch(0, x0, y0, c0, v0, d0) <=>
          Same(v0, x0 + r * c0) /\ Same(secret * v0, y0 + e * c0 + d0)
  BY <1>4 DEF Branch, e
<1>10. Branch(1, x1, y1, c1, v1, d1) <=>
          Same(v1, x1 + r * c1) /\ Same(c1 + secret * v1, y1 + e * c1 + d1)
  BY <1>4 DEF Branch, e
<1>11. QED BY <1>3, <1>5, <1>6, <1>7, <1>8, <1>9, <1>10 DEF Answers, c0, c1, v0, v1

----------------------------------------------------------------------------
(* What the makers build.                                                    *)

\* The fields of a disjunctive proof are those of its two halves.
LEMMA DisjunctiveFields ==
    ASSUME NEW a0, NEW b0, NEW a1, NEW b1, NEW c0, NEW c1, NEW c, NEW v0, NEW v1, NEW p,
           p = Fields([a0 |-> a0, b0 |-> b0, a1 |-> a1, b1 |-> b1],
                      [c0 |-> c0, c1 |-> c1, c |-> c, v0 |-> v0, v1 |-> v1])
    PROVE  /\ DOMAIN p = {"a0", "b0", "a1", "b1", "c0", "c1", "c", "v0", "v1"}
           /\ p.a0 = a0 /\ p.b0 = b0 /\ p.a1 = a1 /\ p.b1 = b1
           /\ p.c0 = c0 /\ p.c1 = c1 /\ p.c = c /\ p.v0 = v0 /\ p.v1 = v1
BY DEF Fields

\* The fields of a constant proof are those of its two halves.
LEMMA ConstantFields ==
    ASSUME NEW a, NEW b, NEW c, NEW v, NEW constant, NEW p,
           p = Fields([a |-> a, b |-> b], [c |-> c, v |-> v, constant |-> constant])
    PROVE  /\ DOMAIN p = {"a", "b", "c", "v", "constant"}
           /\ p.a = a /\ p.b = b /\ p.c = c /\ p.v = v /\ p.constant = constant
BY DEF Fields

\* Powers of G to any exponent are in the subgroup.
LEMMA InSubgroup == ASSUME NEW x \in Int PROVE GPower(x) \in Subgroup
<1>1. x % Q \in Zq /\ (x % Q) % Q = x % Q BY SameAsMod, ModSame
<1>2. g_pow_p(x % Q) = GPower(x % Q) BY <1>1, ZqIn
<1>3. GPower(x % Q) = GPower(x) BY <1>1 DEF GPower
<1>4. QED BY <1>1, <1>2, <1>3 DEF Subgroup

\* How far a proof is off, as an exponent.
LEMMA OffIs ==
    ASSUME StatementOK, NEW b \in Int, NEW c \in Int
    PROVE  Off(b, c) \in Zq /\ Off(b, c) \in Int /\ Same(Off(b, c), (b - total) * c)
<1>1. (b - total) * c \in Int BY StatementExponents
<1>2. QED BY <1>1, SameAsMod DEF Off

\* Commitments and responses whose branches hold make a proof.
LEMMA Assembled ==
    ASSUME StatementOK, NEW p, NEW claimed \in {0, 1},
           NEW x0 \in Int, NEW y0 \in Int, NEW x1 \in Int, NEW y1 \in Int,
           DOMAIN p = {"a0", "b0", "a1", "b1", "c0", "c1", "c", "v0", "v1"},
           p.a0 = GPower(x0), p.b0 = GPower(y0), p.a1 = GPower(x1), p.b1 = GPower(y1),
           {p.c0, p.c1, p.c, p.v0, p.v1} \subseteq Zq, add_mod_q(p.c0, p.c1) = p.c,
           NEW d0 \in {0, Off(claimed, p.c0)}, NEW d1 \in {0, Off(claimed, p.c1)},
           claimed = 0 => d0 = Off(claimed, p.c0), claimed = 1 => d1 = Off(claimed, p.c1),
           Branch(0, x0, y0, p.c0, p.v0, d0), Branch(1, x1, y1, p.c1, p.v1, d1)
    PROVE  ProvesDisjunctive(p, claimed)
<1>1. p.c0 \in Zq /\ p.c1 \in Zq /\ p.v0 \in Zq /\ p.v1 \in Zq OBVIOUS
<1>2. 0 \in Zq /\ claimed \in Int /\ p.c0 \in Int /\ p.c1 \in Int BY <1>1, Moduli, ZqIn DEF Zq
<1>3. d0 \in Zq /\ d1 \in Zq
  <2>1. Off(claimed, p.c0) \in Zq BY <1>2, OffIs
  <2>2. Off(claimed, p.c1) \in Zq BY <1>2, OffIs
  <2>3. QED BY <1>2, <2>1, <2>2
<1>4. Answers(p, message, PublicKey(secret), d0, d1) BY <1>1, <1>3, AnswersExponents
<1>5. {GPower(x0), GPower(y0), GPower(x1), GPower(y1)} \subseteq Subgroup BY InSubgroup
<1>6. QED BY <1>4, <1>5 DEF ProvesDisjunctive

\* Challenges of the two branches add up, and responses are what they should be.
LEMMA Responses ==
    ASSUME NEW x \in Zq, NEW y \in Zq, NEW z \in Zq
    PROVE  /\ sub_mod_q(x, y) \in Zq /\ sub_mod_q(Q, y) \in Zq /\ add_mod_q(x, y) \in Zq
           /\ a_plus_bc_mod_q(x, y, z) \in Zq
           /\ Same(a_plus_bc_mod_q(x, y, z), x + y * z)
           /\ Same(sub_mod_q(Q, y), -y)
           /\ add_mod_q(sub_mod_q(x, y), y) = x
           /\ add_mod_q(y, sub_mod_q(x, y)) = x
           /\ add_mod_q(sub_mod_q(Q, y), add_mod_q(x, y)) = x
<1>1. x \in Int /\ y \in Int /\ z \in Int /\ x \in 0..(Q - 1) BY ZqIn, Moduli DEF Zq
<1>2. x - y \in Int /\ Q - y \in Int /\ x + y \in Int /\ x + y * z \in Int /\ -y \in Int
  BY <1>1, Moduli
<1>3. x % Q = x BY <1>1, Moduli, ModOfSmall
<1>4. sub_mod_q(x, y) \in Zq /\ sub_mod_q(Q, y) \in Zq /\ add_mod_q(x, y) \in Zq
  BY <1>2, SameAsMod DEF sub_mod_q, add_mod_q
<1>5. a_plus_bc_mod_q(x, y, z) \in Zq /\ Same(a_plus_bc_mod_q(x, y, z), x + y * z)
  BY <1>2, SameAsMod DEF a_plus_bc_mod_q
<1>6. Same(sub_mod_q(Q, y), -y)
  <2>1. Q - y = -y + Q * 1 BY <1>1, Moduli
  <2>2. Same(Q - y, -y) BY <2>1 DEF Same
  <2>3. (Q - y) % Q = (-y) % Q BY <1>2, <2>2, SameMod
  <2>4. (Q - y) % Q \in Int /\ ((Q - y) % Q) % Q = (Q - y) % Q BY <1>2, ModSame, SameAsMod
  <2>5. QED BY <1>2, <2>3, <2>4, SameMod DEF sub_mod_q
<1>7. (y + ((x - y) % Q)) % Q = x
  <2>1. y + (x - y) = x BY <1>1
  <2>2. (y + ((x - y) % Q)) % Q = (y + (x - y)) % Q BY <1>1, <1>2, Moduli, ModOfSum
  <2>3. QED BY <1>3, <2>1, <2>2
<1>8. ((x - y) % Q) + y = y + ((x - y) % Q)
  <2>1. (x - y) % Q \in Int BY <1>2, SameAsMod
  <2>2. QED BY <1>1, <2>1
<1>9. (((Q - y) % Q) + ((x + y) % Q)) % Q = x
  <2>1. (((Q - y) % Q) + ((x + y) % Q)) % Q = ((Q - y) + (x + y)) % Q BY <1>2, ModSame
  <2>2. (Q - y) + (x + y) = x + Q * 1 BY <1>1, Moduli
  <2>3. (x + Q * 1) % Q = x % Q
    <3>1. 1 \in Int OBVIOUS
    <3>2. QED BY <1>1, <3>1, ModSame
  <2>4. QED BY <1>3, <2>1, <2>2, <2>3
<1>10. QED BY <1>4, <1>5, <1>6, <1>7, <1>8, <1>9 DEF add_mod_q, sub_mod_q

\* The commitments as powers.
LEMMA KeyCommitments ==
    ASSUME StatementOK, NEW u \in Zq, NEW w \in Zq
    PROVE  /\ g_pow_p(u) = GPower(u)
           /\ pow_mod_p(PublicKey(secret), u) = GPower(secret * u)
           /\ mul_mod_p(g_pow_p(w), pow_mod_p(PublicKey(secret), u)) = GPower(w + secret * u)
           /\ u \in Int /\ w \in Int /\ secret * u \in Int /\ w + secret * u \in Int
<1>1. u \in Int /\ w \in Int /\ g_pow_p(u) = GPower(u) /\ g_pow_p(w) = GPower(w) BY ZqIn
<1>2. secret \in Int /\ secret \in Zq BY StatementExponents
<1>3. secret * u \in Int /\ w + secret * u \in Int BY <1>1, <1>2
<1>4. pow_mod_p(PublicKey(secret), u) = GPower(secret * u) BY <1>2, KeyPower
<1>5. QED BY <1>1, <1>3, <1>4, GPowerSum

\* make with rand_q or precomputed values, for the vote 0.
LEMMA ZeroProves ==
    ASSUME StatementOK, NEW u \in Zq, NEW v \in Zq, NEW w \in Zq, NEW c \in Zq,
           NEW claimed \in {0, 1}, claimed = 0, NEW p,
           p = Fields(ZeroCommitments(PublicKey(secret), message, u, v, w),
                      ZeroResponses(r, c, u, v, w))
    PROVE  ProvesDisjunctive(p, claimed)
<1> DEFINE c0 == sub_mod_q(c, w)
           v0 == a_plus_bc_mod_q(u, c0, r)
           v1 == a_plus_bc_mod_q(v, w, r)
           d0 == Off(claimed, c0)
           d1 == Off(claimed, w)
<1>1. secret \in Int /\ r \in Zq /\ r \in Int /\ total \in Int BY StatementExponents
<1>2. c0 \in Zq /\ add_mod_q(c0, w) = c BY Responses
<1> HIDE DEF c0
<1>3. v0 \in Zq /\ Same(v0, u + c0 * r) BY <1>1, <1>2, Responses
<1>4. v1 \in Zq /\ Same(v1, v + w * r) BY <1>1, Responses
<1>5. c0 \in Int /\ v0 \in Int /\ v1 \in Int /\ claimed \in Int BY <1>2, <1>3, <1>4, ZqIn
<1>6. /\ g_pow_p(u) = GPower(u) /\ pow_mod_p(PublicKey(secret), u) = GPower(secret * u)
      /\ u \in Int /\ secret * u \in Int
  BY KeyCommitments
<1>7. /\ g_pow_p(v) = GPower(v)
      /\ mul_mod_p(g_pow_p(w), pow_mod_p(PublicKey(secret), v)) = GPower(w + secret * v)
      /\ v \in Int /\ w \in Int /\ w + secret * v \in Int
  BY KeyCommitments
<1>8. p = Fields([a0 |-> GPower(u), b0 |-> GPower(secret * u),
                  a1 |-> GPower(v), b1 |-> GPower(w + secret * v)],
                 [c0 |-> c0, c1 |-> w, c |-> c, v0 |-> v0, v1 |-> v1])
  BY <1>6, <1>7 DEF ZeroCommitments, ZeroResponses, c0
<1>9. /\ DOMAIN p = {"a0", "b0", "a1", "b1", "c0", "c1", "c", "v0", "v1"}
      /\ p.a0 = GPower(u) /\ p.b0 = GPower(secret * u)
      /\ p.a1 = GPower(v) /\ p.b1 = GPower(w + secret * v)
      /\ p.c0 = c0 /\ p.c1 = w /\ p.c = c /\ p.v0 = v0 /\ p.v1 = v1
  BY <1>8, DisjunctiveFields
<1>10. {p.c0, p.c1, p.c, p.v0, p.v1} \subseteq Zq /\ add_mod_q(p.c0, p.c1) = p.c
  BY <1>9, <1>2, <1>3, <1>4
<1>11. d0 \in {0, Off(claimed, p.c0)} /\ d1 \in {0, Off(claimed, p.c1)}
  BY <1>9
<1>12. (claimed = 0 => d0 = Off(claimed, p.c0)) /\ (claimed = 1 => d1 = Off(claimed, p.c1))
  BY <1>9
<1>13. /\ d0 \in Int /\ Same(d0, (claimed - total) * c0)
       /\ d1 \in Int /\ Same(d1, (claimed - total) * w)
  BY <1>5, <1>7, OffIs
<1> HIDE DEF v0, v1, d0, d1
<1>14. Branch(0, u, secret * u, c0, v0, d0)
  <2>1. Branch(claimed, u, secret * u, c0, v0, d0) BY <1>1, <1>3, <1>5, <1>6, <1>13, HonestBranch
  <2>2. QED BY <2>1
<1>15. Branch(1, v, w + secret * v, w, v1, d1) BY <1>1, <1>4, <1>5, <1>7, <1>13, MadeUpOne
<1>16. Branch(0, u, secret * u, p.c0, p.v0, d0) /\ Branch(1, v, w + secret * v, p.c1, p.v1, d1)
  BY <1>14, <1>15, <1>9
<1>17. QED BY <1>6, <1>7, <1>10, <1>11, <1>12, <1>9, <1>16, Assembled

\* make with rand_q or precomputed values, for the vote 1.
LEMMA OneProves ==
    ASSUME StatementOK, NEW u \in Zq, NEW v \in Zq, NEW w \in Zq, NEW c \in Zq,
           NEW claimed \in {0, 1}, claimed = 1, NEW p,
           p = Fields(OneCommitments(PublicKey(secret), message, u, v, w),
                      OneResponses(r, c, u, v, w))
    PROVE  ProvesDisjunctive(p, claimed)
<1> DEFINE c0 == sub_mod_q(Q, w)
           c1 == add_mod_q(c, w)
           v0 == a_plus_bc_mod_q(v, c0, r)
           v1 == a_plus_bc_mod_q(u, c1, r)
           d0 == Off(claimed, c0)
           d1 == Off(claimed, c1)
<1>1. secret \in Int /\ r \in Zq /\ r \in Int /\ total \in Int BY StatementExponents
<1>2. c0 \in Zq /\ c1 \in Zq /\ add_mod_q(c0, c1) = c /\ Same(c0, -w) BY Responses
<1> HIDE DEF c0, c1
<1>3. v0 \in Zq /\ Same(v0, v + c0 * r) BY <1>1, <1>2, Responses
<1>4. v1 \in Zq /\ Same(v1, u + c1 * r) BY <1>1, <1>2, Responses
<1>5. c0 \in Int /\ c1 \in Int /\ v0 \in Int /\ v1 \in Int /\ claimed \in Int
  BY <1>2, <1>3, <1>4, ZqIn
<1>6. /\ g_pow_p(u) = GPower(u) /\ pow_mod_p(PublicKey(secret), u) = GPower(secret * u)
      /\ u \in Int /\ secret * u \in Int
  BY KeyCommitments
<1>7. /\ g_pow_p(v) = GPower(v)
      /\ mul_mod_p(g_pow_p(w), pow_mod_p(PublicKey(secret), v)) = GPower(w + secret * v)
      /\ v \in Int /\ w \in Int /\ w + secret * v \in Int
  BY KeyCommitments
<1>8. p = Fields([a0 |-> GPower(v), b0 |-> GPower(w + secret * v),
                  a1 |-> GPower(u), b1 |-> GPower(secret * u)],
                 [c0 |-> c0, c1 |-> c1, c |-> c, v0 |-> v0, v1 |-> v1])
  BY <1>6, <1>7 DEF OneCommitments, OneResponses, c0, c1
<1>9. /\ DOMAIN p = {"a0", "b0", "a1", "b1", "c0", "c1", "c", "v0", "v1"}
      /\ p.a0 = GPower(v) /\ p.b0 = GPower(w + secret * v)
      /\ p.a1 = GPower(u) /\ p.b1 = GPower(secret * u)
      /\ p.c0 = c0 /\ p.c1 = c1 /\ p.c = c /\ p.v0 = v0 /\ p.v1 = v1
  BY <1>8, DisjunctiveFields
<1>10. {p.c0, p.c1, p.c, p.v0, p.v1} \subseteq Zq /\ add_mod_q(p.c0, p.c1) = p.c
  BY <1>9, <1>2, <1>3, <1>4
<1>11. d0 \in {0, Off(claimed, p.c0)} /\ d1 \in {0, Off(claimed, p.c1)}
  BY <1>9
<1>12. (claimed = 0 => d0 = Off(claimed, p.c0)) /\ (claimed = 1 => d1 = Off(claimed, p.c1))
  BY <1>9
<1>13. /\ d0 \in Int /\ Same(d0, (claimed - total) * c0)
       /\ d1 \in Int /\ Same(d1, (claimed - total) * c1)
  BY <1>5, OffIs
<1> HIDE DEF v0, v1, d0, d1
<1>14. Branch(0, v, w + secret * v, c0, v0, d0)
  BY <1>1, <1>2, <1>3, <1>5, <1>7, <1>13, MadeUpZero
<1>15. Branch(1, u, secret * u, c1, v1, d1)
  <2>1. Branch(claimed, u, secret * u, c1, v1, d1) BY <1>1, <1>4, <1>5, <1>6, <1>13, HonestBranch
  <2>2. QED BY <2>1
<1>16. Branch(0, v, w + secret * v, p.c0, p.v0, d0) /\ Branch(1, u, secret * u, p.c1, p.v1, d1)
  BY <1>14, <1>15, <1>9
<1>17. QED BY <1>6, <1>7, <1>10, <1>11, <1>12, <1>9, <1>16, Assembled

\* The commitments of a branch that is made up from its response and challenge.
LEMMA SeededCommitments ==
    ASSUME StatementOK, NEW v \in Zq, NEW w \in Zq
    PROVE  /\ mul_mod_p(g_pow_p(v), pow_mod_p(message.pad, sub_from_q(w))) = GPower(v + r * (Q - w))
           /\ mul_mod_p(pow_mod_p(PublicKey(secret), v), pow_mod_p(message.data, sub_from_q(w))) =
                  GPower((secret * v + 0 * w) + (total + secret * r) * (Q - w))
           /\ mul_mod_p(mul_mod_p(pow_mod_p(PublicKey(secret), v), g_pow_p(w)),
                        pow_mod_p(message.data, sub_from_q(w))) =
                  GPower((secret * v + 1 * w) + (total + secret * r) * (Q - w))
           /\ v \in Int /\ w \in Int /\ v + r * (Q - w) \in Int
           /\ (secret * v + 0 * w) + (total + secret * r) * (Q - w) \in Int
           /\ (secret * v + 1 * w) + (total + secret * r) * (Q - w) \in Int
<1> DEFINE e == total + secret * r
           m == Q - w
           y == secret * v
<1>1. /\ message.pad = GPower(r) /\ message.data = GPower(e)
      /\ r \in Int /\ e \in Int /\ secret \in Int /\ secret \in Zq
  BY StatementExponents
<1>2. v \in Int /\ w \in Int /\ g_pow_p(v) = GPower(v) /\ g_pow_p(w) = GPower(w) BY ZqIn
<1>3. m \in 0..(P - 1) /\ m \in Int BY Moduli DEF Zq
<1>4. y \in Int BY <1>1, <1>2
<1>5. pow_mod_p(PublicKey(secret), v) = GPower(y) BY <1>1, KeyPower
<1>6. sub_from_q(w) = m BY DEF sub_from_q
<1> HIDE DEF e, m, y
<1>7. r * m \in Int /\ e * m \in Int /\ y + w \in Int BY <1>1, <1>2, <1>3, <1>4
<1>8. pow_mod_p(GPower(r), m) = GPower(r * m) BY <1>1, <1>3, GPowerProduct
<1>9. pow_mod_p(GPower(e), m) = GPower(e * m) BY <1>1, <1>3, GPowerProduct
<1>10. mul_mod_p(GPower(v), GPower(r * m)) = GPower(v + r * m) BY <1>2, <1>7, GPowerSum
<1>11. mul_mod_p(GPower(y), GPower(e * m)) = GPower(y + e * m) BY <1>4, <1>7, GPowerSum
<1>12. mul_mod_p(GPower(y), GPower(w)) = GPower(y + w) BY <1>2, <1>4, GPowerSum
<1>13. mul_mod_p(GPower(y + w), GPower(e * m)) = GPower((y + w) + e * m) BY <1>7, GPowerSum
<1>14. y + 0 * w = y /\ y + 1 * w = y + w BY <1>2, <1>4
<1>15. v + r * m \in Int /\ y + e * m \in Int /\ (y + w) + e * m \in Int BY <1>2, <1>4, <1>7
<1>16. mul_mod_p(g_pow_p(v), pow_mod_p(message.pad, sub_from_q(w))) = GPower(v + r * m)
  BY <1>1, <1>2, <1>6, <1>8, <1>10
<1>17. mul_mod_p(pow_mod_p(PublicKey(secret), v), pow_mod_p(message.data, sub_from_q(w))) =
          GPower((y + 0 * w) + e * m)
  BY <1>1, <1>5, <1>6, <1>9, <1>11, <1>14
<1>18. mul_mod_p(mul_mod_p(pow_mod_p(PublicKey(secret), v), g_pow_p(w)),
                 pow_mod_p(message.data, sub_from_q(w))) = GPower((y + 1 * w) + e * m)
  BY <1>1, <1>2, <1>5, <1>6, <1>9, <1>12, <1>13, <1>14
<1>19. (y + 0 * w) + e * m \in Int /\ (y + 1 * w) + e * m \in Int BY <1>14, <1>15
<1>20. QED BY <1>2, <1>15, <1>16, <1>17, <1>18, <1>19 DEF e, m, y

\* make with a seed, for the vote 0.
LEMMA SeededZeroProves ==
    ASSUME StatementOK, NEW u \in Zq, NEW v \in Zq, NEW w \in Zq, NEW c \in Zq,
           NEW claimed \in {0, 1}, claimed = 0, NEW p,
           p = Fields(SeededZeroCommitments(PublicKey(secret), message, u, v, w),
                      SeededZeroResponses(r, c, u, v, w))
    PROVE  ProvesDisjunctive(p, claimed)
<1> DEFINE c0 == sub_mod_q(c, w)
           v0 == a_plus_bc_mod_q(u, c0, r)
           v1 == v
           d0 == Off(claimed, c0)
           d1 == 0
           x == v + r * (Q - w)
           y == (secret * v + 1 * w) + (total + secret * r) * (Q - w)
<1>1. secret \in Int /\ r \in Zq /\ r \in Int /\ total \in Int BY StatementExponents
<1>2. c0 \in Zq /\ add_mod_q(c0, w) = c BY Responses
<1> HIDE DEF c0
<1>3. v0 \in Zq /\ v1 \in Zq /\ Same(v0, u + c0 * r) BY <1>1, <1>2, Responses
<1>4. c0 \in Int /\ v0 \in Int /\ claimed \in Int BY <1>2, <1>3, ZqIn
<1>5. /\ g_pow_p(u) = GPower(u) /\ pow_mod_p(PublicKey(secret), u) = GPower(secret * u)
      /\ u \in Int /\ secret * u \in Int
  BY KeyCommitments
<1>6. /\ mul_mod_p(g_pow_p(v), pow_mod_p(message.pad, sub_from_q(w))) = GPower(x)
      /\ mul_mod_p(mul_mod_p(pow_mod_p(PublicKey(secret), v), g_pow_p(w)),
                   pow_mod_p(message.data, sub_from_q(w))) = GPower(y)
      /\ v \in Int /\ w \in Int /\ x \in Int /\ y \in Int
  BY SeededCommitments
<1>7. Branch(1, x, y, w, v, 0)
  <2>1. 1 \in Int OBVIOUS
  <2>2. QED BY <2>1, <1>1, <1>6, MadeUpSeeded
<1> HIDE DEF x, y
<1>8. p = Fields([a0 |-> GPower(u), b0 |-> GPower(secret * u),
                  a1 |-> GPower(x), b1 |-> GPower(y)],
                 [c0 |-> c0, c1 |-> w, c |-> c, v0 |-> v0, v1 |-> v1])
  BY <1>5, <1>6 DEF SeededZeroCommitments, SeededZeroResponses, c0
<1>9. /\ DOMAIN p = {"a0", "b0", "a1", "b1", "c0", "c1", "c", "v0", "v1"}
      /\ p.a0 = GPower(u) /\ p.b0 = GPower(secret * u)
      /\ p.a1 = GPower(x) /\ p.b1 = GPower(y)
      /\ p.c0 = c0 /\ p.c1 = w /\ p.c = c /\ p.v0 = v0 /\ p.v1 = v1
  BY <1>8, DisjunctiveFields
<1>10. {p.c0, p.c1, p.c, p.v0, p.v1} \subseteq Zq /\ add_mod_q(p.c0, p.c1) = p.c
  BY <1>9, <1>2, <1>3
<1>11. d0 \in {0, Off(claimed, p.c0)} /\ d1 \in {0, Off(claimed, p.c1)}
  BY <1>9
<1>12. (claimed = 0 => d0 = Off(claimed, p.c0)) /\ (claimed = 1 => d1 = Off(claimed, p.c1))
  BY <1>9
<1>13. d0 \in Int /\ Same(d0, (claimed - total) * c0) /\ Branch(1, x, y, w, v1, d1)
  BY <1>4, <1>7, OffIs
<1> HIDE DEF v0, v1, d0, d1
<1>14. Branch(0, u, secret * u, c0, v0, d0)
  <2>1. Branch(claimed, u, secret * u, c0, v0, d0) BY <1>1, <1>3, <1>4, <1>5, <1>13, HonestBranch
  <2>2. QED BY <2>1
<1>15. Branch(1, x, y, w, v1, d1) BY <1>13
<1>16. Branch(0, u, secret * u, p.c0, p.v0, d0) /\ Branch(1, x, y, p.c1, p.v1, d1)
  BY <1>14, <1>15, <1>9
<1>17. QED BY <1>5, <1>6, <1>10, <1>11, <1>12, <1>9, <1>16, Assembled

\* make with a seed, for the vote 1.
LEMMA SeededOneProves ==
    ASSUME StatementOK, NEW u \in Zq, NEW v \in Zq, NEW w \in Zq, NEW c \in Zq,
           NEW claimed \in {0, 1}, claimed = 1, NEW p,
           p = Fields(SeededOneCommitments(PublicKey(secret), message, u, v, w),
                      SeededOneResponses(r, c, u, v, w))
    PROVE  ProvesDisjunctive(p, claimed)
<1> DEFINE c1 == sub_mod_q(c, w)
           v0 == v
           v1 == a_plus_bc_mod_q(u, c1, r)
           d0 == 0
           d1 == Off(claimed, c1)
           x == v + r * (Q - w)
           y == (secret * v + 0 * w) + (total + secret * r) * (Q - w)
<1>1. secret \in Int /\ r \in Zq /\ r \in Int /\ total \in Int BY StatementExponents
<1>2. c1 \in Zq /\ add_mod_q(w, c1) = c BY Responses
<1> HIDE DEF c1
<1>3. v0 \in Zq /\ v1 \in Zq /\ Same(v1, u + c1 * r) BY <1>1, <1>2, Responses
<1>4. c1 \in Int /\ v1 \in Int /\ claimed \in Int BY <1>2, <1>3, ZqIn
<1>5. /\ g_pow_p(u) = GPower(u) /\ pow_mod_p(PublicKey(secret), u) = GPower(secret * u)
      /\ u \in Int /\ secret * u \in Int
  BY KeyCommitments
<1>6. /\ mul_mod_p(g_pow_p(v), pow_mod_p(message.pad, sub_from_q(w))) = GPower(x)
      /\ mul_mod_p(pow_mod_p(PublicKey(secret), v), pow_mod_p(message.data, sub_from_q(w))) =
             GPower(y)
      /\ v \in Int /\ w \in Int /\ x \in Int /\ y \in Int
  BY SeededCommitments
<1>7. Branch(0, x, y, w, v, 0)
  <2>1. 0 \in Int OBVIOUS
  <2>2. QED BY <2>1, <1>1, <1>6, MadeUpSeeded
<1> HIDE DEF x, y
<1>8. p = Fields([a0 |-> GPower(x), b0 |-> GPower(y),
                  a1 |-> GPower(u), b1 |-> GPower(secret * u)],
                 [c0 |-> w, c1 |-> c1, c |-> c, v0 |-> v0, v1 |-> v1])
  BY <1>5, <1>6 DEF SeededOneCommitments, SeededOneResponses, c1
<1>9. /\ DOMAIN p = {"a0", "b0", "a1", "b1", "c0", "c1", "c", "v0", "v1"}
      /\ p.a0 = GPower(x) /\ p.b0 = GPower(y)
      /\ p.a1 = GPower(u) /\ p.b1 = GPower(secret * u)
      /\ p.c0 = w /\ p.c1 = c1 /\ p.c = c /\ p.v0 = v0 /\ p.v1 = v1
  BY <1>8, DisjunctiveFields
<1>10. {p.c0, p.c1, p.c, p.v0, p.v1} \subseteq Zq /\ add_mod_q(p.c0, p.c1) = p.c
  BY <1>9, <1>2, <1>3
<1>11. d0 \in {0, Off(claimed, p.c0)} /\ d1 \in {0, Off(claimed, p.c1)}
  BY <1>9
<1>12. (claimed = 0 => d0 = Off(claimed, p.c0)) /\ (claimed = 1 => d1 = Off(claimed, p.c1))
  BY <1>9
<1>13. Branch(0, x, y, w, v0, d0) /\ d1 \in Int /\ Same(d1, (claimed - total) * c1)
  BY <1>4, <1>7, OffIs
<1> HIDE DEF v0, v1, d0, d1
<1>14. Branch(0, x, y, w, v0, d0) BY <1>13
<1>15. Branch(1, u, secret * u, c1, v1, d1)
  <2>1. Branch(claimed, u, secret * u, c1, v1, d1) BY <1>1, <1>3, <1>4, <1>5, <1>13, HonestBranch
  <2>2. QED BY <2>1
<1>16. Branch(0, x, y, p.c0, p.v0, d0) /\ Branch(1, u, secret * u, p.c1, p.v1, d1)
  BY <1>14, <1>15, <1>9
<1>17. QED BY <1>5, <1>6, <1>10, <1>11, <1>12, <1>9, <1>16, Assembled

\* The challenge times a constant does not wrap.
LEMMA Multiple ==
    ASSUME NEW c \in Zq, NEW constant \in 0..MaxClaim
    PROVE  mul_mod_p(c, constant) = constant * c /\ constant * c \in 0..(P - 1)
<1>1. c \in 0..(Q - 1) /\ c \in Int /\ constant \in Int /\ MaxClaim \in Nat
  BY ZqIn, Assumption DEF Zq
<1>2. c * constant <= (Q - 1) * constant /\ (Q - 1) * constant <= (Q - 1) * MaxClaim
  BY <1>1, Moduli
<1>3. c * constant \in Nat /\ (Q - 1) * constant \in Nat /\ (Q - 1) * MaxClaim \in Nat
  BY <1>1, Moduli
<1>4. c * constant \in 0..(P - 1) BY <1>2, <1>3, Assumption, Moduli
<1>5. (c * constant) % P = c * constant BY <1>4, Moduli, ModOfSmall
<1>6. constant * c = c * constant BY <1>1
<1>7. QED BY <1>4, <1>5, <1>6 DEF mul_mod_p

\* The equations of the constant proof are those of one branch.
LEMMA ConstantExponents ==
    ASSUME StatementOK, NEW x \in Int, NEW y \in Int, NEW c \in Zq, NEW v \in Zq,
           NEW constant \in 0..MaxClaim, NEW d \in Zq
    PROVE  Branch(constant, x, y, c, v, d) <=>
             (/\ g_pow_p(v) = mul_mod_p(GPower(x), pow_mod_p(message.pad, c))
              /\ mul_mod_p(g_pow_p(mul_mod_p(c, constant)), pow_mod_p(PublicKey(secret), v)) =
                  mul_mod_p(mul_mod_p(GPower(y), pow_mod_p(message.data, c)), g_pow_p(d)))
<1> DEFINE e == total + secret * r
           m == constant * c
<1>1. /\ secret \in Zq /\ r \in Int /\ e \in Int
      /\ message.pad = GPower(r) /\ message.data = GPower(e)
  BY StatementExponents
<1>2. mul_mod_p(c, constant) = m /\ m \in 0..(P - 1) BY Multiple
<1> HIDE DEF e, m
<1>3. g_pow_p(v) = mul_mod_p(GPower(x), pow_mod_p(GPower(r), c)) <=> Same(v, x + r * c)
  BY <1>1, PadEquation
<1>4. mul_mod_p(g_pow_p(m), pow_mod_p(PublicKey(secret), v)) =
          mul_mod_p(mul_mod_p(GPower(y), pow_mod_p(GPower(e), c)), g_pow_p(d))
        <=> Same(m + secret * v, y + e * c + d)
  BY <1>1, <1>2, DataEquation
<1>5. Branch(constant, x, y, c, v, d) <=>
          Same(v, x + r * c) /\ Same(m + secret * v, y + e * c + d)
  BY DEF Branch, e, m
<1>6. QED BY <1>1, <1>2, <1>3, <1>4, <1>5

\* ConstantChaumPedersenProof::make.
LEMMA ConstantProves ==
    ASSUME StatementOK, NEW u \in Zq, NEW c \in Zq, NEW claimed \in 0..MaxClaim, NEW p,
           p = Fields(ConstantCommitments(PublicKey(secret), u),
                      ConstantResponse(r, c, u, claimed))
    PROVE  ProvesConstant(p, claimed)
<1> DEFINE v == a_plus_bc_mod_q(u, c, r)
           d == Off(claimed, c)
           y == secret * u
<1>1. secret \in Int /\ r \in Zq /\ r \in Int /\ total \in Int BY StatementExponents
<1>2. v \in Zq /\ Same(v, u + c * r) BY <1>1, Responses
<1>3. c \in Int /\ v \in Int /\ claimed \in Int BY <1>2, ZqIn, Assumption
<1>4. /\ g_pow_p(u) = GPower(u) /\ pow_mod_p(PublicKey(secret), u) = GPower(secret * u)
      /\ u \in Int /\ secret * u \in Int
  BY KeyCommitments
<1>5. p = Fields([a |-> GPower(u), b |-> GPower(y)],
                 [c |-> c, v |-> v, constant |-> claimed])
  BY <1>4 DEF ConstantCommitments, ConstantResponse
<1>6. /\ DOMAIN p = {"a", "b", "c", "v", "constant"}
      /\ p.a = GPower(u) /\ p.b = GPower(y)
      /\ p.c = c /\ p.v = v /\ p.constant = claimed
  BY <1>5, ConstantFields
<1>7. d \in Zq /\ d \in Int /\ Same(d, (claimed - total) * c) BY <1>3, OffIs
<1>8. d = Off(claimed, p.c) BY <1>6
<1>9. Branch(claimed, u, y, c, v, d) BY <1>1, <1>2, <1>3, <1>4, <1>7, HonestBranch
<1>10. y \in Int BY <1>4
<1> HIDE DEF v, d, y
<1>11. /\ g_pow_p(v) = mul_mod_p(GPower(u), pow_mod_p(message.pad, c))
       /\ mul_mod_p(g_pow_p(mul_mod_p(c, claimed)), pow_mod_p(PublicKey(secret), v)) =
            mul_mod_p(mul_mod_p(GPower(y), pow_mod_p(message.data, c)), g_pow_p(d))
  <2>1. u \in Int /\ y \in Int /\ v \in Zq /\ d \in Zq BY <1>2, <1>4, <1>7, <1>10
  <2>2. Branch(claimed, u, y, c, v, d) <=>
          (/\ g_pow_p(v) = mul_mod_p(GPower(u), pow_mod_p(message.pad, c))
           /\ mul_mod_p(g_pow_p(mul_mod_p(c, claimed)), pow_mod_p(PublicKey(secret), v)) =
               mul_mod_p(mul_mod_p(GPower(y), pow_mod_p(message.data, c)), g_pow_p(d)))
    BY <2>1, ConstantExponents
  <2>3. QED BY <1>9, <2>2
<1>12. {GPower(u), GPower(y)} \subseteq Subgroup BY <1>4, <1>10, InSubgroup
<1>13. QED BY <1>2, <1>6, <1>8, <1>11, <1>12 DEF ProvesConstant

----------------------------------------------------------------------------
(* The invariant is inductive.                                               *)

\* The empty sum encrypts 0 with the nonce 0.
LEMMA InitHolds == Init => ProtocolInv
<1> SUFFICES ASSUME Init PROVE ProtocolInv OBVIOUS
<1>1. /\ at = "encrypt" /\ secret \in Secrets /\ header \in Headers
      /\ message = [pad |-> 1, data |-> 1] /\ r = 0 /\ total = 0 /\ added = 0
  BY DEF Init
<1>2. secret \in Int BY <1>1, Assumption, Moduli
<1>3. (total + secret * r) % Q = 0
  <2>1. total + secret * r = 0 BY <1>1, <1>2
  <2>2. 0 \in 0..(Q - 1) BY Moduli
  <2>3. 0 % Q = 0 BY <2>2, Moduli, ModOfSmall
  <2>4. QED BY <2>1, <2>3
<1>4. 0 \in Zq BY Moduli DEF Zq
<1>5. g_pow_p(0) = 1 BY <1>4, ZqIn, GPowerZero
<1>6. StatementOK BY <1>1, <1>3, <1>4, <1>5, Assumption DEF StatementOK
<1>7. DisjunctiveOK /\ ConstantOK /\ VerdictOK
  BY <1>1 DEF DisjunctiveOK, ConstantOK, VerdictOK
<1>8. QED BY <1>6, <1>7 DEF ProtocolInv

\* A ciphertext that is added adds its plaintext and its nonce.
LEMMA EncryptHolds == ProtocolInv /\ elgamalEncryptAndAdd => ProtocolInv'
<1> SUFFICES ASSUME ProtocolInv, elgamalEncryptAndAdd PROVE ProtocolInv' OBVIOUS
<1>1. StatementOK BY DEF ProtocolInv
<1>2. PICK m \in {0, 1}, nonce \in NonceChoices :
         /\ message' = elgamalAdd(message, elgamalEncrypt(m, nonce, PublicKey(secret)))
         /\ r' = add_mod_q(r, nonce)
         /\ total' = total + m
  BY DEF elgamalEncryptAndAdd
<1>3. /\ at' = "prove" /\ added' = added + 1 /\ added <= MaxAdded
      /\ secret' = secret /\ header' = header
  BY DEF elgamalEncryptAndAdd
<1> DEFINE s == secret
           n == nonce
           e == total + secret * r
           x == elgamalEncrypt(m, n, PublicKey(s))
<1>4. /\ s \in Zq /\ s \in Int /\ r \in Int /\ total \in Int /\ total \in Nat /\ e \in Int
      /\ message.pad = GPower(r) /\ message.data = GPower(e)
  BY <1>1, StatementExponents
<1>5. n \in Zq /\ n \in Int BY Moduli, Assumption DEF Zq
<1>6. m \in Int /\ m \in Nat OBVIOUS
<1>7. x.pad = GPower(n) BY <1>5, ZqIn DEF elgamalEncrypt
<1>8. x.data = GPower(m + s * n)
  <2>1. s * n \in Int BY <1>4, <1>5
  <2>2. pow_mod_p(PublicKey(s), n) = GPower(s * n) BY <1>4, <1>5, KeyPower
  <2>3. mul_mod_p(GPower(1), GPower(s * n)) = GPower(1 + s * n)
    <3>1. 1 \in Int OBVIOUS
    <3>2. QED BY <2>1, <3>1, GPowerSum
  <2>4. 0 + s * n = s * n BY <2>1
  <2>5. GPower(1) = G BY GPowerZero
  <2>6. CASE m = 1 BY <2>2, <2>3, <2>5, <2>6 DEF elgamalEncrypt
  <2>7. CASE m = 0 BY <2>2, <2>4, <2>7 DEF elgamalEncrypt
  <2>8. QED BY <2>6, <2>7
<1>9. message' = [pad |-> mul_mod_p(message.pad, x.pad), data |-> mul_mod_p(message.data, x.data)]
  BY <1>2 DEF elgamalAdd
<1> HIDE DEF x
<1>10. m + s * n \in Int /\ r + n \in Int /\ e + (m + s * n) \in Int BY <1>4, <1>5, <1>6
<1>11. message' = [pad |-> GPower(r + n), data |-> GPower(e + (m + s * n))]
  <2>1. mul_mod_p(GPower(r), GPower(n)) = GPower(r + n) BY <1>4, <1>5, GPowerSum
  <2>2. mul_mod_p(GPower(e), GPower(m + s * n)) = GPower(e + (m + s * n))
    BY <1>4, <1>10, GPowerSum
  <2>3. QED BY <1>4, <1>7, <1>8, <1>9, <2>1, <2>2
<1>12. r' = (r + n) % Q /\ r' \in Zq /\ r' \in Int /\ Same(r', r + n)
  BY <1>2, <1>10, SameAsMod DEF add_mod_q
<1>13. GPower(r + n) = g_pow_p(r') BY <1>10, <1>12, SameMod, ZqIn
<1> DEFINE f == total' + s * r'
<1>14. f \in Int BY <1>2, <1>4, <1>6, <1>12
<1>15. Same(f, e + (m + s * n))
  <2>1. PICK k \in Int : r' = (r + n) + Q * k BY <1>12 DEF Same
  <2>2. s * r' = s * r + s * n + Q * (s * k) BY <1>4, <1>5, <2>1, Moduli
  <2>3. f = e + (m + s * n) + Q * (s * k)
    <3> DEFINE a == s * r
               b == s * n
               g == Q * (s * k)
    <3>1. a \in Int /\ b \in Int /\ g \in Int BY <1>4, <1>5, Moduli
    <3>2. f = total + m + (a + b + g) BY <1>2, <2>2
    <3>3. e = total + a OBVIOUS
    <3> HIDE DEF a, g, f, e
    <3>4. f = e + (m + b) + g BY <1>4, <1>6, <3>1, <3>2, <3>3
    <3>5. QED BY <3>4 DEF g
  <2>4. s * k \in Int BY <1>4
  <2>5. QED BY <2>3, <2>4 DEF Same
<1>16. GPower(e + (m + s * n)) = g_pow_p(f % Q)
  <2>1. GPower(f) = GPower(e + (m + s * n)) BY <1>10, <1>14, <1>15, SameMod
  <2>2. f % Q \in Zq /\ (f % Q) % Q = f % Q BY <1>14, SameAsMod, ModSame
  <2>3. g_pow_p(f % Q) = GPower(f) BY <2>2, ZqIn DEF GPower
  <2>4. QED BY <2>1, <2>3
<1>17. total' \in Nat /\ added' \in Nat /\ total' <= added' /\ added' <= MaxAdded + 1
  BY <1>1, <1>2, <1>3, <1>4, Assumption DEF StatementOK
<1>18. StatementOK'
  BY <1>1, <1>3, <1>11, <1>12, <1>13, <1>16, <1>17 DEF StatementOK
<1>19. (DisjunctiveOK /\ ConstantOK /\ VerdictOK)'
  BY <1>3 DEF DisjunctiveOK, ConstantOK, VerdictOK
<1>20. QED BY <1>18, <1>19 DEF ProtocolInv

\* The makers change neither the statement nor the header.
LEMMA StatementKept ==
    ASSUME StatementOK, UNCHANGED <<statement, header>>, at' \in {"proved", "verified"},
           kind' \in {"disjunctive", "constant"}
    PROVE  StatementOK'
<1>1. /\ secret' = secret /\ message' = message /\ r' = r /\ total' = total /\ added' = added
      /\ header' = header
  BY DEF statement
<1>2. QED BY <1>1 DEF StatementOK

\* Each of the four ways to make a disjunctive proof makes one.
LEMMA MakeDisjunctiveHolds == ProtocolInv /\ makeDisjunctive => ProtocolInv'
<1> SUFFICES ASSUME ProtocolInv, makeDisjunctive PROVE ProtocolInv' OBVIOUS
<1>1. StatementOK BY DEF ProtocolInv
<1>2. at' = "proved" /\ kind' = "disjunctive" /\ UNCHANGED <<statement, header>>
  BY DEF makeDisjunctive
<1>3. secret' = secret /\ message' = message /\ total' = total /\ header' = header
  BY <1>2 DEF statement
<1>4. StatementOK' BY <1>1, <1>2, StatementKept
<1> DEFINE k == PublicKey(secret)
           C(vote, seeded, x, y, z) ==
               CASE vote = 0 /\ ~seeded -> ZeroCommitments(k, message, x, y, z)
                 [] vote = 1 /\ ~seeded -> OneCommitments(k, message, x, y, z)
                 [] vote = 0 /\ seeded  -> SeededZeroCommitments(k, message, x, y, z)
                 [] vote = 1 /\ seeded  -> SeededOneCommitments(k, message, x, y, z)
           R(vote, seeded, x, y, z, c) ==
               CASE vote = 0 /\ ~seeded -> ZeroResponses(r, c, x, y, z)
                 [] vote = 1 /\ ~seeded -> OneResponses(r, c, x, y, z)
                 [] vote = 0 /\ seeded  -> SeededZeroResponses(r, c, x, y, z)
                 [] vote = 1 /\ seeded  -> SeededOneResponses(r, c, x, y, z)
<1>5. PICK vote \in {0, 1}, seeded \in BOOLEAN, x \in Zq, y \in Zq, z \in Zq, c \in Zq :
         /\ claim' = vote
         /\ proof' = Fields(C(vote, seeded, x, y, z), R(vote, seeded, x, y, z, c))
         /\ hashed' = [input |-> DisjunctiveInput(header, message, C(vote, seeded, x, y, z)),
                       challenge |-> c]
  BY DEF makeDisjunctive
<1>6. PICK p : p = proof' OBVIOUS
<1> DEFINE commitments == C(vote, seeded, x, y, z)
           responses == R(vote, seeded, x, y, z, c)
           Goal == /\ ProvesDisjunctive(p, vote)
                   /\ p.c = c
                   /\ DisjunctiveInput(header, message, p) =
                        DisjunctiveInput(header, message, commitments)
<1>7. ASSUME vote = 0, ~seeded PROVE Goal
  <2>1. /\ commitments = ZeroCommitments(k, message, x, y, z)
        /\ responses = ZeroResponses(r, c, x, y, z)
    BY <1>7
  <2> HIDE DEF C, R
  <2>2. p = Fields(ZeroCommitments(k, message, x, y, z), ZeroResponses(r, c, x, y, z))
    BY <1>5, <1>6, <2>1
  <2>3. ProvesDisjunctive(p, vote) BY <1>1, <1>7, <2>2, ZeroProves
  <2>4. p.c = c /\ DisjunctiveInput(header, message, p) =
                     DisjunctiveInput(header, message, commitments)
    BY <2>1, <2>2, DisjunctiveFields DEF ZeroCommitments, ZeroResponses, DisjunctiveInput
  <2>5. QED BY <2>3, <2>4
<1>8. ASSUME vote = 1, ~seeded PROVE Goal
  <2>1. /\ commitments = OneCommitments(k, message, x, y, z)
        /\ responses = OneResponses(r, c, x, y, z)
    BY <1>8
  <2> HIDE DEF C, R
  <2>2. p = Fields(OneCommitments(k, message, x, y, z), OneResponses(r, c, x, y, z))
    BY <1>5, <1>6, <2>1
  <2>3. ProvesDisjunctive(p, vote) BY <1>1, <1>8, <2>2, OneProves
  <2>4. p.c = c /\ DisjunctiveInput(header, message, p) =
                     DisjunctiveInput(header, message, commitments)
    BY <2>1, <2>2, DisjunctiveFields DEF OneCommitments, OneResponses, DisjunctiveInput
  <2>5. QED BY <2>3, <2>4
<1>9. ASSUME vote = 0, seeded PROVE Goal
  <2>1. /\ commitments = SeededZeroCommitments(k, message, x, y, z)
        /\ responses = SeededZeroResponses(r, c, x, y, z)
    BY <1>9
  <2> HIDE DEF C, R
  <2>2. p = Fields(SeededZeroCommitments(k, message, x, y, z),
                   SeededZeroResponses(r, c, x, y, z))
    BY <1>5, <1>6, <2>1
  <2>3. ProvesDisjunctive(p, vote) BY <1>1, <1>9, <2>2, SeededZeroProves
  <2>4. p.c = c /\ DisjunctiveInput(header, message, p) =
                     DisjunctiveInput(header, message, commitments)
    BY <2>1, <2>2, DisjunctiveFields
       DEF SeededZeroCommitments, SeededZeroResponses, DisjunctiveInput
  <2>5. QED BY <2>3, <2>4
<1>10. ASSUME vote = 1, seeded PROVE Goal
  <2>1. /\ commitments = SeededOneCommitments(k, message, x, y, z)
        /\ responses = SeededOneResponses(r, c, x, y, z)
    BY <1>10
  <2> HIDE DEF C, R
  <2>2. p = Fields(SeededOneCommitments(k, message, x, y, z),
                   SeededOneResponses(r, c, x, y, z))
    BY <1>5, <1>6, <2>1
  <2>3. ProvesDisjunctive(p, vote) BY <1>1, <1>10, <2>2, SeededOneProves
  <2>4. p.c = c /\ DisjunctiveInput(header, message, p) =
                     DisjunctiveInput(header, message, commitments)
    BY <2>1, <2>2, DisjunctiveFields
       DEF SeededOneCommitments, SeededOneResponses, DisjunctiveInput
  <2>5. QED BY <2>3, <2>4
<1> HIDE DEF C, R
<1>11. Goal BY <1>7, <1>8, <1>9, <1>10
<1>12. (ProvesDisjunctive(proof, claim))'
  BY <1>3, <1>5, <1>6, <1>11 DEF ProvesDisjunctive, Off
<1>13. DisjunctiveOK'
  <2>1. hashed' = [input |-> DisjunctiveInput(header, message, p), challenge |-> p.c]
    BY <1>5, <1>11
  <2>2. (hashed = [input |-> DisjunctiveInput(header, message, proof), challenge |-> proof.c])'
    BY <1>3, <1>6, <2>1
  <2>3. QED BY <1>12, <2>2 DEF DisjunctiveOK
<1>14. (ConstantOK /\ VerdictOK)' BY <1>2 DEF ConstantOK, VerdictOK
<1>15. QED BY <1>4, <1>13, <1>14 DEF ProtocolInv

\* makeConstant makes a constant proof.
LEMMA MakeConstantHolds == ProtocolInv /\ makeConstant => ProtocolInv'
<1> SUFFICES ASSUME ProtocolInv, makeConstant PROVE ProtocolInv' OBVIOUS
<1>1. StatementOK BY DEF ProtocolInv
<1>2. at' = "proved" /\ kind' = "constant" /\ UNCHANGED <<statement, header>>
  BY DEF makeConstant
<1>3. secret' = secret /\ message' = message /\ total' = total /\ header' = header
  BY <1>2 DEF statement
<1>4. StatementOK' BY <1>1, <1>2, StatementKept
<1> DEFINE C(u) == ConstantCommitments(PublicKey(secret), u)
           R(u, c, constant) == ConstantResponse(r, c, u, constant)
<1>5. PICK constant \in 0..MaxClaim, u \in Zq, c \in Zq :
         /\ claim' = constant
         /\ proof' = Fields(C(u), R(u, c, constant))
         /\ hashed' = [input |-> ConstantInput(header, message, C(u)), challenge |-> c]
  BY DEF makeConstant
<1>6. PICK p : p = proof' OBVIOUS
<1>7. p = Fields(C(u), R(u, c, constant)) BY <1>5, <1>6
<1>8. ProvesConstant(p, constant) BY <1>1, <1>7, ConstantProves
<1>9. p.c = c /\ ConstantInput(header, message, p) = ConstantInput(header, message, C(u))
  BY <1>7, ConstantFields DEF ConstantCommitments, ConstantResponse, ConstantInput
<1> HIDE DEF C, R
<1>10. (ProvesConstant(proof, claim))'
  BY <1>3, <1>5, <1>6, <1>8 DEF ProvesConstant, Off
<1>11. ConstantOK'
  <2>1. hashed' = [input |-> ConstantInput(header, message, p), challenge |-> p.c]
    BY <1>5, <1>9
  <2>2. (hashed = [input |-> ConstantInput(header, message, proof), challenge |-> proof.c])'
    BY <1>3, <1>6, <2>1
  <2>3. QED BY <1>10, <2>2 DEF ConstantOK
<1>12. (DisjunctiveOK /\ VerdictOK)' BY <1>2 DEF DisjunctiveOK, VerdictOK
<1>13. QED BY <1>4, <1>11, <1>12 DEF ProtocolInv

\* The verifier changes nothing but what it was asked and what it says.
LEMMA IsValidHolds == ProtocolInv /\ isValid => ProtocolInv'
<1> SUFFICES ASSUME ProtocolInv, isValid PROVE ProtocolInv' OBVIOUS
<1>1. StatementOK /\ DisjunctiveOK /\ ConstantOK /\ at = "proved" BY DEF ProtocolInv, isValid
<1>2. /\ at' = "verified" /\ kind' = kind /\ proof' = proof /\ hashed' = hashed
      /\ claim' = claim /\ header' = header /\ UNCHANGED statement
  BY DEF isValid
<1>3. secret' = secret /\ message' = message /\ total' = total /\ r' = r /\ added' = added
  BY <1>2 DEF statement
<1>4. kind \in {"disjunctive", "constant"} BY <1>1 DEF StatementOK
<1>5. StatementOK' BY <1>1, <1>2, <1>4, StatementKept
<1>6. (DisjunctiveOK)' BY <1>1, <1>2, <1>3 DEF DisjunctiveOK, ProvesDisjunctive, Off
<1>7. (ConstantOK)' BY <1>1, <1>2, <1>3 DEF ConstantOK, ProvesConstant, Off
<1>8. PICK question \in Questions : \E c \in IF InputOf(question) = hashed.input
                                             THEN {hashed.challenge} ELSE Zq :
         asked' = question /\ verdict' = Verdict(question, c)
  BY DEF isValid, InputOf, Verdict
<1>9. PICK c \in IF InputOf(question) = hashed.input THEN {hashed.challenge} ELSE Zq :
         asked' = question /\ verdict' = Verdict(question, c)
  BY <1>8
<1>10. hashed.challenge \in Zq
  BY <1>1, <1>4 DEF DisjunctiveOK, ConstantOK, ProvesDisjunctive, ProvesConstant
<1>11. c \in Zq /\ (InputOf(question) = hashed.input => c = hashed.challenge) BY <1>9, <1>10
<1>12. (asked \in Questions)' BY <1>2, <1>3, <1>9 DEF Questions
<1>13. (InputOf(asked) = hashed.input => c = hashed.challenge)'
  BY <1>2, <1>9, <1>11 DEF InputOf
<1>14. (verdict = Verdict(asked, c))' BY <1>2, <1>9 DEF Verdict
<1>15. VerdictOK' BY <1>11, <1>12, <1>13, <1>14 DEF VerdictOK
<1>16. QED BY <1>5, <1>6, <1>7, <1>15 DEF ProtocolInv

\* Type correctness and what every proof is made of, in every reachable state.
THEOREM ProtocolInvHolds == Spec => []ProtocolInv
<1>1. Init => ProtocolInv BY InitHolds
<1>2. ProtocolInv /\ [Next]_vars => ProtocolInv'
  <2> SUFFICES ASSUME ProtocolInv, [Next]_vars PROVE ProtocolInv' OBVIOUS
  <2>1. CASE elgamalEncryptAndAdd BY <2>1, EncryptHolds
  <2>2. CASE makeDisjunctive BY <2>2, MakeDisjunctiveHolds
  <2>3. CASE makeConstant BY <2>3, MakeConstantHolds
  <2>4. CASE isValid BY <2>4, IsValidHolds
  <2>5. ASSUME UNCHANGED vars PROVE ProtocolInv'
    <3>1. /\ at' = at /\ kind' = kind /\ proof' = proof /\ hashed' = hashed /\ asked' = asked
          /\ claim' = claim /\ header' = header /\ verdict' = verdict
          /\ secret' = secret /\ message' = message /\ total' = total /\ r' = r
          /\ added' = added
      BY <2>5 DEF vars, statement
    <3>2. StatementOK' BY <3>1 DEF ProtocolInv, StatementOK
    <3>3. DisjunctiveOK' BY <3>1 DEF ProtocolInv, DisjunctiveOK, ProvesDisjunctive, Off
    <3>4. ConstantOK' BY <3>1 DEF ProtocolInv, ConstantOK, ProvesConstant, Off
    <3>5. VerdictOK' BY <3>1 DEF ProtocolInv, VerdictOK, Questions, InputOf, Verdict
    <3>6. QED BY <3>2, <3>3, <3>4, <3>5 DEF ProtocolInv
  <2>6. QED BY <2>1, <2>2, <2>3, <2>4, <2>5 DEF Next, Verified
<1>3. QED BY <1>1, <1>2, PTL DEF Spec

----------------------------------------------------------------------------
(* The verifiers in the exponent.                                            *)

\* Two equations that differ by a term: the term is a multiple of Q.
LEMMA SameCancel ==
    ASSUME NEW x \in Int, NEW y \in Int, NEW d \in Int, Same(x, y + d), Same(x, y)
    PROVE  Same(d, 0)
<1>1. PICK k \in Int : x = y + d + Q * k BY DEF Same
<1>2. PICK j \in Int : x = y + Q * j BY DEF Same
<1>3. d = 0 + Q * (j - k) BY <1>1, <1>2, Moduli
<1>4. j - k \in Int OBVIOUS
<1>5. QED BY <1>3, <1>4 DEF Same

\* Two exponents that are the same as a third one.
LEMMA SameDifference ==
    ASSUME NEW x \in Int, NEW y \in Int, NEW z \in Int, Same(x, z), Same(y, z)
    PROVE  Same(x - y, 0) /\ Same(x, y)
<1>1. PICK k \in Int : x = z + Q * k BY DEF Same
<1>2. PICK j \in Int : y = z + Q * j BY DEF Same
<1>3. x - y = 0 + Q * (k - j) /\ x = y + Q * (k - j) BY <1>1, <1>2, Moduli
<1>4. k - j \in Int OBVIOUS
<1>5. QED BY <1>3, <1>4 DEF Same

\* Numbers that differ by less than Q are equal if they are the same exponent.
LEMMA SameSmall ==
    ASSUME NEW x \in Zq, NEW y \in Zq, Same(x - y, 0) PROVE x = y
<1>1. PICK k \in Int : x - y = 0 + Q * k BY DEF Same
<1>2. x \in Int /\ y \in Int BY ZqIn
<1>3. x = y + Q * k BY <1>1, <1>2, Moduli
<1>4. Same(x, y) BY <1>3 DEF Same
<1>5. QED BY <1>4, SameZq

\* Zero is the only multiple of Q in Zq.
LEMMA NonZeroExponent ==
    ASSUME NEW x \in Zq, Same(x, 0) PROVE x = 0
<1>1. 0 \in Zq BY Moduli DEF Zq
<1>2. QED BY <1>1, SameZq

\* The commitments of a disjunctive proof have the exponents x0, y0, x1 and y1.
Committed(p, x0, y0, x1, y1) ==
    /\ x0 \in Int /\ y0 \in Int /\ x1 \in Int /\ y1 \in Int
    /\ p.a0 = GPower(x0) /\ p.b0 = GPower(y0) /\ p.a1 = GPower(x1) /\ p.b1 = GPower(y1)

\* What the verifier checks of it, for the key of the secret s and a ciphertext
\* with the exponents f and g.
AcceptsDisjunctive(p, x0, y0, x1, y1, s, f, g) ==
    /\ p.c0 # 0 /\ p.c1 # 0 /\ p.v0 # 0 /\ p.v1 # 0
    /\ Same(p.v0, x0 + f * p.c0) /\ Same(s * p.v0, y0 + g * p.c0)
    /\ Same(p.v1, x1 + f * p.c1) /\ Same(p.c1 + s * p.v1, y1 + g * p.c1)

\* isInBounds leaves out zero only.
LEMMA InBounds == ASSUME NEW e \in Zq PROVE isInBounds(e) <=> e # 0
BY Moduli DEF isInBounds, Zq

\* DisjunctiveChaumPedersenProof::isValid in the exponent.
LEMMA DisjunctiveVerifies ==
    ASSUME NEW p, NEW x0, NEW y0, NEW x1, NEW y1, Committed(p, x0, y0, x1, y1),
           p.c0 \in Zq, p.c1 \in Zq, p.v0 \in Zq, p.v1 \in Zq,
           NEW s \in Zq, NEW f \in Int, NEW g \in Int, NEW x,
           x.pad = GPower(f), x.data = GPower(g), NEW c
    PROVE  DisjunctiveIsValid(p, x, PublicKey(s), c) <=>
               AcceptsDisjunctive(p, x0, y0, x1, y1, s, f, g)
                 /\ add_mod_q(p.c0, p.c1) = p.c /\ p.c = c
<1> DEFINE c0 == p.c0
           c1 == p.c1
           v0 == p.v0
           v1 == p.v1
<1>1. c0 \in Zq /\ c1 \in Zq /\ v0 \in Zq /\ v1 \in Zq OBVIOUS
<1>2. c1 \in 0..(P - 1) /\ 0 \in Zq BY <1>1, ZqIn, Moduli DEF Zq
<1> HIDE DEF c0, c1, v0, v1
<1>3. x0 \in Int /\ y0 \in Int /\ x1 \in Int /\ y1 \in Int BY DEF Committed
<1>4. \A e \in {x.pad, x.data, p.a0, p.b0, p.a1, p.b1} : isValidResidue(e)
  BY <1>3, GPowerResidue DEF Committed
<1>5. (\A e \in {c0, c1, v0, v1} : isInBounds(e)) <=> c0 # 0 /\ c1 # 0 /\ v0 # 0 /\ v1 # 0
  BY <1>1, InBounds
<1>6. g_pow_p(v0) = mul_mod_p(GPower(x0), pow_mod_p(GPower(f), c0)) <=> Same(v0, x0 + f * c0)
  BY <1>1, <1>3, PadEquation
<1>7. g_pow_p(v1) = mul_mod_p(GPower(x1), pow_mod_p(GPower(f), c1)) <=> Same(v1, x1 + f * c1)
  BY <1>1, <1>3, PadEquation
<1>8. pow_mod_p(PublicKey(s), v0) = mul_mod_p(GPower(y0), pow_mod_p(GPower(g), c0))
        <=> Same(s * v0, y0 + g * c0)
  BY <1>1, <1>2, <1>3, DataEquation
<1>9. mul_mod_p(g_pow_p(c1), pow_mod_p(PublicKey(s), v1)) =
          mul_mod_p(GPower(y1), pow_mod_p(GPower(g), c1))
        <=> Same(c1 + s * v1, y1 + g * c1)
  BY <1>1, <1>2, <1>3, DataEquation
<1>10. QED
  BY <1>4, <1>5, <1>6, <1>7, <1>8, <1>9
     DEF DisjunctiveIsValid, AcceptsDisjunctive, Committed, c0, c1, v0, v1

\* What the verifier checks of a constant proof with the exponents y and z.
AcceptsConstant(p, y, z, s, f, g) ==
    /\ p.c # 0 /\ p.v # 0
    /\ Same(p.v, y + f * p.c) /\ Same(p.constant * p.c + s * p.v, z + g * p.c)

\* ConstantChaumPedersenProof::isValid in the exponent.
LEMMA ConstantVerifies ==
    ASSUME NEW p, NEW y \in Int, NEW z \in Int, p.a = GPower(y), p.b = GPower(z),
           p.c \in Zq, p.v \in Zq, p.constant \in 0..MaxClaim,
           NEW s \in Zq, NEW f \in Int, NEW g \in Int, NEW x,
           x.pad = GPower(f), x.data = GPower(g), NEW c
    PROVE  ConstantIsValid(p, x, PublicKey(s), c) <=>
               AcceptsConstant(p, y, z, s, f, g) /\ p.c = c
<1> DEFINE h == p.c
           v == p.v
           m == p.constant * h
<1>1. h \in Zq /\ v \in Zq OBVIOUS
<1>2. mul_mod_p(h, p.constant) = m /\ m \in 0..(P - 1) BY Multiple
<1>3. 0 \in Zq BY Moduli DEF Zq
<1> HIDE DEF h, v, m
<1>4. \A e \in {x.pad, x.data, p.a, p.b} : isValidResidue(e) BY GPowerResidue
<1>5. (isInBounds(h) <=> h # 0) /\ (isInBounds(v) <=> v # 0) BY <1>1, InBounds
<1>6. g_pow_p(v) = mul_mod_p(GPower(y), pow_mod_p(GPower(f), h)) <=> Same(v, y + f * h)
  BY <1>1, PadEquation
<1>7. mul_mod_p(g_pow_p(m), pow_mod_p(PublicKey(s), v)) =
          mul_mod_p(GPower(z), pow_mod_p(GPower(g), h))
        <=> Same(m + s * v, z + g * h)
  BY <1>1, <1>2, <1>3, DataEquation
<1>8. QED BY <1>2, <1>4, <1>5, <1>6, <1>7 DEF ConstantIsValid, AcceptsConstant, h, v, m

\* A disjunctive proof that was made, in the exponent.
DisjunctiveParts(p, claimed, x0, y0, x1, y1, d0, d1) ==
    /\ Committed(p, x0, y0, x1, y1)
    /\ d0 \in {0, Off(claimed, p.c0)} /\ d1 \in {0, Off(claimed, p.c1)}
    /\ claimed = 0 => d0 = Off(claimed, p.c0)
    /\ claimed = 1 => d1 = Off(claimed, p.c1)
    /\ Branch(0, x0, y0, p.c0, p.v0, d0) /\ Branch(1, x1, y1, p.c1, p.v1, d1)

\* An element of the subgroup has an exponent.
LEMMA SubgroupExponent == ASSUME NEW a \in Subgroup PROVE \E x \in Int : a = GPower(x)
<1>1. PICK e \in Zq : a = g_pow_p(e) BY DEF Subgroup
<1>2. QED BY <1>1, ZqIn

\* A disjunctive proof that was made has these parts.
LEMMA DisjunctiveHasParts ==
    ASSUME StatementOK, NEW p, NEW claimed, ProvesDisjunctive(p, claimed)
    PROVE  \E x0, y0, x1, y1, d0, d1 : DisjunctiveParts(p, claimed, x0, y0, x1, y1, d0, d1)
<1>1. /\ p.a0 \in Subgroup /\ p.b0 \in Subgroup /\ p.a1 \in Subgroup /\ p.b1 \in Subgroup
      /\ p.c0 \in Zq /\ p.c1 \in Zq /\ p.v0 \in Zq /\ p.v1 \in Zq /\ claimed \in {0, 1}
  BY DEF ProvesDisjunctive
<1>2. PICK x0 \in Int : p.a0 = GPower(x0) BY <1>1, SubgroupExponent
<1>3. PICK y0 \in Int : p.b0 = GPower(y0) BY <1>1, SubgroupExponent
<1>4. PICK x1 \in Int : p.a1 = GPower(x1) BY <1>1, SubgroupExponent
<1>5. PICK y1 \in Int : p.b1 = GPower(y1) BY <1>1, SubgroupExponent
<1>6. PICK d0 \in {0, Off(claimed, p.c0)}, d1 \in {0, Off(claimed, p.c1)} :
         /\ claimed = 0 => d0 = Off(claimed, p.c0)
         /\ claimed = 1 => d1 = Off(claimed, p.c1)
         /\ Answers(p, message, PublicKey(secret), d0, d1)
  BY DEF ProvesDisjunctive
<1>7. d0 \in Zq /\ d1 \in Zq
  <2>1. claimed \in Int /\ p.c0 \in Int /\ p.c1 \in Int /\ 0 \in Zq
    BY <1>1, ZqIn, Moduli DEF Zq
  <2>2. Off(claimed, p.c0) \in Zq BY <2>1, OffIs
  <2>3. Off(claimed, p.c1) \in Zq BY <2>1, OffIs
  <2>4. QED BY <2>1, <2>2, <2>3
<1>8. Branch(0, x0, y0, p.c0, p.v0, d0) /\ Branch(1, x1, y1, p.c1, p.v1, d1)
  BY <1>1, <1>2, <1>3, <1>4, <1>5, <1>6, <1>7, AnswersExponents
<1>9. Committed(p, x0, y0, x1, y1) BY <1>2, <1>3, <1>4, <1>5 DEF Committed
<1>10. DisjunctiveParts(p, claimed, x0, y0, x1, y1, d0, d1)
  BY <1>6, <1>8, <1>9 DEF DisjunctiveParts
<1>11. QED BY <1>10

\* A branch that is not off is what the verifier checks.
LEMMA BranchAccepted ==
    ASSUME StatementOK, NEW b \in Int, NEW x \in Int, NEW y \in Int, NEW c \in Zq, NEW v \in Zq
    PROVE  /\ Branch(b, x, y, c, v, 0) <=>
                Same(v, x + r * c) /\ Same(b * c + secret * v, y + (total + secret * r) * c)
           /\ \A d \in Int :
                Branch(b, x, y, c, v, d)
                  /\ Same(b * c + secret * v, y + (total + secret * r) * c) => Same(d, 0)
<1> DEFINE e == y + (total + secret * r) * c
           m == b * c + secret * v
<1>1. c \in Int /\ v \in Int BY ZqIn
<1>2. secret \in Int /\ r \in Int /\ total \in Int /\ total + secret * r \in Int
  BY StatementExponents
<1>3. e \in Int /\ m \in Int BY <1>1, <1>2
<1> HIDE DEF e, m
<1>4. e + 0 = e BY <1>3
<1>5. \A d \in Int : Same(m, e + d) /\ Same(m, e) => Same(d, 0) BY <1>3, SameCancel
<1>6. \A d : Branch(b, x, y, c, v, d) <=> Same(v, x + r * c) /\ Same(m, e + d)
  BY DEF Branch, e, m
<1>7. QED BY <1>4, <1>5, <1>6 DEF e, m

\* A proof of a claim that is off by nothing but zero.
LEMMA OffZero ==
    ASSUME StatementOK, NEW b \in Int, NEW c \in Int
    PROVE  b = total => Off(b, c) = 0
<1>1. 0 \in 0..(Q - 1) /\ total \in Int BY StatementExponents, Moduli
<1>2. 0 % Q = 0 BY <1>1, Moduli, ModOfSmall
<1>3. b = total => (b - total) * c = 0 BY <1>1
<1>4. QED BY <1>2, <1>3 DEF Off

\* A proof of a claim that is off by zero, for a challenge that is not zero.
LEMMA OffNonZero ==
    ASSUME StatementOK, NEW b \in Zq, NEW c \in Zq, Same(Off(b, c), 0), c # 0
    PROVE  b = total
<1>1. b \in Int /\ c \in Int /\ total \in Int /\ total \in Zq
  BY ZqIn, StatementExponents, Moduli DEF Zq
<1>2. Off(b, c) \in Int /\ Same(Off(b, c), (b - total) * c) BY <1>1, OffIs
<1>3. Same((b - total) * c, 0)
  <2> DEFINE x == (b - total) * c
             y == Off(b, c)
  <2>1. x \in Int /\ y \in Int /\ Same(y, x) /\ Same(y, 0) /\ 0 \in Int BY <1>1, <1>2
  <2> HIDE DEF x, y
  <2>2. y % Q = x % Q /\ y % Q = 0 % Q BY <2>1, SameMod
  <2>3. Same(x, 0) BY <2>1, <2>2, SameMod
  <2>4. QED BY <2>3 DEF x
<1>4. b - total \in Int BY <1>1
<1>5. Same(b - total, 0) \/ Same(c, 0) BY <1>1, <1>3, <1>4, SameTimes
<1>6. ~Same(c, 0) BY NonZeroExponent
<1>7. QED BY <1>1, <1>5, <1>6, SameSmall

\* The verifier's answer about the statement that was proved.
LEMMA DisjunctiveAnswer ==
    ASSUME StatementOK, NEW p, NEW claimed, ProvesDisjunctive(p, claimed)
    PROVE  /\ claimed = total => (DisjunctiveIsValid(p, message, PublicKey(secret), p.c) <=>
                                     p.c0 # 0 /\ p.c1 # 0 /\ p.v0 # 0 /\ p.v1 # 0)
           /\ claimed # total => ~DisjunctiveIsValid(p, message, PublicKey(secret), p.c)
<1>1. /\ p.c0 \in Zq /\ p.c1 \in Zq /\ p.v0 \in Zq /\ p.v1 \in Zq /\ claimed \in {0, 1}
      /\ add_mod_q(p.c0, p.c1) = p.c
  BY DEF ProvesDisjunctive
<1>2. PICK x0, y0, x1, y1, d0, d1 : DisjunctiveParts(p, claimed, x0, y0, x1, y1, d0, d1)
  BY DisjunctiveHasParts
<1> DEFINE e == total + secret * r
           c0 == p.c0
           c1 == p.c1
           v0 == p.v0
           v1 == p.v1
<1>3. /\ secret \in Zq /\ r \in Int /\ e \in Int /\ total \in Int /\ secret \in Int
      /\ message.pad = GPower(r) /\ message.data = GPower(e)
  BY StatementExponents
<1>4. Committed(p, x0, y0, x1, y1) /\ x0 \in Int /\ y0 \in Int /\ x1 \in Int /\ y1 \in Int
  BY <1>2 DEF DisjunctiveParts, Committed
<1>5. claimed \in Int /\ claimed \in Zq /\ c0 \in Int /\ c1 \in Int /\ v0 \in Int /\ v1 \in Int
      /\ c0 \in Zq /\ c1 \in Zq /\ v0 \in Zq /\ v1 \in Zq
  BY <1>1, ZqIn, Moduli DEF Zq
<1>6. DisjunctiveIsValid(p, message, PublicKey(secret), p.c) <=>
          AcceptsDisjunctive(p, x0, y0, x1, y1, secret, r, e)
  <2> HIDE DEF e
  <2>1. QED BY <1>1, <1>3, <1>4, DisjunctiveVerifies
<1>7. /\ Branch(0, x0, y0, c0, v0, d0) /\ Branch(1, x1, y1, c1, v1, d1)
      /\ d0 \in {0, Off(claimed, c0)} /\ d1 \in {0, Off(claimed, c1)}
      /\ claimed = 0 => d0 = Off(claimed, c0)
      /\ claimed = 1 => d1 = Off(claimed, c1)
  BY <1>2 DEF DisjunctiveParts
<1>8. /\ AcceptsDisjunctive(p, x0, y0, x1, y1, secret, r, e) <=>
            /\ c0 # 0 /\ c1 # 0 /\ v0 # 0 /\ v1 # 0
            /\ Same(v0, x0 + r * c0) /\ Same(secret * v0, y0 + e * c0)
            /\ Same(v1, x1 + r * c1) /\ Same(c1 + secret * v1, y1 + e * c1)
  BY DEF AcceptsDisjunctive
<1> HIDE DEF c0, c1, v0, v1
<1>9. 0 * c0 + secret * v0 = secret * v0 /\ 1 * c1 = c1 /\ 0 \in Int /\ 1 \in Int
  BY <1>3, <1>5
<1>10. /\ Branch(0, x0, y0, c0, v0, 0) =>
             Same(v0, x0 + r * c0) /\ Same(secret * v0, y0 + e * c0)
       /\ \A d \in Int : Branch(0, x0, y0, c0, v0, d) /\ Same(secret * v0, y0 + e * c0)
             => Same(d, 0)
  <2>1. /\ Branch(0, x0, y0, c0, v0, 0) <=>
             Same(v0, x0 + r * c0) /\ Same(0 * c0 + secret * v0, y0 + e * c0)
        /\ \A d \in Int : Branch(0, x0, y0, c0, v0, d)
             /\ Same(0 * c0 + secret * v0, y0 + e * c0) => Same(d, 0)
    BY <1>4, <1>5, <1>9, BranchAccepted
  <2>2. QED BY <1>9, <2>1
<1>11. /\ Branch(1, x1, y1, c1, v1, 0) =>
             Same(v1, x1 + r * c1) /\ Same(c1 + secret * v1, y1 + e * c1)
       /\ \A d \in Int : Branch(1, x1, y1, c1, v1, d) /\ Same(c1 + secret * v1, y1 + e * c1)
             => Same(d, 0)
  <2>1. /\ Branch(1, x1, y1, c1, v1, 0) <=>
             Same(v1, x1 + r * c1) /\ Same(1 * c1 + secret * v1, y1 + e * c1)
        /\ \A d \in Int : Branch(1, x1, y1, c1, v1, d)
             /\ Same(1 * c1 + secret * v1, y1 + e * c1) => Same(d, 0)
    BY <1>4, <1>5, <1>9, BranchAccepted
  <2>2. QED BY <1>9, <2>1
<1> HIDE DEF e
<1>12. claimed = total => d0 = 0 /\ d1 = 0
  <2>1. claimed = total => Off(claimed, c0) = 0 BY <1>5, OffZero
  <2>2. claimed = total => Off(claimed, c1) = 0 BY <1>5, OffZero
  <2>3. QED BY <1>7, <2>1, <2>2
<1>13. claimed = total => (AcceptsDisjunctive(p, x0, y0, x1, y1, secret, r, e) <=>
                              c0 # 0 /\ c1 # 0 /\ v0 # 0 /\ v1 # 0)
  BY <1>7, <1>8, <1>10, <1>11, <1>12
<1>14. ASSUME claimed # total, AcceptsDisjunctive(p, x0, y0, x1, y1, secret, r, e) PROVE FALSE
  <2>1. c0 # 0 /\ c1 # 0 /\ Same(secret * v0, y0 + e * c0) /\ Same(c1 + secret * v1, y1 + e * c1)
    BY <1>8, <1>14
  <2>2. CASE claimed = 0
    <3>1. d0 = Off(claimed, c0) /\ d0 \in Int BY <1>5, <1>7, <2>2, OffIs
    <3>2. Same(Off(claimed, c0), 0) BY <1>7, <1>10, <2>1, <3>1
    <3>3. claimed = total BY <1>5, <2>1, <3>2, OffNonZero
    <3>4. QED BY <1>14, <3>3
  <2>3. CASE claimed = 1
    <3>1. d1 = Off(claimed, c1) /\ d1 \in Int BY <1>5, <1>7, <2>3, OffIs
    <3>2. Same(Off(claimed, c1), 0) BY <1>7, <1>11, <2>1, <3>1
    <3>3. claimed = total BY <1>5, <2>1, <3>2, OffNonZero
    <3>4. QED BY <1>14, <3>3
  <2>4. QED BY <1>1, <2>2, <2>3
<1>15. QED BY <1>6, <1>13, <1>14 DEF c0, c1, v0, v1

\* The same for a constant proof.
LEMMA ConstantAnswer ==
    ASSUME StatementOK, NEW p, NEW claimed, ProvesConstant(p, claimed)
    PROVE  /\ claimed = total => (ConstantIsValid(p, message, PublicKey(secret), p.c) <=>
                                     p.c # 0 /\ p.v # 0)
           /\ claimed # total => ~ConstantIsValid(p, message, PublicKey(secret), p.c)
<1> DEFINE e == total + secret * r
           c == p.c
           v == p.v
           d == Off(claimed, c)
<1>1. /\ c \in Zq /\ v \in Zq /\ claimed \in 0..MaxClaim /\ p.constant = claimed
      /\ p.a \in Subgroup /\ p.b \in Subgroup
      /\ g_pow_p(v) = mul_mod_p(p.a, pow_mod_p(message.pad, c))
      /\ mul_mod_p(g_pow_p(mul_mod_p(c, claimed)), pow_mod_p(PublicKey(secret), v)) =
          mul_mod_p(mul_mod_p(p.b, pow_mod_p(message.data, c)), g_pow_p(d))
  BY DEF ProvesConstant
<1>2. PICK y \in Int : p.a = GPower(y) BY <1>1, SubgroupExponent
<1>3. PICK z \in Int : p.b = GPower(z) BY <1>1, SubgroupExponent
<1>4. /\ secret \in Zq /\ r \in Int /\ e \in Int /\ total \in Int /\ secret \in Int
      /\ message.pad = GPower(r) /\ message.data = GPower(e)
  BY StatementExponents
<1>5. claimed \in Int /\ claimed \in Zq /\ c \in Int /\ v \in Int
  BY <1>1, ZqIn, Assumption, Moduli DEF Zq
<1>6. d \in Zq /\ d \in Int BY <1>5, OffIs
<1>7. ConstantIsValid(p, message, PublicKey(secret), p.c) <=>
          AcceptsConstant(p, y, z, secret, r, e)
  <2> HIDE DEF e, d
  <2>1. QED BY <1>1, <1>2, <1>3, <1>4, ConstantVerifies
<1>8. AcceptsConstant(p, y, z, secret, r, e) <=>
          /\ c # 0 /\ v # 0
          /\ Same(v, y + r * c) /\ Same(claimed * c + secret * v, z + e * c)
  BY <1>1 DEF AcceptsConstant
<1> HIDE DEF c, v, d
<1>9. Branch(claimed, y, z, c, v, d)
  <2>1. Branch(claimed, y, z, c, v, d) <=>
          (/\ g_pow_p(v) = mul_mod_p(GPower(y), pow_mod_p(message.pad, c))
           /\ mul_mod_p(g_pow_p(mul_mod_p(c, claimed)), pow_mod_p(PublicKey(secret), v)) =
               mul_mod_p(mul_mod_p(GPower(z), pow_mod_p(message.data, c)), g_pow_p(d)))
    <3>1. PICK m \in 0..MaxClaim : m = claimed BY <1>1
    <3>2. y \in Int /\ z \in Int /\ c \in Zq /\ v \in Zq /\ d \in Zq BY <1>1, <1>6
    <3>3. Branch(m, y, z, c, v, d) <=>
            (/\ g_pow_p(v) = mul_mod_p(GPower(y), pow_mod_p(message.pad, c))
             /\ mul_mod_p(g_pow_p(mul_mod_p(c, m)), pow_mod_p(PublicKey(secret), v)) =
                 mul_mod_p(mul_mod_p(GPower(z), pow_mod_p(message.data, c)), g_pow_p(d)))
      BY ONLY StatementOK, m \in 0..MaxClaim, <3>2, ConstantExponents
    <3>4. QED BY <3>1, <3>3
  <2>2. QED BY <1>1, <1>2, <1>3, <2>1
<1>10. /\ Branch(claimed, y, z, c, v, 0) <=>
            Same(v, y + r * c) /\ Same(claimed * c + secret * v, z + e * c)
       /\ Branch(claimed, y, z, c, v, d) /\ Same(claimed * c + secret * v, z + e * c)
            => Same(d, 0)
  BY <1>1, <1>5, <1>6, BranchAccepted
<1>11. claimed = total => d = 0 BY <1>5, OffZero DEF d
<1>12. ASSUME claimed # total, AcceptsConstant(p, y, z, secret, r, e) PROVE FALSE
  <2>1. Same(Off(claimed, c), 0) /\ c # 0 BY <1>8, <1>9, <1>10, <1>12 DEF d
  <2>2. claimed = total BY <1>1, <1>5, <2>1, OffNonZero
  <2>3. QED BY <1>12, <2>2
<1>13. claimed = total => (AcceptsConstant(p, y, z, secret, r, e) <=> c # 0 /\ v # 0)
  BY <1>8, <1>9, <1>10, <1>11
<1>14. QED BY <1>7, <1>12, <1>13 DEF c, v

\* The verifier that is asked about the statement computes the challenge of the
\* proof.
LEMMA SameAnswer ==
    ASSUME ProtocolInv, at = "verified", SameStatement
    PROVE  /\ kind \in {"disjunctive", "constant"}
           /\ kind = "disjunctive" =>
                /\ ProvesDisjunctive(proof, claim)
                /\ verdict = DisjunctiveIsValid(proof, message, PublicKey(secret), proof.c)
           /\ kind = "constant" =>
                /\ ProvesConstant(proof, claim)
                /\ verdict = ConstantIsValid(proof, message, PublicKey(secret), proof.c)
<1>1. kind \in {"disjunctive", "constant"} BY DEF ProtocolInv, StatementOK
<1>2. PICK c \in Zq : /\ InputOf(asked) = hashed.input => c = hashed.challenge
                      /\ verdict = Verdict(asked, c)
  BY DEF ProtocolInv, VerdictOK
<1>3. asked.message = message /\ asked.secret = secret /\ asked.header = header
  BY DEF SameStatement
<1>4. ASSUME kind = "disjunctive"
      PROVE  /\ ProvesDisjunctive(proof, claim)
             /\ verdict = DisjunctiveIsValid(proof, message, PublicKey(secret), proof.c)
  <2>1. /\ ProvesDisjunctive(proof, claim)
        /\ hashed.input = DisjunctiveInput(header, message, proof)
        /\ hashed.challenge = proof.c
    BY <1>4 DEF ProtocolInv, DisjunctiveOK
  <2>2. InputOf(asked) = hashed.input BY <1>3, <1>4, <2>1 DEF InputOf
  <2>3. c = proof.c BY <1>2, <2>1, <2>2
  <2>4. QED BY <1>2, <1>3, <1>4, <2>1, <2>3 DEF Verdict
<1>5. ASSUME kind = "constant"
      PROVE  /\ ProvesConstant(proof, claim)
             /\ verdict = ConstantIsValid(proof, message, PublicKey(secret), proof.c)
  <2>1. /\ ProvesConstant(proof, claim)
        /\ hashed.input = ConstantInput(header, message, proof)
        /\ hashed.challenge = proof.c
    BY <1>5 DEF ProtocolInv, ConstantOK
  <2>2. InputOf(asked) = hashed.input BY <1>3, <1>5, <2>1 DEF InputOf
  <2>3. c = proof.c BY <1>2, <2>1, <2>2
  <2>4. QED BY <1>2, <1>3, <1>5, <2>1, <2>3 DEF Verdict
<1>6. QED BY <1>1, <1>4, <1>5

\* A proof of what the ciphertext holds is accepted, whichever way it was made
\* and whatever the random values, unless a challenge or a response is zero.
THEOREM HonestProofsAccepted == Spec => []HonestProofAccepted
<1>1. ProtocolInv => HonestProofAccepted
  <2> SUFFICES ASSUME ProtocolInv, at = "verified", SameStatement, claim = total
               PROVE  verdict <=> NonZero
    BY DEF HonestProofAccepted
  <2>1. StatementOK BY DEF ProtocolInv
  <2>2. CASE kind = "disjunctive"
    <3>1. /\ ProvesDisjunctive(proof, claim)
          /\ verdict = DisjunctiveIsValid(proof, message, PublicKey(secret), proof.c)
      BY <2>2, SameAnswer
    <3>2. verdict <=> proof.c0 # 0 /\ proof.c1 # 0 /\ proof.v0 # 0 /\ proof.v1 # 0
      BY <2>1, <3>1, DisjunctiveAnswer
    <3>3. DOMAIN proof = {"a0", "b0", "a1", "b1", "c0", "c1", "c", "v0", "v1"}
      BY <3>1 DEF ProvesDisjunctive
    <3>4. NonZero <=> proof.c0 # 0 /\ proof.c1 # 0 /\ proof.v0 # 0 /\ proof.v1 # 0
      BY <2>2, <3>3 DEF NonZero
    <3>5. QED BY <3>2, <3>4
  <2>3. CASE kind = "constant"
    <3>1. /\ ProvesConstant(proof, claim)
          /\ verdict = ConstantIsValid(proof, message, PublicKey(secret), proof.c)
      BY <2>3, SameAnswer
    <3>2. verdict <=> proof.c # 0 /\ proof.v # 0 BY <2>1, <3>1, ConstantAnswer
    <3>3. DOMAIN proof = {"a", "b", "c", "v", "constant"} BY <3>1 DEF ProvesConstant
    <3>4. NonZero <=> proof.c # 0 /\ proof.v # 0 BY <2>3, <3>3 DEF NonZero
    <3>5. QED BY <3>2, <3>4
  <2>4. QED BY <2>2, <2>3, SameAnswer
<1>2. QED BY <1>1, ProtocolInvHolds, PTL

\* A proof of what the ciphertext does not hold is not accepted.
THEOREM WrongClaimsRejected == Spec => []WrongClaimRejected
<1>1. ProtocolInv => WrongClaimRejected
  <2> SUFFICES ASSUME ProtocolInv, at = "verified", SameStatement, claim # total
               PROVE  ~verdict
    BY DEF WrongClaimRejected
  <2>1. StatementOK BY DEF ProtocolInv
  <2>2. CASE kind = "disjunctive" BY <2>1, <2>2, SameAnswer, DisjunctiveAnswer
  <2>3. CASE kind = "constant" BY <2>1, <2>3, SameAnswer, ConstantAnswer
  <2>4. QED BY <2>2, <2>3, SameAnswer
<1>2. QED BY <1>1, ProtocolInvHolds, PTL

----------------------------------------------------------------------------
(* A proof is for one statement.                                             *)

\* One branch ties the proof to the key, the pad and the data.
LEMMA BranchBinds ==
    ASSUME NEW x \in Int, NEW y \in Int, NEW m \in Int, NEW c \in Zq, NEW v \in Zq, NEW k \in Zq,
           NEW f \in Int, NEW g \in Int, c # 0, v # 0,
           Same(v, x + f * c), Same(m + k * v, y + g * c)
    PROVE  /\ \A s \in Zq : Same(m + s * v, y + g * c) => s = k
           /\ ~Same(v, x + (f + 1) * c)
           /\ ~Same(m + k * v, y + (g + 1) * c)
<1>1. c \in Int /\ v \in Int /\ k \in Int /\ ~Same(c, 0) /\ ~Same(v, 0)
  BY ZqIn, NonZeroExponent
<1>2. ASSUME NEW s \in Zq, Same(m + s * v, y + g * c) PROVE s = k
  <2>1. s \in Int BY ZqIn
  <2> DEFINE a == m + s * v
             b == m + k * v
             e == y + g * c
  <2>2. a \in Int /\ b \in Int /\ e \in Int /\ s - k \in Int BY <1>1, <2>1
  <2>3. a - b = (s - k) * v BY <1>1, <2>1
  <2>4. Same(a, e) /\ Same(b, e) BY <1>2
  <2> HIDE DEF a, b, e
  <2>5. Same(a - b, 0) BY <2>2, <2>4, SameDifference
  <2>6. Same((s - k) * v, 0) BY <2>3, <2>5
  <2>7. Same(s - k, 0) BY <1>1, <2>2, <2>6, SameTimes
  <2>8. QED BY <2>7, SameSmall
<1>3. ~Same(v, x + (f + 1) * c)
  <2> SUFFICES ASSUME Same(v, x + (f + 1) * c) PROVE FALSE OBVIOUS
  <2> DEFINE e == x + f * c
  <2>1. e \in Int /\ x + (f + 1) * c = e + c BY <1>1
  <2>2. Same(v, e) /\ Same(v, e + c) BY <2>1
  <2> HIDE DEF e
  <2>3. Same(c, 0) BY <1>1, <2>1, <2>2, SameCancel
  <2>4. QED BY <1>1, <2>3
<1>4. ~Same(m + k * v, y + (g + 1) * c)
  <2> SUFFICES ASSUME Same(m + k * v, y + (g + 1) * c) PROVE FALSE OBVIOUS
  <2> DEFINE e == y + g * c
             a == m + k * v
  <2>1. a \in Int /\ e \in Int /\ y + (g + 1) * c = e + c BY <1>1
  <2>2. Same(a, e) /\ Same(a, e + c) BY <2>1
  <2> HIDE DEF e, a
  <2>3. Same(c, 0) BY <1>1, <2>1, <2>2, SameCancel
  <2>4. QED BY <1>1, <2>3
<1>5. QED BY <1>2, <1>3, <1>4

\* Q is odd: 2 has an inverse.
LEMMA OddOrder == \E h \in Nat : Q = h + h + 1
<1>1. 2 \in 1..(Q - 1) BY Moduli
<1>2. PICK y \in 1..(Q - 1) : (2 * y) % Q = 1 BY <1>1, GroupAssumption
<1>3. 2 * y \in Int /\ y \in Int BY <1>2, Moduli
<1>4. PICK k \in Int : 2 * y = Q * k + ((2 * y) % Q) BY <1>3, Moduli, DivMod
<1>5. 2 * y = Q * k + 1 BY <1>2, <1>4
<1>6. PICK h \in Int, b \in 0..1 : Q = 2 * h + b
  <2>1. Q \in Int BY Moduli
  <2>2. Q = 2 * (Q \div 2) + (Q % 2) /\ Q \div 2 \in Int /\ Q % 2 \in 0..1 BY <2>1
  <2>3. QED BY <2>2
<1>7. b # 0
  <2> SUFFICES ASSUME b = 0 PROVE FALSE OBVIOUS
  <2>1. Q * k = 2 * (h * k) BY <1>6
  <2>2. h * k \in Int OBVIOUS
  <2>3. 2 * (y - h * k) = 1 BY <1>3, <1>5, <2>1, <2>2
  <2>4. y - h * k \in Int BY <1>3, <2>2
  <2> DEFINE i == y - h * k
  <2> HIDE DEF i
  <2>5. i \in Int /\ 2 * i = 1 BY <2>3, <2>4 DEF i
  <2>6. QED BY <2>5
<1>8. Q = h + h + 1 /\ h \in Nat BY <1>6, <1>7, Moduli
<1>9. QED BY <1>8

\* The negative of a power of G is not a residue.
LEMMA NegativeNoResidue ==
    ASSUME NEW f \in Int PROVE ~isValidResidue(P - GPower(f))
<1> SUFFICES ASSUME isValidResidue(P - GPower(f)) PROVE FALSE OBVIOUS
<1> DEFINE x == GPower(f)
           z == P - x
<1>1. x \in 1..(P - 1) /\ x \in 0..(P - 1) /\ x \in Nat BY GPowerType
<1>2. pow_mod_p(x, Q) = 1 BY GPowerResidue DEF isValidResidue
<1>3. pow_mod_p(z, Q) = 1 BY DEF isValidResidue
<1> HIDE DEF x
<1>4. z \in Nat /\ z \in 0..(P - 1) /\ x \in Int /\ z \in Int BY <1>1, Moduli
<1>5. Q \in 0..(P - 1) BY Moduli
<1>6. PICK h \in Nat : Q = h + h + 1 BY OddOrder
<1>7. PowerMod(x, Q, P) = 1 BY <1>1, <1>2, <1>5, TableHoldsPowers
<1>8. PowerMod(z, Q, P) = 1
  <2> HIDE DEF z
  <2>1. QED BY <1>3, <1>4, <1>5, TableHoldsPowers
<1>9. (z * z) % P = (x * x) % P
  <2>1. z * z = x * x + P * (P - 2 * x) BY <1>4, Moduli
  <2>2. x * x \in Int /\ P - 2 * x \in Int BY <1>4, Moduli
  <2> HIDE DEF z
  <2>3. (x * x + P * (P - 2 * x)) % P = (x * x) % P BY <2>2, Moduli, ModAddMultiple
  <2>4. QED BY <2>1, <2>3
<1>10. ASSUME NEW b \in 0..(P - 1)
       PROVE  PowerMod(b, Q, P) = (PowerMod((b * b) % P, h, P) * b) % P
  <2>1. b \in Nat /\ 1 \in Nat /\ 2 \in Nat /\ 2 * h \in Nat /\ Q = 2 * h + 1 /\ b * b \in Nat
    BY <1>6, <1>10, Moduli
  <2>2. PowerMod(b, 1, P) = b
    <3>1. PowerMod(b, 0, P) = 1 /\ PowerMod(b, 0 + 1, P) = (PowerMod(b, 0, P) * b) % P
      BY <2>1, Moduli, PowerModRecursion
    <3>2. 0 + 1 = 1 /\ 1 * b = b BY <2>1
    <3>3. b % P = b BY <1>10, Moduli, ModOfSmall
    <3>4. QED BY <3>1, <3>2, <3>3
  <2>3. PowerMod(b, 2, P) = (b * b) % P
    <3>1. PowerMod(b, 1 + 1, P) = (PowerMod(b, 1, P) * b) % P
      BY <2>1, Moduli, PowerModRecursion
    <3>2. 1 + 1 = 2 OBVIOUS
    <3>3. QED BY <2>2, <3>1, <3>2
  <2>4. PowerMod(PowerMod(b, 2, P), h, P) = PowerMod(b, 2 * h, P)
    BY <2>1, Moduli, PowerModProduct
  <2>5. PowerMod(b, 2 * h + 1, P) = (PowerMod(b, 2 * h, P) * b) % P
    BY <2>1, Moduli, PowerModRecursion
  <2>6. QED BY <2>1, <2>3, <2>4, <2>5
<1> DEFINE w == PowerMod((x * x) % P, h, P)
<1>11. w \in Nat
  <2>1. x * x \in Int BY <1>4
  <2>2. (x * x) % P \in 0..(P - 1) BY <2>1, Moduli, DivMod
  <2>3. (x * x) % P \in Nat BY <2>2, Moduli
  <2>4. w \in 0..(P - 1) BY <2>3, Moduli, PowerModRecursion
  <2> HIDE DEF w
  <2>5. QED BY <2>4, Moduli
<1>12. (w * x) % P = 1 BY <1>1, <1>7, <1>10
<1>13. (w * z) % P = 1
  <2> HIDE DEF z
  <2>1. QED BY <1>4, <1>8, <1>9, <1>10
<1> HIDE DEF w
<1>14. w * x \in Int /\ w * z \in Int /\ w \in Int BY <1>4, <1>11
<1>15. PICK i \in Int : w * x = P * i + 1
  <2> DEFINE a == w * x
  <2>1. a \in Int /\ a % P = 1 BY <1>12, <1>14
  <2> HIDE DEF a
  <2>2. PICK i \in Int : a = P * i + (a % P) BY <2>1, Moduli, DivMod
  <2>3. QED BY <2>1, <2>2 DEF a
<1>16. PICK j \in Int : w * z = P * j + 1
  <2> DEFINE a == w * z
  <2>1. a \in Int /\ a % P = 1 BY <1>13, <1>14
  <2> HIDE DEF a
  <2>2. PICK j \in Int : a = P * j + (a % P) BY <2>1, Moduli, DivMod
  <2>3. QED BY <2>1, <2>2 DEF a
<1>17. w * x + w * z = P * w BY <1>4, <1>14, Moduli
<1>18. 2 = P * (w - i - j) BY <1>14, <1>15, <1>16, <1>17, Moduli
<1> DEFINE n == w - i - j
<1>19. n \in Int BY <1>14
<1> HIDE DEF n
<1>20. 2 = P * n /\ P > 2 BY <1>18, Moduli DEF n
<1>21. CASE n <= 0
  <2>1. P * n <= 0 BY <1>19, <1>21, Moduli
  <2>2. QED BY <1>20, <2>1
<1>22. CASE n >= 1
  <2>1. P * n >= P BY <1>19, <1>22, Moduli
  <2>2. QED BY <1>20, <2>1, Moduli
<1>23. QED BY <1>19, <1>21, <1>22

\* What the verifier hashes does not matter: the equations of another statement
\* do not hold.
LEMMA AskedExponents ==
    ASSUME StatementOK, NEW question \in Questions,
           <<question.message, question.secret>> # <<message, secret>>
    PROVE  \/ /\ question.secret \in Zq /\ question.secret # secret
              /\ question.message.pad = GPower(r)
              /\ question.message.data = GPower(total + secret * r)
           \/ /\ question.secret = secret
              /\ question.message.pad = GPower(r + 1)
              /\ question.message.data = GPower(total + secret * r)
           \/ /\ question.secret = secret
              /\ question.message.pad = GPower(r)
              /\ question.message.data = GPower((total + secret * r) + 1)
           \/ question.message.pad = P - GPower(r)
<1> DEFINE e == total + secret * r
           q == question
<1>1. /\ r \in Int /\ e \in Int /\ message = [pad |-> GPower(r), data |-> GPower(e)]
  BY StatementExponents
<1> HIDE DEF e
<1>2. mul_mod_p(GPower(r), G) = GPower(r + 1) /\ mul_mod_p(GPower(e), G) = GPower(e + 1)
  <2>1. 1 \in Int /\ GPower(1) = G BY GPowerZero
  <2>2. mul_mod_p(GPower(r), GPower(1)) = GPower(r + 1) BY <1>1, <2>1, GPowerSum
  <2>3. mul_mod_p(GPower(e), GPower(1)) = GPower(e + 1) BY <1>1, <2>1, GPowerSum
  <2>4. QED BY <2>1, <2>2, <2>3
<1>3. CASE q \in {[message |-> message, secret |-> s, header |-> header] : s \in Secrets}
  <2>1. q.message = message /\ q.secret \in Secrets
    <3>1. PICK s \in Secrets : q = [message |-> message, secret |-> s, header |-> header]
      BY <1>3
    <3>2. QED BY <3>1
  <2>2. Secrets \subseteq Zq BY Assumption, Moduli DEF Zq
  <2>3. q.secret \in Zq BY <2>1, <2>2
  <2>4. QED BY <1>1, <2>1, <2>3 DEF e
<1>4. CASE q \in {[message |-> message, secret |-> secret, header |-> h] : h \in Headers}
  <2>1. q.message = message /\ q.secret = secret BY <1>4
  <2>2. QED BY <2>1
<1>5. CASE q \in {[message |-> x, secret |-> secret, header |-> header] : x \in Altered(message)}
  <2>1. PICK x \in Altered(message) : q.message = x /\ q.secret = secret BY <1>5
  <2>2. CASE x = [message EXCEPT !.pad = mul_mod_p(@, G)]
    <3>1. x.pad = GPower(r + 1) /\ x.data = GPower(e) BY <1>1, <1>2, <2>2
    <3>2. QED BY <2>1, <3>1 DEF e
  <2>3. CASE x = [message EXCEPT !.data = mul_mod_p(@, G)]
    <3>1. x.pad = GPower(r) /\ x.data = GPower(e + 1) BY <1>1, <1>2, <2>3
    <3>2. QED BY <2>1, <3>1 DEF e
  <2>4. CASE x = [message EXCEPT !.pad = P - @]
    <3>1. x.pad = P - GPower(r) BY <1>1, <2>4
    <3>2. QED BY <2>1, <3>1
  <2>5. QED BY <2>1, <2>2, <2>3, <2>4 DEF Altered
<1>6. QED BY <1>3, <1>4, <1>5 DEF Questions

\* The second branch of the verifier's equations.
LEMMA AcceptedBranch ==
    ASSUME NEW p, NEW x0, NEW y0, NEW x1, NEW y1, Committed(p, x0, y0, x1, y1),
           p.c0 \in Zq, p.c1 \in Zq, p.v0 \in Zq, p.v1 \in Zq,
           NEW s \in Zq, NEW f \in Int, NEW g \in Int, NEW x,
           x.pad = GPower(f), x.data = GPower(g), NEW c,
           DisjunctiveIsValid(p, x, PublicKey(s), c)
    PROVE  /\ p.c1 # 0 /\ p.v1 # 0
           /\ Same(p.v1, x1 + f * p.c1) /\ Same(p.c1 + s * p.v1, y1 + g * p.c1)
<1>1. AcceptsDisjunctive(p, x0, y0, x1, y1, s, f, g) BY DisjunctiveVerifies
<1>2. QED BY <1>1 DEF AcceptsDisjunctive

\* A disjunctive proof is not accepted for another statement.
LEMMA DisjunctiveBound ==
    ASSUME StatementOK, NEW p, ProvesDisjunctive(p, total), NEW question \in Questions,
           <<question.message, question.secret>> # <<message, secret>>, NEW c
    PROVE  ~DisjunctiveIsValid(p, question.message, PublicKey(question.secret), c)
<1> SUFFICES ASSUME DisjunctiveIsValid(p, question.message, PublicKey(question.secret), c)
             PROVE  FALSE
  OBVIOUS
<1> DEFINE e == total + secret * r
           h == p.c1
           v == p.v1
           s == question.secret
           x == question.message
<1>1. /\ p.c0 \in Zq /\ h \in Zq /\ p.v0 \in Zq /\ v \in Zq /\ total \in {0, 1}
  BY DEF ProvesDisjunctive
<1>2. PICK x0, y0, x1, y1, d0, d1 : DisjunctiveParts(p, total, x0, y0, x1, y1, d0, d1)
  BY DisjunctiveHasParts
<1>3. /\ Committed(p, x0, y0, x1, y1) /\ x1 \in Int /\ y1 \in Int
      /\ Branch(1, x1, y1, h, v, d1) /\ d1 \in {0, Off(total, h)}
  BY <1>2 DEF DisjunctiveParts, Committed
<1>4. /\ secret \in Zq /\ secret \in Int /\ r \in Int /\ e \in Int /\ total \in Int
  BY StatementExponents
<1>5. h \in Int /\ v \in Int BY <1>1, ZqIn
<1>6. Same(v, x1 + r * h) /\ Same(h + secret * v, y1 + e * h)
  <2>1. d1 = 0
    <3>1. Off(total, h) = 0 BY <1>4, <1>5, OffZero
    <3>2. QED BY <1>3, <3>1
  <2>2. 1 \in Int /\ 1 * h = h BY <1>5
  <2>3. Branch(1, x1, y1, h, v, 0) <=>
          Same(v, x1 + r * h) /\ Same(1 * h + secret * v, y1 + e * h)
    BY <1>1, <1>3, <2>2, BranchAccepted
  <2>4. QED BY <1>3, <2>1, <2>2, <2>3
<1>7. \/ s \in Zq /\ s # secret /\ x.pad = GPower(r) /\ x.data = GPower(e)
      \/ s = secret /\ x.pad = GPower(r + 1) /\ x.data = GPower(e)
      \/ s = secret /\ x.pad = GPower(r) /\ x.data = GPower(e + 1)
      \/ x.pad = P - GPower(r)
  BY AskedExponents
<1>8. DisjunctiveIsValid(p, x, PublicKey(s), c) OBVIOUS
<1> HIDE DEF e, x, s
<1>9. ASSUME s \in Zq, NEW f \in Int, NEW g \in Int, x.pad = GPower(f), x.data = GPower(g)
      PROVE  h # 0 /\ v # 0 /\ Same(v, x1 + f * h) /\ Same(h + s * v, y1 + g * h)
  BY <1>1, <1>3, <1>8, <1>9, AcceptedBranch
<1> HIDE DEF h, v
<1>10. h # 0 /\ v # 0 =>
         /\ \A k \in Zq : Same(h + k * v, y1 + e * h) => k = secret
         /\ ~Same(v, x1 + (r + 1) * h)
         /\ ~Same(h + secret * v, y1 + (e + 1) * h)
  BY <1>1, <1>3, <1>4, <1>5, <1>6, BranchBinds
<1>11. r + 1 \in Int /\ e + 1 \in Int BY <1>4
<1>12. CASE s \in Zq /\ s # secret /\ x.pad = GPower(r) /\ x.data = GPower(e)
  BY <1>4, <1>9, <1>10, <1>12
<1>13. CASE s = secret /\ x.pad = GPower(r + 1) /\ x.data = GPower(e)
  BY <1>4, <1>9, <1>10, <1>11, <1>13
<1>14. CASE s = secret /\ x.pad = GPower(r) /\ x.data = GPower(e + 1)
  BY <1>4, <1>9, <1>10, <1>11, <1>14
<1>15. CASE x.pad = P - GPower(r)
  <2>1. isValidResidue(x.pad) BY <1>8 DEF DisjunctiveIsValid
  <2>2. QED BY <1>4, <1>15, <2>1, NegativeNoResidue
<1>16. QED BY <1>7, <1>12, <1>13, <1>14, <1>15

\* A constant proof is not accepted for another statement.
LEMMA ConstantBound ==
    ASSUME StatementOK, NEW p, ProvesConstant(p, total), NEW question \in Questions,
           <<question.message, question.secret>> # <<message, secret>>, NEW c
    PROVE  ~ConstantIsValid(p, question.message, PublicKey(question.secret), c)
<1> SUFFICES ASSUME ConstantIsValid(p, question.message, PublicKey(question.secret), c)
             PROVE  FALSE
  OBVIOUS
<1> DEFINE e == total + secret * r
           h == p.c
           v == p.v
           m == total * h
           d == Off(total, h)
           s == question.secret
           x == question.message
<1>1. /\ h \in Zq /\ v \in Zq /\ total \in 0..MaxClaim /\ p.constant = total
      /\ p.a \in Subgroup /\ p.b \in Subgroup
      /\ g_pow_p(v) = mul_mod_p(p.a, pow_mod_p(message.pad, h))
      /\ mul_mod_p(g_pow_p(mul_mod_p(h, total)), pow_mod_p(PublicKey(secret), v)) =
          mul_mod_p(mul_mod_p(p.b, pow_mod_p(message.data, h)), g_pow_p(d))
  BY DEF ProvesConstant
<1>2. PICK y \in Int : p.a = GPower(y) BY <1>1, SubgroupExponent
<1>3. PICK z \in Int : p.b = GPower(z) BY <1>1, SubgroupExponent
<1>4. /\ secret \in Zq /\ secret \in Int /\ r \in Int /\ e \in Int /\ total \in Int
      /\ message.pad = GPower(r) /\ message.data = GPower(e)
  BY StatementExponents
<1>5. h \in Int /\ v \in Int /\ 0 \in Zq BY <1>1, ZqIn, Moduli DEF Zq
<1>6. d = 0 /\ d \in Zq BY <1>4, <1>5, OffZero
<1>7. mul_mod_p(h, total) = m /\ m \in 0..(P - 1) /\ m \in Int BY <1>1, <1>4, <1>5, Multiple
<1>8. \/ s \in Zq /\ s # secret /\ x.pad = GPower(r) /\ x.data = GPower(e)
      \/ s = secret /\ x.pad = GPower(r + 1) /\ x.data = GPower(e)
      \/ s = secret /\ x.pad = GPower(r) /\ x.data = GPower(e + 1)
      \/ x.pad = P - GPower(r)
  BY AskedExponents
<1>9. ConstantIsValid(p, x, PublicKey(s), c) OBVIOUS
<1> HIDE DEF e, x, s
<1>10. ASSUME s \in Zq, NEW f \in Int, NEW g \in Int, x.pad = GPower(f), x.data = GPower(g)
       PROVE  h # 0 /\ v # 0 /\ Same(v, y + f * h) /\ Same(m + s * v, z + g * h)
  <2>1. AcceptsConstant(p, y, z, s, f, g)
    BY <1>1, <1>2, <1>3, <1>9, <1>10, ConstantVerifies
  <2>2. QED BY <1>1, <2>1 DEF AcceptsConstant
<1> HIDE DEF h, v, m, d
<1>11. Same(v, y + r * h) /\ Same(m + secret * v, z + e * h)
  <2>1. g_pow_p(v) = mul_mod_p(GPower(y), pow_mod_p(GPower(r), h)) <=> Same(v, y + r * h)
    BY <1>1, <1>4, PadEquation
  <2>2. mul_mod_p(g_pow_p(m), pow_mod_p(PublicKey(secret), v)) =
          mul_mod_p(mul_mod_p(GPower(z), pow_mod_p(GPower(e), h)), g_pow_p(d))
          <=> Same(m + secret * v, z + e * h + d)
    <3>1. /\ h \in Zq /\ v \in Zq /\ secret \in Zq /\ e \in Int /\ d \in Zq /\ z \in Int
          /\ m \in 0..(P - 1)
      BY <1>1, <1>4, <1>6, <1>7
    <3>2. QED BY <3>1, DataEquation
  <2>3. z + e * h + d = z + e * h BY <1>4, <1>5, <1>6
  <2>4. QED BY <1>1, <1>2, <1>3, <1>4, <1>6, <1>7, <2>1, <2>2, <2>3
<1>12. h # 0 /\ v # 0 =>
         /\ \A k \in Zq : Same(m + k * v, z + e * h) => k = secret
         /\ ~Same(v, y + (r + 1) * h)
         /\ ~Same(m + secret * v, z + (e + 1) * h)
  <2>1. h \in Zq /\ v \in Zq /\ secret \in Zq /\ r \in Int /\ e \in Int /\ m \in Int
    BY <1>1, <1>4, <1>7
  <2>2. QED BY <1>11, <2>1, BranchBinds
<1>13. r + 1 \in Int /\ e + 1 \in Int BY <1>4
<1>14. CASE s \in Zq /\ s # secret /\ x.pad = GPower(r) /\ x.data = GPower(e)
  BY <1>4, <1>10, <1>12, <1>14
<1>15. CASE s = secret /\ x.pad = GPower(r + 1) /\ x.data = GPower(e)
  BY <1>4, <1>10, <1>12, <1>13, <1>15
<1>16. CASE s = secret /\ x.pad = GPower(r) /\ x.data = GPower(e + 1)
  BY <1>4, <1>10, <1>12, <1>13, <1>16
<1>17. CASE x.pad = P - GPower(r)
  <2>1. isValidResidue(x.pad) BY <1>9 DEF ConstantIsValid
  <2>2. QED BY <1>4, <1>17, <2>1, NegativeNoResidue
<1>18. QED BY <1>8, <1>14, <1>15, <1>16, <1>17

\* No other ciphertext and no other key is accepted with a proof, whatever is
\* hashed for it.
THEOREM ProofsAreBound == Spec => []BoundToStatement
<1>1. ProtocolInv => BoundToStatement
  <2> SUFFICES ASSUME ProtocolInv, at = "verified", claim = total,
                      <<asked.message, asked.secret>> # <<message, secret>>
               PROVE  ~verdict
    BY DEF BoundToStatement
  <2>1. StatementOK /\ asked \in Questions /\ kind \in {"disjunctive", "constant"}
    BY DEF ProtocolInv, VerdictOK, StatementOK
  <2>2. PICK c \in Zq : verdict = Verdict(asked, c) BY DEF ProtocolInv, VerdictOK
  <2>3. CASE kind = "disjunctive"
    <3>1. ProvesDisjunctive(proof, total) BY <2>3 DEF ProtocolInv, DisjunctiveOK
    <3>2. verdict = DisjunctiveIsValid(proof, asked.message, PublicKey(asked.secret), c)
      BY <2>2, <2>3 DEF Verdict
    <3>3. QED BY <2>1, <3>1, <3>2, DisjunctiveBound
  <2>4. CASE kind = "constant"
    <3>1. ProvesConstant(proof, total) BY <2>4 DEF ProtocolInv, ConstantOK
    <3>2. verdict = ConstantIsValid(proof, asked.message, PublicKey(asked.secret), c)
      BY <2>2, <2>4 DEF Verdict
    <3>3. QED BY <2>1, <3>1, <3>2, ConstantBound
  <2>5. QED BY <2>1, <2>3, <2>4
<1>2. QED BY <1>1, ProtocolInvHolds, PTL

----------------------------------------------------------------------------
(* A proof says nothing about the vote.                                      *)

\* Any response can be the one to any challenge, for any nonce.
LEMMA ResponseExists ==
    ASSUME NEW y \in Zq, NEW z \in Zq, NEW n \in Zq
    PROVE  \E x \in Zq : a_plus_bc_mod_q(x, z, n) = y
<1> DEFINE x == (y - z * n) % Q
<1>1. y \in Int /\ z \in Int /\ n \in Int /\ y - z * n \in Int BY ZqIn
<1>2. x \in Zq /\ x \in Int /\ Same(x, y - z * n) BY <1>1, SameAsMod
<1> HIDE DEF x
<1>3. PICK k \in Int : x = (y - z * n) + Q * k BY <1>2 DEF Same
<1>4. x + z * n = y + Q * k BY <1>1, <1>3, Moduli
<1>5. Same(x + z * n, y) /\ x + z * n \in Int BY <1>1, <1>2, <1>4 DEF Same
<1>6. (x + z * n) % Q = y % Q BY <1>1, <1>5, SameMod
<1>7. y % Q = y
  <2>1. y \in 0..(Q - 1) BY DEF Zq
  <2>2. QED BY <2>1, Moduli, ModOfSmall
<1>8. QED BY <1>2, <1>6, <1>7 DEF a_plus_bc_mod_q

\* Any two challenges can be those of a made up branch and an honest one.
LEMMA ChallengeExists ==
    ASSUME NEW c0 \in Zq, NEW c1 \in Zq
    PROVE  /\ sub_mod_q(add_mod_q(c0, c1), c1) = c0
           /\ \E w \in Zq : /\ sub_mod_q(Q, w) = c0
                            /\ add_mod_q(add_mod_q(c0, c1), w) = c1
<1>1. c0 \in Int /\ c1 \in Int /\ c0 \in 0..(Q - 1) /\ c1 \in 0..(Q - 1) BY ZqIn DEF Zq
<1>2. c0 % Q = c0 /\ c1 % Q = c1 BY <1>1, Moduli, ModOfSmall
<1> DEFINE c == add_mod_q(c0, c1)
<1>3. c \in Zq /\ c \in Int /\ Same(c, c0 + c1)
  <2>1. c0 + c1 \in Int BY <1>1
  <2>2. QED BY <2>1, SameAsMod DEF add_mod_q
<1> HIDE DEF c
<1>4. PICK k \in Int : c = (c0 + c1) + Q * k BY <1>3 DEF Same
<1>5. sub_mod_q(c, c1) = c0
  <2>1. c - c1 = c0 + Q * k BY <1>1, <1>4, Moduli
  <2>2. (c0 + Q * k) % Q = c0 % Q BY <1>1, ModSame
  <2>3. QED BY <1>2, <2>1, <2>2 DEF sub_mod_q
<1> DEFINE w == sub_mod_q(Q, c0)
<1>6. w \in Zq /\ w \in Int /\ Same(w, -c0)
  <2>1. w \in Zq /\ Same(w, -c0) BY Responses
  <2>2. QED BY <2>1, ZqIn
<1> HIDE DEF w
<1>7. PICK j \in Int : w = -c0 + Q * j BY <1>6 DEF Same
<1>8. sub_mod_q(Q, w) = c0
  <2>1. Q - w = c0 + Q * (1 - j) /\ 1 - j \in Int BY <1>1, <1>7, Moduli
  <2>2. (c0 + Q * (1 - j)) % Q = c0 % Q BY <1>1, <2>1, ModSame
  <2>3. QED BY <1>2, <2>1, <2>2 DEF sub_mod_q
<1>9. add_mod_q(c, w) = c1
  <2>1. c + w = c1 + Q * (k + j) /\ k + j \in Int BY <1>1, <1>4, <1>7, Moduli
  <2>2. (c1 + Q * (k + j)) % Q = c1 % Q BY <1>1, <2>1, ModSame
  <2>3. QED BY <1>2, <2>1, <2>2 DEF add_mod_q
<1>10. QED BY <1>5, <1>6, <1>8, <1>9 DEF c

\* The transcript of a proof of 0 is one of a proof of 1 and the other way
\* around, for every nonce.
THEOREM VotesHidden == Spec => []VoteHidden
<1>1. ProtocolInv => VoteHidden
  <2> SUFFICES ASSUME ProtocolInv, at = "proved", kind = "disjunctive", NEW nonce \in Zq
               PROVE  \E u, v, w \in Zq :
                         LET other == IF claim = 0 THEN OneResponses(nonce, proof.c, u, v, w)
                                                   ELSE ZeroResponses(nonce, proof.c, u, v, w)
                         IN  \A f \in DOMAIN other : proof[f] = other[f]
    BY DEF VoteHidden
  <2>1. ProvesDisjunctive(proof, claim) BY DEF ProtocolInv, DisjunctiveOK
  <2> DEFINE c0 == proof.c0
             c1 == proof.c1
             c == proof.c
             v0 == proof.v0
             v1 == proof.v1
  <2>2. /\ c0 \in Zq /\ c1 \in Zq /\ v0 \in Zq /\ v1 \in Zq /\ claim \in {0, 1}
        /\ c = add_mod_q(c0, c1)
    BY <2>1 DEF ProvesDisjunctive
  <2>3. PICK s0 \in Zq : a_plus_bc_mod_q(s0, c0, nonce) = v0 BY <2>2, ResponseExists
  <2>4. PICK s1 \in Zq : a_plus_bc_mod_q(s1, c1, nonce) = v1 BY <2>2, ResponseExists
  <2>5. /\ sub_mod_q(c, c1) = c0
        /\ \E w \in Zq : sub_mod_q(Q, w) = c0 /\ add_mod_q(c, w) = c1
    <3> HIDE DEF c0, c1, c
    <3>1. QED BY <2>2, ChallengeExists
  <2>6. CASE claim = 0
    <3>1. PICK w \in Zq : sub_mod_q(Q, w) = c0 /\ add_mod_q(c, w) = c1 BY <2>5
    <3>2. OneResponses(nonce, c, s1, s0, w) =
            [c0 |-> c0, c1 |-> c1, c |-> c, v0 |-> v0, v1 |-> v1]
      BY <2>3, <2>4, <3>1 DEF OneResponses
    <3> DEFINE other == OneResponses(nonce, c, s1, s0, w)
    <3>3. \A f \in DOMAIN other : proof[f] = other[f] BY <3>2
    <3>4. QED BY <2>6, <3>3
  <2>7. CASE claim = 1
    <3>1. ZeroResponses(nonce, c, s0, s1, c1) =
            [c0 |-> c0, c1 |-> c1, c |-> c, v0 |-> v0, v1 |-> v1]
      BY <2>3, <2>4, <2>5 DEF ZeroResponses
    <3> DEFINE other == ZeroResponses(nonce, c, s0, s1, c1)
    <3>2. \A f \in DOMAIN other : proof[f] = other[f] BY <3>1
    <3>3. QED BY <2>2, <2>7, <3>2
  <2>8. QED BY <2>2, <2>6, <2>7
<1>2. QED BY <1>1, ProtocolInvHolds, PTL

----------------------------------------------------------------------------
(* Decryption.                                                               *)

\* Powers of G can be cancelled.
LEMMA PowerCancels ==
    ASSUME NEW x \in Int, NEW y \in Int, NEW d \in 0..(P - 1),
           mul_mod_p(d, GPower(x)) = GPower(y)
    PROVE  d = GPower(y - x)
<1> DEFINE a == GPower(x)
           b == GPower(-x)
<1>1. -x \in Int /\ x + (-x) = 0 /\ y + (-x) = y - x OBVIOUS
<1>2. mul_mod_p(a, b) = 1 BY <1>1, GPowerSum, GPowerZero
<1>3. mul_mod_p(GPower(y), b) = GPower(y - x) BY <1>1, GPowerSum
<1>4. a \in Int /\ b \in Int /\ d \in Int /\ a * b \in Int /\ d * a \in Int
  <2>1. a \in Nat BY GPowerType
  <2>2. b \in Nat BY <1>1, GPowerType
  <2> HIDE DEF a, b
  <2>3. QED BY <2>1, <2>2, Moduli
<1>5. (d * a) % P = GPower(y) BY DEF mul_mod_p
<1> HIDE DEF a, b
<1>6. (((d * a) % P) * b) % P = ((d * a) * b) % P BY <1>4, Moduli, ModOfProduct
<1>7. (d * ((a * b) % P)) % P = (d * (a * b)) % P BY <1>4, Moduli, ModOfProduct
<1>8. (d * a) * b = d * (a * b) /\ d * 1 = d BY <1>4
<1>9. d % P = d BY Moduli, ModOfSmall
<1>10. QED BY <1>2, <1>3, <1>5, <1>6, <1>7, <1>8, <1>9 DEF mul_mod_p

\* Decryption gives back a 0 or a 1, and finds no other sum.
THEOREM DecryptionIsExact == Spec => []DecryptsTotal
<1>1. ProtocolInv => DecryptsTotal
  <2> SUFFICES ASSUME ProtocolInv
               PROVE  decrypt(message, secret) = IF total \in {0, 1} THEN total ELSE NotFound
    BY DEF DecryptsTotal
  <2>1. StatementOK BY DEF ProtocolInv
  <2> DEFINE e == total + secret * r
             x == r * secret
  <2>2. /\ secret \in Zq /\ secret \in Int /\ r \in Int /\ e \in Int
        /\ total \in Int /\ total \in Nat /\ total < Q
        /\ message.pad = GPower(r) /\ message.data = GPower(e)
    BY <2>1, StatementExponents
  <2>3. secret \in 0..(P - 1) BY <2>2, ZqIn
  <2>4. pow_mod_p(message.pad, secret) = GPower(x) BY <2>2, <2>3, GPowerProduct
  <2>5. x \in Int /\ e - x = total /\ total + x = e BY <2>2
  <2> HIDE DEF e, x
  <2> DEFINE IsQuotient(d) == mul_mod_p(d, GPower(x)) = GPower(e)
             quotient == CHOOSE d \in 0..(P - 1) : IsQuotient(d)
  <2>6. GPower(total) \in 0..(P - 1) /\ IsQuotient(GPower(total))
    BY <2>2, <2>5, GPowerType, GPowerSum
  <2>7. quotient \in 0..(P - 1) /\ IsQuotient(quotient) BY <2>6
  <2>8. quotient = GPower(total)
    <3> HIDE DEF quotient
    <3>1. quotient = GPower(e - x) BY <2>2, <2>5, <2>7, PowerCancels
    <3>2. QED BY <2>5, <3>1
  <2>9. decrypt(message, secret) = IF quotient = 1 THEN 0 ELSE IF quotient = G THEN 1 ELSE NotFound
    BY <2>2, <2>4 DEF decrypt
  <2> HIDE DEF quotient
  <2>10. total \in Zq /\ 0 \in Zq /\ 1 \in Zq /\ 0 \in Int /\ 1 \in Int BY <2>2, Moduli DEF Zq
  <2>11. GPower(total) = 1 => total = 0
    <3>1. GPower(total) = GPower(0) => Same(total, 0) BY <2>2, <2>10, SameMod
    <3>2. QED BY <2>10, <3>1, SameZq, GPowerZero
  <2>12. GPower(total) = G => total = 1
    <3>1. GPower(total) = GPower(1) => Same(total, 1) BY <2>2, <2>10, SameMod
    <3>2. QED BY <2>10, <3>1, SameZq, GPowerZero
  <2>13. total = 0 => GPower(total) = 1 BY GPowerZero
  <2>14. total = 1 => GPower(total) = G BY GPowerZero
  <2>15. G # 1 BY Moduli
  <2>16. QED BY <2>8, <2>9, <2>11, <2>12, <2>13, <2>14, <2>15
<1>2. QED BY <1>1, ProtocolInvHolds, PTL

----------------------------------------------------------------------------
(* Soundness.                                                                *)

\* A branch that claims b of another plaintext has one challenge it can answer.
LEMMA OneChallenge ==
    ASSUME NEW s \in Int, NEW f \in Int, NEW t \in Int, NEW b \in Int, NEW x \in Int, NEW y \in Int,
           NEW c \in Zq, NEW v \in Int, NEW h \in Zq, NEW w \in Int, ~Same(b - t, 0),
           Same(v, x + f * c), Same(b * c + s * v, y + (t + s * f) * c),
           Same(w, x + f * h), Same(b * h + s * w, y + (t + s * f) * h)
    PROVE  c = h
<1>1. c \in Int /\ h \in Int BY ZqIn
<1>2. ASSUME NEW i \in Int, NEW z \in Int, Same(z, x + f * i),
             Same(b * i + s * z, y + (t + s * f) * i)
      PROVE  Same((b - t) * i, y - s * x)
  <2>1. PICK k \in Int : z = x + f * i + Q * k BY <1>2 DEF Same
  <2>2. PICK j \in Int : b * i + s * z = y + (t + s * f) * i + Q * j BY <1>2 DEF Same
  <2>3. s * z = s * x + s * f * i + Q * (s * k) BY <2>1, Moduli
  <2>4. (t + s * f) * i = t * i + s * f * i OBVIOUS
  <2>5. (b - t) * i = b * i - t * i OBVIOUS
  <2>6. /\ b * i \in Int /\ t * i \in Int /\ s * f * i \in Int /\ s * x \in Int /\ s * k \in Int
        /\ Q * (s * k) \in Int /\ Q * j \in Int /\ s * z \in Int
        /\ Q * (j - s * k) = Q * j - Q * (s * k)
    BY Moduli
  <2> DEFINE bi == b * i
             ti == t * i
             sfi == s * f * i
             sx == s * x
             qsk == Q * (s * k)
             qj == Q * j
             sz == s * z
  <2>7. bi + sz = y + (ti + sfi) + qj /\ sz = sx + sfi + qsk BY <2>2, <2>3, <2>4
  <2>8. bi - ti = (y - sx) + (qj - qsk)
    <3>1. /\ bi \in Int /\ ti \in Int /\ sfi \in Int /\ sx \in Int /\ qsk \in Int
          /\ qj \in Int /\ sz \in Int
      BY <2>6
    <3> HIDE DEF bi, ti, sfi, sx, qsk, qj, sz
    <3>2. QED BY <2>7, <3>1
  <2>9. (b - t) * i = (y - s * x) + Q * (j - s * k) BY <2>5, <2>6, <2>8
  <2>10. j - s * k \in Int BY <2>6
  <2>11. QED BY <2>9, <2>10 DEF Same
<1> DEFINE a == (b - t) * c
           d == (b - t) * h
           e == y - s * x
<1>3. Same(a, e) /\ Same(d, e) BY <1>1, <1>2
<1>4. a \in Int /\ d \in Int /\ e \in Int /\ a - d = (b - t) * (c - h) BY <1>1
<1> HIDE DEF a, d, e
<1>5. Same(a - d, 0) BY <1>3, <1>4, SameDifference
<1>6. b - t \in Int /\ c - h \in Int BY <1>1
<1>7. Same(c - h, 0) BY <1>4, <1>5, <1>6, SameTimes
<1>8. QED BY <1>7, SameSmall

\* A set whose elements are all equal.
LEMMA AtMostOne ==
    ASSUME NEW S, \A x, y \in S : x = y PROVE Cardinality(S) <= 1
<1>1. CASE S = {} BY <1>1, FS_EmptySet
<1>2. CASE S # {}
  <2>1. PICK x \in S : TRUE BY <1>2
  <2>2. S = {x} BY <2>1
  <2>3. Cardinality({x}) = 1 BY FS_Singleton
  <2>4. QED BY <2>2, <2>3
<1>3. QED BY <1>1, <1>2

\* An answer that is accepted, in the exponent.
LEMMA AnsweredDisjunctiveIs ==
    ASSUME StatementOK, NEW x0 \in Int, NEW y0 \in Int, NEW x1 \in Int, NEW y1 \in Int,
           NEW c \in AnsweredDisjunctive(GPower(x0), GPower(y0), GPower(x1), GPower(y1))
    PROVE  \E c0, c1, v0, v1 \in Zq :
              /\ c = add_mod_q(c0, c1)
              /\ Same(v0, x0 + r * c0)
              /\ Same(0 * c0 + secret * v0, y0 + (total + secret * r) * c0)
              /\ Same(v1, x1 + r * c1)
              /\ Same(1 * c1 + secret * v1, y1 + (total + secret * r) * c1)
<1> DEFINE e == total + secret * r
           Proof(c0, c1, v0, v1) ==
               [a0 |-> GPower(x0), b0 |-> GPower(y0), a1 |-> GPower(x1), b1 |-> GPower(y1),
                c0 |-> c0, c1 |-> c1, c |-> add_mod_q(c0, c1), v0 |-> v0, v1 |-> v1]
<1>1. PICK p \in {Proof(c0, c1, v0, v1) : c0, c1, v0, v1 \in Zq} :
         c = p.c /\ DisjunctiveIsValid(p, message, PublicKey(secret), p.c)
  BY DEF AnsweredDisjunctive
<1>2. PICK c0 \in Zq, c1 \in Zq, v0 \in Zq, v1 \in Zq : p = Proof(c0, c1, v0, v1) BY <1>1
<1>3. /\ p.a0 = GPower(x0) /\ p.b0 = GPower(y0) /\ p.a1 = GPower(x1) /\ p.b1 = GPower(y1)
      /\ p.c0 = c0 /\ p.c1 = c1 /\ p.c = add_mod_q(c0, c1) /\ p.v0 = v0 /\ p.v1 = v1
  BY <1>2
<1> HIDE DEF Proof
<1>4. Committed(p, x0, y0, x1, y1) BY <1>3 DEF Committed
<1>5. /\ secret \in Zq /\ secret \in Int /\ r \in Int /\ e \in Int
      /\ message.pad = GPower(r) /\ message.data = GPower(e)
  BY StatementExponents
<1>6. AcceptsDisjunctive(p, x0, y0, x1, y1, secret, r, e)
  <2> HIDE DEF e
  <2>1. p.c0 \in Zq /\ p.c1 \in Zq /\ p.v0 \in Zq /\ p.v1 \in Zq BY <1>3
  <2>2. QED BY <1>1, <1>4, <1>5, <2>1, DisjunctiveVerifies
<1>7. /\ Same(v0, x0 + r * c0) /\ Same(secret * v0, y0 + e * c0)
      /\ Same(v1, x1 + r * c1) /\ Same(c1 + secret * v1, y1 + e * c1)
  BY <1>3, <1>6 DEF AcceptsDisjunctive
<1>8. c0 \in Int /\ c1 \in Int /\ v0 \in Int /\ v1 \in Int BY ZqIn
<1>9. 0 * c0 + secret * v0 = secret * v0 /\ 1 * c1 = c1 BY <1>5, <1>8
<1>10. QED BY <1>1, <1>3, <1>7, <1>9

\* The same for a constant proof.
LEMMA AnsweredConstantIs ==
    ASSUME StatementOK, NEW y \in Int, NEW z \in Int, NEW constant \in 0..MaxClaim,
           NEW c \in AnsweredConstant(GPower(y), GPower(z), constant)
    PROVE  /\ c \in Zq
           /\ \E v \in Zq : /\ Same(v, y + r * c)
                            /\ Same(constant * c + secret * v, z + (total + secret * r) * c)
<1> DEFINE e == total + secret * r
           Proof(v) == [a |-> GPower(y), b |-> GPower(z), c |-> c, v |-> v, constant |-> constant]
<1>1. PICK v \in Zq : ConstantIsValid(Proof(v), message, PublicKey(secret), c)
  BY DEF AnsweredConstant
<1>2. c \in Zq BY DEF AnsweredConstant
<1> DEFINE p == Proof(v)
<1>3. p.a = GPower(y) /\ p.b = GPower(z) /\ p.c = c /\ p.v = v /\ p.constant = constant OBVIOUS
<1>4. /\ secret \in Zq /\ r \in Int /\ e \in Int
      /\ message.pad = GPower(r) /\ message.data = GPower(e)
  BY StatementExponents
<1> HIDE DEF p, e
<1>5. AcceptsConstant(p, y, z, secret, r, e)
  <2>1. p.c \in Zq /\ p.v \in Zq /\ p.constant \in 0..MaxClaim BY <1>2, <1>3
  <2>2. ConstantIsValid(p, message, PublicKey(secret), c) BY <1>1 DEF p
  <2>3. QED BY <1>3, <1>4, <2>1, <2>2, ConstantVerifies
<1>6. Same(v, y + r * c) /\ Same(constant * c + secret * v, z + e * c)
  BY <1>3, <1>5 DEF AcceptsConstant
<1>7. QED BY <1>2, <1>6 DEF e

\* A residue has an exponent.
LEMMA ResiduesArePowers == ASSUME NEW a \in Residues PROVE \E x \in Int : a = GPower(x)
<1>1. PICK e \in Zq : a = g_pow_p(e) BY DEF Residues
<1>2. QED BY <1>1, ZqIn

\* A prover can answer one challenge at most when what it claims is not what the
\* ciphertext holds, whatever commitments it makes.
THEOREM ProofsAreSound == Spec => []ProofsSound
<1>1. ASSUME StatementOK, total \notin {0, 1},
             NEW a0 \in Residues, NEW b0 \in Residues, NEW a1 \in Residues, NEW b1 \in Residues
      PROVE  Cardinality(AnsweredDisjunctive(a0, b0, a1, b1)) <= 1
  <2> DEFINE S == AnsweredDisjunctive(a0, b0, a1, b1)
             e == total + secret * r
  <2>1. PICK x0 \in Int : a0 = GPower(x0) BY ResiduesArePowers
  <2>2. PICK y0 \in Int : b0 = GPower(y0) BY ResiduesArePowers
  <2>3. PICK x1 \in Int : a1 = GPower(x1) BY ResiduesArePowers
  <2>4. PICK y1 \in Int : b1 = GPower(y1) BY ResiduesArePowers
  <2>5. secret \in Int /\ r \in Int /\ total \in Int /\ total \in Zq /\ 0 \in Zq /\ 1 \in Zq
    BY <1>1, StatementExponents, Moduli DEF Zq
  <2>6. ~Same(0 - total, 0) /\ ~Same(1 - total, 0) BY <1>1, <2>5, SameSmall
  <2>7. ASSUME NEW c \in S, NEW h \in S PROVE c = h
    <3>1. PICK c0 \in Zq, c1 \in Zq, v0 \in Zq, v1 \in Zq :
             /\ c = add_mod_q(c0, c1)
             /\ Same(v0, x0 + r * c0) /\ Same(0 * c0 + secret * v0, y0 + e * c0)
             /\ Same(v1, x1 + r * c1) /\ Same(1 * c1 + secret * v1, y1 + e * c1)
      BY <1>1, <2>1, <2>2, <2>3, <2>4, AnsweredDisjunctiveIs
    <3>2. PICK h0 \in Zq, h1 \in Zq, w0 \in Zq, w1 \in Zq :
             /\ h = add_mod_q(h0, h1)
             /\ Same(w0, x0 + r * h0) /\ Same(0 * h0 + secret * w0, y0 + e * h0)
             /\ Same(w1, x1 + r * h1) /\ Same(1 * h1 + secret * w1, y1 + e * h1)
      BY <1>1, <2>1, <2>2, <2>3, <2>4, AnsweredDisjunctiveIs
    <3>3. v0 \in Int /\ v1 \in Int /\ w0 \in Int /\ w1 \in Int /\ 0 \in Int /\ 1 \in Int BY ZqIn
    <3>4. c0 = h0 BY <2>5, <2>6, <3>1, <3>2, <3>3, OneChallenge
    <3>5. c1 = h1 BY <2>5, <2>6, <3>1, <3>2, <3>3, OneChallenge
    <3>6. QED BY <3>1, <3>2, <3>4, <3>5
  <2> HIDE DEF S
  <2>8. Cardinality(S) <= 1 BY <2>7, AtMostOne
  <2>9. QED BY <2>8 DEF S
<1>2. ASSUME StatementOK, NEW constant \in (0..MaxClaim) \ {total},
             NEW a \in Residues, NEW b \in Residues
      PROVE  Cardinality(AnsweredConstant(a, b, constant)) <= 1
  <2> DEFINE S == AnsweredConstant(a, b, constant)
             e == total + secret * r
  <2>1. PICK y \in Int : a = GPower(y) BY ResiduesArePowers
  <2>2. PICK z \in Int : b = GPower(z) BY ResiduesArePowers
  <2>3. secret \in Int /\ r \in Int /\ total \in Int /\ total \in Zq
    BY <1>2, StatementExponents, Moduli DEF Zq
  <2>4. constant \in 0..MaxClaim /\ constant \in Int /\ constant \in Zq
    BY Assumption, Moduli DEF Zq
  <2>5. ~Same(constant - total, 0) BY <1>2, <2>3, <2>4, SameSmall
  <2>6. ASSUME NEW c \in S, NEW h \in S PROVE c = h
    <3>1. PICK v \in Zq : Same(v, y + r * c) /\ Same(constant * c + secret * v, z + e * c)
      BY <1>2, <2>1, <2>2, <2>4, AnsweredConstantIs
    <3>2. PICK w \in Zq : Same(w, y + r * h) /\ Same(constant * h + secret * w, z + e * h)
      BY <1>2, <2>1, <2>2, <2>4, AnsweredConstantIs
    <3>3. c \in Zq /\ h \in Zq /\ v \in Int /\ w \in Int BY ZqIn DEF AnsweredConstant
    <3>4. QED BY <2>3, <2>4, <2>5, <3>1, <3>2, <3>3, OneChallenge
  <2> HIDE DEF S
  <2>7. Cardinality(S) <= 1 BY <2>6, AtMostOne
  <2>8. QED BY <2>7 DEF S
<1>3. ProtocolInv => ProofsSound BY <1>1, <1>2 DEF ProtocolInv, ProofsSound
<1>4. QED BY <1>3, ProtocolInvHolds, PTL
=============================================================================
