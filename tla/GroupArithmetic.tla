-------------------------- MODULE GroupArithmetic --------------------------
(* Elements mod Q, as group.cpp computes with them: fixed-width words, a     *)
(* carry, an offset added or subtracted when the word wraps, and a final     *)
(* reduction.                                                                *)
(*                                                                           *)
(* One register holds an element and a second one the residue the same       *)
(* operations have in exact arithmetic.  The operations are applied in any   *)
(* order and any number of times.                                            *)
EXTENDS Integers, FiniteSets

CONSTANTS
    Q, WordQ,   \* the small prime and 2^256, the values its limbs hold
    WordBits    \* 256

ASSUME QAssumption == /\ Q \in Nat /\ WordQ \in Nat
                      /\ 1 < Q /\ Q < WordQ /\ WordQ < 2 * Q

VARIABLES
    element,    \* the value of the element
    exact       \* the residue it should stand for

varsQ == <<element, exact>>

----------------------------------------------------------------------------
\* Bignum256 and Bignum4096: addition and subtraction modulo the word.

Carry(word, a, b) == a + b >= word
BnAdd(word, a, b) == IF Carry(word, a, b) THEN a + b - word ELSE a + b
Borrow(a, b)      == a < b
BnSub(word, a, b) == IF Borrow(a, b) THEN a - b + word ELSE a - b

Q_INVERSE_OFFSET == WordQ - Q

\* The offset for operands above the modulus: once for each of them, plus one.
BigOffset(modulus, inverse, operands) ==
    Cardinality({i \in DOMAIN operands : modulus < operands[i]}) * (inverse + 1)

\* Mutant: the offset of a sum that wrapped is one too large.
AdjustedSum_OffByOne(word, modulus, inverse, wrapped, a, b) ==
    IF Carry(word, a, b) THEN BnAdd(word, BnAdd(word, a, b), wrapped + 1)
                         ELSE BnAdd(word, a, b)

\* The sum of a and b before the reduction; wrapped is what is added to a sum
\* that wrapped, or is all ones, when neither operand is above the modulus.
AdjustedSum(word, modulus, inverse, wrapped, a, b) ==
    LET sum == BnAdd(word, a, b)
        isMax == sum = word - 1
        big_a == modulus < a
        big_b == modulus < b
        offset == IF big_a \/ big_b THEN BigOffset(modulus, inverse, <<a, b>>)
                                    ELSE wrapped
    IN  IF Carry(word, a, b) \/ isMax THEN BnAdd(word, sum, offset) ELSE sum

\* Mutant: the reduction keeps the modulus.
add_mod_q_KeepsQ(a, b) == IF a + b <= Q THEN a + b ELSE (a + b) % Q

add_mod_q(a, b) ==
    AdjustedSum(WordQ, Q, Q_INVERSE_OFFSET, Q_INVERSE_OFFSET, a, b) % Q

sub_mod_q(a, b) ==
    LET difference == BnSub(WordQ, a, b)
        offset == IF Q < a \/ Q < b THEN Q_INVERSE_OFFSET + 1 ELSE Q_INVERSE_OFFSET
    IN  (IF Borrow(a, b) THEN BnSub(WordQ, difference, offset) ELSE difference) % Q

\* Mutant: the last reduction is left out.
a_plus_bc_mod_q_Unreduced(a, b, c) == a + ((b * c) % Q)

a_plus_bc_mod_q(a, b, c) == (a + ((b * c) % Q)) % Q

\* No reduction: sub_from_q(0) is Q.
sub_from_q(a) == BnSub(WordQ, Q, a)

\* The random bits, with the bits that are clear in Q cleared.
Bits(x) == {i \in 0..(WordBits - 1) : (x \div 2^i) % 2 = 1}
Masked == {x \in 0..Q : Bits(x) \subseteq Bits(Q)}

\* What the constructor accepts: the modulus itself, too.
CheckedQ == 0..Q
----------------------------------------------------------------------------
\* Chains of operations on elements that were constructed with the check.

InitQ == /\ element \in CheckedQ
         /\ exact = element % Q

Add == \E b \in CheckedQ : /\ element' = add_mod_q(element, b)
                           /\ exact' = (exact + b) % Q

Subtract == \E b \in CheckedQ : /\ element' = sub_mod_q(element, b)
                                /\ exact' = (exact - b) % Q

SubtractFrom == \E a \in CheckedQ : /\ element' = sub_mod_q(a, element)
                                    /\ exact' = (a - exact) % Q

\* As a response of a proof is computed: nonce + challenge * secret.
AddProduct == \E a, c \in CheckedQ : /\ element' = a_plus_bc_mod_q(a, element, c)
                                     /\ exact' = (a + exact * c) % Q

Negate == /\ element' = sub_from_q(element)
          /\ exact' = (-exact) % Q

rand_q == \E x \in Masked : /\ element' = add_mod_q(x, 0)
                            /\ exact' = x % Q

NextQ == Add \/ Subtract \/ SubtractFrom \/ AddProduct \/ Negate \/ rand_q

SpecQ == InitQ /\ [][NextQ]_varsQ

----------------------------------------------------------------------------
\* Properties.

\* An element built by checked construction and these operations is at most
\* Q: the offsets bring every sum and difference that wraps back into range.
TypeOK == element \in CheckedQ /\ exact \in 0..(Q - 1)

\* The element stands for the residue it should, however long the chain
\* and whatever wrapped on the way (add_mod_q, sub_mod_q, a_plus_bc_mod_q).
ResidueExact == element % Q = exact

\* Elements are compared limb by limb, so two forms of zero would not be
\* equal.  The only operation that leaves Q in place of zero is the negation
\* of zero by sub_from_q, which does not reduce.
OnlyNegatedZeroUnreduced == [][element' = Q => element = 0]_varsQ
=============================================================================
