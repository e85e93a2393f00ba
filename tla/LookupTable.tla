---------------------------- MODULE LookupTable ----------------------------
(* Exponentiation with a table for a fixed base (lookup_table.hpp).  The     *)
(* exponent is cut into digits; row i of the table holds the base to the     *)
(* power of every digit of weight OrderBits^i, so a power is a product of    *)
(* one entry per row.  Numbers stay in Montgomery form from the moment the   *)
(* base is converted until the product is.                                   *)
EXTENDS Integers

CONSTANTS
    P,              \* the modulus
    MontgomeryR,    \* the word size of the big numbers; prime to P
    OrderBits,      \* entries of a row (256 in the code: the digits are bytes)
    TableLength     \* rows (32 in the code)

ASSUME TableAssumption ==
    /\ P \in Nat /\ P > 2
    /\ MontgomeryR \in Nat /\ \E x \in 1..(P - 1) : (x * MontgomeryR) % P = 1
    /\ OrderBits \in Nat \ {0, 1} /\ TableLength \in Nat \ {0}

Rows == 0..(TableLength - 1)
Slices == 0..(OrderBits - 1)

\* The weight of digit i: OrderBits^i.
Weight[i \in 0..TableLength] == IF i = 0 THEN 1 ELSE OrderBits * Weight[i - 1]
Exponents == 0..(Weight[TableLength] - 1)

\* Montgomery arithmetic, as CONTEXT_P computes it.
RInverse == CHOOSE x \in 1..(P - 1) : (x * MontgomeryR) % P = 1
to_montgomery_form(a) == (a * MontgomeryR) % P
from_montgomery_form(a) == (a * RInverse) % P
\* Mutant: the product is not reduced.
mul_mod_p_mont_Unreduced(a, b) == ((a * b) % P) * RInverse
mul_mod_p_mont(a, b) == (((a * b) % P) * RInverse) % P

\* running_base when the inner loop of a row begins pass j; what it is after the
\* last pass is the base of the next row.
running_base(row_base) ==
    LET running[j \in 1..OrderBits] ==
            IF j = 1 THEN row_base ELSE mul_mod_p_mont(running[j - 1], row_base)
    IN  running

\* Entry 0 of a row is not set.
generateTable(b) ==
    LET row_base[i \in Rows] == IF i = 0 THEN to_montgomery_form(b)
                                ELSE running_base(row_base[i - 1])[OrderBits]
    IN  [i \in Rows |-> [j \in Slices |-> IF j = 0 THEN 0 ELSE running_base(row_base[i])[j]]]

\* Byte i of the exponent, counted from the least significant one.
slice(e, i) == (e \div Weight[i]) % OrderBits

\* Mutant: zero digits are looked up, in the entry that is never filled in.
Multiplied_ZeroToo(r, row, s) == mul_mod_p_mont(r, row[s])

\* What a row contributes for digit s: zero digits are skipped.
Multiplied(r, row, s) == IF s = 0 THEN r ELSE mul_mod_p_mont(r, row[s])

TablePower(lookupTable, e) ==
    LET montgomery_result[i \in 0..TableLength] ==
            IF i = 0 THEN to_montgomery_form(1)
            ELSE Multiplied(montgomery_result[i - 1], lookupTable[i - 1], slice(e, i - 1))
    IN  from_montgomery_form(montgomery_result[TableLength])

\* The direct exponentiation, which callers take TablePower to be.
Power(b, e) == LET power[n \in 0..e] == IF n = 0 THEN 1 ELSE (power[n - 1] * b) % P
               IN  power[e]
=============================================================================
