-------------------------- MODULE ArithmeticLemmas --------------------------
(* Facts about the natural numbers that the proofs about recursive           *)
(* definitions and about modular arithmetic share: induction, for sets of    *)
(* numbers instead of predicates; definition by recursion; division with     *)
(* remainder.                                                                *)
EXTENDS Integers, WellFoundedInduction, TLAPS

----------------------------------------------------------------------------
(* Induction.                                                                *)

LEMMA LessOnNat == IsWellFoundedOn({p \in Nat \X Nat : p[1] < p[2]}, Nat)
<1>1. OpToRel(<, Nat) = {p \in Nat \X Nat : p[1] < p[2]} BY DEF OpToRel
<1>2. QED BY <1>1, NatLessThanWellFounded

\* A set of numbers that is not empty has a least one.
LEMMA Least == ASSUME NEW T \in SUBSET Nat, T # {} PROVE \E x \in T : \A y \in T : x <= y
<1> DEFINE R == {p \in Nat \X Nat : p[1] < p[2]}
<1>1. IsWellFoundedOn(R, Nat) BY LessOnNat
<1> HIDE DEF R
<1>2. PICK x \in T : \A y \in T : ~ (<<y, x>> \in R) BY <1>1, WFMin
<1>3. ASSUME NEW y \in T PROVE x <= y
  <2>1. x \in Nat /\ y \in Nat OBVIOUS
  <2>2. ~ (<<y, x>> \in R) BY <1>2
  <2>3. QED BY <2>1, <2>2 DEF R
<1>4. QED BY <1>3

\* Induction: to show a predicate for every number, take S to be where it holds.
LEMMA SetInduction ==
    ASSUME NEW S, 0 \in S, \A n \in Nat : n \in S => n + 1 \in S
    PROVE  Nat \subseteq S
<1> DEFINE T == Nat \ S
<1>1. SUFFICES ASSUME T # {} PROVE FALSE OBVIOUS
<1>2. PICK x \in T : \A y \in T : x <= y BY <1>1, Least
<1>3. x # 0 /\ x \in Nat OBVIOUS
<1>4. x - 1 \in Nat /\ x - 1 + 1 = x /\ ~ (x <= x - 1) BY <1>3
<1>5. x - 1 \in S BY <1>2, <1>4
<1>6. x \in S BY <1>4, <1>5
<1>7. QED BY <1>6

\* The same up to a bound.
LEMMA BoundedInduction ==
    ASSUME NEW S, NEW m \in Nat, 0 \in S,
           \A n \in Nat : n < m /\ n \in S => n + 1 \in S
    PROVE  0..m \subseteq S
<1> DEFINE T == S \cup {n \in Nat : n > m}
<1>1. \A n \in Nat : n \in T => n + 1 \in T
  <2> SUFFICES ASSUME NEW n \in Nat, n \in T PROVE n + 1 \in T OBVIOUS
  <2>1. CASE n < m BY <2>1
  <2>2. CASE n >= m BY <2>2
  <2>3. QED BY <2>1, <2>2
<1>2. Nat \subseteq T
  <2>1. 0 \in T OBVIOUS
  <2> HIDE DEF T
  <2>2. QED BY <1>1, <2>1, SetInduction
<1>3. QED BY <1>2

----------------------------------------------------------------------------
(* Recursion.  next[<<n, x>>] is the value at n + 1 when x is the one at n.  *)

IsRecursive(f, m, start, next) ==
    /\ f[0] = start
    /\ \A n \in 0..(m - 1) : f[n + 1] = next[<<n, f[n]>>]

IsRecursiveOnNat(f, start, next) ==
    /\ f[0] = start
    /\ \A n \in Nat : f[n + 1] = next[<<n, f[n]>>]

\* There is one such function on each interval.
LEMMA RecursionExists ==
    ASSUME NEW S, NEW start \in S, NEW next \in [Nat \X S -> S], NEW m \in Nat
    PROVE  \E f \in [0..m -> S] : IsRecursive(f, m, start, next)
<1> DEFINE A == {k \in Nat : \E f \in [0..k -> S] : IsRecursive(f, k, start, next)}
<1>1. 0 \in A
  <2> DEFINE f == [i \in 0..0 |-> start]
  <2>1. f \in [0..0 -> S] /\ IsRecursive(f, 0, start, next) BY DEF IsRecursive
  <2>2. QED BY <2>1
<1>2. ASSUME NEW k \in Nat, k \in A PROVE k + 1 \in A
  <2>1. PICK f \in [0..k -> S] : IsRecursive(f, k, start, next) BY <1>2
  <2> DEFINE g == [i \in 0..(k + 1) |-> IF i = k + 1 THEN next[<<k, f[k]>>] ELSE f[i]]
  <2>2. next[<<k, f[k]>>] \in S
    <3>1. k \in 0..k OBVIOUS
    <3>2. f[k] \in S BY <3>1
    <3>3. QED BY <3>2
  <2>3. \A i \in 0..(k + 1) : i = k + 1 \/ i \in 0..k OBVIOUS
  <2>4. g \in [0..(k + 1) -> S] BY <2>2, <2>3
  <2>5. g[0] = start BY <2>1 DEF IsRecursive
  <2>6. ASSUME NEW n \in 0..(k + 1 - 1) PROVE g[n + 1] = next[<<n, g[n]>>]
    <3>1. n \in 0..k /\ n # k + 1 /\ n \in 0..(k + 1) /\ n + 1 \in 0..(k + 1) OBVIOUS
    <3>2. g[n] = f[n] BY <3>1
    <3>3. CASE n = k BY <3>1, <3>2, <3>3
    <3>4. CASE n # k
      <4>1. n \in 0..(k - 1) /\ n + 1 # k + 1 BY <3>1, <3>4
      <4>2. f[n + 1] = next[<<n, f[n]>>] BY <2>1, <4>1 DEF IsRecursive
      <4>3. QED BY <3>1, <3>2, <4>1, <4>2
    <3>5. QED BY <3>3, <3>4
  <2> HIDE DEF g
  <2>7. IsRecursive(g, k + 1, start, next) BY <2>5, <2>6 DEF IsRecursive
  <2>8. QED BY <2>4, <2>7
<1> HIDE DEF A
<1>3. Nat \subseteq A BY <1>1, <1>2, SetInduction
<1>4. m \in A BY <1>3
<1>5. QED BY <1>4 DEF A

\* And no other.
LEMMA RecursionUnique ==
    ASSUME NEW start, NEW next, NEW m \in Nat, NEW k \in 0..m, NEW f, NEW g,
           IsRecursive(f, m, start, next), IsRecursive(g, k, start, next)
    PROVE  \A n \in 0..k : f[n] = g[n]
<1> DEFINE A == {n \in Nat : f[n] = g[n]}
<1>1. 0 \in A BY DEF IsRecursive
<1>2. ASSUME NEW n \in Nat, n < k, n \in A PROVE n + 1 \in A
  <2>1. n \in 0..(m - 1) /\ n \in 0..(k - 1) BY <1>2
  <2>2. f[n + 1] = next[<<n, f[n]>>] /\ g[n + 1] = next[<<n, g[n]>>]
    BY <2>1 DEF IsRecursive
  <2>3. QED BY <1>2, <2>2
<1>3. k \in Nat OBVIOUS
<1> HIDE DEF A
<1>4. 0..k \subseteq A BY <1>1, <1>2, <1>3, BoundedInduction
<1>5. QED BY <1>4 DEF A

\* On all numbers.
LEMMA RecursionOnNat ==
    ASSUME NEW S, NEW start \in S, NEW next \in [Nat \X S -> S]
    PROVE  \E f \in [Nat -> S] : IsRecursiveOnNat(f, start, next)
<1> DEFINE h == [m \in Nat |-> CHOOSE f \in [0..m -> S] : IsRecursive(f, m, start, next)]
           f == [m \in Nat |-> h[m][m]]
<1>1. \A m \in Nat : h[m] \in [0..m -> S] /\ IsRecursive(h[m], m, start, next)
  BY RecursionExists
<1> HIDE DEF h
<1>2. f \in [Nat -> S]
  <2>1. \A m \in Nat : m \in 0..m OBVIOUS
  <2>2. QED BY <1>1, <2>1
<1>3. f[0] = start BY <1>1 DEF IsRecursive
<1>4. ASSUME NEW n \in Nat PROVE f[n + 1] = next[<<n, f[n]>>]
  <2>1. n + 1 \in Nat /\ n \in 0..(n + 1) /\ n \in 0..(n + 1 - 1) /\ n \in 0..n OBVIOUS
  <2>2. h[n + 1][n + 1] = next[<<n, h[n + 1][n]>>] BY <1>1, <2>1 DEF IsRecursive
  <2>3. h[n + 1][n] = h[n][n] BY <1>1, <2>1, RecursionUnique
  <2>4. QED BY <2>1, <2>2, <2>3
<1> HIDE DEF f
<1>5. IsRecursiveOnNat(f, start, next) BY <1>3, <1>4 DEF IsRecursiveOnNat
<1>6. QED BY <1>2, <1>5

----------------------------------------------------------------------------
(* Division with remainder.                                                  *)

\* What \div and % are.
LEMMA DivMod ==
    ASSUME NEW q \in Nat \ {0}, NEW x \in Int
    PROVE  /\ x = q * (x \div q) + (x % q)
           /\ x \div q \in Int /\ x % q \in 0..(q - 1)
           /\ x >= 0 => x \div q \in Nat
OBVIOUS

\* Both are unique.
LEMMA DivModUnique ==
    ASSUME NEW q \in Nat \ {0}, NEW d \in Int, NEW r \in 0..(q - 1)
    PROVE  (q * d + r) % q = r /\ (q * d + r) \div q = d
<1> DEFINE x == q * d + r
<1>1. x \in Int OBVIOUS
<1>2. PICK e \in Int, s \in 0..(q - 1) : e = x \div q /\ s = x % q /\ x = q * e + s
  BY <1>1, DivMod, Zenon
<1>3. q * d \in Int /\ q * e \in Int /\ q * (d - e) = q * d - q * e
      /\ q * (e - d) = q * e - q * d OBVIOUS
<1>4. \A k \in Int : k >= 1 => q * k >= q OBVIOUS
<1>5. d - e < 1 BY <1>2, <1>3, <1>4
<1>6. e - d < 1 BY <1>2, <1>3, <1>4
<1>7. d = e BY <1>5, <1>6
<1>8. QED BY <1>2, <1>3, <1>7

\* A number of 0..(q - 1) is its own remainder.
LEMMA ModOfSmall == ASSUME NEW q \in Nat \ {0}, NEW r \in 0..(q - 1) PROVE r % q = r
OBVIOUS

\* Multiples of q do not change the remainder.
LEMMA ModAddMultiple ==
    ASSUME NEW q \in Nat \ {0}, NEW x \in Int, NEW k \in Int
    PROVE  (x + q * k) % q = x % q
<1>1. PICK d \in Int, r \in 0..(q - 1) : r = x % q /\ x = q * d + r BY DivMod, Zenon
<1>2. x + q * k = q * (d + k) + r
  <2>1. q * (d + k) = q * d + q * k OBVIOUS
  <2>2. q * d \in Int /\ q * k \in Int OBVIOUS
  <2>3. QED BY <1>1, <2>1, <2>2
<1>3. d + k \in Int OBVIOUS
<1>4. (q * (d + k) + r) % q = r BY <1>3, DivModUnique
<1>5. QED BY <1>1, <1>2, <1>4

\* A factor may be reduced first.
LEMMA ModOfProduct ==
    ASSUME NEW q \in Nat \ {0}, NEW x \in Int, NEW y \in Int
    PROVE  ((x % q) * y) % q = (x * y) % q /\ (x * (y % q)) % q = (x * y) % q
<1>1. ASSUME NEW a \in Int, NEW b \in Int PROVE ((a % q) * b) % q = (a * b) % q
  <2>1. PICK d \in Int, r \in 0..(q - 1) : r = a % q /\ a = q * d + r BY DivMod, Zenon
  <2>2. a * b = r * b + q * (d * b) BY <2>1
  <2>3. r * b \in Int /\ d * b \in Int OBVIOUS
  <2>4. (r * b + q * (d * b)) % q = (r * b) % q BY <2>3, ModAddMultiple
  <2>5. QED BY <2>1, <2>2, <2>4
<1>2. x * (y % q) = (y % q) * x /\ x * y = y * x
  <2>1. y % q \in Int OBVIOUS
  <2>2. QED BY <2>1
<1>3. QED BY <1>1, <1>2

\* A remainder inside a sum or a difference can be taken away.
LEMMA ModOfSum ==
    ASSUME NEW q \in Nat \ {0}, NEW x \in Int, NEW y \in Int
    PROVE  /\ (x + (y % q)) % q = (x + y) % q
           /\ (x - (y % q)) % q = (x - y) % q
<1>1. PICK d \in Int, r \in 0..(q - 1) : r = y % q /\ y = q * d + r BY DivMod, Zenon
<1>2. x + y = (x + r) + q * d /\ x - y = (x - r) + q * (-d)
  <2>1. q * d \in Int /\ q * (-d) = -(q * d) OBVIOUS
  <2>2. QED BY <1>1, <2>1
<1>3. x + r \in Int /\ x - r \in Int /\ -d \in Int OBVIOUS
<1>4. ((x + r) + q * d) % q = (x + r) % q BY <1>3, ModAddMultiple
<1>5. ((x - r) + q * (-d)) % q = (x - r) % q BY <1>3, ModAddMultiple
<1>6. QED BY <1>1, <1>2, <1>4, <1>5

----------------------------------------------------------------------------
(* Powers modulo p.                                                          *)

PowersOf(b, p) == CHOOSE f \in [Nat -> 0..(p - 1)] :
                     f[0] = 1 /\ \A n \in Nat : f[n + 1] = (f[n] * b) % p

\* b to the power of n.
PowerMod(b, n, p) == PowersOf(b, p)[n]

LEMMA PowerModRecursion ==
    ASSUME NEW p \in Nat \ {0, 1}, NEW b \in Nat
    PROVE  /\ PowerMod(b, 0, p) = 1
           /\ \A n \in Nat : /\ PowerMod(b, n, p) \in 0..(p - 1)
                             /\ PowerMod(b, n + 1, p) = (PowerMod(b, n, p) * b) % p
<1> DEFINE S == 0..(p - 1)
           next == [q \in Nat \X S |-> (q[2] * b) % p]
<1>1. next \in [Nat \X S -> S]
  <2>1. \A x \in S : (x * b) % p \in S
    <3>1. \A x \in S : x * b \in Int OBVIOUS
    <3>2. QED BY <3>1, DivMod
  <2>2. QED BY <2>1
<1>2. 1 \in S OBVIOUS
<1>3. \A n \in Nat, x \in S : next[<<n, x>>] = (x * b) % p OBVIOUS
<1> HIDE DEF next, S
<1>4. PICK f \in [Nat -> S] : IsRecursiveOnNat(f, 1, next)
  BY <1>1, <1>2, RecursionOnNat
<1>5. \A n \in Nat : f[n + 1] = (f[n] * b) % p BY <1>3, <1>4 DEF IsRecursiveOnNat
<1>6. /\ PowersOf(b, p) \in [Nat -> S]
      /\ PowersOf(b, p)[0] = 1
      /\ \A n \in Nat : PowersOf(b, p)[n + 1] = (PowersOf(b, p)[n] * b) % p
  BY <1>4, <1>5 DEF PowersOf, S, IsRecursiveOnNat
<1>7. QED BY <1>6 DEF PowerMod, S

\* Whatever multiplies by b at each step is the power.
LEMMA PowerModUnique ==
    ASSUME NEW p \in Nat \ {0, 1}, NEW b \in Nat, NEW m \in Nat, NEW f \in [0..m -> Nat],
           f[0] = 1,
           \A n \in 1..m : f[n] = (f[n - 1] * b) % p
    PROVE  \A n \in 0..m : f[n] = PowerMod(b, n, p)
<1> DEFINE A == {n \in Nat : f[n] = PowerMod(b, n, p)}
<1>1. 0 \in A BY PowerModRecursion
<1>2. ASSUME NEW n \in Nat, n < m, n \in A PROVE n + 1 \in A
  <2>1. n + 1 \in 1..m /\ n + 1 - 1 = n BY <1>2
  <2>2. f[n + 1] = (f[n] * b) % p BY <2>1
  <2>3. f[n] = PowerMod(b, n, p) BY <1>2
  <2>4. PowerMod(b, n + 1, p) = (PowerMod(b, n, p) * b) % p BY PowerModRecursion
  <2>5. f[n + 1] = PowerMod(b, n + 1, p) BY <2>2, <2>3, <2>4
  <2>6. QED BY <2>5
<1> HIDE DEF A
<1>3. 0..m \subseteq A BY <1>1, <1>2, BoundedInduction
<1>4. QED BY <1>3 DEF A

\* Exponents add up.
LEMMA PowerModSum ==
    ASSUME NEW p \in Nat \ {0, 1}, NEW b \in Nat, NEW m \in Nat, NEW n \in Nat
    PROVE  PowerMod(b, m + n, p) = (PowerMod(b, m, p) * PowerMod(b, n, p)) % p
<1> DEFINE A == {k \in Nat :
                  PowerMod(b, m + k, p) = (PowerMod(b, m, p) * PowerMod(b, k, p)) % p}
<1>1. p \in Nat \ {0} OBVIOUS
<1>2. \A k \in Nat : PowerMod(b, k, p) \in 0..(p - 1) /\ PowerMod(b, k, p) \in Int
  BY PowerModRecursion
<1>3. 0 \in A
  <2>1. PowerMod(b, m, p) % p = PowerMod(b, m, p) BY <1>1, <1>2, ModOfSmall
  <2>2. m + 0 = m /\ PowerMod(b, m, p) * PowerMod(b, 0, p) = PowerMod(b, m, p)
    BY <1>2, PowerModRecursion
  <2>3. QED BY <2>1, <2>2
<1>4. ASSUME NEW k \in Nat, k \in A PROVE k + 1 \in A
  <2> DEFINE x == PowerMod(b, m, p)
             y == PowerMod(b, k, p)
  <2>1. /\ x \in Int /\ y \in Int /\ b \in Int /\ x * y \in Int /\ y * b \in Int
        /\ (x * y) * b = x * (y * b)
    BY <1>2
  <2>2. PowerMod(b, m + (k + 1), p) = (PowerMod(b, m + k, p) * b) % p
    <3>1. m + k \in Nat /\ m + (k + 1) = (m + k) + 1 OBVIOUS
    <3>2. QED BY <3>1, PowerModRecursion
  <2>3. PowerMod(b, m + k, p) = (x * y) % p BY <1>4
  <2>4. PowerMod(b, k + 1, p) = (y * b) % p BY PowerModRecursion
  <2> HIDE DEF x, y
  <2>5. (((x * y) % p) * b) % p = ((x * y) * b) % p BY <1>1, <2>1, ModOfProduct
  <2>6. (x * ((y * b) % p)) % p = (x * (y * b)) % p BY <1>1, <2>1, ModOfProduct
  <2>7. PowerMod(b, m + (k + 1), p) = (x * PowerMod(b, k + 1, p)) % p
    BY <2>1, <2>2, <2>3, <2>4, <2>5, <2>6
  <2>8. QED BY <2>7 DEF x
<1> HIDE DEF A
<1>5. Nat \subseteq A BY <1>3, <1>4, SetInduction
<1>6. QED BY <1>5 DEF A

\* And multiply when a power is raised to another.
LEMMA PowerModProduct ==
    ASSUME NEW p \in Nat \ {0, 1}, NEW b \in Nat, NEW m \in Nat, NEW n \in Nat
    PROVE  PowerMod(PowerMod(b, m, p), n, p) = PowerMod(b, m * n, p)
<1> DEFINE c == PowerMod(b, m, p)
           f == [k \in 0..n |-> PowerMod(b, m * k, p)]
<1>1. c \in Nat BY PowerModRecursion
<1>2. f \in [0..n -> Nat]
  <2>1. \A k \in 0..n : m * k \in Nat OBVIOUS
  <2>2. QED BY <2>1, PowerModRecursion
<1>3. f[0] = 1
  <2>1. m * 0 = 0 /\ 0 \in 0..n OBVIOUS
  <2>2. QED BY <2>1, PowerModRecursion
<1>4. \A k \in 1..n : f[k] = (f[k - 1] * c) % p
  <2> SUFFICES ASSUME NEW k \in 1..n PROVE f[k] = (f[k - 1] * c) % p OBVIOUS
  <2>1. k - 1 \in 0..n /\ k \in 0..n /\ k - 1 \in Nat OBVIOUS
  <2>2. m * (k - 1) \in Nat /\ m * k = m * (k - 1) + m BY <2>1
  <2>3. PowerMod(b, m * (k - 1) + m, p)
           = (PowerMod(b, m * (k - 1), p) * PowerMod(b, m, p)) % p
    BY <2>2, PowerModSum
  <2>4. QED BY <2>1, <2>2, <2>3
<1>5. f[n] = PowerMod(b, m * n, p) OBVIOUS
<1> HIDE DEF f, c
<1>6. \A k \in 0..n : f[k] = PowerMod(c, k, p) BY <1>1, <1>2, <1>3, <1>4, PowerModUnique
<1>7. n \in 0..n OBVIOUS
<1>8. QED BY <1>5, <1>6, <1>7 DEF c

\* A power of 1 is 1.
LEMMA PowerModOfOne ==
    ASSUME NEW p \in Nat \ {0, 1}, NEW n \in Nat PROVE PowerMod(1, n, p) = 1
<1> DEFINE f == [k \in 0..n |-> 1]
<1>1. 1 % p = 1
  <2>1. p \in Nat \ {0} /\ 1 \in 0..(p - 1) OBVIOUS
  <2>2. QED BY <2>1, ModOfSmall
<1>2. f \in [0..n -> Nat] /\ f[0] = 1 OBVIOUS
<1>3. \A k \in 1..n : f[k] = (f[k - 1] * 1) % p
  <2> SUFFICES ASSUME NEW k \in 1..n PROVE f[k] = (f[k - 1] * 1) % p OBVIOUS
  <2>1. k - 1 \in 0..n /\ k \in 0..n OBVIOUS
  <2>2. QED BY <1>1, <2>1
<1>4. f[n] = 1 /\ n \in 0..n OBVIOUS
<1> HIDE DEF f
<1>5. 1 \in Nat OBVIOUS
<1>6. \A k \in 0..n : f[k] = PowerMod(1, k, p) BY <1>2, <1>3, <1>5, PowerModUnique
<1>7. QED BY <1>4, <1>6
=============================================================================
