------------------------- MODULE ArithmeticProofs -------------------------
(* Proofs about the arithmetic of group.cpp and of its tables. Powers: what  *)
(* is taken through a table is the direct power, for every modulus, base,    *)
(* digit width and number of rows; and a cache warmed up by one thread       *)
(* serves all of them: the map and the texts are never raced on, each table  *)
(* is built once, and each power is exact. Sums: the arithmetic mod Q is     *)
(* exact, for every modulus and every word of less than twice the modulus,   *)
(* 2^256 - 189 and 2^256 among them.                                         *)
EXTENDS LookupTableContext, GroupArithmetic, ArithmeticLemmas

Residues == 0..(P - 1)

----------------------------------------------------------------------------
(* Powers.                                                                   *)

\* Power is what its definition says: the function behind it exists.
LEMMA PowerRecursion ==
    ASSUME NEW b \in Residues
    PROVE  /\ Power(b, 0) = 1
           /\ \A n \in Nat : /\ Power(b, n) \in Residues
                             /\ Power(b, n + 1) = (Power(b, n) * b) % P
<1> DEFINE next == [p \in Nat \X Residues |-> (p[2] * b) % P]
<1>1. next \in [Nat \X Residues -> Residues]
  <2>1. \A x \in Residues : (x * b) % P \in Residues
    <3>1. \A x \in Residues : x * b \in Int /\ P \in Nat \ {0}
      BY TableAssumption DEF Residues
    <3>2. QED BY <3>1, DivMod DEF Residues
  <2>2. QED BY <2>1
<1>2. 1 \in Residues BY TableAssumption DEF Residues
<1> HIDE DEF next
<1>3. ASSUME NEW e \in Nat
      PROVE  \E f \in [0..e -> Residues] :
                IsRecursive(f, e, 1, next) /\ Power(b, e) = f[e]
  <2> DEFINE power[n \in 0..e] == IF n = 0 THEN 1 ELSE (power[n - 1] * b) % P
  <2>1. PICK f \in [0..e -> Residues] : IsRecursive(f, e, 1, next)
    BY <1>1, <1>2, RecursionExists
  <2>2. f = [n \in 0..e |-> IF n = 0 THEN 1 ELSE (f[n - 1] * b) % P]
    <3>1. ASSUME NEW n \in 0..e, n # 0 PROVE f[n] = (f[n - 1] * b) % P
      <4>1. n - 1 \in 0..(e - 1) /\ n - 1 \in 0..e /\ n - 1 + 1 = n BY <3>1
      <4>2. f[n] = next[<<n - 1, f[n - 1]>>] BY <2>1, <4>1 DEF IsRecursive
      <4>3. f[n - 1] \in Residues /\ n - 1 \in Nat BY <4>1
      <4>4. QED BY <4>2, <4>3 DEF next
    <3>2. f[0] = 1 BY <2>1 DEF IsRecursive
    <3>3. QED BY <3>1, <3>2
  <2>3. power = [n \in 0..e |-> IF n = 0 THEN 1 ELSE (power[n - 1] * b) % P]
    BY <2>2
  <2>4. Power(b, e) = power[e] BY DEF Power
  <2> HIDE DEF power
  <2>5. power[0] = 1 BY <2>3
  <2>6. \A n \in Nat : n < e => power[n + 1] = (power[n] * b) % P
    <3> SUFFICES ASSUME NEW n \in Nat, n < e PROVE power[n + 1] = (power[n] * b) % P
      OBVIOUS
    <3>1. n + 1 \in 0..e /\ n + 1 # 0 /\ n + 1 - 1 = n OBVIOUS
    <3>2. QED BY <2>3, <3>1
  <2>7. \A n \in 0..e : power[n] = f[n]
    <3> DEFINE A == {n \in Nat : power[n] = f[n]}
    <3>1. 0 \in A BY <2>1, <2>5 DEF IsRecursive
    <3>2. ASSUME NEW n \in Nat, n < e, n \in A PROVE n + 1 \in A
      <4>1. n + 1 \in 0..e /\ n + 1 # 0 /\ n + 1 - 1 = n BY <3>2
      <4>2. f[n + 1] = (f[n] * b) % P BY <2>2, <4>1
      <4>3. QED BY <2>6, <3>2, <4>2
    <3> HIDE DEF A
    <3>3. 0..e \subseteq A BY <3>1, <3>2, BoundedInduction
    <3>4. QED BY <3>3 DEF A
  <2>8. e \in 0..e OBVIOUS
  <2>9. QED BY <2>1, <2>4, <2>7, <2>8
<1>4. ASSUME NEW n \in Nat
      PROVE  Power(b, n) \in Residues /\ Power(b, n + 1) = (Power(b, n) * b) % P
  <2>1. PICK f \in [0..n -> Residues] : IsRecursive(f, n, 1, next) /\ Power(b, n) = f[n]
    BY <1>3
  <2>2. PICK g \in [0..(n + 1) -> Residues] :
           IsRecursive(g, n + 1, 1, next) /\ Power(b, n + 1) = g[n + 1]
    <3>1. n + 1 \in Nat OBVIOUS
    <3>2. QED BY <1>3, <3>1
  <2>3. n \in 0..n /\ n \in 0..(n + 1) /\ n \in 0..(n + 1 - 1) OBVIOUS
  <2>4. g[n] = f[n]
    <3>1. n + 1 \in Nat /\ IsRecursive(g, n + 1, 1, next) /\ IsRecursive(f, n, 1, next)
      BY <2>1, <2>2
    <3>2. \A i \in 0..n : g[i] = f[i] BY <2>3, <3>1, RecursionUnique
    <3>3. QED BY <2>3, <3>2
  <2>5. g[n + 1] = next[<<n, g[n]>>] BY <2>2, <2>3 DEF IsRecursive
  <2>6. f[n] \in Residues BY <2>3
  <2>7. next[<<n, f[n]>>] = (f[n] * b) % P BY <2>6 DEF next
  <2>8. QED BY <2>1, <2>2, <2>4, <2>5, <2>6, <2>7
<1>5. Power(b, 0) = 1
  <2>1. PICK f \in [0..0 -> Residues] : IsRecursive(f, 0, 1, next) /\ Power(b, 0) = f[0]
    BY <1>3
  <2>2. QED BY <2>1 DEF IsRecursive
<1>6. QED BY <1>4, <1>5

\* Exponents add up.
LEMMA PowerOfSum ==
    ASSUME NEW b \in Residues, NEW m \in Nat, NEW n \in Nat
    PROVE  Power(b, m + n) = (Power(b, m) * Power(b, n)) % P
<1> DEFINE A == {k \in Nat : Power(b, m + k) = (Power(b, m) * Power(b, k)) % P}
<1>1. P \in Nat \ {0} BY TableAssumption
<1>2. \A k \in Nat : Power(b, k) \in 0..(P - 1) /\ Power(b, k) \in Int /\ b \in Int
  <2>1. \A k \in Nat : Power(b, k) \in Residues BY PowerRecursion
  <2>2. QED BY <2>1 DEF Residues
<1>3. 0 \in A
  <2>1. Power(b, m) % P = Power(b, m) BY <1>1, <1>2, ModOfSmall
  <2>2. m + 0 = m /\ Power(b, m) * Power(b, 0) = Power(b, m)
    BY <1>2, PowerRecursion
  <2>3. QED BY <2>1, <2>2
<1>4. ASSUME NEW k \in Nat, k \in A PROVE k + 1 \in A
  <2> DEFINE x == Power(b, m)
             y == Power(b, k)
  <2>1. x \in Int /\ y \in Int /\ x * y \in Int /\ y * b \in Int /\ (x * y) * b = x * (y * b)
    BY <1>2
  <2>2. Power(b, m + (k + 1)) = (Power(b, m + k) * b) % P
    <3>1. m + k \in Nat /\ m + (k + 1) = (m + k) + 1 OBVIOUS
    <3>2. QED BY <3>1, PowerRecursion
  <2>3. Power(b, m + k) = (x * y) % P BY <1>4
  <2>4. Power(b, k + 1) = (y * b) % P BY PowerRecursion
  <2> HIDE DEF x, y
  <2>5. (((x * y) % P) * b) % P = ((x * y) * b) % P BY <1>1, <1>2, <2>1, ModOfProduct
  <2>6. (x * ((y * b) % P)) % P = (x * (y * b)) % P BY <1>1, <2>1, ModOfProduct
  <2>7. Power(b, m + (k + 1)) = (x * Power(b, k + 1)) % P
    BY <2>1, <2>2, <2>3, <2>4, <2>5, <2>6
  <2>8. QED BY <2>7 DEF x
<1> HIDE DEF A
<1>5. Nat \subseteq A BY <1>3, <1>4, SetInduction
<1>6. QED BY <1>5 DEF A

----------------------------------------------------------------------------
(* Montgomery form.                                                          *)

LEMMA InverseOfR == RInverse \in 1..(P - 1) /\ (RInverse * MontgomeryR) % P = 1
<1>1. \E x \in 1..(P - 1) : (x * MontgomeryR) % P = 1 BY TableAssumption
<1>2. QED BY <1>1 DEF RInverse

\* R and its inverse cancel.
LEMMA Cancel ==
    ASSUME NEW x \in Int
    PROVE  (((x * MontgomeryR) % P) * RInverse) % P = x % P
<1>1. P \in Nat \ {0} /\ MontgomeryR \in Int /\ RInverse \in Int
      /\ (RInverse * MontgomeryR) % P = 1
  BY TableAssumption, InverseOfR
<1>2. x * MontgomeryR \in Int /\ RInverse * MontgomeryR \in Int BY <1>1
<1>3. (((x * MontgomeryR) % P) * RInverse) % P = ((x * MontgomeryR) * RInverse) % P
  BY <1>1, <1>2, ModOfProduct
<1>4. (x * MontgomeryR) * RInverse = x * (RInverse * MontgomeryR) BY <1>1
<1>5. (x * ((RInverse * MontgomeryR) % P)) % P = (x * (RInverse * MontgomeryR)) % P
  BY <1>1, <1>2, ModOfProduct
<1>6. x * 1 = x OBVIOUS
<1>7. QED BY <1>1, <1>3, <1>4, <1>5, <1>6

\* Leaving the form gives the number back.
LEMMA MontgomeryRoundTrip ==
    ASSUME NEW x \in Residues PROVE from_montgomery_form(to_montgomery_form(x)) = x
<1>1. P \in Nat \ {0} /\ x \in Int /\ x \in 0..(P - 1) BY TableAssumption DEF Residues
<1>2. x % P = x BY <1>1, ModOfSmall
<1>3. QED BY <1>1, <1>2, Cancel DEF from_montgomery_form, to_montgomery_form

\* The product of two numbers in the form is their product in the form.
LEMMA MontgomeryProduct ==
    ASSUME NEW x \in Residues, NEW y \in Residues
    PROVE  mul_mod_p_mont(to_montgomery_form(x), to_montgomery_form(y))
              = to_montgomery_form((x * y) % P)
<1> DEFINE R == MontgomeryR
           a == (x * R) % P
           c == (y * R) % P
           z == (x * y) * R
<1>1. P \in Nat \ {0} /\ R \in Int /\ x \in Int /\ y \in Int
  BY TableAssumption DEF Residues
<1>2. x * R \in Int /\ y * R \in Int /\ x * y \in Int /\ z \in Int /\ z * R \in Int
      /\ (x * R) * (y * R) = z * R
  <2>1. x * R \in Int /\ y * R \in Int /\ x * y \in Int BY <1>1
  <2>2. z \in Int BY <1>1, <2>1
  <2>3. (x * R) * (y * R) = z * R BY <1>1
  <2>4. z * R \in Int BY <1>1, <2>2
  <2>5. QED BY <2>1, <2>2, <2>3, <2>4
<1> HIDE DEF R
<1>3. a \in Int /\ c \in Int BY <1>1, <1>2, DivMod
<1>4. (a * c) % P = (z * R) % P
  <2>1. (a * c) % P = ((x * R) * c) % P BY <1>1, <1>2, <1>3, ModOfProduct
  <2>2. ((x * R) * c) % P = ((x * R) * (y * R)) % P BY <1>1, <1>2, ModOfProduct
  <2>3. QED BY <1>2, <2>1, <2>2
<1>5. (((z * R) % P) * RInverse) % P = z % P BY <1>2, Cancel DEF R
<1>6. (((x * y) % P) * R) % P = z % P BY <1>1, <1>2, ModOfProduct
<1>7. QED
  BY <1>4, <1>5, <1>6 DEF mul_mod_p_mont, to_montgomery_form, R

----------------------------------------------------------------------------
(* Digits.                                                                   *)

LEMMA WeightRecursion ==
    /\ Weight[0] = 1
    /\ \A i \in 0..TableLength : Weight[i] \in Nat \ {0}
    /\ \A i \in Rows : Weight[i + 1] = OrderBits * Weight[i]
<1> DEFINE S == Nat \ {0}
           next == [p \in Nat \X S |-> OrderBits * p[2]]
<1>1. TableLength \in Nat \ {0} /\ OrderBits \in Nat \ {0} BY TableAssumption
<1>2. next \in [Nat \X S -> S]
  <2>1. \A x \in S : OrderBits * x \in S BY <1>1
  <2>2. QED BY <2>1
<1>3. 1 \in S OBVIOUS
<1> HIDE DEF next
<1>4. PICK f \in [0..TableLength -> S] : IsRecursive(f, TableLength, 1, next)
  BY <1>1, <1>2, <1>3, RecursionExists
<1>5. f = [i \in 0..TableLength |-> IF i = 0 THEN 1 ELSE OrderBits * f[i - 1]]
  <2>1. ASSUME NEW i \in 0..TableLength, i # 0 PROVE f[i] = OrderBits * f[i - 1]
    <3>1. i - 1 \in 0..(TableLength - 1) /\ i - 1 \in 0..TableLength /\ i - 1 + 1 = i
          /\ i - 1 \in Nat
      BY <1>1, <2>1
    <3>2. f[i] = next[<<i - 1, f[i - 1]>>] BY <1>4, <3>1 DEF IsRecursive
    <3>3. f[i - 1] \in S BY <1>4, <3>1
    <3>4. QED BY <3>1, <3>2, <3>3 DEF next
  <2>2. f[0] = 1 BY <1>4 DEF IsRecursive
  <2>3. QED BY <1>4, <2>1, <2>2
<1>6. Weight = [i \in 0..TableLength |-> IF i = 0 THEN 1 ELSE OrderBits * Weight[i - 1]]
  BY <1>5 DEF Weight
<1>7. Weight[0] = 1 BY <1>1, <1>6
<1>8. ASSUME NEW i \in Rows PROVE Weight[i + 1] = OrderBits * Weight[i]
  <2>1. i \in Nat /\ i + 1 \in 0..TableLength
    BY <1>1 DEF Rows
  <2>2. \A k \in 0..TableLength : k # 0 => Weight[k] = OrderBits * Weight[k - 1]
    BY <1>6, Zenon
  <2>3. QED BY <2>1, <2>2
<1>9. 0..TableLength \subseteq {i \in Nat : Weight[i] \in S}
  <2> DEFINE A == {i \in Nat : Weight[i] \in S}
  <2>1. 0 \in A BY <1>7
  <2>2. ASSUME NEW i \in Nat, i < TableLength, i \in A PROVE i + 1 \in A
    <3>1. i \in Rows BY <1>1, <2>2 DEF Rows
    <3>2. OrderBits * Weight[i] \in S BY <1>1, <2>2
    <3>3. QED BY <1>8, <3>1, <3>2
  <2> HIDE DEF A
  <2>3. 0..TableLength \subseteq A BY <1>1, <2>1, <2>2, BoundedInduction
  <2>4. QED BY <2>3 DEF A
<1>10. QED BY <1>7, <1>8, <1>9

\* The last i + 1 digits of e are digit i and the last i.
LEMMA NextDigit ==
    ASSUME NEW e \in Nat, NEW w \in Nat \ {0}
    PROVE  e % (OrderBits * w) = ((e \div w) % OrderBits) * w + (e % w)
<1>1. OrderBits \in Nat \ {0} BY TableAssumption
<1>2. PICK d \in Nat, r \in 0..(w - 1) : d = e \div w /\ r = e % w /\ e = w * d + r
  BY DivMod
<1>3. PICK k \in Int, s \in 0..(OrderBits - 1) : s = d % OrderBits /\ d = OrderBits * k + s
  <2>1. d \in Int OBVIOUS
  <2>2. QED BY <1>1, <2>1, DivMod, Zenon
<1> DEFINE q == OrderBits * w
           t == s * w + r
<1>4. e = q * k + t
  <2>1. w * d = w * (OrderBits * k) + w * s
    <3>1. OrderBits * k \in Int BY <1>1
    <3>2. QED BY <1>3, <3>1
  <2>2. w * (OrderBits * k) = (OrderBits * w) * k BY <1>1
  <2>3. w * s = s * w OBVIOUS
  <2>4. w * (OrderBits * k) \in Int /\ w * s \in Int BY <1>1
  <2>5. QED BY <1>2, <2>1, <2>2, <2>3, <2>4
<1>5. q \in Nat \ {0} BY <1>1
<1>6. t \in 0..(q - 1)
  <2>1. s * w \in Nat /\ (OrderBits - 1) * w \in Nat /\ s * w <= (OrderBits - 1) * w
    BY <1>1
  <2>2. (OrderBits - 1) * w = OrderBits * w - w BY <1>1
  <2>3. QED BY <1>5, <2>1, <2>2
<1>7. t = ((e \div w) % OrderBits) * w + (e % w)
  <2>1. s = (e \div w) % OrderBits BY <1>2, <1>3, Zenon
  <2>2. r = e % w BY <1>2, Zenon
  <2>3. QED BY <2>1, <2>2, Zenon
<1> HIDE DEF q, t
<1>8. (q * k + t) % q = t BY <1>5, <1>6, DivModUnique
<1>9. e % q = t BY <1>4, <1>8
<1>10. QED BY <1>7, <1>9 DEF q

----------------------------------------------------------------------------
(* The table.                                                                *)

\* Entry s of row i is the base to the power of digit s of weight i.
Entry(b, i, s) == to_montgomery_form(Power(b, s * Weight[i]))

LEMMA RowsNat == \A i \in Rows : i \in Nat /\ i \in 0..TableLength /\ i + 1 \in 0..TableLength
BY TableAssumption DEF Rows

LEMMA EntryProduct ==
    ASSUME NEW b \in Residues, NEW i \in Rows, NEW s \in Nat
    PROVE  mul_mod_p_mont(Entry(b, i, s), Entry(b, i, 1)) = Entry(b, i, s + 1)
<1> DEFINE w == Weight[i]
<1>1. w \in Nat BY RowsNat, WeightRecursion
<1>2. s * w \in Nat /\ 1 * w = w /\ s * w + w = (s + 1) * w BY <1>1
<1> HIDE DEF w
<1>3. Power(b, s * w) \in Residues /\ Power(b, w) \in Residues BY <1>1, <1>2, PowerRecursion
<1>4. Power(b, s * w + w) = (Power(b, s * w) * Power(b, w)) % P BY <1>1, <1>2, PowerOfSum
<1>5. mul_mod_p_mont(to_montgomery_form(Power(b, s * w)), to_montgomery_form(Power(b, w)))
         = to_montgomery_form((Power(b, s * w) * Power(b, w)) % P)
  BY <1>3, MontgomeryProduct
<1>6. QED BY <1>2, <1>4, <1>5 DEF Entry, w

LEMMA FirstEntry ==
    ASSUME NEW b \in Residues
    PROVE  /\ Entry(b, 0, 1) = to_montgomery_form(b)
           /\ \A i \in Rows : i + 1 \in Rows => Entry(b, i + 1, 1) = Entry(b, i, OrderBits)
<1>1. Entry(b, 0, 1) = to_montgomery_form(b)
  <2>1. Power(b, 0 + 1) = (Power(b, 0) * b) % P /\ Power(b, 0) = 1 BY PowerRecursion
  <2>2. P \in Nat \ {0} /\ b \in 0..(P - 1) BY TableAssumption DEF Residues
  <2>3. 1 * b = b /\ b % P = b /\ 0 + 1 = 1 BY <2>2, ModOfSmall
  <2>4. 1 * Weight[0] = 1 BY WeightRecursion
  <2>5. QED BY <2>1, <2>3, <2>4 DEF Entry
<1>2. ASSUME NEW i \in Rows PROVE Entry(b, i + 1, 1) = Entry(b, i, OrderBits)
  <2>1. Weight[i + 1] = OrderBits * Weight[i] BY WeightRecursion
  <2>2. Weight[i + 1] \in Nat BY RowsNat, WeightRecursion
  <2>3. 1 * Weight[i + 1] = Weight[i + 1] BY <2>2
  <2>4. QED BY <2>1, <2>3 DEF Entry
<1>3. QED BY <1>1, <1>2

\* The passes of the inner loop, for row i.
LEMMA RowEntries ==
    ASSUME NEW b \in Residues, NEW i \in Rows
    PROVE  \A j \in 1..OrderBits : running_base(Entry(b, i, 1))[j] = Entry(b, i, j)
<1> DEFINE x == Entry(b, i, 1)
           running[j \in 1..OrderBits] ==
              IF j = 1 THEN x ELSE mul_mod_p_mont(running[j - 1], x)
           closed == [j \in 1..OrderBits |-> Entry(b, i, j)]
<1>1. OrderBits \in Nat \ {0, 1} BY TableAssumption
<1>2. closed = [j \in 1..OrderBits |-> IF j = 1 THEN x ELSE mul_mod_p_mont(closed[j - 1], x)]
  <2>1. ASSUME NEW j \in 1..OrderBits, j # 1
        PROVE  Entry(b, i, j) = mul_mod_p_mont(closed[j - 1], x)
    <3>1. j - 1 \in 1..OrderBits /\ j - 1 \in Nat /\ j - 1 + 1 = j BY <1>1, <2>1
    <3>2. mul_mod_p_mont(Entry(b, i, j - 1), x) = Entry(b, i, j - 1 + 1)
      BY <3>1, EntryProduct
    <3>3. QED BY <3>1, <3>2
  <2>2. QED BY <2>1
<1>3. running = [j \in 1..OrderBits |-> IF j = 1 THEN x ELSE mul_mod_p_mont(running[j - 1], x)]
  <2> HIDE DEF closed
  <2>1. QED BY <1>2
<1>4. running_base(x) = running BY DEF running_base
<1> HIDE DEF running, x
<1> DEFINE A == {n \in Nat : running[n + 1] = closed[n + 1]}
<1>5. 0 \in A
  <2>1. 1 \in 1..OrderBits BY <1>1
  <2>2. running[1] = x /\ closed[1] = x BY <1>2, <1>3, <2>1
  <2>3. QED BY <2>2
<1>6. ASSUME NEW n \in Nat, n < OrderBits - 1, n \in A PROVE n + 1 \in A
  <2> DEFINE j == n + 1 + 1
  <2>1. j \in 1..OrderBits /\ j # 1 /\ j - 1 = n + 1 BY <1>1, <1>6
  <2>2. running[j - 1] = closed[j - 1] BY <1>6, <2>1
  <2> HIDE DEF j
  <2>3. running[j] = mul_mod_p_mont(running[j - 1], x) BY <1>3, <2>1
  <2>4. closed[j] = mul_mod_p_mont(closed[j - 1], x)
    <3> HIDE DEF closed
    <3>1. QED BY <1>2, <2>1
  <2>5. running[j] = closed[j] BY <2>2, <2>3, <2>4
  <2>6. QED BY <2>5 DEF j
<1>7. OrderBits - 1 \in Nat BY <1>1
<1> HIDE DEF A
<1>8. 0..(OrderBits - 1) \subseteq A BY <1>5, <1>6, <1>7, BoundedInduction
<1>9. ASSUME NEW j \in 1..OrderBits PROVE running[j] = closed[j]
  <2>1. j - 1 \in 0..(OrderBits - 1) /\ j - 1 + 1 = j BY <1>1
  <2>2. j - 1 \in A BY <1>8, <2>1
  <2>3. QED BY <2>1, <2>2 DEF A
<1>10. QED BY <1>4, <1>9 DEF x

\* What generateTable computes.
LEMMA TableEntries ==
    ASSUME NEW b \in Residues
    PROVE  generateTable(b) =
              [i \in Rows |-> [j \in Slices |-> IF j = 0 THEN 0 ELSE Entry(b, i, j)]]
<1> DEFINE row_base[i \in Rows] == IF i = 0 THEN to_montgomery_form(b)
                                   ELSE running_base(row_base[i - 1])[OrderBits]
           closed == [i \in Rows |-> Entry(b, i, 1)]
<1>1. OrderBits \in Nat \ {0, 1} /\ TableLength \in Nat \ {0} /\ OrderBits \in 1..OrderBits
  BY TableAssumption
<1>2. closed = [i \in Rows |-> IF i = 0 THEN to_montgomery_form(b)
                               ELSE running_base(closed[i - 1])[OrderBits]]
  <2>1. ASSUME NEW i \in Rows, i # 0
        PROVE  Entry(b, i, 1) = running_base(closed[i - 1])[OrderBits]
    <3>1. i - 1 \in Rows /\ i - 1 + 1 = i BY <1>1, <2>1 DEF Rows
    <3>2. Entry(b, i - 1 + 1, 1) = Entry(b, i - 1, OrderBits) BY <3>1, FirstEntry
    <3>3. running_base(Entry(b, i - 1, 1))[OrderBits] = Entry(b, i - 1, OrderBits)
      BY <1>1, <3>1, RowEntries
    <3>4. QED BY <3>1, <3>2, <3>3
  <2>2. QED BY <2>1, FirstEntry
<1>3. row_base = [i \in Rows |-> IF i = 0 THEN to_montgomery_form(b)
                                 ELSE running_base(row_base[i - 1])[OrderBits]]
  <2> HIDE DEF closed
  <2>1. QED BY <1>2
<1>4. generateTable(b) =
         [i \in Rows |-> [j \in Slices |-> IF j = 0 THEN 0 ELSE running_base(row_base[i])[j]]]
  BY DEF generateTable
<1> HIDE DEF row_base
<1> DEFINE A == {n \in Nat : row_base[n] = closed[n]}
<1>5. 0 \in A
  <2>1. 0 \in Rows BY <1>1 DEF Rows
  <2>2. row_base[0] = closed[0] BY <1>2, <1>3, <2>1
  <2>3. QED BY <2>2
<1>6. ASSUME NEW n \in Nat, n < TableLength - 1, n \in A PROVE n + 1 \in A
  <2> DEFINE j == n + 1
  <2>1. j \in Rows /\ j # 0 /\ j - 1 = n BY <1>1, <1>6 DEF Rows
  <2>2. row_base[j - 1] = closed[j - 1] BY <1>6, <2>1
  <2> HIDE DEF j
  <2>3. row_base[j] = running_base(row_base[j - 1])[OrderBits] BY <1>3, <2>1
  <2>4. closed[j] = running_base(closed[j - 1])[OrderBits]
    <3> HIDE DEF closed
    <3>1. QED BY <1>2, <2>1
  <2>5. row_base[j] = closed[j] BY <2>2, <2>3, <2>4
  <2>6. QED BY <2>5 DEF j
<1>7. TableLength - 1 \in Nat BY <1>1
<1> HIDE DEF A
<1>8. 0..(TableLength - 1) \subseteq A BY <1>5, <1>6, <1>7, BoundedInduction
<1>9. \A i \in Rows : row_base[i] = Entry(b, i, 1) BY <1>8 DEF A, Rows
<1>10. \A j \in Slices : j # 0 => j \in 1..OrderBits BY <1>1 DEF Slices
<1>11. \A i \in Rows : \A j \in Slices : j # 0 => running_base(row_base[i])[j] = Entry(b, i, j)
  BY <1>9, <1>10, RowEntries
<1>12. QED BY <1>4, <1>11

----------------------------------------------------------------------------
(* The power.                                                                *)

\* What each row adds to the result.
LEMMA RowContribution ==
    ASSUME NEW b \in Residues, NEW i \in Rows, NEW e \in Nat
    PROVE  Multiplied(to_montgomery_form(Power(b, e % Weight[i])), generateTable(b)[i], slice(e, i))
              = to_montgomery_form(Power(b, e % Weight[i + 1]))
<1> DEFINE w == Weight[i]
           s == slice(e, i)
           r == e % w
<1>1. OrderBits \in Nat \ {0} /\ w \in Nat \ {0} /\ Weight[i + 1] = OrderBits * w
  BY TableAssumption, RowsNat, WeightRecursion
<1>2. r \in Nat /\ s \in Slices /\ s \in Nat
  <2>1. e \in Int /\ e >= 0 OBVIOUS
  <2>2. e \div w \in Int /\ r \in 0..(w - 1) BY <1>1, <2>1, DivMod
  <2>3. (e \div w) % OrderBits \in 0..(OrderBits - 1) BY <1>1, <2>2, DivMod
  <2>4. QED BY <1>1, <2>2, <2>3 DEF slice, Slices
<1>3. e % Weight[i + 1] = s * w + r BY <1>1, NextDigit DEF slice
<1> HIDE DEF w, s, r
<1>4. CASE s = 0
  <2>1. s * w + r = r BY <1>1, <1>2, <1>4
  <2>2. QED BY <1>3, <1>4, <2>1 DEF Multiplied, s, r, w
<1>5. CASE s # 0
  <2>1. generateTable(b)[i][s] = Entry(b, i, s) BY <1>2, <1>5, TableEntries
  <2>2. s * w \in Nat /\ s * w + r = r + s * w BY <1>1, <1>2
  <2>3. Power(b, r) \in Residues /\ Power(b, s * w) \in Residues
    BY <1>2, <2>2, PowerRecursion
  <2>4. Power(b, r + s * w) = (Power(b, r) * Power(b, s * w)) % P
    BY <1>2, <2>2, PowerOfSum
  <2>5. mul_mod_p_mont(to_montgomery_form(Power(b, r)), to_montgomery_form(Power(b, s * w)))
           = to_montgomery_form((Power(b, r) * Power(b, s * w)) % P)
    BY <2>3, MontgomeryProduct
  <2>6. Multiplied(to_montgomery_form(Power(b, r)), generateTable(b)[i], s)
           = to_montgomery_form(Power(b, s * w + r))
    BY <1>5, <2>1, <2>2, <2>4, <2>5 DEF Multiplied, Entry, w
  <2>7. QED BY <1>3, <2>6 DEF s, r, w
<1>6. QED BY <1>4, <1>5

\* LookupTable::pow_mod_p, through the table of its base, is the direct
\* exponentiation of group.cpp, for every exponent that fits the rows.
THEOREM TableIsExact ==
    ASSUME NEW b \in Residues, NEW e \in Exponents
    PROVE  TablePower(generateTable(b), e) = Power(b, e)
<1> DEFINE lookupTable == generateTable(b)
           montgomery_result[i \in 0..TableLength] ==
              IF i = 0 THEN to_montgomery_form(1)
              ELSE Multiplied(montgomery_result[i - 1], lookupTable[i - 1], slice(e, i - 1))
           closed == [i \in 0..TableLength |-> to_montgomery_form(Power(b, e % Weight[i]))]
<1>1. TableLength \in Nat \ {0} /\ e \in Nat /\ Weight[TableLength] \in Nat \ {0}
      /\ e \in 0..(Weight[TableLength] - 1) /\ TableLength \in 0..TableLength
  <2>1. TableLength \in Nat \ {0} BY TableAssumption
  <2>2. TableLength \in 0..TableLength BY <2>1
  <2>3. Weight[TableLength] \in Nat \ {0} BY <2>2, WeightRecursion
  <2>4. QED BY <2>1, <2>2, <2>3 DEF Exponents
<1>2. closed = [i \in 0..TableLength |->
                  IF i = 0 THEN to_montgomery_form(1)
                  ELSE Multiplied(closed[i - 1], lookupTable[i - 1], slice(e, i - 1))]
  <2>1. ASSUME NEW i \in 0..TableLength, i # 0
        PROVE  to_montgomery_form(Power(b, e % Weight[i]))
                  = Multiplied(closed[i - 1], lookupTable[i - 1], slice(e, i - 1))
    <3>1. i - 1 \in Rows /\ i - 1 + 1 = i /\ i - 1 \in 0..TableLength
      BY <1>1, <2>1 DEF Rows
    <3>2. Multiplied(to_montgomery_form(Power(b, e % Weight[i - 1])), lookupTable[i - 1],
                     slice(e, i - 1))
             = to_montgomery_form(Power(b, e % Weight[i - 1 + 1]))
      BY <1>1, <3>1, RowContribution
    <3>3. QED BY <3>1, <3>2
  <2>2. to_montgomery_form(Power(b, e % Weight[0])) = to_montgomery_form(1)
    <3>1. e % 1 = 0 BY <1>1
    <3>2. Power(b, 0) = 1 BY PowerRecursion
    <3>3. QED BY <3>1, <3>2, WeightRecursion
  <2>3. QED BY <2>1, <2>2
<1>3. montgomery_result =
         [i \in 0..TableLength |->
            IF i = 0 THEN to_montgomery_form(1)
            ELSE Multiplied(montgomery_result[i - 1], lookupTable[i - 1], slice(e, i - 1))]
  <2> HIDE DEF closed, lookupTable
  <2>1. QED BY <1>2
<1>4. TablePower(lookupTable, e) = from_montgomery_form(montgomery_result[TableLength])
  BY DEF TablePower
<1> HIDE DEF montgomery_result, lookupTable
<1> DEFINE A == {n \in Nat : montgomery_result[n] = closed[n]}
<1>5. 0 \in A
  <2>1. 0 \in 0..TableLength BY <1>1
  <2>2. montgomery_result[0] = closed[0] BY <1>2, <1>3, <2>1
  <2>3. QED BY <2>2
<1>6. ASSUME NEW n \in Nat, n < TableLength, n \in A PROVE n + 1 \in A
  <2> DEFINE j == n + 1
  <2>1. j \in 0..TableLength /\ j # 0 /\ j - 1 = n BY <1>1, <1>6
  <2>2. montgomery_result[j - 1] = closed[j - 1] BY <1>6, <2>1
  <2> HIDE DEF j
  <2>3. montgomery_result[j] =
           Multiplied(montgomery_result[j - 1], lookupTable[j - 1], slice(e, j - 1))
    BY <1>3, <2>1
  <2>4. closed[j] = Multiplied(closed[j - 1], lookupTable[j - 1], slice(e, j - 1))
    <3> HIDE DEF closed
    <3>1. QED BY <1>2, <2>1
  <2>5. montgomery_result[j] = closed[j] BY <2>2, <2>3, <2>4
  <2>6. QED BY <2>5 DEF j
<1> HIDE DEF A
<1>7. 0..TableLength \subseteq A BY <1>1, <1>5, <1>6, BoundedInduction
<1>8. montgomery_result[TableLength] = closed[TableLength] BY <1>1, <1>7 DEF A
<1>9. closed[TableLength] = to_montgomery_form(Power(b, e))
  <2>1. e % Weight[TableLength] = e BY <1>1, ModOfSmall
  <2>2. QED BY <1>1, <2>1
<1>10. Power(b, e) \in Residues BY <1>1, PowerRecursion
<1>11. QED BY <1>4, <1>8, <1>9, <1>10, MontgomeryRoundTrip DEF lookupTable

----------------------------------------------------------------------------
(* The cache of the tables.                                                  *)

Places == {"idle", "read_hex", "write_hex", "lock", "unlock", "asleep", "find",
           "generate", "emplace", "index", "pow", "crashed"}

\* Where a call has looked up the text of its base.
Keyed == {"lock", "unlock", "asleep", "find", "generate", "emplace", "index", "pow"}

StateOK ==
    /\ at \in [Threads -> Places]
    /\ base \in [Threads -> Bases \cup {Null}]
    /\ key \in [Threads -> Bases \cup {Null}]
    /\ hexRepresentation \in [Bases -> Bases \cup {Null}]
    /\ raced \in [Threads -> BOOLEAN]
    /\ table = [t \in Threads |-> table[t]]
    /\ built \in [Bases -> Nat]
    /\ DOMAIN key_map \subseteq Bases

\* A call is for the table of one base, and has the right one at the end.
CallsOK ==
    \A t \in Threads :
        /\ ~raced[t]
        /\ at[t] \notin {"idle", "crashed"} => base[t] \in Bases
        /\ at[t] \in Keyed => key[t] = base[t] /\ hexRepresentation[base[t]] # Null
        /\ at[t] = "index" => key[t] \in DOMAIN key_map
        /\ at[t] \in {"generate", "emplace"} => key[t] \notin DOMAIN key_map
        /\ at[t] = "pow" => table[t] = generateTable(base[t])

\* The cache holds right tables, of bases whose texts are made.
CacheOK ==
    \A b \in Bases :
        /\ hexRepresentation[b] \in {b, Null}
        /\ b \in DOMAIN key_map => /\ key_map[b] = generateTable(b)
                                   /\ hexRepresentation[b] # Null

\* While the cache is being filled only First is in a call; once it is, nobody
\* writes a text or the map.
OneFills ==
    /\ ~Filled => \A t \in Threads \ {First} : at[t] = "idle"
    /\ Filled => \A t \in Threads : at[t] \notin {"write_hex", "generate", "emplace"}

BuiltOK ==
    \A b \in Bases :
        built[b] = IF \/ b \in DOMAIN key_map
                      \/ at[First] = "emplace" /\ base[First] = b
                   THEN 1 ELSE 0

CacheInv == StateOK /\ CallsOK /\ CacheOK /\ OneFills /\ BuiltOK

WarmInv == warmUp => CacheInv

----------------------------------------------------------------------------
LEMMA WarmInit == Init => WarmInv
<1> SUFFICES ASSUME Init PROVE CacheInv BY DEF WarmInv
<1> USE Assumption DEF Init
<1>1. StateOK
  <2>1. base = [t \in Threads |-> Null] /\ key = base /\ table = base OBVIOUS
  <2>2. QED BY <2>1 DEF StateOK, Places
<1>2. CallsOK /\ CacheOK BY DEF CallsOK, CacheOK, Keyed
<1>3. OneFills /\ BuiltOK BY DEF OneFills, BuiltOK
<1>4. QED BY <1>1, <1>2, <1>3 DEF CacheInv

\* A thread in a call is First, unless the cache is filled.
LEMMA Caller == ASSUME CacheInv, NEW t \in Threads, at[t] # "idle" PROVE Filled \/ t = First
BY DEF CacheInv, OneFills

\* No access of such a thread conflicts with another, if it is not a write of a
\* filled cache.
LEMMA NoRace ==
    ASSUME CacheInv, NEW t \in Threads, NEW b, NEW place,
           Filled \/ t = First,
           Filled => place \notin {"write_hex", "emplace"},
           Filled /\ place = "index" => key[t] \in DOMAIN key_map
    PROVE  RacedFor(t, b, place) = raced /\ \A u \in Threads : ~raced[u]
<1>1. \A u \in Threads : raced[u] = FALSE /\ raced = [v \in Threads |-> raced[v]]
  BY DEF CacheInv, StateOK, CallsOK
<1>2. Conflicts(t, b, place) = {}
  <2>1. CASE ~Filled
    BY <2>1 DEF CacheInv, OneFills, Conflicts, TextAccesses, MapAccesses
  <2>2. CASE Filled
    BY <2>2 DEF CacheInv, OneFills, CallsOK, Conflicts, Writes, TextAccesses, MapAccesses
  <2>3. QED BY <2>1, <2>2
<1>3. QED BY <1>1, <1>2 DEF RacedFor

\* A thread other than First that is in a call sees the cache filled.
LEMMA WarmStep == WarmInv /\ [Next]_vars => WarmInv'
<1> SUFFICES ASSUME WarmInv, [Next]_vars PROVE WarmInv'
  OBVIOUS
<1>1. warmUp' = warmUp
  BY DEF Next, Step, call, read_hex, write_hex, lock, unlock, find, generate, emplace, index,
         pow, Quiescent, vars
<1> SUFFICES ASSUME CacheInv, warmUp PROVE CacheInv'
  BY <1>1 DEF WarmInv
<1> USE Assumption DEF CacheInv, Places, Keyed
<1>2. CASE UNCHANGED vars
  BY <1>2 DEF vars, StateOK, CallsOK, CacheOK, OneFills, BuiltOK, Filled
<1>3. ASSUME NEW t \in Threads, call(t) PROVE CacheInv'
  <2>1. PICK b \in Bases : /\ at[t] = "idle" /\ (Filled \/ t = First)
                           /\ base' = [base EXCEPT ![t] = b]
                           /\ at' = [at EXCEPT ![t] = "read_hex"]
                           /\ raced' = RacedFor(t, b, "read_hex")
    BY <1>3 DEF call
  <2>2. UNCHANGED <<key, hexRepresentation, key_map, count, table, built>>
    BY <1>3 DEF call
  <2>3. raced' = raced BY <2>1, NoRace
  <2>4. StateOK' BY <2>1, <2>2, <2>3 DEF StateOK
  <2>5. CallsOK' BY <2>1, <2>2, <2>3 DEF CallsOK, StateOK
  <2>6. CacheOK' BY <2>1, <2>2 DEF CacheOK
  <2>7. OneFills' BY <2>1, <2>2 DEF OneFills, StateOK, Filled
  <2>8. BuiltOK'
    <3>1. /\ at'[First] = "emplace" <=> at[First] = "emplace"
          /\ at[First] = "emplace" => base'[First] = base[First]
      BY <2>1 DEF StateOK
    <3>2. QED BY <2>2, <3>1 DEF BuiltOK
  <2>9. QED BY <2>4, <2>5, <2>6, <2>7, <2>8
<1>4. ASSUME NEW t \in Threads, read_hex(t) PROVE CacheInv'
  <2>1. /\ at[t] = "read_hex" /\ ~raced[t]
        /\ \/ /\ hexRepresentation[base[t]] # Null
              /\ key' = [key EXCEPT ![t] = hexRepresentation[base[t]]]
              /\ Goto(t, "lock")
           \/ /\ hexRepresentation[base[t]] = Null
              /\ Goto(t, "write_hex")
              /\ key' = key
    BY <1>4 DEF read_hex, CallsOK
  <2>2. UNCHANGED <<base, hexRepresentation, key_map, count, table, built>>
    BY <1>4 DEF read_hex
  <2>3. base[t] \in Bases /\ hexRepresentation[base[t]] \in {base[t], Null}
    BY <2>1 DEF CallsOK, CacheOK
  <2>4. Filled => hexRepresentation[base[t]] # Null
    BY <2>3 DEF Filled, CacheOK
  <2>5. PICK place \in {"lock", "write_hex"} :
          /\ at' = [at EXCEPT ![t] = place]
          /\ raced' = RacedFor(t, base[t], place)
          /\ place = "write_hex" => ~Filled /\ t = First
          /\ place = "lock" => /\ hexRepresentation[base[t]] # Null
                               /\ key' = [key EXCEPT ![t] = base[t]]
          /\ place = "write_hex" => key' = key
    BY <2>1, <2>3, <2>4, Caller DEF Goto
  <2>6. raced' = raced BY <2>1, <2>5, Caller, NoRace
  <2>7. StateOK' BY <2>2, <2>3, <2>5, <2>6 DEF StateOK
  <2>8. CallsOK' BY <2>1, <2>2, <2>3, <2>5, <2>6 DEF CallsOK, StateOK
  <2>9. CacheOK' BY <2>2 DEF CacheOK
  <2>10. OneFills' BY <2>1, <2>2, <2>5 DEF OneFills, StateOK, Filled
  <2>11. BuiltOK' BY <2>1, <2>2, <2>5 DEF BuiltOK, StateOK
  <2>12. QED BY <2>7, <2>8, <2>9, <2>10, <2>11
<1>5. ASSUME NEW t \in Threads, write_hex(t) PROVE CacheInv'
  <2>1. /\ at[t] = "write_hex" /\ base[t] \in Bases /\ ~Filled /\ t = First
        /\ at' = [at EXCEPT ![t] = "lock"]
        /\ raced' = RacedFor(t, base[t], "lock")
        /\ hexRepresentation' = [hexRepresentation EXCEPT ![base[t]] = base[t]]
        /\ key' = [key EXCEPT ![t] = base[t]]
    BY <1>5, Caller DEF write_hex, Goto, CallsOK, OneFills
  <2>2. UNCHANGED <<base, key_map, count, table, built>>
    BY <1>5 DEF write_hex
  <2>3. raced' = raced BY <2>1, NoRace
  <2>4. StateOK' BY <2>1, <2>2, <2>3 DEF StateOK
  <2>5. CallsOK' BY <2>1, <2>2, <2>3 DEF CallsOK, StateOK
  <2>6. CacheOK' BY <2>1, <2>2 DEF CacheOK, StateOK
  <2>7. OneFills' BY <2>1, <2>2 DEF OneFills, StateOK, Filled
  <2>8. BuiltOK' BY <2>1, <2>2 DEF BuiltOK, StateOK
  <2>9. QED BY <2>4, <2>5, <2>6, <2>7, <2>8
\* Steps of the semaphore.
<1>6. ASSUME NEW t \in Threads, lock(t) \/ unlock(t) PROVE CacheInv'
  <2>1. PICK place \in {"unlock", "asleep", "find"}, woken \in SUBSET Threads :
          /\ at[t] \in {"lock", "unlock"}
          /\ \A u \in woken : at[u] = "asleep"
          /\ at' = [u \in Threads |-> IF u = t THEN place
                                      ELSE IF u \in woken THEN "lock" ELSE at[u]]
          /\ raced' = RacedFor(t, base[t], place)
    <3>1. CASE lock(t)
      <4>1. PICK place \in {"unlock", "asleep"} : Goto(t, place) /\ at[t] = "lock"
        BY <3>1 DEF lock
      <4>2. at' = [u \in Threads |-> IF u = t THEN place
                                     ELSE IF u \in {} THEN "lock" ELSE at[u]]
        BY <4>1 DEF Goto, StateOK
      <4>3. {} \in SUBSET Threads /\ \A u \in {} : at[u] = "asleep" OBVIOUS
      <4>4. raced' = RacedFor(t, base[t], place) BY <4>1 DEF Goto
      <4>5. QED BY <4>1, <4>2, <4>3, <4>4
    <3>2. CASE unlock(t) /\ Notifiable = {}
      BY <3>2 DEF unlock, StateOK
    <3>3. CASE unlock(t) /\ Notifiable # {}
      <4>1. PICK u \in Notifiable : at' = [at EXCEPT ![t] = "find", ![u] = "lock"]
        BY <3>3 DEF unlock
      <4>2. at[t] = "unlock" /\ at[u] = "asleep" /\ u \in Threads /\ u # t
            /\ raced' = RacedFor(t, base[t], "find")
        BY <3>3 DEF unlock, Notifiable
      <4>3. at' = [v \in Threads |-> IF v = t THEN "find"
                                     ELSE IF v \in {u} THEN "lock" ELSE at[v]]
        BY <4>1, <4>2 DEF StateOK
      <4>4. QED BY <4>2, <4>3
    <3>4. QED BY <1>6, <3>1, <3>2, <3>3
  <2>2. UNCHANGED <<base, key, hexRepresentation, key_map, table, built>>
    BY <1>6 DEF lock, unlock
  <2>3. raced' = raced BY <2>1, Caller, NoRace
  <2>4. StateOK' BY <2>1, <2>2, <2>3 DEF StateOK
  <2>5. CallsOK' BY <2>1, <2>2, <2>3 DEF CallsOK, StateOK
  <2>6. CacheOK' BY <2>1, <2>2 DEF CacheOK
  <2>7. OneFills' BY <2>1, <2>2 DEF OneFills, StateOK, Filled
  <2>8. BuiltOK' BY <2>1, <2>2 DEF BuiltOK, StateOK
  <2>9. QED BY <2>4, <2>5, <2>6, <2>7, <2>8
<1>7. ASSUME NEW t \in Threads, find(t) PROVE CacheInv'
  <2>1. /\ at[t] = "find" /\ key[t] = base[t] /\ base[t] \in Bases
        /\ \/ key[t] \in DOMAIN key_map /\ Goto(t, "index")
           \/ key[t] \notin DOMAIN key_map /\ Goto(t, "generate")
    BY <1>7 DEF find, Found, CallsOK
  <2>2. UNCHANGED <<base, key, hexRepresentation, key_map, count, table, built>>
    BY <1>7 DEF find
  <2>3. PICK place \in {"index", "generate"} :
          /\ at' = [at EXCEPT ![t] = place]
          /\ raced' = RacedFor(t, base[t], place)
          /\ place = "index" => key[t] \in DOMAIN key_map
          /\ place = "generate" => key[t] \notin DOMAIN key_map /\ ~Filled /\ t = First
    BY <2>1, Caller DEF Goto, Filled
  <2>4. raced' = raced BY <2>1, <2>3, Caller, NoRace
  <2>5. StateOK' BY <2>2, <2>3, <2>4 DEF StateOK
  <2>6. CallsOK' BY <2>1, <2>2, <2>3, <2>4 DEF CallsOK, StateOK
  <2>7. CacheOK' BY <2>2 DEF CacheOK
  <2>8. OneFills' BY <2>1, <2>2, <2>3 DEF OneFills, StateOK, Filled
  <2>9. BuiltOK' BY <2>1, <2>2, <2>3 DEF BuiltOK, StateOK
  <2>10. QED BY <2>5, <2>6, <2>7, <2>8, <2>9
<1>8. ASSUME NEW t \in Threads, generate(t) PROVE CacheInv'
  <2>1. /\ at[t] = "generate" /\ base[t] \in Bases /\ ~Filled /\ t = First
        /\ key[t] = base[t] /\ key[t] \notin DOMAIN key_map
        /\ at' = [at EXCEPT ![t] = "emplace"]
        /\ raced' = RacedFor(t, base[t], "emplace")
        /\ built' = [built EXCEPT ![base[t]] = @ + 1]
    BY <1>8, Caller DEF generate, Goto, CallsOK, OneFills
  <2>2. UNCHANGED <<base, key, hexRepresentation, key_map, count, table>>
    BY <1>8 DEF generate
  <2>3. raced' = raced BY <2>1, NoRace
  <2>4. StateOK' BY <2>1, <2>2, <2>3 DEF StateOK
  <2>5. CallsOK' BY <2>1, <2>2, <2>3 DEF CallsOK, StateOK
  <2>6. CacheOK' BY <2>1, <2>2 DEF CacheOK
  <2>7. OneFills' BY <2>1, <2>2 DEF OneFills, StateOK, Filled
  <2>8. BuiltOK' BY <2>1, <2>2 DEF BuiltOK, StateOK
  <2>9. QED BY <2>4, <2>5, <2>6, <2>7, <2>8
<1>9. ASSUME NEW t \in Threads, emplace(t) PROVE CacheInv'
  <2>1. /\ at[t] = "emplace" /\ base[t] \in Bases /\ ~Filled /\ t = First
        /\ key[t] = base[t] /\ key[t] \notin DOMAIN key_map
        /\ hexRepresentation[base[t]] # Null
        /\ at' = [at EXCEPT ![t] = "index"]
        /\ raced' = RacedFor(t, base[t], "index")
        /\ key_map' = With(base[t], generateTable(base[t]))
    BY <1>9, Caller DEF emplace, Goto, CallsOK, OneFills, Generated
  <2>2. UNCHANGED <<base, key, hexRepresentation, count, table, built>>
    BY <1>9 DEF emplace
  <2>3. raced' = raced BY <2>1, NoRace
  <2>4. /\ DOMAIN key_map' = DOMAIN key_map \cup {base[t]}
        /\ key_map'[base[t]] = generateTable(base[t])
        /\ \A k \in DOMAIN key_map : key_map'[k] = key_map[k]
    BY <2>1 DEF With
  <2>5. StateOK' BY <2>1, <2>2, <2>3, <2>4 DEF StateOK
  <2>6. CallsOK' BY <2>1, <2>2, <2>3, <2>4 DEF CallsOK, StateOK, OneFills
  <2>7. CacheOK' BY <2>1, <2>2, <2>4 DEF CacheOK
  <2>8. OneFills' BY <2>1, <2>2, <2>4 DEF OneFills, StateOK, Filled
  <2>9. BuiltOK' BY <2>1, <2>2, <2>4 DEF BuiltOK, StateOK
  <2>10. QED BY <2>5, <2>6, <2>7, <2>8, <2>9
<1>10. ASSUME NEW t \in Threads, index(t) PROVE CacheInv'
  <2>1. /\ at[t] = "index" /\ base[t] \in Bases
        /\ key[t] = base[t] /\ key[t] \in DOMAIN key_map
        /\ at' = [at EXCEPT ![t] = "pow"]
        /\ raced' = RacedFor(t, base[t], "pow")
        /\ key_map' = With(base[t], Null)
        /\ table' = [table EXCEPT ![t] = key_map'[base[t]]]
    BY <1>10 DEF index, Goto, CallsOK
  <2>2. UNCHANGED <<base, key, hexRepresentation, count, built>>
    BY <1>10 DEF index
  <2>3. raced' = raced BY <2>1, Caller, NoRace
  <2>4. /\ DOMAIN key_map' = DOMAIN key_map
        /\ \A k \in DOMAIN key_map : key_map'[k] = key_map[k]
        /\ key_map'[base[t]] = generateTable(base[t])
    BY <2>1 DEF With, CacheOK
  <2>5. StateOK' BY <2>1, <2>2, <2>3, <2>4 DEF StateOK
  <2>6. CallsOK' BY <2>1, <2>2, <2>3, <2>4 DEF CallsOK, StateOK
  <2>7. CacheOK' BY <2>1, <2>2, <2>4 DEF CacheOK
  <2>8. OneFills' BY <2>1, <2>2, <2>4 DEF OneFills, StateOK, Filled
  <2>9. BuiltOK' BY <2>1, <2>2, <2>4 DEF BuiltOK, StateOK
  <2>10. QED BY <2>5, <2>6, <2>7, <2>8, <2>9
<1>11. ASSUME NEW t \in Threads, pow(t) PROVE CacheInv'
  <2>1. PICK place \in {"idle", "crashed"} :
          /\ at[t] = "pow"
          /\ at' = [at EXCEPT ![t] = place]
          /\ place = "crashed" => Filled \/ t = First
          /\ base' = [base EXCEPT ![t] = Null] /\ key' = [key EXCEPT ![t] = Null]
          /\ table' = [table EXCEPT ![t] = Null]
          /\ raced' = [raced EXCEPT ![t] = FALSE]
    BY <1>11, Caller DEF pow
  <2>2. UNCHANGED <<hexRepresentation, key_map, count, built>>
    BY <1>11 DEF pow
  <2>3. StateOK' BY <2>1, <2>2 DEF StateOK
  <2>4. CallsOK' BY <2>1, <2>2 DEF CallsOK, StateOK
  <2>5. CacheOK' BY <2>2 DEF CacheOK
  <2>6. OneFills' BY <2>1, <2>2 DEF OneFills, StateOK, Filled
  <2>7. BuiltOK' BY <2>1, <2>2 DEF BuiltOK, StateOK
  <2>8. QED BY <2>3, <2>4, <2>5, <2>6, <2>7
<1>12. QED
  BY <1>2, <1>3, <1>4, <1>5, <1>6, <1>7, <1>8, <1>9, <1>10, <1>11
     DEF Next, Step, Quiescent

LEMMA WarmAlways == Spec => []WarmInv
BY WarmInit, WarmStep, PTL DEF Spec

\* A cache that one thread fills before the others use it gives every thread the
\* table of its base, and the power through that table is the direct one.
THEOREM WarmCacheIsExact == Spec => []PowerIsExact
<1>1. WarmInv => PowerIsExact
  <2> SUFFICES ASSUME WarmInv, warmUp, NEW t \in Threads, at[t] = "pow"
               PROVE  /\ table[t] # Null
                      /\ \A e \in Exponents : TablePower(table[t], e) = Power(base[t], e)
    BY DEF PowerIsExact
  <2>1. base[t] \in Bases /\ table[t] = generateTable(base[t])
    BY DEF WarmInv, CacheInv, CallsOK
  <2>2. base[t] \in Residues
    <3>1. P \in Nat /\ Bases \subseteq 1..(P - 1) BY TableAssumption, Assumption
    <3>2. \A x \in 1..(P - 1) : x \in 0..(P - 1) BY <3>1
    <3>3. base[t] \in 1..(P - 1) BY <2>1, <3>1
    <3>4. QED BY <3>2, <3>3 DEF Residues
  <2>3. table[t] # Null BY <2>1, Assumption
  <2>4. QED BY <2>1, <2>2, <2>3, TableIsExact
<1>2. QED BY <1>1, WarmAlways, PTL

\* And each table is generated once.
THEOREM WarmCacheBuiltOnce == Spec => []BuiltOnce
<1>1. WarmInv => BuiltOnce
  <2> SUFFICES ASSUME WarmInv, warmUp, NEW b \in Bases PROVE built[b] <= 1
    BY DEF BuiltOnce
  <2>1. built[b] \in {0, 1} BY DEF WarmInv, CacheInv, BuiltOK
  <2>2. QED BY <2>1
<1>2. QED BY <1>1, WarmAlways, PTL
----------------------------------------------------------------------------
(* Division with remainder.                                                  *)

LEMMA QPositive == Q \in Nat \ {0}
BY QAssumption, SMT

\* A remainder is reduced.
LEMMA ModQ == \A x \in Int : x % Q \in 0..(Q - 1)
BY QPositive, DivMod

\* In particular Q itself, added or subtracted.
LEMMA ModAddQ == ASSUME NEW x \in Int PROVE (x + Q) % Q = x % Q /\ (x - Q) % Q = x % Q
<1>1. \A k \in Int : (x + Q * k) % Q = x % Q BY QPositive, ModAddMultiple
<1>2. (x + Q * 1) % Q = x % Q /\ (x + Q * (-1)) % Q = x % Q
  <2>1. 1 \in Int /\ -1 \in Int OBVIOUS
  <2>2. QED BY <1>1, <2>1, Zenon
<1>3. Q * 1 = Q /\ x + Q * (-1) = x - Q BY QAssumption, SMT
<1>4. QED BY <1>2, <1>3

----------------------------------------------------------------------------
(* The operations.                                                           *)

\* A sum is exact whether the word wraps or not, for operands up to Q.
LEMMA AddExact ==
    ASSUME NEW a \in CheckedQ, NEW b \in CheckedQ
    PROVE  add_mod_q(a, b) = (a + b) % Q
<1> USE QAssumption DEF CheckedQ
<1> DEFINE adjusted == AdjustedSum(WordQ, Q, Q_INVERSE_OFFSET, Q_INVERSE_OFFSET, a, b)
<1>1. ~(Q < a) /\ ~(Q < b) BY SMT
<1>2. CASE a + b < WordQ - 1
  <2>1. adjusted = a + b BY <1>1, <1>2, SMT DEF AdjustedSum, BnAdd, Carry
  <2>2. QED BY <2>1 DEF add_mod_q
<1>3. CASE a + b >= WordQ - 1
  <2>1. adjusted = (a + b) - Q
    BY <1>1, <1>3, SMT DEF AdjustedSum, BnAdd, Carry, Q_INVERSE_OFFSET
  <2>2. a + b \in Int BY SMT
  <2>3. ((a + b) - Q) % Q = (a + b) % Q BY <2>2, ModAddQ, Zenon
  <2>4. QED BY <2>1, <2>3 DEF add_mod_q
<1>4. QED BY <1>2, <1>3, SMT

\* So is a difference, with or without a borrow.
LEMMA SubExact ==
    ASSUME NEW a \in CheckedQ, NEW b \in CheckedQ
    PROVE  sub_mod_q(a, b) = (a - b) % Q
<1> USE QAssumption DEF CheckedQ
<1>1. ~(Q < a) /\ ~(Q < b) BY SMT
<1>2. CASE a >= b
  BY <1>1, <1>2, SMT DEF sub_mod_q, BnSub, Borrow, Q_INVERSE_OFFSET
<1>3. CASE a < b
  <2>1. BnSub(WordQ, BnSub(WordQ, a, b), Q_INVERSE_OFFSET) = (a - b) + Q
    BY <1>3, SMT DEF BnSub, Borrow, Q_INVERSE_OFFSET
  <2>2. sub_mod_q(a, b) = ((a - b) + Q) % Q
    BY <1>1, <1>3, <2>1, Zenon DEF sub_mod_q, Borrow
  <2>3. a - b \in Int BY SMT
  <2>4. QED BY <2>2, <2>3, ModAddQ, Zenon
<1>4. QED BY <1>2, <1>3, SMT

\* The negation of a non-zero element is reduced; that of zero is Q.
LEMMA NegateExact ==
    ASSUME NEW a \in CheckedQ
    PROVE  sub_from_q(a) = Q - a /\ sub_from_q(a) \in CheckedQ
BY QAssumption, SMT DEF sub_from_q, BnSub, Borrow, CheckedQ

\* A remainder is its own remainder, and Q has none.
LEMMA ModOfResidue == (\A r \in 0..(Q - 1) : r % Q = r) /\ Q % Q = 0
<1>1. \A r \in 0..(Q - 1) : r % Q = r BY QAssumption, SMT
<1>2. (0 + Q) % Q = 0 % Q BY ModAddQ
<1>3. 0 % Q = 0 /\ 0 + Q = Q BY <1>1, QAssumption, SMT
<1>4. QED BY <1>1, <1>2, <1>3

----------------------------------------------------------------------------
(* The chains of operations.                                                 *)

\* Initially.
LEMMA ArithmeticInit == InitQ => TypeOK /\ ResidueExact
<1> SUFFICES ASSUME InitQ PROVE TypeOK /\ ResidueExact OBVIOUS
<1>1. element \in Int BY QAssumption, SMT DEF InitQ, CheckedQ
<1>2. element % Q \in 0..(Q - 1) BY <1>1, ModQ, Zenon
<1>3. QED BY <1>2 DEF InitQ, TypeOK, ResidueExact

\* Whatever the operation, its result stands for what exact arithmetic gives.
LEMMA ArithmeticStep == TypeOK /\ ResidueExact /\ [NextQ]_varsQ => (TypeOK /\ ResidueExact)'
<1> SUFFICES ASSUME TypeOK, ResidueExact, [NextQ]_varsQ PROVE (TypeOK /\ ResidueExact)'
  OBVIOUS
<1>1. /\ element \in CheckedQ /\ element \in Int
      /\ exact \in Int /\ exact = element % Q
  BY QAssumption, SMT DEF TypeOK, ResidueExact, CheckedQ
<1>2. ASSUME NEW r \in Int, element' = r % Q, exact' = r % Q
      PROVE  (TypeOK /\ ResidueExact)'
  <2>1. r % Q \in 0..(Q - 1) BY ModQ
  <2>2. r % Q \in CheckedQ BY <2>1, QAssumption, SMT DEF CheckedQ
  <2>3. (r % Q) % Q = r % Q BY <2>1, ModOfResidue, Zenon
  <2>4. QED BY <1>2, <2>1, <2>2, <2>3 DEF TypeOK, ResidueExact
<1>3. CASE Add
  <2>1. PICK b \in CheckedQ : element' = add_mod_q(element, b) /\ exact' = (exact + b) % Q
    BY <1>3 DEF Add
  <2>2. b \in Int /\ element + b = b + element /\ exact + b = b + exact
    BY <1>1, QAssumption, SMT DEF CheckedQ
  <2>3. (b + (element % Q)) % Q = (b + element) % Q BY QPositive, <1>1, <2>2, ModOfSum
  <2>4. element' = (b + element) % Q BY <1>1, <2>1, <2>2, AddExact
  <2>5. exact' = (b + element) % Q BY <1>1, <2>1, <2>2, <2>3
  <2>6. b + element \in Int BY <1>1, <2>2, SMT
  <2>7. QED BY <1>2, <2>4, <2>5, <2>6
<1>4. CASE Subtract
  <2>1. PICK b \in CheckedQ : element' = sub_mod_q(element, b) /\ exact' = (exact - b) % Q
    BY <1>4 DEF Subtract
  <2>2. -b \in Int /\ element - b = -b + element /\ exact - b = -b + exact
    BY <1>1, QAssumption, SMT DEF CheckedQ
  <2>3. (-b + (element % Q)) % Q = (-b + element) % Q BY QPositive, <1>1, <2>2, ModOfSum
  <2>4. element' = (-b + element) % Q BY <1>1, <2>1, <2>2, SubExact
  <2>5. exact' = (-b + element) % Q BY <1>1, <2>1, <2>2, <2>3
  <2>6. -b + element \in Int BY <1>1, <2>2, SMT
  <2>7. QED BY <1>2, <2>4, <2>5, <2>6
<1>5. CASE SubtractFrom
  <2>1. PICK a \in CheckedQ : element' = sub_mod_q(a, element) /\ exact' = (a - exact) % Q
    BY <1>5 DEF SubtractFrom
  <2>2. a \in Int BY QAssumption, SMT DEF CheckedQ
  <2>3. (a - (element % Q)) % Q = (a - element) % Q BY QPositive, <1>1, <2>2, ModOfSum
  <2>4. element' = (a - element) % Q BY <1>1, <2>1, SubExact
  <2>5. exact' = (a - element) % Q BY <1>1, <2>1, <2>3
  <2>6. a - element \in Int BY <1>1, <2>2, SMT
  <2>7. QED BY <1>2, <2>4, <2>5, <2>6
<1>6. CASE AddProduct
  <2>1. PICK a \in CheckedQ, c \in CheckedQ :
          element' = a_plus_bc_mod_q(a, element, c) /\ exact' = (a + exact * c) % Q
    BY <1>6 DEF AddProduct
  <2>2. a \in Int /\ c \in Int BY QAssumption, SMT DEF CheckedQ
  <2>3. element * c \in Int /\ exact * c \in Int BY <1>1, <2>2, SMT
  <2>4. element' = (a + element * c) % Q
    BY QPositive, <2>1, <2>2, <2>3, ModOfSum DEF a_plus_bc_mod_q
  <2>5. (exact * c) % Q = (element * c) % Q BY QPositive, <1>1, <2>2, ModOfProduct
  <2>6. (a + exact * c) % Q = (a + element * c) % Q
    <3>1. (a + exact * c) % Q = (a + ((exact * c) % Q)) % Q BY QPositive, <2>2, <2>3, ModOfSum
    <3>2. (a + element * c) % Q = (a + ((element * c) % Q)) % Q BY QPositive, <2>2, <2>3, ModOfSum
    <3>3. QED BY <2>5, <3>1, <3>2
  <2>7. exact' = (a + element * c) % Q BY <2>1, <2>6
  <2>8. a + element * c \in Int BY <2>2, <2>3, SMT
  <2>9. QED BY <1>2, <2>4, <2>7, <2>8
<1>7. CASE Negate
  <2>1. element' = Q - element /\ element' \in CheckedQ
    BY <1>1, <1>7, NegateExact DEF Negate
  <2>2. (0 - (element % Q)) % Q = (0 - element) % Q BY QPositive, <1>1, ModOfSum, 0 \in Int
  <2>3. exact' = (0 - element) % Q
    <3>1. -exact = 0 - exact BY <1>1, SMT
    <3>2. QED BY <1>1, <1>7, <2>2, <3>1 DEF Negate
  <2>4. ((0 - element) + Q) % Q = (0 - element) % Q
    <3>1. 0 - element \in Int BY <1>1, SMT
    <3>2. QED BY <3>1, ModAddQ, Zenon
  <2>5. (0 - element) + Q = Q - element BY <1>1, QAssumption, SMT
  <2>6. element' % Q = exact' BY <2>1, <2>3, <2>4, <2>5
  <2>7. exact' \in 0..(Q - 1)
    <3>1. 0 - element \in Int BY <1>1, SMT
    <3>2. QED BY <2>3, <3>1, ModQ, Zenon
  <2>8. QED BY <2>1, <2>6, <2>7 DEF TypeOK, ResidueExact
<1>8. CASE rand_q
  <2>1. PICK x \in Masked : element' = add_mod_q(x, 0) /\ exact' = x % Q BY <1>8 DEF rand_q
  <2>2. x \in CheckedQ /\ 0 \in CheckedQ BY QAssumption, SMT DEF Masked, CheckedQ
  <2>3. x \in Int /\ x + 0 = x BY <2>2, QAssumption, SMT DEF CheckedQ
  <2>4. element' = x % Q BY <2>1, <2>2, <2>3, AddExact
  <2>5. QED BY <1>2, <2>1, <2>3, <2>4
<1>9. CASE UNCHANGED varsQ BY <1>9 DEF TypeOK, ResidueExact, varsQ
<1>10. QED BY <1>3, <1>4, <1>5, <1>6, <1>7, <1>8, <1>9 DEF NextQ

\* Elements built by checked construction and the operations mod Q stay in
\* range, in any chain.
THEOREM ElementsInRange == SpecQ => []TypeOK
<1>1. TypeOK /\ ResidueExact => TypeOK OBVIOUS
<1>2. QED BY <1>1, ArithmeticInit, ArithmeticStep, PTL DEF SpecQ

\* And every result is the residue that exact arithmetic gives.
THEOREM ArithmeticExact == SpecQ => []ResidueExact
<1>1. TypeOK /\ ResidueExact => ResidueExact OBVIOUS
<1>2. QED BY <1>1, ArithmeticInit, ArithmeticStep, PTL DEF SpecQ

\* Q appears in place of zero only as the negation of zero.
LEMMA UnreducedStep == TypeOK /\ [NextQ]_varsQ => (element' = Q => element = 0) \/ UNCHANGED varsQ
<1> SUFFICES ASSUME TypeOK, NextQ, element' = Q PROVE element = 0
  BY DEF varsQ
<1>1. element \in CheckedQ /\ element \in Int
  BY QAssumption, SMT DEF TypeOK, CheckedQ
<1>2. ASSUME NEW r \in Int PROVE r % Q # Q
  <2>1. r % Q \in 0..(Q - 1) BY ModQ
  <2>2. QED BY <2>1, QAssumption, SMT
<1>3. \A a, b \in CheckedQ : a \in Int /\ b \in Int /\ a + b \in Int /\ a - b \in Int
  BY QAssumption, SMT DEF CheckedQ
<1>4. ~Add BY <1>1, <1>2, <1>3, AddExact DEF Add
<1>5. ~Subtract /\ ~SubtractFrom BY <1>1, <1>2, <1>3, SubExact DEF Subtract, SubtractFrom
<1>6. ~AddProduct
  <2> SUFFICES ASSUME NEW a \in CheckedQ, NEW c \in CheckedQ,
                      element' = a_plus_bc_mod_q(a, element, c)
               PROVE  FALSE
    BY DEF AddProduct
  <2>1. element * c \in Int BY <1>1, <1>3, SMT
  <2>2. a + ((element * c) % Q) \in Int
    <3>1. (element * c) % Q \in 0..(Q - 1) BY <2>1, ModQ, Zenon
    <3>2. QED BY <1>3, <3>1, QAssumption, SMT
  <2>3. QED BY <1>2, <2>2 DEF a_plus_bc_mod_q
<1>7. ~rand_q
  <2>1. \A x \in Masked : x \in CheckedQ /\ 0 \in CheckedQ
    BY QAssumption, SMT DEF Masked, CheckedQ
  <2>2. QED BY <1>2, <1>3, <2>1, AddExact DEF rand_q
<1>8. Negate => element = 0
  BY <1>1, NegateExact, QAssumption, SMT DEF Negate
<1>9. QED BY <1>4, <1>5, <1>6, <1>7, <1>8 DEF NextQ

\* As an action property of the chains.
THEOREM NegationOfZero == SpecQ => OnlyNegatedZeroUnreduced
<1>1. TypeOK /\ [NextQ]_varsQ => [element' = Q => element = 0]_varsQ BY UnreducedStep
<1>2. TypeOK /\ ResidueExact => TypeOK OBVIOUS
<1>3. QED BY <1>1, <1>2, ArithmeticInit, ArithmeticStep, PTL DEF SpecQ, OnlyNegatedZeroUnreduced
=============================================================================
