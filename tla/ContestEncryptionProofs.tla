---------------------- MODULE ContestEncryptionProofs ----------------------
(* Proofs about ContestEncryption, for every list of candidates, every list *)
(* of marks and every width of the counters.                                *)
EXTENDS ContestEncryption, FiniteSetTheorems, ArithmeticLemmas

-----------------------------------------------------------------------------
(* The inductive invariant.                                                 *)

\* The contest that encryptContest is given.
Given == IF entry = "encryptContest" THEN marks
         ELSE IF sameContest THEN emplaceMissingValues(marks) ELSE contestFrom

Phases == {"called", "validate", "extended", "real", "placeholder", "verify",
           "done", "refused"}
Counting == {"real", "placeholder", "verify", "done"}

TypeOK ==
    /\ description \in Descriptions
    /\ entry \in {"encryptBallot", "encryptContest"}
    /\ sameContest \in BOOLEAN
    /\ marks \in Seq(Mark)
    /\ encrypted \in Seq({0, 1})
    /\ selectionCount \in Nat
    /\ phase \in Phases

\* What each phase has computed stays as it was computed.
Computed ==
    /\ phase # "called" => contest = Given
    /\ phase \in Counting \cup {"extended"} =>
          /\ validity = Contest_isValid(contest, description)
          /\ validity \in {"SUCCESS", "OVERVOTE"}
    /\ phase \in Counting =>
          /\ extendedData = getOvervoteAndWriteIns(contest, validity)
          /\ normalized = emplaceMissingValues(contest)
    /\ phase \in {"called", "validate", "extended"} =>
          /\ encrypted = << >>
          /\ selectionCount = 0

\* The real selections come first, then the placeholders.
RealVotes ==
    phase \in Counting =>
       /\ \A i \in 1..Len(Candidates) :
             i <= Len(encrypted) => encrypted[i] = CountedVote(normalized[i])
       /\ phase = "real" => Len(encrypted) <= Len(Candidates)
       /\ phase # "real" =>
             /\ Len(Candidates) <= Len(encrypted)
             /\ Len(encrypted) <= Len(Candidates) + PlaceholderCount
       /\ phase \in {"verify", "done"} =>
             Len(encrypted) = Len(Candidates) + PlaceholderCount

\* No overvote: the counter is the number of selected votes and stays within the
\* seats; a placeholder not selected means that all the seats are filled.
SeatsCounted ==
    (phase \in Counting /\ validity # "OVERVOTE") =>
       /\ selectionCount = Total(encrypted)
       /\ selectionCount <= description.numberElected
       /\ phase # "real" => Len(encrypted) - Len(Candidates) <= selectionCount

\* An overvote: no real selection counts and every placeholder does.
OvervoteCounted ==
    (phase \in Counting /\ validity = "OVERVOTE") =>
       Total(encrypted) = IF phase = "real" THEN 0
                                            ELSE Len(encrypted) - Len(Candidates)

ContestInv == TypeOK /\ Computed /\ RealVotes /\ SeatsCounted /\ OvervoteCounted
              /\ HonestBallotAccepted

-----------------------------------------------------------------------------
(* Sums.                                                                    *)

\* Total is a running sum.
LEMMA TotalRecursion ==
    ASSUME NEW s \in Seq(Nat)
    PROVE  \E f \in [0..Len(s) -> Nat] :
              /\ f[0] = 0
              /\ \A i \in 1..Len(s) : f[i] = f[i - 1] + s[i]
              /\ Total(s) = f[Len(s)]
<1> DEFINE n == Len(s)
           at(i) == IF i \in 1..n THEN s[i] ELSE 0
           next == [p \in Nat \X Nat |-> p[2] + at(p[1] + 1)]
           upTo[i \in 0..n] == IF i = 0 THEN 0 ELSE upTo[i - 1] + s[i]
<1>1. n \in Nat /\ \A i \in 1..n : s[i] \in Nat OBVIOUS
<1>2. next \in [Nat \X Nat -> Nat]
  <2>1. \A i \in Nat : at(i + 1) \in Nat BY <1>1
  <2> HIDE DEF at
  <2>2. QED BY <2>1
<1> HIDE DEF next
<1>3. PICK f \in [0..n -> Nat] : IsRecursive(f, n, 0, next)
  BY <1>1, <1>2, RecursionExists
<1>4. \A i \in 1..n : f[i] = f[i - 1] + s[i]
  <2> SUFFICES ASSUME NEW i \in 1..n PROVE f[i] = f[i - 1] + s[i] OBVIOUS
  <2>1. i - 1 \in 0..(n - 1) /\ i - 1 \in Nat /\ i - 1 + 1 = i /\ i - 1 \in 0..n BY <1>1
  <2>2. f[i] = next[<<i - 1, f[i - 1]>>] BY <1>3, <2>1 DEF IsRecursive
  <2>3. f[i - 1] \in Nat BY <2>1
  <2>4. QED BY <2>1, <2>2, <2>3 DEF next
<1>5. f[0] = 0 BY <1>3 DEF IsRecursive
<1>6. f = [i \in 0..n |-> IF i = 0 THEN 0 ELSE f[i - 1] + s[i]]
  <2>1. \A i \in 0..n : i # 0 => i \in 1..n BY <1>1
  <2>2. QED BY <1>4, <1>5, <2>1
<1>7. upTo = [i \in 0..n |-> IF i = 0 THEN 0 ELSE upTo[i - 1] + s[i]] BY <1>6
<1>8. Total(s) = upTo[n] BY DEF Total
<1> HIDE DEF upTo, n
<1>9. upTo[0] = 0 /\ \A i \in 1..n : upTo[i] = upTo[i - 1] + s[i]
  <2>1. 0 \in 0..n /\ \A i \in 1..n : i \in 0..n /\ i # 0 BY <1>1
  <2>2. QED BY <1>7, <2>1
<1>10. 0..n \subseteq {i \in Nat : upTo[i] = f[i]}
  <2> DEFINE A == {i \in Nat : upTo[i] = f[i]}
  <2>1. 0 \in A BY <1>5, <1>9
  <2>2. ASSUME NEW i \in Nat, i < n, i \in A PROVE i + 1 \in A
    <3>1. i + 1 \in 1..n /\ i + 1 - 1 = i BY <1>1, <2>2
    <3>2. QED BY <1>4, <1>9, <2>2, <3>1
  <2> HIDE DEF A
  <2>3. 0..n \subseteq A BY <1>1, <2>1, <2>2, BoundedInduction
  <2>4. QED BY <2>3 DEF A
<1>11. n \in 0..n BY <1>1
<1>12. QED BY <1>4, <1>5, <1>8, <1>10, <1>11 DEF n

\* Whatever runs as the sum does is the sum.
LEMMA TotalUnique ==
    ASSUME NEW s \in Seq(Nat), NEW g, g[0] = 0,
           \A i \in 1..Len(s) : g[i] = g[i - 1] + s[i]
    PROVE  Total(s) = g[Len(s)]
<1>1. PICK f \in [0..Len(s) -> Nat] :
              /\ f[0] = 0
              /\ \A i \in 1..Len(s) : f[i] = f[i - 1] + s[i]
              /\ Total(s) = f[Len(s)] BY TotalRecursion
<1> DEFINE n == Len(s)
           A == {i \in Nat : g[i] = f[i]}
<1>2. n \in Nat /\ n \in 0..n OBVIOUS
<1>3. 0 \in A BY <1>1
<1>4. ASSUME NEW i \in Nat, i < n, i \in A PROVE i + 1 \in A
  <2>1. i + 1 \in 1..n /\ i + 1 - 1 = i BY <1>2, <1>4
  <2>2. QED BY <1>1, <1>4, <2>1
<1> HIDE DEF A
<1>5. 0..n \subseteq A BY <1>2, <1>3, <1>4, BoundedInduction
<1>6. QED BY <1>1, <1>2, <1>5 DEF A

LEMMA TotalEmpty == Total(<< >>) = 0
<1> DEFINE s == << >>
           g == [i \in {0} |-> 0]
<1>1. s \in Seq(Nat) /\ Len(s) = 0 /\ g[0] = 0 OBVIOUS
<1> HIDE DEF s, g
<1>2. \A i \in 1..Len(s) : g[i] = g[i - 1] + s[i] BY <1>1
<1>3. Total(s) = g[Len(s)] BY <1>1, <1>2, TotalUnique
<1>4. QED BY <1>1, <1>3 DEF s

LEMMA TotalAppend ==
    ASSUME NEW s \in Seq(Nat), NEW v \in Nat
    PROVE  Total(s) \in Nat /\ Total(Append(s, v)) = Total(s) + v
<1> DEFINE n == Len(s)
           t == Append(s, v)
<1>1. PICK f \in [0..n -> Nat] :
              /\ f[0] = 0
              /\ \A i \in 1..n : f[i] = f[i - 1] + s[i]
              /\ Total(s) = f[n] BY TotalRecursion
<1>2. n \in Nat /\ n \in 0..n OBVIOUS
<1>3. t \in Seq(Nat) /\ Len(t) = n + 1 /\ t[n + 1] = v /\ \A i \in 1..n : t[i] = s[i]
  OBVIOUS
<1> HIDE DEF n, t
<1> DEFINE g == [i \in 0..(n + 1) |-> IF i = n + 1 THEN f[n] + v ELSE f[i]]
<1>4. g[0] = 0 BY <1>1, <1>2
<1>5. \A i \in 1..(n + 1) : g[i] = g[i - 1] + t[i]
  <2> SUFFICES ASSUME NEW i \in 1..(n + 1) PROVE g[i] = g[i - 1] + t[i] OBVIOUS
  <2>1. i \in 0..(n + 1) /\ i - 1 \in 0..(n + 1) /\ i - 1 # n + 1 BY <1>2
  <2>2. g[i - 1] = f[i - 1] BY <2>1
  <2>3. CASE i = n + 1
    <3>1. g[i] = f[n] + v /\ i - 1 = n BY <1>2, <2>1, <2>3
    <3>2. QED BY <1>3, <2>2, <2>3, <3>1
  <2>4. CASE i # n + 1
    <3>1. i \in 1..n BY <1>2, <2>4
    <3>2. g[i] = f[i] BY <2>1, <2>4
    <3>3. QED BY <1>1, <1>3, <2>2, <3>1, <3>2
  <2>5. QED BY <2>3, <2>4
<1>6. g[n + 1] = f[n] + v BY <1>2
<1> HIDE DEF g
<1>7. Total(t) = g[Len(t)] BY <1>3, <1>4, <1>5, TotalUnique
<1>8. f[n] \in Nat BY <1>1, <1>2
<1>9. QED BY <1>1, <1>3, <1>6, <1>7, <1>8 DEF t

\* A sum of zeros and ones counts the ones.
LEMMA TotalOfBits ==
    ASSUME NEW s \in Seq({0, 1})
    PROVE  Total(s) = Cardinality({i \in 1..Len(s) : s[i] = 1})
<1> DEFINE n == Len(s)
           ones(k) == {i \in 1..k : s[i] = 1}
           g == [k \in 0..n |-> Cardinality(ones(k))]
<1>1. n \in Nat /\ s \in Seq(Nat) OBVIOUS
<1>2. \A k \in Nat : IsFiniteSet(ones(k)) /\ Cardinality(ones(k)) \in Nat
  <2> SUFFICES ASSUME NEW k \in Nat
               PROVE  IsFiniteSet(ones(k)) /\ Cardinality(ones(k)) \in Nat OBVIOUS
  <2>1. IsFiniteSet(1..k) BY FS_Interval
  <2>2. ones(k) \in SUBSET (1..k) OBVIOUS
  <2> HIDE DEF ones
  <2>3. IsFiniteSet(ones(k)) BY <2>1, <2>2, FS_Subset
  <2>4. QED BY <2>3, FS_CardinalityType
<1>3. g[0] = 0
  <2>1. ones(0) = {} OBVIOUS
  <2> HIDE DEF ones
  <2>2. 0 \in 0..n BY <1>1
  <2>3. QED BY <2>1, <2>2, FS_EmptySet
<1>4. \A k \in 1..n : g[k] = g[k - 1] + s[k]
  <2> SUFFICES ASSUME NEW k \in 1..n PROVE g[k] = g[k - 1] + s[k] OBVIOUS
  <2>1. k \in 0..n /\ k - 1 \in 0..n /\ k - 1 \in Nat /\ k \in Nat BY <1>1
  <2>2. IsFiniteSet(ones(k - 1)) /\ Cardinality(ones(k - 1)) \in Nat BY <1>2, <2>1
  <2>3. CASE s[k] = 1
    <3>1. ones(k) = ones(k - 1) \cup {k}
      <4>1. \A i : i \in 1..k <=> i \in 1..(k - 1) \/ i = k BY <2>1
      <4>2. QED BY <2>3, <4>1
    <3>2. k \notin ones(k - 1) BY <2>1
    <3> HIDE DEF ones
    <3>3. Cardinality(ones(k)) = Cardinality(ones(k - 1)) + 1
      BY <2>2, <3>1, <3>2, FS_AddElement
    <3>4. QED BY <2>1, <2>3, <3>3
  <2>4. CASE s[k] # 1
    <3>1. s[k] = 0 BY <1>1, <2>4
    <3>2. ones(k) = ones(k - 1)
      <4>1. \A i : i \in 1..k <=> i \in 1..(k - 1) \/ i = k BY <2>1
      <4>2. QED BY <2>4, <4>1
    <3> HIDE DEF ones
    <3>3. QED BY <2>1, <2>2, <3>1, <3>2
  <2>5. QED BY <2>3, <2>4
<1>5. g[n] = Cardinality(ones(n)) BY <1>1
<1> HIDE DEF g
<1>6. Total(s) = g[Len(s)] BY <1>1, <1>3, <1>4, TotalUnique
<1>7. QED BY <1>5, <1>6

\* The counter that wraps never shows more than the sum.
LEMMA VotesAtMostTotal ==
    ASSUME NEW ms \in Seq(Mark)
    PROVE  votes(ms) \in Nat /\ votes(ms) <= Total([i \in 1..Len(ms) |-> ms[i].vote])
<1> DEFINE n == Len(ms)
           s == [i \in 1..n |-> ms[i].vote]
           at(i) == IF i \in 1..n THEN ms[i].vote ELSE 0
           next == [p \in Nat \X Nat |-> (p[2] + at(p[1] + 1)) % VoteLimit]
           upTo[i \in 0..n] == IF i = 0 THEN 0 ELSE AddVotes(upTo[i - 1], ms[i])
<1>1. n \in Nat /\ VoteLimit \in Nat \ {0}
  <2>1. Len(Candidates) \in Nat /\ Len(Candidates) < VoteLimit /\ VoteLimit \in Nat
    BY ContestAssumption
  <2>2. QED BY <2>1
<1>2. \A i \in 1..n : ms[i].vote \in Nat
  <2>1. \A i \in 1..n : ms[i] \in Mark OBVIOUS
  <2>2. \A m \in Mark : m.vote \in Nat BY <1>1 DEF Mark, Vote
  <2>3. QED BY <2>1, <2>2
<1>3. s \in Seq(Nat) /\ Len(s) = n /\ \A i \in 1..n : s[i] = ms[i].vote BY <1>1, <1>2
<1>4. next \in [Nat \X Nat -> Nat]
  <2>1. \A i \in Nat : at(i + 1) \in Nat BY <1>2
  <2> HIDE DEF at
  <2>2. \A x \in Nat : x % VoteLimit \in Nat BY <1>1
  <2>3. \A p \in Nat \X Nat : p[2] + at(p[1] + 1) \in Nat BY <2>1
  <2>4. QED BY <2>2, <2>3
<1> HIDE DEF next, s
<1>5. PICK f \in [0..n -> Nat] : IsRecursive(f, n, 0, next)
  BY <1>1, <1>4, RecursionExists
<1>6. \A i \in 1..n : f[i] = AddVotes(f[i - 1], ms[i])
  <2> SUFFICES ASSUME NEW i \in 1..n PROVE f[i] = AddVotes(f[i - 1], ms[i]) OBVIOUS
  <2>1. i - 1 \in 0..(n - 1) /\ i - 1 \in Nat /\ i - 1 + 1 = i /\ i - 1 \in 0..n BY <1>1
  <2>2. f[i] = next[<<i - 1, f[i - 1]>>] BY <1>5, <2>1 DEF IsRecursive
  <2>3. f[i - 1] \in Nat BY <2>1
  <2>4. QED BY <2>1, <2>2, <2>3 DEF next, AddVotes
<1>7. f[0] = 0 BY <1>5 DEF IsRecursive
<1>8. f = [i \in 0..n |-> IF i = 0 THEN 0 ELSE AddVotes(f[i - 1], ms[i])]
  <2>1. \A i \in 0..n : i # 0 => i \in 1..n BY <1>1
  <2>2. QED BY <1>6, <1>7, <2>1
<1>9. upTo = [i \in 0..n |-> IF i = 0 THEN 0 ELSE AddVotes(upTo[i - 1], ms[i])] BY <1>8
<1>10. votes(ms) = upTo[n] BY DEF votes
<1>11. PICK g \in [0..n -> Nat] :
              /\ g[0] = 0
              /\ \A i \in 1..n : g[i] = g[i - 1] + s[i]
              /\ Total(s) = g[n] BY <1>3, TotalRecursion
<1> HIDE DEF upTo, n
<1>12. upTo[0] = 0 /\ \A i \in 1..n : upTo[i] = AddVotes(upTo[i - 1], ms[i])
  <2>1. 0 \in 0..n /\ \A i \in 1..n : i \in 0..n /\ i # 0 BY <1>1
  <2>2. QED BY <1>9, <2>1
<1> DEFINE A == {i \in Nat : upTo[i] \in Nat /\ upTo[i] <= g[i]}
<1>13. 0 \in A BY <1>11, <1>12
<1>14. ASSUME NEW i \in Nat, i < n, i \in A PROVE i + 1 \in A
  <2>1. i + 1 \in 1..n /\ i + 1 - 1 = i /\ i \in 0..n BY <1>1, <1>14
  <2>2. upTo[i + 1] = AddVotes(upTo[i], ms[i + 1]) /\ g[i + 1] = g[i] + ms[i + 1].vote
    BY <1>3, <1>11, <1>12, <2>1
  <2>3. upTo[i] \in Nat /\ upTo[i] <= g[i] /\ g[i] \in Nat /\ ms[i + 1].vote \in Nat
    BY <1>2, <1>11, <1>14, <2>1
  <2>4. \A x \in Nat : x % VoteLimit \in Nat /\ x % VoteLimit <= x
    <3> SUFFICES ASSUME NEW x \in Nat
                 PROVE  x % VoteLimit \in Nat /\ x % VoteLimit <= x OBVIOUS
    <3>1. x \in Int /\ x >= 0 OBVIOUS
    <3>2. PICK d \in Nat, y \in 0..(VoteLimit - 1) :
             y = x % VoteLimit /\ x = VoteLimit * d + y
      BY <1>1, <3>1, DivMod, Zenon
    <3>3. VoteLimit * d \in Nat BY <1>1
    <3>4. QED BY <3>2, <3>3
  <2> DEFINE x == upTo[i] + ms[i + 1].vote
  <2>5. x \in Nat /\ x <= g[i + 1] BY <2>2, <2>3
  <2>6. upTo[i + 1] = x % VoteLimit BY <2>2 DEF AddVotes
  <2>7. g[i + 1] \in Nat BY <2>2, <2>3
  <2> HIDE DEF x
  <2>8. upTo[i + 1] \in Nat /\ upTo[i + 1] <= g[i + 1] BY <2>4, <2>5, <2>6, <2>7
  <2>9. QED BY <2>8
<1> HIDE DEF A
<1>15. 0..n \subseteq A BY <1>1, <1>13, <1>14, BoundedInduction
<1>16. n \in A BY <1>1, <1>15
<1>17. QED BY <1>10, <1>11, <1>16 DEF A, s, n

-----------------------------------------------------------------------------
(* Marks and normalisation.                                                 *)

LEMMA ConstantFacts ==
    /\ Candidates \in Seq(Ids)
    /\ Len(Candidates) \in Nat /\ Len(Candidates) < VoteLimit /\ VoteLimit \in Nat \ {0}
    /\ \A i \in 1..Len(Candidates) : Candidates[i] \in Ids
    /\ \A id \in Ids : \E i \in 1..Len(Candidates) : Candidates[i] = id
    /\ \A i, j \in 1..Len(Candidates) : Candidates[i] = Candidates[j] => i = j
<1>1. Candidates \in Seq(Ids) /\ Len(Candidates) < VoteLimit /\ VoteLimit \in Nat
      /\ IsInjective(Candidates)
  BY ContestAssumption
<1>2. Len(Candidates) \in Nat /\ DOMAIN Candidates = 1..Len(Candidates) BY <1>1
<1>3. \A id \in Ids : \E i \in 1..Len(Candidates) : Candidates[i] = id
  BY <1>2 DEF Ids, ToSet
<1>4. \A i, j \in 1..Len(Candidates) : Candidates[i] = Candidates[j] => i = j
  BY <1>1, <1>2 DEF IsInjective
<1>5. QED BY <1>1, <1>2, <1>3, <1>4

\* The first mark for an id, or 0 when there is none.
LEMMA FirstMarkIs ==
    ASSUME NEW ms, Len(ms) \in Nat, NEW id
    PROVE  \/ FirstMark(ms, id) = 0 /\ MarksFor(ms, id) = {}
           \/ /\ FirstMark(ms, id) \in 1..Len(ms)
              /\ ms[FirstMark(ms, id)].id = id
              /\ \A i \in MarksFor(ms, id) : FirstMark(ms, id) <= i
<1>1. CASE MarksFor(ms, id) = {} BY <1>1 DEF FirstMark
<1>2. CASE MarksFor(ms, id) # {}
  <2>1. MarksFor(ms, id) \in SUBSET Nat BY DEF MarksFor
  <2>2. PICK x \in MarksFor(ms, id) : \A y \in MarksFor(ms, id) : x <= y
    BY <1>2, <2>1, Least
  <2>3. /\ Min(MarksFor(ms, id)) \in MarksFor(ms, id)
        /\ \A y \in MarksFor(ms, id) : Min(MarksFor(ms, id)) <= y
    BY <2>2 DEF Min
  <2>4. FirstMark(ms, id) = Min(MarksFor(ms, id)) BY <1>2 DEF FirstMark
  <2>5. QED BY <2>3, <2>4 DEF MarksFor
<1>3. QED BY <1>1, <1>2

\* One selection for each candidate, in their order.
LEMMA NormalizedIs ==
    ASSUME NEW ms \in Seq(Mark)
    PROVE  /\ emplaceMissingValues(ms) \in Seq(Mark)
           /\ Len(emplaceMissingValues(ms)) = Len(Candidates)
           /\ \A i \in 1..Len(Candidates) :
                 emplaceMissingValues(ms)[i].id = Candidates[i]
<1> DEFINE n == Len(Candidates)
           pick(i) == LET k == FirstMark(ms, Candidates[i])
                      IN  IF k = 0 THEN selectionFrom(Candidates[i]) ELSE ms[k]
<1>1. n \in Nat BY ConstantFacts
<1>2. ASSUME NEW i \in 1..n PROVE pick(i) \in Mark /\ pick(i).id = Candidates[i]
  <2> DEFINE k == FirstMark(ms, Candidates[i])
  <2>1. CASE k = 0
    <3>1. selectionFrom(Candidates[i]) \in Mark
      BY ConstantFacts DEF selectionFrom, Mark, Vote
    <3>2. QED BY <2>1, <3>1 DEF selectionFrom
  <2>2. CASE k # 0
    <3>1. k \in 1..Len(ms) /\ ms[k].id = Candidates[i] BY <2>2, FirstMarkIs
    <3>2. ms[k] \in Mark BY <3>1
    <3>3. QED BY <2>2, <3>1, <3>2
  <2>3. QED BY <2>1, <2>2
<1>3. emplaceMissingValues(ms) = [i \in 1..n |-> pick(i)] BY DEF emplaceMissingValues
<1> HIDE DEF pick, n
<1>4. [i \in 1..n |-> pick(i)] \in Seq(Mark) /\ Len([i \in 1..n |-> pick(i)]) = n
  BY <1>1, <1>2
<1>5. QED BY <1>2, <1>3, <1>4 DEF n

\* Normalising again changes nothing: encryptBallot does it twice.
LEMMA NormalizedTwice ==
    ASSUME NEW ms \in Seq(Mark)
    PROVE  emplaceMissingValues(emplaceMissingValues(ms)) = emplaceMissingValues(ms)
<1> DEFINE n == Len(Candidates)
           once == emplaceMissingValues(ms)
<1>1. n \in Nat BY ConstantFacts
<1>2. once \in Seq(Mark) /\ Len(once) = n /\ \A i \in 1..n : once[i].id = Candidates[i]
  BY NormalizedIs
<1> HIDE DEF once
<1>3. \A i \in 1..n : FirstMark(once, Candidates[i]) = i
  <2> SUFFICES ASSUME NEW i \in 1..n PROVE FirstMark(once, Candidates[i]) = i OBVIOUS
  <2>1. i \in MarksFor(once, Candidates[i]) BY <1>2 DEF MarksFor
  <2>2. FirstMark(once, Candidates[i]) \in 1..n
        /\ once[FirstMark(once, Candidates[i])].id = Candidates[i]
    BY <1>1, <1>2, <2>1, FirstMarkIs
  <2>3. QED BY <1>2, <2>2, ConstantFacts
<1>4. emplaceMissingValues(once) = [i \in 1..n |-> once[i]]
  <2>1. \A i \in 1..n : i # 0 BY <1>1
  <2>2. QED BY <1>3, <2>1 DEF emplaceMissingValues
<1>5. once = [i \in 1..n |-> once[i]] BY <1>2
<1>6. QED BY <1>4, <1>5 DEF once

\* Normalising marks no more candidates than there are marks.
LEMMA NormalizedMarks ==
    ASSUME NEW ms \in Seq(Mark)
    PROVE  /\ numberMarked(emplaceMissingValues(ms)) \in Nat
           /\ numberMarked(ms) \in Nat
           /\ numberMarked(emplaceMissingValues(ms)) <= numberMarked(ms)
<1> DEFINE n == Len(Candidates)
           once == emplaceMissingValues(ms)
           S == {i \in 1..Len(once) : once[i].vote >= 1}
           T == {i \in 1..Len(ms) : ms[i].vote >= 1}
           f == [i \in S |-> FirstMark(ms, Candidates[i])]
<1>1. n \in Nat /\ Len(ms) \in Nat BY ConstantFacts
<1>2. Len(once) = n BY NormalizedIs
<1>3. ASSUME NEW i \in S
      PROVE  f[i] \in T /\ ms[f[i]].id = Candidates[i]
  <2>1. i \in 1..n /\ once[i].vote >= 1 BY <1>2
  <2> DEFINE k == FirstMark(ms, Candidates[i])
  <2>2. once[i] = IF k = 0 THEN selectionFrom(Candidates[i]) ELSE ms[k]
    BY <2>1 DEF emplaceMissingValues
  <2>3. k # 0 BY <2>1, <2>2 DEF selectionFrom
  <2>4. k \in 1..Len(ms) /\ ms[k].id = Candidates[i] BY <1>1, <2>3, FirstMarkIs
  <2>5. f[i] = k OBVIOUS
  <2> HIDE DEF k, f
  <2>6. QED BY <2>1, <2>2, <2>3, <2>4, <2>5
<1>4. S \subseteq 1..n /\ DOMAIN f = S BY <1>2
<1> HIDE DEF f, S, T, once
<1>5. \A i, j \in S : f[i] = f[j] => i = j
  <2> SUFFICES ASSUME NEW i \in S, NEW j \in S, f[i] = f[j] PROVE i = j OBVIOUS
  <2>1. i \in 1..n /\ j \in 1..n BY <1>4
  <2>2. Candidates[i] = Candidates[j] BY <1>3
  <2>3. QED BY <2>1, <2>2, ConstantFacts
<1>6. f \in [S -> T]
  <2>1. \A i \in S : f[i] \in T BY <1>3
  <2>2. f = [i \in S |-> f[i]] BY DEF f
  <2>3. QED BY <2>1, <2>2
<1>7. f \in Injection(S, T) BY <1>4, <1>5, <1>6 DEF Injection, IsInjective
<1>8. IsFiniteSet(T) /\ Cardinality(T) \in Nat
  <2>1. IsFiniteSet(1..Len(ms)) BY <1>1, FS_Interval
  <2>2. T \in SUBSET (1..Len(ms)) BY DEF T
  <2>3. IsFiniteSet(T) BY <2>1, <2>2, FS_Subset
  <2>4. QED BY <2>3, FS_CardinalityType
<1>9. IsFiniteSet(S) /\ Cardinality(S) <= Cardinality(T)
  BY <1>7, <1>8, FS_Injection
<1>10. Cardinality(S) \in Nat BY <1>9, FS_CardinalityType
<1>11. QED BY <1>8, <1>9, <1>10 DEF numberMarked, S, T, once

\* The ones among encrypted votes are marks.
LEMMA BitsWithinMarks ==
    ASSUME NEW ms \in Seq(Mark), NEW bits \in Seq({0, 1}), Len(bits) <= Len(ms),
           \A i \in 1..Len(bits) : bits[i] = ms[i].vote
    PROVE  /\ Total(bits) \in Nat /\ Total(bits) <= numberMarked(ms)
           /\ Len(bits) = Len(ms) => Total(bits) = numberMarked(ms)
<1> DEFINE S == {i \in 1..Len(bits) : bits[i] = 1}
           T == {i \in 1..Len(ms) : ms[i].vote >= 1}
<1>1. Len(ms) \in Nat /\ Len(bits) \in Nat OBVIOUS
<1>2. IsFiniteSet(1..Len(ms)) BY <1>1, FS_Interval
<1>3. T \in SUBSET (1..Len(ms)) OBVIOUS
<1>4. S \in SUBSET T BY <1>1
<1>5. Len(bits) = Len(ms) => S = T
  <2>1. \A i \in 1..Len(bits) : bits[i] \in {0, 1} OBVIOUS
  <2>2. QED BY <1>1, <2>1
<1> HIDE DEF S, T
<1>6. IsFiniteSet(T) BY <1>2, <1>3, FS_Subset
<1>7. IsFiniteSet(S) /\ Cardinality(S) <= Cardinality(T) BY <1>4, <1>6, FS_Subset
<1>8. Cardinality(S) \in Nat BY <1>7, FS_CardinalityType
<1>9. Total(bits) = Cardinality(S) BY TotalOfBits DEF S
<1>10. QED BY <1>5, <1>7, <1>8, <1>9 DEF numberMarked, T

-----------------------------------------------------------------------------
(* The invariant holds in every reachable state.                            *)

LEMMA InitInv == Init => ContestInv
<1> SUFFICES ASSUME Init PROVE ContestInv OBVIOUS
<1>1. marks \in Seq(Mark)
  <2>1. PICK k \in 0..MaxMarks : marks \in [1..k -> Mark] 
    BY DEF Init, BoundedSeq, SeqOf
  <2>2. k \in Nat BY ContestAssumption
  <2>3. QED BY <2>1, <2>2
<1>2. TypeOK BY <1>1 DEF Init, TypeOK, Phases
<1>3. Computed BY DEF Init, Computed, Counting
<1>4. RealVotes /\ SeatsCounted /\ OvervoteCounted
  BY DEF Init, RealVotes, SeatsCounted, OvervoteCounted, Counting
<1>5. HonestBallotAccepted BY DEF Init, HonestBallotAccepted
<1>6. QED BY <1>2, <1>3, <1>4, <1>5 DEF ContestInv

\* The contest passed on is a list of marks.
LEMMA GivenType == ASSUME TypeOK PROVE Given \in Seq(Mark)
<1>1. << >> \in Seq(Mark) OBVIOUS
<1>2. contestFrom \in Seq(Mark) BY <1>1, NormalizedIs DEF contestFrom
<1>3. QED BY <1>2, NormalizedIs DEF TypeOK, Given

\* In encryptBallot it is the first mark of the voter for each candidate, and it
\* is its own normal form.
LEMMA GivenIsAsked ==
    ASSUME TypeOK, entry = "encryptBallot"
    PROVE  /\ Len(Given) = Len(Candidates)
           /\ emplaceMissingValues(Given) = Given
           /\ \A i \in 1..Len(Candidates) :
                 Given[i].id = Candidates[i] /\ Given[i].vote = Asked(Candidates[i])
<1> DEFINE ms == IF sameContest THEN marks ELSE << >>
<1>1. ms \in Seq(Mark) /\ sameContest \in BOOLEAN BY DEF TypeOK
<1>2. Given = emplaceMissingValues(ms) BY DEF Given, contestFrom
<1>3. ASSUME NEW i \in 1..Len(Candidates)
      PROVE  Given[i].vote = Asked(Candidates[i])
  <2> DEFINE id == Candidates[i]
             k == FirstMark(ms, id)
             at == {j \in 1..Len(marks) : sameContest /\ marks[j].id = id}
  <2>1. at = MarksFor(ms, id) BY <1>1 DEF MarksFor
  <2>2. Asked(id) = IF at = {} THEN 0 ELSE marks[Min(at)].vote BY DEF Asked
  <2>3. Given[i] = IF k = 0 THEN selectionFrom(id) ELSE ms[k]
    BY <1>2 DEF emplaceMissingValues
  <2>4. CASE at = {}
    <3>1. k = 0 BY <2>1, <2>4 DEF FirstMark
    <3>2. QED BY <2>2, <2>3, <2>4, <3>1 DEF selectionFrom
  <2>5. CASE at # {}
    <3>1. k = Min(at) BY <2>1, <2>5 DEF FirstMark
    <3>2. sameContest /\ ms = marks BY <2>5
    <3>3. Len(ms) \in Nat BY <1>1
    <3> HIDE DEF ms, at, k
    <3>4. k \in 1..Len(ms) BY <2>1, <2>5, <3>3, FirstMarkIs DEF k
    <3>5. k # 0 BY <3>3, <3>4
    <3>6. QED BY <2>2, <2>3, <2>5, <3>1, <3>2, <3>5
  <2>6. QED BY <2>4, <2>5
<1> HIDE DEF ms
<1>4. QED BY <1>1, <1>2, <1>3, NormalizedIs, NormalizedTwice

\* What ContestDescription::isValid has checked.
LEMMA DescriptionFacts ==
    ASSUME description \in Descriptions
    PROVE  /\ description.numberElected \in Nat /\ description.votesAllowed \in Nat
           /\ description.numberElected <= Len(Candidates)
           /\ \/ description.votesAllowed = 0
              \/ description.numberElected <= description.votesAllowed
<1>1. Len(Candidates) \in Nat /\ MaxAllowed \in Nat BY ConstantFacts, ContestAssumption
<1>2. /\ description \in [numberElected : 0..Len(Candidates), votesAllowed : 0..MaxAllowed]
      /\ Description_isValid(description)
  BY DEF Descriptions
<1>3. QED BY <1>1, <1>2 DEF Description_isValid

LEMMA EnterStep == ASSUME ContestInv, Enter PROVE ContestInv'
<1> USE DEF ContestInv, Enter
<1>1. TypeOK' BY DEF TypeOK, Phases
<1>2. contest' = Given BY DEF Given, TypeOK
<1>3. Computed' BY <1>2 DEF Computed, Counting, Given, contestFrom, emplaceMissingValues,
                           MarksFor, FirstMark
<1>4. RealVotes' /\ SeatsCounted' /\ OvervoteCounted'
  BY DEF RealVotes, SeatsCounted, OvervoteCounted, Counting
<1>5. HonestBallotAccepted' BY DEF HonestBallotAccepted, Asked
<1>6. QED BY <1>1, <1>3, <1>4, <1>5

LEMMA ValidateStep == ASSUME ContestInv, Validate PROVE ContestInv'
<1> USE DEF ContestInv, Validate
<1>1. TypeOK' BY DEF TypeOK, Phases
<1>2. contest = Given BY DEF Computed
<1>3. Computed' BY <1>2 DEF Computed, Counting, Given, Contest_isValid, IdMatches
<1>4. RealVotes' /\ SeatsCounted' /\ OvervoteCounted'
  BY DEF RealVotes, SeatsCounted, OvervoteCounted, Counting
<1>5. HonestBallotAccepted'
  <2> SUFFICES ASSUME entry = "encryptBallot" PROVE phase' # "refused"
    BY DEF HonestBallotAccepted
  <2>1. Len(contest) = Len(Candidates) /\ Len(Candidates) \in Nat
    BY <1>2, GivenIsAsked, ConstantFacts
  <2>2. IdMatches BY DEF IdMatches
  <2>3. Contest_isValid(contest, description) \in {"SUCCESS", "OVERVOTE"}
    BY <2>1, <2>2 DEF Contest_isValid
  <2>4. QED BY <2>3
<1>6. QED BY <1>1, <1>3, <1>4, <1>5

LEMMA RecordStep == ASSUME ContestInv, RecordExtendedData PROVE ContestInv'
<1> USE DEF ContestInv, RecordExtendedData
<1>1. TypeOK' BY DEF TypeOK, Phases
<1>2. Computed' BY DEF Computed, Counting, Given, Contest_isValid, IdMatches
<1>3. encrypted = << >> /\ selectionCount = 0 /\ encrypted' = << >> /\ selectionCount' = 0
  BY DEF Computed
<1>4. Total(encrypted') = 0 BY <1>3, TotalEmpty
<1>5. Len(encrypted') = 0 BY <1>3
<1>6. Len(Candidates) \in Nat BY ConstantFacts
<1>7. RealVotes' BY <1>5, <1>6 DEF RealVotes
<1>8. SeatsCounted' BY <1>3, <1>4, DescriptionFacts DEF SeatsCounted, TypeOK
<1>9. OvervoteCounted' BY <1>4 DEF OvervoteCounted
<1>10. HonestBallotAccepted' BY DEF HonestBallotAccepted, Asked
<1>11. QED BY <1>1, <1>2, <1>7, <1>8, <1>9, <1>10

\* A vote that encryptSelection accepts is appended as it is.
LEMMA EncryptFacts ==
    ASSUME NEW vote \in Nat, NEW next, encrypted \in Seq({0, 1}), Encrypt(vote, next)
    PROVE  \/ /\ vote \in {0, 1} /\ phase' = next
              /\ encrypted' = Append(encrypted, vote)
              /\ encrypted' \in Seq({0, 1})
              /\ Len(encrypted') = Len(encrypted) + 1
              /\ encrypted'[Len(encrypted) + 1] = vote
              /\ \A i \in 1..Len(encrypted) : encrypted'[i] = encrypted[i]
              /\ Total(encrypted) \in Nat
              /\ Total(encrypted') = Total(encrypted) + vote
           \/ vote > 1 /\ phase' = "refused" /\ encrypted' = encrypted
<1>1. CASE Selection_isValid(vote)
  <2>1. vote \in {0, 1} BY <1>1 DEF Selection_isValid
  <2>2. encrypted' = Append(encrypted, vote) /\ phase' = next BY <1>1 DEF Encrypt
  <2>3. encrypted \in Seq(Nat) OBVIOUS
  <2>4. Total(encrypted) \in Nat /\ Total(encrypted') = Total(encrypted) + vote
    BY <2>2, <2>3, TotalAppend
  <2>5. QED BY <2>1, <2>2, <2>4
<1>2. CASE ~ Selection_isValid(vote) BY <1>2 DEF Selection_isValid, Encrypt
<1>3. QED BY <1>1, <1>2

LEMMA SelectionStep == ASSUME ContestInv, EncryptSelection PROVE ContestInv'
<1> DEFINE n == Len(Candidates)
           i == Len(encrypted) + 1
           v == CountedVote(normalized[i])
<1> USE DEF ContestInv
<1>1. /\ phase = "real" /\ Len(encrypted) <= n /\ n \in Nat /\ Len(encrypted) \in Nat
      /\ \A k \in 1..n : k <= Len(encrypted) => encrypted[k] = CountedVote(normalized[k])
      /\ contest = Given /\ normalized = emplaceMissingValues(contest)
      /\ validity = Contest_isValid(contest, description)
      /\ validity \in {"SUCCESS", "OVERVOTE"}
  <2>1. phase = "real" BY DEF EncryptSelection
  <2>2. n \in Nat /\ Len(encrypted) \in Nat BY ConstantFacts DEF TypeOK
  <2>3. RealVotes /\ Computed OBVIOUS
  <2> HIDE DEF ContestInv
  <2>4. /\ Len(encrypted) <= n
        /\ \A k \in 1..n : k <= Len(encrypted) => encrypted[k] = CountedVote(normalized[k])
    BY <2>1, <2>3 DEF RealVotes, Counting
  <2>5. QED BY <2>1, <2>2, <2>3, <2>4 DEF Computed, Counting
<1>2. UNCHANGED << description, entry, sameContest, marks, contest, validity,
                   extendedData, normalized >>
  BY DEF EncryptSelection
<1>3. contest \in Seq(Mark) /\ normalized \in Seq(Mark) /\ Len(normalized) = n
  BY <1>1, GivenType, NormalizedIs
<1>4. CASE i > Len(normalized)
  <2>1. phase' = "placeholder" /\ UNCHANGED << selectionCount, encrypted >>
    BY <1>4 DEF EncryptSelection
  <2>2. Len(encrypted) = n BY <1>1, <1>3, <1>4
  <2>3. TypeOK' BY <1>2, <2>1 DEF TypeOK, Phases
  <2>4. Computed'
    BY <1>1, <1>2, <2>1 DEF Computed, Counting, Given, Contest_isValid, IdMatches
  <2>5. RealVotes'
    BY <1>1, <1>2, <2>1, <2>2, DescriptionFacts
    DEF RealVotes, PlaceholderCount, CountedVote, TypeOK
  <2>6. SeatsCounted'
    BY <1>1, <1>2, <2>1, <2>2 DEF SeatsCounted, Counting, TypeOK
  <2>7. OvervoteCounted'
    BY <1>1, <1>2, <2>1, <2>2 DEF OvervoteCounted, Counting
  <2>8. HonestBallotAccepted' BY <1>2, <2>1 DEF HonestBallotAccepted, Asked
  <2>9. QED BY <2>3, <2>4, <2>5, <2>6, <2>7, <2>8
<1>5. CASE i <= Len(normalized)
  <2>1. i \in 1..n /\ normalized[i] \in Mark BY <1>1, <1>3, <1>5
  <2>2. v \in Nat /\ (validity = "OVERVOTE" => v = 0)
        /\ (validity # "OVERVOTE" => v = normalized[i].vote)
    <3>1. normalized[i].vote \in Nat BY <2>1, ConstantFacts DEF Mark, Vote
    <3>2. QED BY <3>1 DEF CountedVote
  <2>3. Encrypt(v, "real") /\ selectionCount' = (selectionCount + v) % VoteLimit
    BY <1>1, <1>3, <1>5 DEF EncryptSelection
  <2>4. selectionCount' \in Nat
    <3>1. selectionCount + v \in Nat BY <2>2 DEF TypeOK
    <3>2. QED BY <2>3, <3>1, ConstantFacts
  <2> HIDE DEF v
  <2>5. CASE phase' = "refused" /\ encrypted' = encrypted /\ v > 1
    <3>1. TypeOK' BY <1>2, <2>4, <2>5 DEF TypeOK, Phases
    <3>2. Computed' BY <1>1, <1>2, <2>5 DEF Computed, Counting, Given
    <3>3. RealVotes' /\ SeatsCounted' /\ OvervoteCounted'
      BY <2>5 DEF RealVotes, SeatsCounted, OvervoteCounted, Counting
    <3>4. HonestBallotAccepted'
      <4> SUFFICES ASSUME entry = "encryptBallot", \A id \in Ids : Asked(id) <= 1
                   PROVE  FALSE
        BY <1>2 DEF HonestBallotAccepted, Asked
      <4>1. normalized = Given BY <1>1, GivenIsAsked
      <4>2. normalized[i].vote = Asked(Candidates[i]) BY <2>1, <4>1, GivenIsAsked
      <4>3. normalized[i].vote <= 1 BY <2>1, <4>2, ConstantFacts
      <4>4. QED BY <1>1, <2>2, <2>5, <4>3
    <3>5. QED BY <3>1, <3>2, <3>3, <3>4
  <2>6. CASE /\ v \in {0, 1} /\ phase' = "real"
             /\ encrypted' \in Seq({0, 1})
             /\ Len(encrypted') = Len(encrypted) + 1
             /\ encrypted'[Len(encrypted) + 1] = v
             /\ \A k \in 1..Len(encrypted) : encrypted'[k] = encrypted[k]
             /\ Total(encrypted) \in Nat
             /\ Total(encrypted') = Total(encrypted) + v
    <3>1. TypeOK' BY <1>2, <2>4, <2>6 DEF TypeOK, Phases
    <3>2. Computed'
      BY <1>1, <1>2, <2>6 DEF Computed, Counting, Given, Contest_isValid, IdMatches
    <3>3. \A k \in 1..n : k <= Len(encrypted') => encrypted'[k] = CountedVote(normalized[k])
      <4> SUFFICES ASSUME NEW k \in 1..n, k <= Len(encrypted')
                   PROVE  encrypted'[k] = CountedVote(normalized[k]) OBVIOUS
      <4>1. CASE k = i BY <2>6, <4>1 DEF v
      <4>2. CASE k # i
        <5>1. k \in 1..Len(encrypted) BY <1>1, <2>6, <4>2
        <5>2. QED BY <1>1, <2>6, <5>1
      <4>3. QED BY <4>1, <4>2
    <3>4. RealVotes'
      <4>1. \A m : CountedVote(m)' = CountedVote(m) BY <1>2 DEF CountedVote
      <4>2. Len(encrypted') <= n BY <1>1, <1>3, <1>5, <2>6
      <4>3. QED BY <1>2, <2>6, <3>3, <4>2 DEF RealVotes, CountedVote
    <3>5. SeatsCounted'
      <4> SUFFICES ASSUME validity # "OVERVOTE"
                   PROVE  /\ selectionCount' = Total(encrypted')
                          /\ selectionCount' <= description.numberElected
        BY <1>2, <2>6 DEF SeatsCounted
      <4>1. Len(encrypted') <= Len(normalized) BY <1>1, <1>3, <1>5, <2>6
      <4>2. \A k \in 1..Len(encrypted') : encrypted'[k] = normalized[k].vote
        <5> SUFFICES ASSUME NEW k \in 1..Len(encrypted')
                     PROVE  encrypted'[k] = normalized[k].vote OBVIOUS
        <5>1. k \in 1..n /\ k <= Len(encrypted') BY <1>1, <1>3, <2>6, <4>1
        <5>2. QED BY <3>3, <5>1 DEF CountedVote
      <4>3. Total(encrypted') \in Nat /\ Total(encrypted') <= numberMarked(normalized)
        BY <1>3, <2>6, <4>1, <4>2, BitsWithinMarks
      <4>4. /\ numberMarked(normalized) \in Nat /\ numberMarked(contest) \in Nat
            /\ numberMarked(normalized) <= numberMarked(contest)
        BY <1>1, <1>3, NormalizedMarks
      <4>5. ~ TooManyMarked(contest, description) BY <1>1 DEF Contest_isValid
      <4>6. /\ description.numberElected \in Nat
            /\ description.numberElected <= n /\ n < VoteLimit /\ VoteLimit \in Nat \ {0}
        BY DescriptionFacts, ConstantFacts DEF TypeOK
      <4>7. numberMarked(contest) <= description.numberElected
        BY <4>4, <4>5, <4>6 DEF TooManyMarked
      <4>8. Total(encrypted') <= description.numberElected BY <4>3, <4>4, <4>6, <4>7
      <4>9. selectionCount = Total(encrypted) BY <1>1 DEF SeatsCounted, Counting
      <4>10. selectionCount' = Total(encrypted') % VoteLimit BY <2>3, <2>6, <4>9
      <4>11. Total(encrypted') \in 0..(VoteLimit - 1) BY <1>1, <4>3, <4>6, <4>8
      <4>12. selectionCount' = Total(encrypted') BY <4>6, <4>10, <4>11, ModOfSmall
      <4>13. QED BY <4>8, <4>12
    <3>6. OvervoteCounted'
      BY <1>1, <1>2, <2>2, <2>6 DEF OvervoteCounted, Counting
    <3>7. HonestBallotAccepted' BY <2>6 DEF HonestBallotAccepted
    <3>8. QED BY <3>1, <3>2, <3>4, <3>5, <3>6, <3>7
  <2>7. encrypted \in Seq({0, 1}) BY DEF TypeOK
  <2>8. QED BY <2>2, <2>3, <2>5, <2>6, <2>7, EncryptFacts
<1>6. QED BY <1>1, <1>3, <1>4, <1>5

LEMMA PlaceholderStep == ASSUME ContestInv, EncryptPlaceholder PROVE ContestInv'
<1> DEFINE n == Len(Candidates)
           all == n + PlaceholderCount
           v == IF selectPlaceholder THEN 1 ELSE 0
<1> USE DEF ContestInv
<1>1. /\ phase = "placeholder" /\ validity \in {"SUCCESS", "OVERVOTE"}
      /\ UNCHANGED << description, entry, sameContest, marks, contest, validity,
                      extendedData, normalized >>
      /\ contest = Given /\ normalized = emplaceMissingValues(contest)
      /\ validity = Contest_isValid(contest, description)
  <2>1. phase = "placeholder" BY DEF EncryptPlaceholder
  <2>2. QED BY <2>1 DEF EncryptPlaceholder, Computed, Counting
<1>2. /\ n \in Nat /\ Len(encrypted) \in Nat /\ n <= Len(encrypted) /\ Len(encrypted) <= all
      /\ \A k \in 1..n : encrypted[k] = CountedVote(normalized[k])
  <2>1. RealVotes OBVIOUS
  <2>2. n \in Nat /\ Len(encrypted) \in Nat BY ConstantFacts DEF TypeOK
  <2>3. /\ n <= Len(encrypted) /\ Len(encrypted) <= all
        /\ \A k \in 1..n : k <= Len(encrypted) => encrypted[k] = CountedVote(normalized[k])
    BY <1>1, <2>1 DEF RealVotes, Counting
  <2>4. QED BY <2>2, <2>3
<1>3. /\ description.numberElected \in Nat /\ PlaceholderCount = description.numberElected
      /\ description.numberElected < VoteLimit /\ VoteLimit \in Nat \ {0}
      /\ PlaceholderCount' = PlaceholderCount
  BY <1>1, DescriptionFacts, ConstantFacts DEF TypeOK, PlaceholderCount
<1>4. selectionCount \in Nat /\ encrypted \in Seq({0, 1}) BY DEF TypeOK
<1>5. Computed' \/ ~ (phase' \in Phases)
  BY <1>1 DEF Computed, Counting, Given, Contest_isValid, IdMatches, Phases,
              EncryptPlaceholder, Encrypt
<1>6. validity = "OVERVOTE" => Total(encrypted) = Len(encrypted) - n
  BY <1>1 DEF OvervoteCounted, Counting
<1>7. validity # "OVERVOTE" =>
         /\ selectionCount = Total(encrypted)
         /\ selectionCount <= description.numberElected
         /\ Len(encrypted) - n <= selectionCount
  BY <1>1 DEF SeatsCounted, Counting
<1>8. CASE Len(encrypted) = all /\ phase' = "verify"
           /\ UNCHANGED << selectionCount, encrypted >>
  <2>1. TypeOK' BY <1>1, <1>8 DEF TypeOK, Phases
  <2>2. Computed' BY <1>5, <1>8 DEF Phases
  <2>3. RealVotes'
    BY <1>1, <1>2, <1>3, <1>8 DEF RealVotes, CountedVote
  <2>4. SeatsCounted' BY <1>1, <1>7, <1>8 DEF SeatsCounted
  <2>5. OvervoteCounted' BY <1>1, <1>6, <1>8 DEF OvervoteCounted
  <2>6. HonestBallotAccepted' BY <1>8 DEF HonestBallotAccepted
  <2>7. QED BY <2>1, <2>2, <2>3, <2>4, <2>5, <2>6
<1>9. CASE Len(encrypted) < all /\ Encrypt(v, "placeholder")
           /\ selectionCount' = IF selectPlaceholder /\ validity # "OVERVOTE"
                                THEN (selectionCount + 1) % VoteLimit
                                ELSE selectionCount
  <2>1. v \in {0, 1} /\ v \in Nat /\ ~ (v > 1) OBVIOUS
  <2> HIDE DEF v
  <2>2. /\ phase' = "placeholder"
        /\ encrypted' \in Seq({0, 1})
        /\ Len(encrypted') = Len(encrypted) + 1
        /\ \A k \in 1..Len(encrypted) : encrypted'[k] = encrypted[k]
        /\ Total(encrypted) \in Nat
        /\ Total(encrypted') = Total(encrypted) + v
    BY <1>4, <1>9, <2>1, EncryptFacts
  <2>3. validity # "OVERVOTE" =>
           /\ selectionCount' = Total(encrypted')
           /\ selectionCount' <= description.numberElected
           /\ Len(encrypted') - n <= selectionCount'
    <3> SUFFICES ASSUME validity # "OVERVOTE"
                 PROVE  /\ selectionCount' = Total(encrypted')
                        /\ selectionCount' <= description.numberElected
                        /\ Len(encrypted') - n <= selectionCount' OBVIOUS
    <3>1. CASE selectPlaceholder
      <4>1. v = 1 BY <3>1 DEF v
      <4>2. selectionCount < description.numberElected BY <3>1 DEF selectPlaceholder
      <4>3. selectionCount + 1 \in 0..(VoteLimit - 1) BY <1>3, <1>4, <4>2
      <4>4. selectionCount' = selectionCount + 1
        BY <1>3, <1>9, <3>1, <4>3, ModOfSmall
      <4>5. QED BY <1>2, <1>3, <1>4, <1>7, <2>2, <4>1, <4>2, <4>4
    <3>2. CASE ~ selectPlaceholder
      <4>1. v = 0 /\ selectionCount' = selectionCount BY <1>9, <3>2 DEF v
      <4>2. selectionCount >= description.numberElected
        BY <1>3, <1>4, <3>2 DEF selectPlaceholder
      <4>3. QED BY <1>2, <1>3, <1>4, <1>7, <1>9, <2>2, <4>1, <4>2
    <3>3. QED BY <3>1, <3>2
  <2>4. validity = "OVERVOTE" => Total(encrypted') = Len(encrypted') - n
    <3> SUFFICES ASSUME validity = "OVERVOTE"
                 PROVE  Total(encrypted') = Len(encrypted') - n OBVIOUS
    <3>1. v = 1 BY DEF v, selectPlaceholder
    <3>2. QED BY <1>2, <1>6, <2>2, <3>1
  <2>5. selectionCount' \in Nat
    <3>1. selectionCount + 1 \in Nat BY <1>4
    <3>2. QED BY <1>3, <1>4, <1>9, <3>1
  <2>6. TypeOK' BY <1>1, <2>2, <2>5 DEF TypeOK, Phases
  <2>7. Computed' BY <1>5, <2>2 DEF Phases
  <2>8. RealVotes'
    <3>1. \A k \in 1..n : encrypted'[k] = CountedVote(normalized[k])
      <4> SUFFICES ASSUME NEW k \in 1..n
                   PROVE  encrypted'[k] = CountedVote(normalized[k]) OBVIOUS
      <4>1. k \in 1..Len(encrypted) BY <1>2
      <4>2. QED BY <1>2, <2>2, <4>1
    <3>2. n <= Len(encrypted') /\ Len(encrypted') <= all BY <1>2, <1>3, <1>9, <2>2
    <3>3. QED BY <1>1, <1>3, <2>2, <3>1, <3>2 DEF RealVotes, CountedVote
  <2>9. SeatsCounted' BY <1>1, <2>2, <2>3 DEF SeatsCounted
  <2>10. OvervoteCounted' BY <1>1, <2>2, <2>4 DEF OvervoteCounted
  <2>11. HonestBallotAccepted' BY <2>2 DEF HonestBallotAccepted
  <2>12. QED BY <2>6, <2>7, <2>8, <2>9, <2>10, <2>11
<1>10. QED BY <1>8, <1>9 DEF EncryptPlaceholder

\* All the placeholders are there, so the votes add up to the seats.
LEMMA SumsToNumberElected == ContestInv => AlwaysSumsToNumberElected
<1> SUFFICES ASSUME ContestInv, phase = "verify"
             PROVE  accumulation = description.numberElected
  BY DEF AlwaysSumsToNumberElected
<1> USE DEF ContestInv
<1>1. validity \in {"SUCCESS", "OVERVOTE"} BY DEF Computed, Counting
<1>2. description.numberElected \in Nat /\ Len(Candidates) \in Nat
  BY DescriptionFacts, ConstantFacts DEF TypeOK
<1>3. Len(encrypted) = Len(Candidates) + description.numberElected
  BY DEF RealVotes, Counting, PlaceholderCount
<1>4. CASE validity = "OVERVOTE"
  BY <1>2, <1>3, <1>4 DEF OvervoteCounted, Counting, accumulation
<1>5. CASE validity # "OVERVOTE"
  <2>1. /\ selectionCount = Total(encrypted) /\ selectionCount \in Nat
        /\ selectionCount <= description.numberElected
        /\ Len(encrypted) - Len(Candidates) <= selectionCount
    BY <1>5 DEF SeatsCounted, Counting, TypeOK
  <2>2. QED BY <1>2, <1>3, <2>1 DEF accumulation
<1>6. QED BY <1>4, <1>5

LEMMA VerifyStep == ASSUME ContestInv, Verify PROVE ContestInv'
<1> USE DEF ContestInv, Verify
<1>1. phase' = "done"
  BY SumsToNumberElected DEF AlwaysSumsToNumberElected
<1>2. TypeOK' BY <1>1 DEF TypeOK, Phases
<1>3. Computed' BY <1>1 DEF Computed, Counting, Given, Contest_isValid, IdMatches
<1>4. RealVotes' BY <1>1 DEF RealVotes, Counting, CountedVote, PlaceholderCount
<1>5. SeatsCounted' BY <1>1 DEF SeatsCounted, Counting
<1>6. OvervoteCounted' BY <1>1 DEF OvervoteCounted, Counting
<1>7. HonestBallotAccepted' BY <1>1 DEF HonestBallotAccepted
<1>8. QED BY <1>2, <1>3, <1>4, <1>5, <1>6, <1>7

LEMMA StutterStep == ASSUME ContestInv, UNCHANGED vars PROVE ContestInv'
<1> USE DEF ContestInv, vars
<1>1. TypeOK' BY DEF TypeOK
<1>2. Computed' BY DEF Computed, Counting, Given, Contest_isValid, IdMatches
<1>3. RealVotes' BY DEF RealVotes, CountedVote, PlaceholderCount
<1>4. SeatsCounted' /\ OvervoteCounted' BY DEF SeatsCounted, OvervoteCounted
<1>5. HonestBallotAccepted' BY DEF HonestBallotAccepted, Asked
<1>6. QED BY <1>1, <1>2, <1>3, <1>4, <1>5

THEOREM InvHolds == Spec => []ContestInv
<1>1. ASSUME ContestInv, [Next]_vars PROVE ContestInv'
  <2>1. CASE Enter BY <1>1, <2>1, EnterStep
  <2>2. CASE Validate BY <1>1, <2>2, ValidateStep
  <2>3. CASE RecordExtendedData BY <1>1, <2>3, RecordStep
  <2>4. CASE EncryptSelection BY <1>1, <2>4, SelectionStep
  <2>5. CASE EncryptPlaceholder BY <1>1, <2>5, PlaceholderStep
  <2>6. CASE Verify BY <1>1, <2>6, VerifyStep
  <2>7. CASE Finished BY <1>1, <2>7, StutterStep DEF Finished
  <2>8. CASE UNCHANGED vars BY <1>1, <2>8, StutterStep
  <2>9. QED BY <1>1, <2>1, <2>2, <2>3, <2>4, <2>5, <2>6, <2>7, <2>8 DEF Next
<1>2. QED BY InitInv, <1>1, PTL DEF Spec

-----------------------------------------------------------------------------
(* What follows from it.                                                    *)

\* However the contest was marked and however it came in, the accumulation that
\* CiphertextBallotContest::make proves encrypts numberElected: the verification
\* at the end of encryptContest cannot fail.
THEOREM ContestAlwaysSums == Spec => []AlwaysSumsToNumberElected
<1>1. ContestInv => AlwaysSumsToNumberElected BY SumsToNumberElected
<1>2. QED BY InvHolds, <1>1, PTL

\* encryptBallot refuses no contest whose counted marks are all 0 or 1.
THEOREM ContestAcceptsHonest == Spec => []HonestBallotAccepted
<1>1. ContestInv => HonestBallotAccepted BY DEF ContestInv
<1>2. QED BY InvHolds, <1>1, PTL

\* As many marked selections as candidates the voter asked for.
LEMMA MarkedIsAskedFor ==
    ASSUME TypeOK, entry = "encryptBallot"
    PROVE  /\ numberMarked(Given) \in Nat
           /\ Cardinality(AskedFor) = numberMarked(Given)
<1> DEFINE n == Len(Candidates)
           S == {i \in 1..n : Asked(Candidates[i]) >= 1}
           f == [i \in S |-> Candidates[i]]
<1>1. S = {i \in 1..Len(Given) : Given[i].vote >= 1} BY GivenIsAsked
<1>2. IsFiniteSet(S) /\ Cardinality(S) \in Nat
  <2>1. IsFiniteSet(1..n) BY FS_Interval, ConstantFacts
  <2>2. S \in SUBSET (1..n) OBVIOUS
  <2> HIDE DEF S
  <2>3. IsFiniteSet(S) BY <2>1, <2>2, FS_Subset
  <2>4. QED BY <2>3, FS_CardinalityType
<1>3. f \in Bijection(S, AskedFor)
  <2>1. f \in [S -> AskedFor] BY ConstantFacts DEF AskedFor
  <2>2. IsInjective(f) BY ConstantFacts DEF IsInjective
  <2>3. \A id \in AskedFor : \E i \in S : f[i] = id BY ConstantFacts DEF AskedFor
  <2> HIDE DEF f, S
  <2>4. QED BY <2>1, <2>2, <2>3 DEF Bijection, Injection, Surjection
<1> HIDE DEF f, S
<1>4. Cardinality(AskedFor) = Cardinality(S)
  BY <1>2, <1>3, FS_Bijection DEF ExistsBijection
<1>5. QED BY <1>1, <1>2, <1>4 DEF numberMarked

\* encryptBallot encrypts the first mark for each candidate, or zero for all of
\* them when the voter asked for too much; the code decides that on a counter
\* that may wrap and on votes above 1, and is right all the same.
THEOREM ContestKeepsIntent == Spec => []VoterIntent
<1>1. ASSUME ContestInv PROVE VoterIntent
  <2> SUFFICES ASSUME entry = "encryptBallot", phase = "done", NEW id \in Ids
               PROVE  Real(id) = IF AskedTooMuch THEN 0 ELSE Asked(id)
    BY DEF VoterIntent
  <2> DEFINE n == Len(Candidates)
             asked == [i \in 1..n |-> Asked(Candidates[i])]
             seats == description.numberElected
             limit == IF description.votesAllowed = 0 THEN seats
                                                     ELSE description.votesAllowed
  <2>1. TypeOK /\ Computed /\ RealVotes BY <1>1 DEF ContestInv
  <2>2. /\ contest = Given /\ normalized = Given
        /\ validity = Contest_isValid(Given, description)
        /\ validity \in {"SUCCESS", "OVERVOTE"}
    BY <2>1, GivenIsAsked DEF Computed, Counting
  <2>3. /\ Given \in Seq(Mark) /\ Len(Given) = n /\ n \in Nat
        /\ \A i \in 1..n : Given[i] \in Mark /\ Given[i].vote = Asked(Candidates[i])
    <3>1. Given \in Seq(Mark) /\ Len(Given) = n /\ n \in Nat
      BY <2>1, GivenType, GivenIsAsked, ConstantFacts
    <3>2. \A i \in 1..n : Given[i] \in Mark BY <3>1
    <3>3. QED BY <2>1, <3>1, <3>2, GivenIsAsked
  <2>4. /\ encrypted \in Seq({0, 1}) /\ n <= Len(encrypted)
        /\ \A i \in 1..n : encrypted[i] = CountedVote(Given[i]) /\ encrypted[i] \in {0, 1}
    <3>1. encrypted \in Seq({0, 1}) /\ n <= Len(encrypted)
          /\ \A i \in 1..n : i <= Len(encrypted) => encrypted[i] = CountedVote(Given[i])
      BY <2>1, <2>2 DEF TypeOK, RealVotes, Counting
    <3>2. \A i \in 1..n : i \in 1..Len(encrypted) /\ i <= Len(encrypted) BY <2>3, <3>1
    <3>3. QED BY <3>1, <3>2
  <2>5. PICK j \in 1..n : Candidates[j] = id /\ Real(id) = encrypted[j]
    BY ConstantFacts DEF Real
  <2>6. /\ numberMarked(Given) \in Nat
        /\ Cardinality(AskedFor) = numberMarked(Given) BY <2>1, MarkedIsAskedFor
  <2>7. /\ seats \in Nat /\ limit \in Nat /\ seats <= limit
    BY <2>1, DescriptionFacts DEF TypeOK
  <2>8. AskedTooMuch <=> Cardinality(AskedFor) > seats \/ Total(asked) > limit
    BY DEF AskedTooMuch
  <2>9. asked = [i \in 1..Len(Given) |-> Given[i].vote] BY <2>3
  <2>10. \A i \in 1..n : Given[i].vote \in Nat
    <3>1. \A m \in Mark : m.vote \in Nat BY ConstantFacts DEF Mark, Vote
    <3>2. QED BY <2>3, <3>1
  <2>11. asked \in Seq(Nat) /\ Len(asked) = n /\ \A i \in 1..n : asked[i] = Given[i].vote
    BY <2>3, <2>10
  <2> HIDE DEF asked
  <2>12. CASE validity = "SUCCESS"
    <3>1. \A i \in 1..n : encrypted[i] = Given[i].vote BY <2>4, <2>12 DEF CountedVote
    <3>2. asked \in Seq({0, 1})
      <4>1. \A i \in 1..n : asked[i] \in {0, 1} BY <2>4, <2>11, <3>1
      <4>2. QED BY <2>3, <2>11, <4>1
    <3>3. Total(asked) = numberMarked(Given)
      BY <2>3, <2>11, <3>2, BitsWithinMarks
    <3>4. numberMarked(Given) <= seats
      BY <2>2, <2>6, <2>7, <2>12 DEF Contest_isValid, TooManyMarked
    <3>5. ~ AskedTooMuch BY <2>6, <2>7, <2>8, <3>3, <3>4
    <3>6. QED BY <2>3, <2>5, <3>1, <3>5
  <2>13. CASE validity = "OVERVOTE"
    <3>1. TooManyMarked(Given, description) \/ TooManyVotes(Given, description)
      BY <2>2, <2>13 DEF Contest_isValid
    <3>2. AskedTooMuch
      <4>1. CASE TooManyMarked(Given, description)
        BY <2>6, <2>8, <4>1 DEF TooManyMarked
      <4>2. CASE TooManyVotes(Given, description)
        <5>1. votes(Given) \in Nat /\ votes(Given) <= Total(asked)
          BY <2>3, <2>9, VotesAtMostTotal
        <5>2. votes(Given) > limit BY <4>2 DEF TooManyVotes
        <5>3. Total(asked) \in Nat BY <2>7, <2>11, TotalAppend
        <5>4. QED BY <2>7, <2>8, <5>1, <5>2, <5>3
      <4>3. QED BY <3>1, <4>1, <4>2
    <3>3. encrypted[j] = 0 BY <2>4, <2>13 DEF CountedVote
    <3>4. QED BY <2>5, <3>2, <3>3
  <2>14. QED BY <2>2, <2>12, <2>13
<1>2. QED BY InvHolds, <1>1, PTL

\* The extended data has each write-in the voter marked and, for an overvote, each
\* candidate: the overvote leaves no other trace of them.
THEOREM ContestRecordsOvervote == Spec => []ExtendedDataComplete
<1>1. ASSUME ContestInv PROVE ExtendedDataComplete
  <2> SUFFICES ASSUME entry = "encryptBallot", phase = "done"
               PROVE  /\ extendedData.write_ins = {id \in WriteIns : Asked(id) = 1}
                      /\ validity = "OVERVOTE" =>
                            extendedData.error_data = {id \in Ids : Asked(id) = 1}
    BY DEF ExtendedDataComplete
  <2>1. TypeOK /\ Computed BY <1>1 DEF ContestInv
  <2>2. extendedData = getOvervoteAndWriteIns(Given, validity)
    BY <2>1 DEF Computed, Counting
  <2>3. MarkedOnce(Given) = {id \in Ids : Asked(id) = 1}
    <3>1. /\ Len(Given) = Len(Candidates)
          /\ \A i \in 1..Len(Candidates) :
                Given[i].id = Candidates[i] /\ Given[i].vote = Asked(Candidates[i])
      BY <2>1, GivenIsAsked
    <3>2. QED BY <3>1, ConstantFacts DEF MarkedOnce
  <2>4. WriteIns \subseteq Ids BY ContestAssumption
  <2>5. QED BY <2>2, <2>3, <2>4 DEF getOvervoteAndWriteIns
<1>2. QED BY InvHolds, <1>1, PTL
=============================================================================
