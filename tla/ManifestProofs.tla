--------------------------- MODULE ManifestProofs ---------------------------
(* Proofs about ManifestData and ManifestLifecycle, for all manifests, however
   many units, parties, contests and selections they have, and any number of
   saves and loads.                                                          *)
EXTENDS ManifestLifecycle, FiniteSetTheorems, ArithmeticLemmas

-----------------------------------------------------------------------------
(* Sorting.                                                                  *)

\* The sequences that are sorted: anything with orders.
Orders(s) == \A i \in DOMAIN s : s[i].order \in Nat

Ascending(s) == \A i, j \in DOMAIN s : i <= j => s[i].order <= s[j].order

\* Where an element stands when the sequence is sorted.
LEMMA RankRange ==
    ASSUME NEW s, NEW n \in Nat, DOMAIN s = 1..n, Orders(s), NEW i \in 1..n
    PROVE  Rank(s, i) \in 1..n
<1> DEFINE B == {j \in DOMAIN s : s[j].order < s[i].order \/ (s[j].order = s[i].order /\ j <= i)}
<1>1. B \in SUBSET (1..n) /\ i \in B OBVIOUS
<1>2. IsFiniteSet(1..n) /\ Cardinality(1..n) = n BY FS_Interval
<1>3. Rank(s, i) = Cardinality(B) BY DEF Rank
<1> HIDE DEF B
<1>4. IsFiniteSet(B) /\ Cardinality(B) <= n
  <2>1. IsFiniteSet(B) /\ Cardinality(B) <= Cardinality(1..n) BY <1>1, <1>2, FS_Subset
  <2>2. QED BY <1>2, <2>1
<1>5. Cardinality(B) \in Nat BY <1>4, FS_CardinalityType
<1>6. Cardinality(B) # 0 BY <1>1, <1>4, FS_EmptySet
<1>7. QED BY <1>3, <1>4, <1>5, <1>6

\* The ranks are in the order of the elements.
LEMMA RankMonotonic ==
    ASSUME NEW s, NEW n \in Nat, DOMAIN s = 1..n, Orders(s), NEW i \in 1..n, NEW j \in 1..n,
           s[i].order < s[j].order \/ (s[i].order = s[j].order /\ i < j)
    PROVE  Rank(s, i) < Rank(s, j)
<1> DEFINE B(k) == {l \in DOMAIN s : s[l].order < s[k].order \/ (s[l].order = s[k].order /\ l <= k)}
<1>1. B(i) \in SUBSET B(j) /\ j \in B(j) /\ j \notin B(i) /\ B(j) \in SUBSET (1..n) BY DEF Orders
<1>2. IsFiniteSet(1..n) BY FS_Interval
<1>3. Rank(s, i) = Cardinality(B(i)) /\ Rank(s, j) = Cardinality(B(j)) BY DEF Rank
<1> HIDE DEF B
<1>4. IsFiniteSet(B(j)) BY <1>1, <1>2, FS_Subset
<1>5. /\ IsFiniteSet(B(i)) /\ Cardinality(B(i)) <= Cardinality(B(j))
      /\ Cardinality(B(j)) = Cardinality(B(i)) => B(j) = B(i)
  BY <1>1, <1>4, FS_Subset
<1>6. Cardinality(B(i)) \in Nat /\ Cardinality(B(j)) \in Nat BY <1>4, <1>5, FS_CardinalityType
<1>7. QED BY <1>1, <1>3, <1>5, <1>6

\* Every place is the rank of exactly one element.
LEMMA RankBijection ==
    ASSUME NEW s, NEW n \in Nat, DOMAIN s = 1..n, Orders(s)
    PROVE  /\ \A i, j \in 1..n : Rank(s, i) = Rank(s, j) => i = j
           /\ \A k \in 1..n : \E i \in 1..n : Rank(s, i) = k
<1>1. ASSUME NEW i \in 1..n, NEW j \in 1..n, i # j PROVE Rank(s, i) # Rank(s, j)
  <2>1. s[i].order \in Nat /\ s[j].order \in Nat BY DEF Orders
  <2>2. Rank(s, i) < Rank(s, j) \/ Rank(s, j) < Rank(s, i) BY <1>1, <2>1, RankMonotonic
  <2>3. Rank(s, i) \in Nat /\ Rank(s, j) \in Nat BY RankRange
  <2>4. QED BY <2>2, <2>3
<1> DEFINE f == [i \in 1..n |-> Rank(s, i)]
<1>2. f \in Injection(1..n, 1..n)
  <2>1. f \in [1..n -> 1..n] BY RankRange
  <2>2. IsInjective(f) BY <1>1 DEF IsInjective
  <2>3. QED BY <2>1, <2>2 DEF Injection
<1>3. IsFiniteSet(1..n) BY FS_Interval
<1>4. f \in Surjection(1..n, 1..n)
  <2> HIDE DEF f
  <2>1. QED BY <1>2, <1>3, FS_Injection
<1>5. \A k \in 1..n : \E i \in 1..n : f[i] = k BY <1>4 DEF Surjection
<1>6. QED BY <1>1, <1>5

\* What sorting gives: the same elements, in ascending order.
LEMMA InOrderElements ==
    ASSUME NEW s, NEW n \in Nat, DOMAIN s = 1..n, Orders(s)
    PROVE  /\ DOMAIN InOrder(s) = 1..n
           /\ \A k \in 1..n : \E i \in 1..n : Rank(s, i) = k /\ InOrder(s)[k] = s[i]
           /\ \A i \in 1..n : InOrder(s)[Rank(s, i)] = s[i]
<1> DEFINE at(k) == CHOOSE i \in DOMAIN s : Rank(s, i) = k
<1>1. \A k \in 1..n : at(k) \in 1..n /\ Rank(s, at(k)) = k BY RankBijection
<1>2. \A k \in 1..n : InOrder(s)[k] = s[at(k)] BY DEF InOrder
<1>3. DOMAIN InOrder(s) = 1..n BY DEF InOrder
<1> HIDE DEF at
<1>4. ASSUME NEW i \in 1..n PROVE InOrder(s)[Rank(s, i)] = s[i]
  <2>1. Rank(s, i) \in 1..n BY RankRange
  <2>2. at(Rank(s, i)) = i BY <1>1, <2>1, RankBijection
  <2>3. QED BY <1>2, <2>1, <2>2
<1>5. QED BY <1>1, <1>2, <1>3, <1>4

LEMMA InOrderAscending ==
    ASSUME NEW s, NEW n \in Nat, DOMAIN s = 1..n, Orders(s)
    PROVE  Orders(InOrder(s)) /\ Ascending(InOrder(s))
<1>1. Orders(InOrder(s))
  <2>1. \A k \in 1..n : InOrder(s)[k].order \in Nat
    <3> SUFFICES ASSUME NEW k \in 1..n PROVE InOrder(s)[k].order \in Nat OBVIOUS
    <3>1. PICK i \in 1..n : InOrder(s)[k] = s[i] BY InOrderElements
    <3>2. QED BY <3>1 DEF Orders
  <2>2. QED BY <2>1, InOrderElements DEF Orders
<1>2. ASSUME NEW k \in 1..n, NEW l \in 1..n, k <= l
      PROVE  InOrder(s)[k].order <= InOrder(s)[l].order
  <2>1. PICK i \in 1..n : Rank(s, i) = k /\ InOrder(s)[k] = s[i] BY InOrderElements
  <2>2. PICK j \in 1..n : Rank(s, j) = l /\ InOrder(s)[l] = s[j] BY InOrderElements
  <2>3. s[i].order \in Nat /\ s[j].order \in Nat BY DEF Orders
  <2>4. CASE s[j].order < s[i].order
    <3>1. l < k BY <2>1, <2>2, <2>4, RankMonotonic
    <3>2. QED BY <1>2, <3>1
  <2>5. QED BY <2>1, <2>2, <2>3, <2>4
<1>3. QED BY <1>1, <1>2, InOrderElements DEF Ascending

\* What is in order already stays as it is.
LEMMA AscendingInOrder ==
    ASSUME NEW s, NEW n \in Nat, s = [i \in 1..n |-> s[i]], Orders(s), Ascending(s)
    PROVE  InOrder(s) = s
<1>1. ASSUME NEW i \in 1..n PROVE Rank(s, i) = i
  <2>1. {j \in DOMAIN s : s[j].order < s[i].order \/ (s[j].order = s[i].order /\ j <= i)} = 1..i
    BY DEF Orders, Ascending
  <2>2. Cardinality(1..i) = i BY FS_Interval
  <2>3. QED BY <2>1, <2>2 DEF Rank
<1>2. \A i \in 1..n : InOrder(s)[i] = s[i] BY <1>1, InOrderElements
<1>3. InOrder(s) = [i \in 1..n |-> InOrder(s)[i]] BY DEF InOrder
<1>4. QED BY <1>2, <1>3

LEMMA InOrderSeq ==
    ASSUME NEW T, NEW s \in Seq(T), Orders(s)
    PROVE  /\ InOrder(s) \in Seq(T) /\ Len(InOrder(s)) = Len(s)
           /\ DOMAIN InOrder(s) = 1..Len(s)
           /\ ToSet(InOrder(s)) = ToSet(s)
           /\ Orders(InOrder(s))
           /\ InOrder(InOrder(s)) = InOrder(s)
           /\ Numbered(s) => Numbered(InOrder(s))
<1> DEFINE n == Len(s)
<1>1. n \in Nat /\ DOMAIN s = 1..n OBVIOUS
<1> HIDE DEF n
<1>2. /\ DOMAIN InOrder(s) = 1..n
      /\ \A k \in 1..n : \E i \in 1..n : Rank(s, i) = k /\ InOrder(s)[k] = s[i]
      /\ \A i \in 1..n : InOrder(s)[Rank(s, i)] = s[i]
  BY <1>1, InOrderElements
<1>3. InOrder(s) = [k \in 1..n |-> InOrder(s)[k]] BY <1>1 DEF InOrder
<1>4. \A k \in 1..n : InOrder(s)[k] \in T
  <2> SUFFICES ASSUME NEW k \in 1..n PROVE InOrder(s)[k] \in T OBVIOUS
  <2>1. PICK i \in 1..n : InOrder(s)[k] = s[i] BY <1>2
  <2>2. QED BY <1>1, <2>1
<1>5. InOrder(s) \in Seq(T) /\ Len(InOrder(s)) = n BY <1>1, <1>3, <1>4
<1>6. ToSet(InOrder(s)) = ToSet(s)
  <2>1. \A i \in 1..n : Rank(s, i) \in 1..n BY <1>1, RankRange
  <2>2. ASSUME NEW x \in ToSet(s) PROVE x \in ToSet(InOrder(s))
    <3>1. PICK i \in 1..n : x = s[i] BY <1>1, <2>2 DEF ToSet
    <3>2. QED BY <1>2, <2>1, <3>1 DEF ToSet
  <2>3. ASSUME NEW x \in ToSet(InOrder(s)) PROVE x \in ToSet(s)
    <3>1. PICK k \in 1..n : x = InOrder(s)[k] BY <1>2, <2>3 DEF ToSet
    <3>2. PICK i \in 1..n : InOrder(s)[k] = s[i] BY <1>2
    <3>3. QED BY <1>1, <3>1, <3>2 DEF ToSet
  <2>4. QED BY <2>2, <2>3
<1>7. Orders(InOrder(s)) /\ Ascending(InOrder(s)) BY <1>1, InOrderAscending
<1>8. InOrder(InOrder(s)) = InOrder(s) BY <1>1, <1>3, <1>7, AscendingInOrder
<1>9. ASSUME Numbered(s) PROVE Numbered(InOrder(s))
  <2> SUFFICES ASSUME NEW k \in 1..n, NEW l \in 1..n, InOrder(s)[k].order = InOrder(s)[l].order
               PROVE  k = l
    BY <1>2 DEF Numbered
  <2>1. PICK i \in 1..n : Rank(s, i) = k /\ InOrder(s)[k] = s[i] BY <1>2
  <2>2. PICK j \in 1..n : Rank(s, j) = l /\ InOrder(s)[l] = s[j] BY <1>2
  <2>3. i = j BY <1>1, <1>9, <2>1, <2>2 DEF Numbered
  <2>4. QED BY <2>1, <2>2, <2>3
<1>10. QED BY <1>2, <1>5, <1>6, <1>7, <1>8, <1>9 DEF n

\* If sorting changes no order, it changes nothing.
LEMMA SameOrders ==
    ASSUME NEW T, NEW s \in Seq(T), Orders(s),
           \A i \in 1..Len(s) : InOrder(s)[i].order = s[i].order
    PROVE  InOrder(s) = s
<1> DEFINE n == Len(s)
<1>1. n \in Nat /\ DOMAIN s = 1..n /\ s = [i \in 1..n |-> s[i]] OBVIOUS
<1>2. \A i \in 1..n : InOrder(s)[i].order = s[i].order OBVIOUS
<1> HIDE DEF n
<1>3. Ascending(InOrder(s)) /\ DOMAIN InOrder(s) = 1..n BY <1>1, InOrderAscending, InOrderElements
<1>4. Ascending(s) BY <1>1, <1>2, <1>3 DEF Ascending
<1>5. QED BY <1>1, <1>4, AscendingInOrder

-----------------------------------------------------------------------------
(* Saving and loading, object by object.                                     *)

LEMMA NullIsNothingElse ==
    /\ \A n \in Nat : n # NULL
    /\ \A b \in BOOLEAN : b # NULL
    /\ \A s \in Strings : s # NULL
    /\ \A t \in Texts : t # NULL
    /\ \A c \in Contacts : c # NULL
    /\ \A s \in BallotStyles : s # NULL
    /\ <<NULL, NULL, NULL, NULL>> # NULL
    /\ \A t \in Texts : [shape |-> "array", languages |-> t] # NULL
    /\ \A t \in Texts : [shape |-> "object", languages |-> t] # NULL
    /\ \A j \in JsonContacts : j # NULL
<1>1. \A n \in Nat : n # NULL BY ManifestAssumption
<1>2. \A b \in BOOLEAN : b # NULL BY ManifestAssumption
<1>3. \A s \in Strings : s # NULL BY ManifestAssumption
<1>4. \A s \in Seq(Or(Strings)) : s # NULL BY ManifestAssumption
<1>5. \A t \in Texts : t \in Seq(Or(Strings)) BY DEF Texts, Or
<1>6. <<NULL, NULL, NULL, NULL>> \in Seq(Or(Strings)) BY DEF Or
<1>7. \A t \in Texts : [shape |-> "array", languages |-> t] \in JsonTexts BY DEF JsonTexts
<1>8. \A t \in Texts : [shape |-> "object", languages |-> t] \in JsonTexts BY DEF JsonTexts
<1>9. \A j \in JsonTexts : j # NULL BY ManifestAssumption
<1>10. \A c \in Contacts : c # NULL BY ManifestAssumption
<1>11. \A s \in BallotStyles : s # NULL BY ManifestAssumption
<1>12. \A j \in JsonContacts : j # NULL BY ManifestAssumption
<1>13. QED BY <1>1, <1>2, <1>3, <1>4, <1>5, <1>6, <1>7, <1>8, <1>9, <1>10, <1>11, <1>12

\* What a value becomes that is left out where it is empty.
LEMMA ReadOrNull ==
    /\ \A n \in Nat : Read(OrNull(n, 0), 0) = n
    /\ \A b \in BOOLEAN : Read(OrNull(b, FALSE), FALSE) = b
    /\ \A s \in Strings : Read(OrNull(s, ""), "") = s
    /\ \A t \in Texts : Read(OrNull(t, <<>>), <<>>) = t
  BY NullIsNothingElse DEF Read, OrNull

LEMMA TextRoundTrip ==
    /\ \A t \in Texts : TextToJson(t) # NULL /\ TextFromJson(TextToJson(t)) = t
    /\ TextToJson(NULL) = NULL /\ TextFromJson(NULL) = <<>>
  BY NullIsNothingElse DEF TextToJson, TextFromJson

\* A contact comes back as it was, one that says nothing from no object at all.
LEMMA ContactRoundTrip ==
    ASSUME NEW c \in Contacts
    PROVE  /\ ContactFromJson(ContactToJson(c)) = c
           /\ ContactToJson(c) = NULL => HashContact(c) # NULL
<1>1. /\ c.name \in Strings /\ c.addressLine \in Texts /\ c.email \in Texts /\ c.phone \in Texts
      /\ c = [name |-> c.name, addressLine |-> c.addressLine, email |-> c.email, phone |-> c.phone]
  BY DEF Contacts
<1> DEFINE name == OrNull(c.name, "")
           line == OrNull(c.addressLine, <<>>)
           email == OrNull(c.email, <<>>)
           phone == OrNull(c.phone, <<>>)
           j == [name |-> name, address_line |-> line, email |-> email, phone |-> phone]
<1>2. /\ Read(name, "") = c.name /\ Read(line, <<>>) = c.addressLine
      /\ Read(email, <<>>) = c.email /\ Read(phone, <<>>) = c.phone
  BY <1>1, ReadOrNull
<1>3. name \in Or(Strings) /\ line \in Or(Texts) /\ email \in Or(Texts) /\ phone \in Or(Texts)
  BY <1>1 DEF Or, OrNull
<1>4. ContactToJson(c) = OrNull(j, [name |-> NULL, address_line |-> NULL, email |-> NULL, phone |-> NULL])
  BY DEF ContactToJson
<1>5. HashContact(c) = <<name, line, email, phone>> BY DEF HashContact
<1> HIDE DEF name, line, email, phone
<1>6. j # NULL BY <1>3, NullIsNothingElse DEF JsonContacts
<1>7. CASE j = [name |-> NULL, address_line |-> NULL, email |-> NULL, phone |-> NULL]
  <2>1. name = NULL /\ line = NULL /\ email = NULL /\ phone = NULL BY <1>7
  <2>2. c.name = "" /\ c.addressLine = <<>> /\ c.email = <<>> /\ c.phone = <<>> BY <1>2, <2>1 DEF Read
  <2>3. ContactToJson(c) = NULL BY <1>4, <1>7 DEF OrNull
  <2>4. ContactFromJson(ContactToJson(c)) = c BY <1>1, <2>2, <2>3 DEF ContactFromJson, NoContact
  <2>5. QED BY <1>5, <2>1, <2>4, NullIsNothingElse
<1>8. CASE j # [name |-> NULL, address_line |-> NULL, email |-> NULL, phone |-> NULL]
  <2>1. ContactToJson(c) = j BY <1>4, <1>8 DEF OrNull
  <2>2. ContactFromJson(j) = c BY <1>1, <1>2, <1>6 DEF ContactFromJson
  <2>3. QED BY <1>6, <2>1, <2>2
<1>9. QED BY <1>7, <1>8

LoadedUnit(u) == UnitFromJson(UnitToJson(u))
LoadedParty(p) == PartyFromJson(PartyToJson(p))
LoadedCandidate(c) == CandidateFromJson(CandidateToJson(c))

\* A unit keeps its id, and its contact if that says something.
LEMMA UnitRoundTrip ==
    ASSUME NEW u \in Units
    PROVE  /\ LoadedUnit(u) \in Units /\ LoadedUnit(u).id = u.id
           /\ LoadedUnit(LoadedUnit(u)) = LoadedUnit(u)
           /\ HashUnit(LoadedUnit(u)) = HashUnit(u)
                <=> (u.contact # NULL => ContactToJson(u.contact) # NULL)
<1>1. /\ u.id \in Strings /\ u.contact \in Or(Contacts)
      /\ u = [id |-> u.id, contact |-> u.contact] BY DEF Units
<1>2. CASE u.contact = NULL
  <2>1. LoadedUnit(u) = u BY <1>1, <1>2 DEF LoadedUnit, UnitToJson, UnitFromJson
  <2>2. QED BY <1>2, <2>1
<1>3. CASE u.contact # NULL /\ ContactToJson(u.contact) # NULL
  <2>1. u.contact \in Contacts BY <1>1, <1>3 DEF Or
  <2>2. LoadedUnit(u) = u
    BY <1>1, <1>3, <2>1, ContactRoundTrip DEF LoadedUnit, UnitToJson, UnitFromJson
  <2>3. QED BY <1>3, <2>2
<1>4. CASE u.contact # NULL /\ ContactToJson(u.contact) = NULL
  <2> DEFINE none == [id |-> u.id, contact |-> NULL]
  <2>1. LoadedUnit(u) = none BY <1>1, <1>4 DEF LoadedUnit, UnitToJson, UnitFromJson
  <2>2. LoadedUnit(none) = none BY DEF LoadedUnit, UnitToJson, UnitFromJson
  <2>3. u.contact \in Contacts BY <1>1, <1>4 DEF Or
  <2>4. HashUnit(none) # HashUnit(u) BY <1>4, <2>3, ContactRoundTrip DEF HashUnit
  <2>5. none \in Units BY <1>1 DEF Units, Or
  <2>6. QED BY <1>4, <2>1, <2>2, <2>4, <2>5
<1>5. QED BY <1>2, <1>3, <1>4

\* A party keeps everything, but has a name then.
LEMMA PartyRoundTrip ==
    ASSUME NEW p \in Parties
    PROVE  /\ LoadedParty(p) \in Parties /\ LoadedParty(p).id = p.id
           /\ LoadedParty(LoadedParty(p)) = LoadedParty(p)
           /\ HashParty(LoadedParty(p)) = HashParty(p) <=> p.name # NULL
<1>1. /\ p.id \in Strings /\ p.name \in Or(Texts) /\ p.abbreviation \in Strings
      /\ p = [id |-> p.id, name |-> p.name, abbreviation |-> p.abbreviation] BY DEF Parties
<1> DEFINE made(t) == [id |-> p.id, name |-> t, abbreviation |-> p.abbreviation]
<1>2. ASSUME NEW t \in Texts PROVE LoadedParty(made(t)) = made(t) /\ made(t) \in Parties
  <2>1. Read(OrNull(p.abbreviation, ""), "") = p.abbreviation BY <1>1, ReadOrNull
  <2>2. LoadedParty(made(t)) = made(t)
    BY <2>1, TextRoundTrip DEF LoadedParty, PartyToJson, PartyFromJson
  <2>3. QED BY <1>1, <2>2 DEF Parties, Or
<1>3. CASE p.name # NULL
  <2>1. p.name \in Texts /\ p = made(p.name) BY <1>1, <1>3 DEF Or
  <2>2. LoadedParty(p) = p BY <1>2, <2>1
  <2>3. QED BY <1>3, <2>2
<1>4. CASE p.name = NULL
  <2>1. Read(OrNull(p.abbreviation, ""), "") = p.abbreviation BY <1>1, ReadOrNull
  <2>2. LoadedParty(p) = made(<<>>)
    BY <1>4, <2>1, TextRoundTrip DEF LoadedParty, PartyToJson, PartyFromJson
  <2>3. <<>> \in Texts /\ <<>> # NULL
    <3>1. <<>> \in Texts BY DEF Texts
    <3>2. QED BY <3>1, NullIsNothingElse
  <2>4. HashParty(made(<<>>)) # HashParty(p) BY <1>4, <2>3 DEF HashParty, HashText
  <2>5. QED BY <1>2, <1>4, <2>2, <2>3, <2>4
<1>5. QED BY <1>3, <1>4

LEMMA CandidateRoundTrip ==
    ASSUME NEW c \in Candidates
    PROVE  /\ LoadedCandidate(c) \in Candidates
           /\ LoadedCandidate(c).id = c.id /\ LoadedCandidate(c).partyId = c.partyId
           /\ LoadedCandidate(LoadedCandidate(c)) = LoadedCandidate(c)
<1>1. /\ c.id \in Strings /\ c.name \in Or(Texts) /\ c.partyId \in Strings /\ c.imageUri \in Strings
      /\ c.isWriteIn \in BOOLEAN
  BY DEF Candidates
<1>2. /\ Read(OrNull(c.partyId, ""), "") = c.partyId /\ Read(OrNull(c.imageUri, ""), "") = c.imageUri
      /\ Read(OrNull(c.isWriteIn, FALSE), FALSE) = c.isWriteIn
  BY <1>1, ReadOrNull, Zenon
<1> DEFINE made(t) == [id |-> c.id, name |-> t, isWriteIn |-> c.isWriteIn,
                       partyId |-> c.partyId, imageUri |-> c.imageUri]
           given == TextFromJson(TextToJson(c.name))
<1>3. given \in Texts /\ TextFromJson(TextToJson(given)) = given
  <2>1. <<>> \in Texts BY DEF Texts
  <2>2. QED BY <1>1, <2>1, TextRoundTrip DEF Or
<1>4. LoadedCandidate(c) = made(given) BY <1>2 DEF LoadedCandidate, CandidateToJson, CandidateFromJson
<1> HIDE DEF given
<1>5. LoadedCandidate(made(given)) = made(given)
  BY <1>2, <1>3 DEF LoadedCandidate, CandidateToJson, CandidateFromJson
<1>6. made(given) \in Candidates BY <1>1, <1>3 DEF Candidates, Or
<1>7. QED BY <1>4, <1>5, <1>6

LEMMA StyleRoundTrip ==
    ASSUME NEW s \in BallotStyles PROVE StyleFromJson(StyleToJson(s)) = s
<1>1. /\ s.unitIds \in Texts /\ s.partyIds \in Texts /\ s.imageUri \in Strings
      /\ s = [id |-> s.id, unitIds |-> s.unitIds, partyIds |-> s.partyIds, imageUri |-> s.imageUri]
  BY DEF BallotStyles
<1>2. /\ Read(OrNull(s.unitIds, <<>>), <<>>) = s.unitIds
      /\ Read(OrNull(s.partyIds, <<>>), <<>>) = s.partyIds
      /\ Read(OrNull(s.imageUri, ""), "") = s.imageUri
  BY <1>1, ReadOrNull
<1>3. QED BY <1>1, <1>2 DEF StyleToJson, StyleFromJson

LEMMA StylesRoundTrip ==
    ASSUME NEW s \in Seq(BallotStyles) PROVE Each(StyleFromJson, Each(StyleToJson, s)) = s
<1>1. s = [i \in DOMAIN s |-> s[i]] OBVIOUS
<1>2. \A i \in DOMAIN s : StyleFromJson(StyleToJson(s[i])) = s[i] BY StyleRoundTrip
<1>3. QED BY <1>1, <1>2 DEF Each

\* Selections and placeholders keep everything.
LEMMA SelectionsRoundTrip ==
    ASSUME NEW n \in Nat, NEW s, s = [i \in 1..n |-> s[i]],
           \A i \in 1..n : s[i] = [id |-> s[i].id, candidateId |-> s[i].candidateId, order |-> s[i].order]
    PROVE  Each(SelectionFromJson, Each(SelectionToJson, s)) = s
<1>1. ASSUME NEW i \in 1..n PROVE SelectionFromJson(SelectionToJson(s[i])) = s[i]
  BY DEF SelectionToJson, SelectionFromJson
<1>2. Each(SelectionFromJson, Each(SelectionToJson, s))
        = [i \in 1..n |-> SelectionFromJson(SelectionToJson(s[i]))] BY DEF Each
<1>3. QED BY <1>1, <1>2

LEMMA SelectionsOfContest ==
    ASSUME NEW s \in Seq(Selections)
    PROVE  /\ Orders(s) /\ InOrder(s) \in Seq(Selections)
           /\ Each(SelectionFromJson, Each(SelectionToJson, InOrder(s))) = InOrder(s)
<1>1. Orders(s)
  <2>1. \A x \in Selections : x.order \in Nat BY DEF Selections
  <2>2. \A i \in DOMAIN s : s[i] \in Selections OBVIOUS
  <2>3. QED BY <2>1, <2>2 DEF Orders
<1>2. InOrder(s) \in Seq(Selections) BY <1>1, InOrderSeq
<1> DEFINE t == InOrder(s)
           n == Len(t)
<1>3. /\ n \in Nat /\ t = [i \in 1..n |-> t[i]] /\ \A i \in 1..n : t[i] \in Selections BY <1>2
<1>4. \A x \in Selections : x = [id |-> x.id, candidateId |-> x.candidateId, order |-> x.order]
  BY DEF Selections
<1> HIDE DEF t, n
<1>5. Each(SelectionFromJson, Each(SelectionToJson, t)) = t BY <1>3, <1>4, SelectionsRoundTrip
<1>6. QED BY <1>1, <1>2, <1>5 DEF t

LoadedContest(c) == ContestFromJson(ContestToJson(c))
VotesAllowedOnceLoaded(c) == IF c.allowed = 0 THEN DefaultVotes(c.variation, c.elected) ELSE c.allowed

LEMMA DefaultVotesType ==
    \A c \in Contests : /\ DefaultVotes(c.variation, c.elected) \in {0, c.elected}
                        /\ DefaultVotes(c.variation, c.elected) \in Nat
  BY DEF DefaultVotes, Contests

\* A contest comes back with its selections in order, no primary parties, and
\* the default number of votes where it had none.
LEMMA ContestRoundTrip ==
    ASSUME NEW c \in Contests
    PROVE  LoadedContest(c) =
             [id |-> c.id, district |-> c.district, order |-> c.order, variation |-> c.variation,
              elected |-> c.elected, allowed |-> VotesAllowedOnceLoaded(c),
              title |-> c.title, subtitle |-> c.subtitle,
              selections |-> InOrder(c.selections), primaryPartyIds |-> <<>>]
<1> DEFINE j == ContestToJson(c)
           default == DefaultVotes(c.variation, c.elected)
<1>1. /\ c.allowed \in Nat /\ c.title \in Or(Texts) /\ c.subtitle \in Or(Texts)
      /\ c.selections \in Seq(Selections)
  BY DEF Contests
<1>2. /\ j.object_id = c.id /\ j.electoral_district_id = c.district /\ j.sequence_order = c.order
      /\ j.vote_variation = c.variation /\ j.number_elected = c.elected
      /\ j.votes_allowed = OrNull(c.allowed, 0)
      /\ j.ballot_title = TextToJson(c.title) /\ j.ballot_subtitle = TextToJson(c.subtitle)
      /\ j.ballot_selections = Each(SelectionToJson, InOrder(c.selections))
  BY DEF ContestToJson
<1> HIDE DEF j
<1>3. Read(OrNull(c.allowed, 0), default) = VotesAllowedOnceLoaded(c)
  BY <1>1, NullIsNothingElse DEF Read, OrNull, VotesAllowedOnceLoaded
<1>4. \A t \in Or(Texts) : (IF TextToJson(t) # NULL THEN TextFromJson(TextToJson(t)) ELSE NULL) = t
  BY TextRoundTrip DEF Or
<1>5. Each(SelectionFromJson, Each(SelectionToJson, InOrder(c.selections))) = InOrder(c.selections)
  BY <1>1, SelectionsOfContest
<1>6. VotesAllowedFromJson(j) = VotesAllowedOnceLoaded(c) BY <1>2, <1>3 DEF VotesAllowedFromJson
<1>7. /\ (IF j.ballot_title # NULL THEN TextFromJson(j.ballot_title) ELSE NULL) = c.title
      /\ (IF j.ballot_subtitle # NULL THEN TextFromJson(j.ballot_subtitle) ELSE NULL) = c.subtitle
  BY <1>1, <1>2, <1>4
<1>8. Each(SelectionFromJson, j.ballot_selections) = InOrder(c.selections) BY <1>2, <1>5
<1>9. ContestFromJson(j) =
        [id |-> c.id, district |-> c.district, order |-> c.order, variation |-> c.variation,
         elected |-> c.elected, allowed |-> VotesAllowedOnceLoaded(c),
         title |-> c.title, subtitle |-> c.subtitle,
         selections |-> InOrder(c.selections), primaryPartyIds |-> <<>>]
  BY <1>2, <1>6, <1>7, <1>8 DEF ContestFromJson
<1>10. QED BY <1>9 DEF LoadedContest, j

LEMMA LoadedContestType ==
    ASSUME NEW c \in Contests
    PROVE  /\ LoadedContest(c) \in Contests
           /\ LoadedContest(LoadedContest(c)) = LoadedContest(c)
<1> DEFINE l == LoadedContest(c)
<1>1. /\ c.id \in Strings /\ c.district \in Strings /\ c.order \in Nat /\ c.variation \in Strings
      /\ c.elected \in Nat /\ c.allowed \in Nat /\ c.title \in Or(Texts) /\ c.subtitle \in Or(Texts)
      /\ c.selections \in Seq(Selections)
  BY DEF Contests
<1>2. VotesAllowedOnceLoaded(c) \in Nat BY <1>1, DefaultVotesType DEF VotesAllowedOnceLoaded
<1>3. InOrder(c.selections) \in Seq(Selections) BY <1>1, SelectionsOfContest
<1>4. <<>> \in Texts BY DEF Texts
<1>5. l \in Contests BY <1>1, <1>2, <1>3, <1>4, ContestRoundTrip DEF Contests
<1>6. InOrder(InOrder(c.selections)) = InOrder(c.selections)
  BY <1>1, SelectionsOfContest, InOrderSeq
<1>7. VotesAllowedOnceLoaded(l) = l.allowed
  <2>1. l.variation = c.variation /\ l.elected = c.elected /\ l.allowed = VotesAllowedOnceLoaded(c)
    BY ContestRoundTrip
  <2>2. QED BY <2>1 DEF VotesAllowedOnceLoaded
<1>8. l = [id |-> c.id, district |-> c.district, order |-> c.order, variation |-> c.variation,
           elected |-> c.elected, allowed |-> VotesAllowedOnceLoaded(c),
           title |-> c.title, subtitle |-> c.subtitle,
           selections |-> InOrder(c.selections), primaryPartyIds |-> <<>>]
  BY ContestRoundTrip
<1> HIDE DEF l
<1>9. LoadedContest(l) =
             [id |-> l.id, district |-> l.district, order |-> l.order, variation |-> l.variation,
              elected |-> l.elected, allowed |-> VotesAllowedOnceLoaded(l),
              title |-> l.title, subtitle |-> l.subtitle,
              selections |-> InOrder(l.selections), primaryPartyIds |-> <<>>]
  BY <1>5, ContestRoundTrip
<1>10. LoadedContest(l) = l BY <1>6, <1>7, <1>8, <1>9
<1>11. QED BY <1>5, <1>10 DEF l

\* The hashes of two lists of one length are equal only if the parts' are.
LEMMA ListHash ==
    ASSUME NEW n \in Nat, NEW s, NEW t, DOMAIN s = 1..n, DOMAIN t = 1..n, HashAll(s) = HashAll(t)
    PROVE  \A i \in 1..n : s[i] = t[i]
<1>1. CASE n = 0 BY <1>1
<1>2. CASE n # 0
  <2>1. 1 \in DOMAIN s /\ 1 \in DOMAIN t BY <1>2
  <2>2. s # <<>> /\ t # <<>> BY <2>1
  <2>3. HashAll(s) = s /\ HashAll(t) = t BY <2>2 DEF HashAll, OrNull
  <2>4. QED BY <2>3
<1>3. QED BY <1>1, <1>2

\* Hashing the selections keeps their orders apart.
LEMMA SelectionHashes ==
    ASSUME NEW s \in Seq(Selections),
           HashAll(Each(HashSelection, InOrder(s))) = HashAll(Each(HashSelection, s))
    PROVE  InOrder(s) = s
<1>1. Orders(s) /\ InOrder(s) \in Seq(Selections) /\ Len(InOrder(s)) = Len(s)
  BY SelectionsOfContest, InOrderSeq
<1> DEFINE t == InOrder(s)
           hs == Each(HashSelection, s)
           ht == Each(HashSelection, t)
           n == Len(s)
<1>2. hs = [i \in 1..n |-> HashSelection(s[i])] /\ ht = [i \in 1..n |-> HashSelection(t[i])]
  BY <1>1 DEF Each
<1>3. \A i \in 1..n : hs[i] = ht[i]
  <2>1. DOMAIN hs = 1..n /\ DOMAIN ht = 1..n /\ n \in Nat BY <1>2
  <2>2. HashAll(hs) = HashAll(ht) OBVIOUS
  <2> HIDE DEF hs, ht, n
  <2>3. QED BY <2>1, <2>2, ListHash
<1>4. ASSUME NEW i \in 1..n PROVE t[i].order = s[i].order
  <2>1. s[i].order \in Nat /\ t[i].order \in Nat
    <3>1. \A x \in Selections : x.order \in Nat BY DEF Selections
    <3>2. s[i] \in Selections /\ t[i] \in Selections BY <1>1
    <3>3. QED BY <3>1, <3>2
  <2>2. HashSelection(s[i]) = HashSelection(t[i]) BY <1>2, <1>3
  <2>3. OrNull(s[i].order, 0) = OrNull(t[i].order, 0) BY <2>2 DEF HashSelection
  <2>4. QED BY <2>1, <2>3, NullIsNothingElse DEF OrNull
<1>5. QED BY <1>1, <1>4, SameOrders

\* The hash of a contest changes exactly if its selections are out of order, or
\* it has no number of votes and the loaded one has.
LEMMA ContestHash ==
    ASSUME NEW c \in Contests
    PROVE  HashContest(LoadedContest(c)) = HashContest(c)
             <=> /\ InOrder(c.selections) = c.selections
                 /\ c.allowed = 0 => DefaultVotes(c.variation, c.elected) = 0
<1> DEFINE l == LoadedContest(c)
           default == DefaultVotes(c.variation, c.elected)
<1>1. c.allowed \in Nat /\ c.selections \in Seq(Selections) BY DEF Contests
<1>2. /\ l.id = c.id /\ l.order = c.order /\ l.district = c.district /\ l.variation = c.variation
      /\ l.title = c.title /\ l.subtitle = c.subtitle /\ l.elected = c.elected
      /\ l.allowed = VotesAllowedOnceLoaded(c) /\ l.selections = InOrder(c.selections)
  BY ContestRoundTrip
<1> HIDE DEF l
<1>3. HashContest(l) = HashContest(c)
        <=> /\ OrNull(l.allowed, 0) = OrNull(c.allowed, 0)
            /\ HashAll(Each(HashSelection, l.selections)) = HashAll(Each(HashSelection, c.selections))
  BY <1>2 DEF HashContest
<1>4. OrNull(l.allowed, 0) = OrNull(c.allowed, 0) <=> (c.allowed = 0 => default = 0)
  <2>1. default \in Nat BY DefaultVotesType
  <2>2. QED BY <1>1, <1>2, <2>1, NullIsNothingElse DEF OrNull, VotesAllowedOnceLoaded
<1>5. HashAll(Each(HashSelection, l.selections)) = HashAll(Each(HashSelection, c.selections))
        <=> InOrder(c.selections) = c.selections
  BY <1>1, <1>2, SelectionHashes
<1>6. QED BY <1>3, <1>4, <1>5 DEF l

-----------------------------------------------------------------------------
(* Saving and loading a manifest.                                            *)

Loaded(m) == ManifestFromJson(ManifestToJson(m))

LEMMA ManifestRoundTrip ==
    ASSUME NEW m \in AllManifests
    PROVE  Loaded(m) =
             [scope |-> m.scope, units |-> Each(LoadedUnit, m.units),
              parties |-> Each(LoadedParty, m.parties),
              candidates |-> Each(LoadedCandidate, m.candidates),
              contests |-> Each(LoadedContest, InOrder(m.contests)), styles |-> m.styles,
              name |-> m.name,
              contact |-> IF m.name = NULL THEN NULL
                          ELSE IF m.contact # NULL THEN m.contact ELSE NoContact]
<1> DEFINE j == ManifestToJson(m)
<1>1. /\ m.name \in Or(Texts) /\ m.contact \in Or(Contacts) /\ m.styles \in Seq(BallotStyles)
  BY DEF AllManifests
<1>2. /\ j.election_scope_id = m.scope /\ j.geopolitical_units = Each(UnitToJson, m.units)
      /\ j.parties = Each(PartyToJson, m.parties)
      /\ j.candidates = Each(CandidateToJson, m.candidates)
      /\ j.contests = Each(ContestToJson, InOrder(m.contests))
      /\ j.ballot_styles = Each(StyleToJson, m.styles) /\ j.name = TextToJson(m.name)
      /\ j.contact_information = IF m.contact # NULL THEN ContactToJson(m.contact) ELSE NULL
  BY DEF ManifestToJson, ContestsToJson
<1> HIDE DEF j
<1>3. Each(UnitFromJson, Each(UnitToJson, m.units)) = Each(LoadedUnit, m.units)
  BY DEF Each, LoadedUnit
<1>4. Each(PartyFromJson, Each(PartyToJson, m.parties)) = Each(LoadedParty, m.parties)
  BY DEF Each, LoadedParty
<1>5. Each(CandidateFromJson, Each(CandidateToJson, m.candidates)) = Each(LoadedCandidate, m.candidates)
  BY DEF Each, LoadedCandidate
<1>6. Each(ContestFromJson, Each(ContestToJson, InOrder(m.contests)))
        = Each(LoadedContest, InOrder(m.contests))
  BY DEF Each, LoadedContest
<1>7. Each(StyleFromJson, Each(StyleToJson, m.styles)) = m.styles BY <1>1, StylesRoundTrip
<1>8. (IF j.name # NULL THEN TextFromJson(j.name) ELSE NULL) = m.name
  BY <1>1, <1>2, TextRoundTrip DEF Or
<1>9. ManifestContact(j) = IF m.name = NULL THEN NULL
                           ELSE IF m.contact # NULL THEN m.contact ELSE NoContact
  <2>1. j.name = NULL <=> m.name = NULL BY <1>1, <1>2, TextRoundTrip DEF Or
  <2>2. CASE m.contact = NULL BY <1>2, <2>1, <2>2 DEF ManifestContact, ContactFromJson
  <2>3. CASE m.contact # NULL
    <3>1. m.contact \in Contacts BY <1>1, <2>3 DEF Or
    <3>2. ContactFromJson(j.contact_information) = m.contact BY <1>2, <2>3, <3>1, ContactRoundTrip
    <3>3. QED BY <2>1, <2>3, <3>2 DEF ManifestContact
  <2>4. QED BY <2>2, <2>3
<1>10. ManifestFromJson(j) =
             [scope |-> m.scope, units |-> Each(LoadedUnit, m.units),
              parties |-> Each(LoadedParty, m.parties),
              candidates |-> Each(LoadedCandidate, m.candidates),
              contests |-> Each(LoadedContest, InOrder(m.contests)), styles |-> m.styles,
              name |-> m.name,
              contact |-> IF m.name = NULL THEN NULL
                          ELSE IF m.contact # NULL THEN m.contact ELSE NoContact]
  BY <1>2, <1>3, <1>4, <1>5, <1>6, <1>7, <1>8, <1>9 DEF ManifestFromJson
<1>11. QED BY <1>10 DEF Loaded, j

\* The contests of a loaded manifest, one by one.
LEMMA LoadedContests ==
    ASSUME NEW m \in AllManifests
    PROVE  /\ Orders(m.contests) /\ InOrder(m.contests) \in Seq(Contests)
           /\ Len(InOrder(m.contests)) = Len(m.contests)
           /\ ToSet(InOrder(m.contests)) = ToSet(m.contests)
           /\ Loaded(m).contests \in Seq(Contests)
           /\ Len(Loaded(m).contests) = Len(m.contests)
           /\ \A i \in 1..Len(m.contests) :
                Loaded(m).contests[i] = LoadedContest(InOrder(m.contests)[i])
           /\ Orders(Loaded(m).contests)
           /\ InOrder(Loaded(m).contests) = Loaded(m).contests
<1> DEFINE s == InOrder(m.contests)
           n == Len(m.contests)
           l == Loaded(m).contests
<1>1. m.contests \in Seq(Contests) /\ n \in Nat /\ DOMAIN m.contests = 1..n BY DEF AllManifests
<1>2. \A c \in Contests : c.order \in Nat BY DEF Contests
<1>3. Orders(m.contests)
  <2>1. \A i \in 1..n : m.contests[i] \in Contests BY <1>1
  <2>2. QED BY <1>1, <1>2, <2>1 DEF Orders
<1>4. /\ s \in Seq(Contests) /\ Len(s) = n /\ ToSet(s) = ToSet(m.contests) /\ InOrder(s) = s
      /\ DOMAIN s = 1..n
  BY <1>1, <1>3, InOrderSeq
<1>5. l = [i \in 1..n |-> LoadedContest(s[i])] BY <1>4, ManifestRoundTrip DEF Each
<1>6. Ascending(s) BY <1>1, <1>3, InOrderAscending
<1> HIDE DEF s, n, l
<1>7. \A i \in 1..n : s[i] \in Contests /\ LoadedContest(s[i]) \in Contests
                      /\ LoadedContest(s[i]).order = s[i].order
  <2> SUFFICES ASSUME NEW i \in 1..n
               PROVE  s[i] \in Contests /\ LoadedContest(s[i]) \in Contests
                      /\ LoadedContest(s[i]).order = s[i].order
    OBVIOUS
  <2>1. s[i] \in Contests BY <1>4
  <2>2. QED BY <2>1, LoadedContestType, ContestRoundTrip
<1>8. l \in Seq(Contests) /\ Len(l) = n /\ l = [i \in 1..n |-> l[i]] BY <1>1, <1>5, <1>7
<1>9. Orders(l) BY <1>2, <1>5, <1>7 DEF Orders
<1>10. Ascending(l) BY <1>4, <1>5, <1>6, <1>7 DEF Ascending
<1>11. InOrder(l) = l BY <1>1, <1>8, <1>9, <1>10, AscendingInOrder
<1>12. QED BY <1>3, <1>4, <1>5, <1>8, <1>9, <1>11 DEF s, n, l

\* What is loaded is a manifest again, and loading it once more changes nothing.
LEMMA LoadedType ==
    ASSUME NEW m \in AllManifests
    PROVE  Loaded(m) \in AllManifests /\ Loaded(Loaded(m)) = Loaded(m)
<1> DEFINE l == Loaded(m)
<1>1. /\ m.scope \in Strings /\ m.units \in Seq(Units) /\ m.parties \in Seq(Parties)
      /\ m.candidates \in Seq(Candidates) /\ m.styles \in Seq(BallotStyles)
      /\ m.name \in Or(Texts) /\ m.contact \in Or(Contacts)
  BY DEF AllManifests
<1>2. /\ l = [scope |-> m.scope, units |-> Each(LoadedUnit, m.units),
              parties |-> Each(LoadedParty, m.parties),
              candidates |-> Each(LoadedCandidate, m.candidates),
              contests |-> Each(LoadedContest, InOrder(m.contests)), styles |-> m.styles,
              name |-> m.name,
              contact |-> IF m.name = NULL THEN NULL
                          ELSE IF m.contact # NULL THEN m.contact ELSE NoContact]
  BY ManifestRoundTrip
<1>3. l.contests \in Seq(Contests) /\ InOrder(l.contests) = l.contests BY LoadedContests
<1>4. Each(LoadedUnit, m.units) \in Seq(Units)
      /\ Each(LoadedUnit, Each(LoadedUnit, m.units)) = Each(LoadedUnit, m.units)
  <2>1. \A i \in DOMAIN m.units : m.units[i] \in Units BY <1>1
  <2>2. \A i \in DOMAIN m.units : LoadedUnit(m.units[i]) \in Units
                                  /\ LoadedUnit(LoadedUnit(m.units[i])) = LoadedUnit(m.units[i])
    BY <2>1, UnitRoundTrip
  <2>3. QED BY <1>1, <2>2 DEF Each
<1>5. Each(LoadedParty, m.parties) \in Seq(Parties)
      /\ Each(LoadedParty, Each(LoadedParty, m.parties)) = Each(LoadedParty, m.parties)
  <2>1. \A i \in DOMAIN m.parties : m.parties[i] \in Parties BY <1>1
  <2>2. \A i \in DOMAIN m.parties : LoadedParty(m.parties[i]) \in Parties
                                    /\ LoadedParty(LoadedParty(m.parties[i])) = LoadedParty(m.parties[i])
    BY <2>1, PartyRoundTrip
  <2>3. QED BY <1>1, <2>2 DEF Each
<1>6. Each(LoadedCandidate, m.candidates) \in Seq(Candidates)
      /\ Each(LoadedCandidate, Each(LoadedCandidate, m.candidates)) = Each(LoadedCandidate, m.candidates)
  <2>1. \A i \in DOMAIN m.candidates : m.candidates[i] \in Candidates BY <1>1
  <2>2. \A i \in DOMAIN m.candidates :
          LoadedCandidate(m.candidates[i]) \in Candidates
          /\ LoadedCandidate(LoadedCandidate(m.candidates[i])) = LoadedCandidate(m.candidates[i])
    BY <2>1, CandidateRoundTrip
  <2>3. Each(LoadedCandidate, m.candidates) \in Seq(Candidates)
    <3>1. Each(LoadedCandidate, m.candidates)
            = [i \in 1..Len(m.candidates) |-> LoadedCandidate(m.candidates[i])]
      BY <1>1 DEF Each
    <3>2. QED BY <1>1, <2>2, <3>1
  <2>4. Each(LoadedCandidate, Each(LoadedCandidate, m.candidates)) = Each(LoadedCandidate, m.candidates)
    BY <2>2 DEF Each
  <2>5. QED BY <2>3, <2>4
<1>7. Each(LoadedContest, l.contests) = l.contests
  <2>1. l.contests = [i \in DOMAIN l.contests |-> l.contests[i]] BY <1>3
  <2>2. \A i \in DOMAIN l.contests : LoadedContest(l.contests[i]) = l.contests[i]
    <3> SUFFICES ASSUME NEW i \in DOMAIN l.contests PROVE LoadedContest(l.contests[i]) = l.contests[i]
      OBVIOUS
    <3>1. i \in 1..Len(m.contests) /\ InOrder(m.contests)[i] \in Contests BY LoadedContests
    <3>2. l.contests[i] = LoadedContest(InOrder(m.contests)[i]) BY <3>1, LoadedContests
    <3>3. QED BY <3>1, <3>2, LoadedContestType
  <2>3. QED BY <2>1, <2>2 DEF Each
<1>8. NoContact \in Contacts /\ NoContact # NULL
  <2>1. <<>> \in Texts BY DEF Texts
  <2>2. NoContact \in Contacts BY <2>1 DEF NoContact, Contacts, Strings
  <2>3. QED BY <2>2, NullIsNothingElse
<1> HIDE DEF l
<1>9. l \in AllManifests
  <2>1. /\ l.scope \in Strings /\ l.units \in Seq(Units) /\ l.parties \in Seq(Parties)
        /\ l.candidates \in Seq(Candidates) /\ l.contests \in Seq(Contests)
        /\ l.styles \in Seq(BallotStyles) /\ l.name \in Or(Texts)
    BY <1>1, <1>2, <1>3, <1>4, <1>5, <1>6
  <2>2. l.contact \in Or(Contacts) BY <1>1, <1>2, <1>8 DEF Or
  <2>3. l = [scope |-> l.scope, units |-> l.units, parties |-> l.parties, candidates |-> l.candidates,
             contests |-> l.contests, styles |-> l.styles, name |-> l.name, contact |-> l.contact]
    BY <1>2
  <2>4. QED BY <2>1, <2>2, <2>3 DEF AllManifests
<1>10. Loaded(l) =
         [scope |-> l.scope, units |-> Each(LoadedUnit, l.units),
          parties |-> Each(LoadedParty, l.parties),
          candidates |-> Each(LoadedCandidate, l.candidates),
          contests |-> Each(LoadedContest, InOrder(l.contests)), styles |-> l.styles,
          name |-> l.name,
          contact |-> IF l.name = NULL THEN NULL
                      ELSE IF l.contact # NULL THEN l.contact ELSE NoContact]
  BY <1>9, ManifestRoundTrip
<1>11. Loaded(l) = l
  <2>1. /\ Each(LoadedUnit, l.units) = l.units /\ Each(LoadedParty, l.parties) = l.parties
        /\ Each(LoadedCandidate, l.candidates) = l.candidates
    BY <1>2, <1>4, <1>5, <1>6
  <2>2. Each(LoadedContest, InOrder(l.contests)) = l.contests BY <1>3, <1>7
  <2>3. (IF l.name = NULL THEN NULL ELSE IF l.contact # NULL THEN l.contact ELSE NoContact) = l.contact
    BY <1>2, <1>8
  <2>4. l = [scope |-> l.scope, units |-> l.units, parties |-> l.parties, candidates |-> l.candidates,
             contests |-> l.contests, styles |-> l.styles, name |-> l.name, contact |-> l.contact]
    BY <1>2
  <2>5. QED BY <1>10, <2>1, <2>2, <2>3, <2>4
<1>12. QED BY <1>9, <1>11 DEF l

\* The hashes of the units, and of the parties, before and after.
LEMMA UnitHashes ==
    ASSUME NEW m \in AllManifests
    PROVE  HashAll(Each(HashUnit, Loaded(m).units)) = HashAll(Each(HashUnit, m.units))
             <=> \A u \in ToSet(m.units) : u.contact # NULL => ContactToJson(u.contact) # NULL
<1> DEFINE n == Len(m.units)
           hs == Each(HashUnit, Each(LoadedUnit, m.units))
           ht == Each(HashUnit, m.units)
           keeps(u) == u.contact # NULL => ContactToJson(u.contact) # NULL
<1>1. m.units \in Seq(Units) /\ n \in Nat /\ DOMAIN m.units = 1..n BY DEF AllManifests
<1>2. Loaded(m).units = Each(LoadedUnit, m.units) BY ManifestRoundTrip
<1>3. /\ hs = [i \in 1..n |-> HashUnit(LoadedUnit(m.units[i]))]
      /\ ht = [i \in 1..n |-> HashUnit(m.units[i])]
  BY <1>1 DEF Each
<1>4. \A i \in 1..n : HashUnit(LoadedUnit(m.units[i])) = HashUnit(m.units[i]) <=> keeps(m.units[i])
  <2>1. \A i \in 1..n : m.units[i] \in Units BY <1>1
  <2>2. QED BY <2>1, UnitRoundTrip
<1>5. (\A u \in ToSet(m.units) : keeps(u)) <=> \A i \in 1..n : keeps(m.units[i]) BY <1>1 DEF ToSet
<1> HIDE DEF keeps, hs, ht, n
<1>6. ASSUME HashAll(hs) = HashAll(ht) PROVE \A i \in 1..n : hs[i] = ht[i]
  <2>1. DOMAIN hs = 1..n /\ DOMAIN ht = 1..n BY <1>3
  <2>2. QED BY <1>1, <1>6, <2>1, ListHash
<1>7. ASSUME \A i \in 1..n : hs[i] = ht[i] PROVE hs = ht BY <1>3, <1>7
<1>8. (\A i \in 1..n : hs[i] = ht[i]) <=> \A i \in 1..n : keeps(m.units[i]) BY <1>3, <1>4
<1>9. HashAll(hs) = HashAll(ht) <=> \A u \in ToSet(m.units) : keeps(u) BY <1>5, <1>6, <1>7, <1>8
<1>10. QED BY <1>2, <1>9 DEF hs, ht, keeps

LEMMA PartyHashes ==
    ASSUME NEW m \in AllManifests
    PROVE  HashAll(Each(HashParty, Loaded(m).parties)) = HashAll(Each(HashParty, m.parties))
             <=> \A p \in ToSet(m.parties) : p.name # NULL
<1> DEFINE n == Len(m.parties)
           hs == Each(HashParty, Each(LoadedParty, m.parties))
           ht == Each(HashParty, m.parties)
<1>1. m.parties \in Seq(Parties) /\ n \in Nat /\ DOMAIN m.parties = 1..n BY DEF AllManifests
<1>2. Loaded(m).parties = Each(LoadedParty, m.parties) BY ManifestRoundTrip
<1>3. /\ hs = [i \in 1..n |-> HashParty(LoadedParty(m.parties[i]))]
      /\ ht = [i \in 1..n |-> HashParty(m.parties[i])]
  BY <1>1 DEF Each
<1>4. \A i \in 1..n : HashParty(LoadedParty(m.parties[i])) = HashParty(m.parties[i])
                        <=> m.parties[i].name # NULL
  <2>1. \A i \in 1..n : m.parties[i] \in Parties BY <1>1
  <2>2. QED BY <2>1, PartyRoundTrip
<1>5. (\A p \in ToSet(m.parties) : p.name # NULL) <=> \A i \in 1..n : m.parties[i].name # NULL
  BY <1>1 DEF ToSet
<1> HIDE DEF hs, ht, n
<1>6. ASSUME HashAll(hs) = HashAll(ht) PROVE \A i \in 1..n : hs[i] = ht[i]
  <2>1. DOMAIN hs = 1..n /\ DOMAIN ht = 1..n BY <1>3
  <2>2. QED BY <1>1, <1>6, <2>1, ListHash
<1>7. ASSUME \A i \in 1..n : hs[i] = ht[i] PROVE hs = ht BY <1>3, <1>7
<1>8. (\A i \in 1..n : hs[i] = ht[i]) <=> \A i \in 1..n : m.parties[i].name # NULL BY <1>3, <1>4
<1>9. HashAll(hs) = HashAll(ht) <=> \A p \in ToSet(m.parties) : p.name # NULL
  BY <1>5, <1>6, <1>7, <1>8
<1>10. QED BY <1>2, <1>9 DEF hs, ht

\* The hash of the contests stays if they and their selections are in order, and
\* no contest gets a number of votes it did not have; and only then.
LEMMA ContestHashes ==
    ASSUME NEW m \in AllManifests
    PROVE  HashAll(Each(HashContest, Loaded(m).contests)) = HashAll(Each(HashContest, m.contests))
             <=> /\ InOrder(m.contests) = m.contests
                 /\ \A c \in ToSet(m.contests) :
                      /\ InOrder(c.selections) = c.selections
                      /\ c.allowed = 0 => DefaultVotes(c.variation, c.elected) = 0
<1> DEFINE n == Len(m.contests)
           s == InOrder(m.contests)
           l == Loaded(m).contests
           hs == Each(HashContest, l)
           ht == Each(HashContest, m.contests)
           keeps(c) == /\ InOrder(c.selections) = c.selections
                       /\ c.allowed = 0 => DefaultVotes(c.variation, c.elected) = 0
<1>1. m.contests \in Seq(Contests) /\ n \in Nat /\ DOMAIN m.contests = 1..n BY DEF AllManifests
<1>2. /\ Orders(m.contests) /\ s \in Seq(Contests) /\ Len(s) = n
      /\ l \in Seq(Contests) /\ Len(l) = n
      /\ \A i \in 1..n : l[i] = LoadedContest(s[i])
  BY LoadedContests
<1>3. /\ hs = [i \in 1..n |-> HashContest(l[i])]
      /\ ht = [i \in 1..n |-> HashContest(m.contests[i])]
  BY <1>1, <1>2 DEF Each
<1>4. (\A c \in ToSet(m.contests) : keeps(c)) <=> \A i \in 1..n : keeps(m.contests[i])
  BY <1>1 DEF ToSet
<1>5. \A i \in 1..n : m.contests[i] \in Contests /\ s[i] \in Contests BY <1>1, <1>2
<1>6. \A c \in Contests : HashContest(LoadedContest(c)) = HashContest(c) <=> keeps(c) BY ContestHash
<1> HIDE DEF keeps, hs, ht, n, s, l
<1>7. ASSUME HashAll(hs) = HashAll(ht)
      PROVE  s = m.contests /\ \A i \in 1..n : keeps(m.contests[i])
  <2>1. DOMAIN hs = 1..n /\ DOMAIN ht = 1..n BY <1>3
  <2>2. \A i \in 1..n : hs[i] = ht[i] BY <1>1, <1>7, <2>1, ListHash
  <2>3. \A i \in 1..n : HashContest(LoadedContest(s[i])) = HashContest(m.contests[i])
    BY <1>2, <1>3, <2>2
  <2>4. ASSUME NEW i \in 1..n PROVE s[i].order = m.contests[i].order
    <3>1. s[i] \in Contests /\ m.contests[i] \in Contests BY <1>5
    <3>2. s[i].order \in Nat /\ m.contests[i].order \in Nat BY <3>1 DEF Contests
    <3>3. LoadedContest(s[i]).order = s[i].order BY <3>1, ContestRoundTrip
    <3>4. OrNull(LoadedContest(s[i]).order, 0) = OrNull(m.contests[i].order, 0)
      BY <2>3 DEF HashContest
    <3>5. QED BY <3>2, <3>3, <3>4, NullIsNothingElse DEF OrNull
  <2>5. s = m.contests BY <1>1, <1>2, <2>4, SameOrders DEF s, n
  <2>6. QED BY <1>5, <1>6, <2>3, <2>5
<1>8. ASSUME s = m.contests, \A i \in 1..n : keeps(m.contests[i])
      PROVE  hs = ht
  <2>1. \A i \in 1..n : HashContest(l[i]) = HashContest(m.contests[i]) BY <1>2, <1>5, <1>6, <1>8
  <2>2. QED BY <1>3, <2>1
<1>9. QED BY <1>4, <1>7, <1>8 DEF keeps, hs, ht, s, l

\* The hash of a manifest that can be hashed stays if it is canonical, and only then.
LEMMA ManifestHash ==
    ASSUME NEW m \in AllManifests, ~HashReadsNull(m)
    PROVE  HashManifest(Loaded(m)) = HashManifest(m) <=> Canonical(m)
<1> DEFINE l == Loaded(m)
<1>1. /\ l.scope = m.scope /\ l.name = m.name /\ l.styles = m.styles
      /\ m.name # NULL => l.contact = m.contact
  BY ManifestRoundTrip DEF HashReadsNull
<1>2. HashAll(Each(HashUnit, l.units)) = HashAll(Each(HashUnit, m.units))
        <=> \A u \in ToSet(m.units) : u.contact # NULL => ContactToJson(u.contact) # NULL
  BY UnitHashes
<1>3. HashAll(Each(HashParty, l.parties)) = HashAll(Each(HashParty, m.parties))
        <=> \A p \in ToSet(m.parties) : p.name # NULL
  BY PartyHashes
<1>4. HashAll(Each(HashContest, l.contests)) = HashAll(Each(HashContest, m.contests))
        <=> /\ InOrder(m.contests) = m.contests
            /\ \A c \in ToSet(m.contests) :
                 /\ InOrder(c.selections) = c.selections
                 /\ c.allowed = 0 => DefaultVotes(c.variation, c.elected) = 0
  BY ContestHashes
<1> HIDE DEF l
<1>5. HashManifest(l) = HashManifest(m)
        <=> /\ HashAll(Each(HashUnit, l.units)) = HashAll(Each(HashUnit, m.units))
            /\ HashAll(Each(HashParty, l.parties)) = HashAll(Each(HashParty, m.parties))
            /\ HashAll(Each(HashContest, l.contests)) = HashAll(Each(HashContest, m.contests))
  BY <1>1 DEF HashManifest
<1>6. QED BY <1>2, <1>3, <1>4, <1>5 DEF Canonical, l

-----------------------------------------------------------------------------
(* The internal manifest.                                                    *)

\* A contest of an internal manifest, and the one it is a copy of.
CopyOf(w, c) ==
    /\ w.id = c.id /\ w.district = c.district /\ w.order = c.order
    /\ w.variation = c.variation /\ w.elected = c.elected /\ w.title = c.title
    /\ w.subtitle = IF c.title # NULL THEN c.subtitle ELSE NULL
    /\ w.allowed = IF c.title # NULL THEN c.allowed ELSE DefaultVotes(c.variation, c.elected)
    /\ w.selections \in {c.selections, InOrder(c.selections)}
    /\ w.placeholders = PlaceholdersOf(c)

\* What a manifest leaves in its internal manifest, saved and loaded or not.
MadeFrom(i, m) ==
    /\ i.manifestHash = HashManifest(m) /\ i.styles = m.styles
    /\ i.contests = [k \in 1..Len(m.contests) |-> i.contests[k]]
    /\ \A k \in 1..Len(m.contests) : CopyOf(i.contests[k], InOrder(m.contests)[k])

\* The search for the largest order is what its definition says.
LEMMA LargestOrderRecursion ==
    ASSUME NEW c \in Contests
    PROVE  \E f \in [0..Len(c.selections) -> Nat] :
             /\ f[0] = 0
             /\ \A i \in 1..Len(c.selections) :
                  f[i] = IF InOrder(c.selections)[i].order > f[i - 1]
                         THEN Narrow(InOrder(c.selections)[i].order) ELSE f[i - 1]
             /\ LargestOrder(c) = f[Len(c.selections)]
<1> DEFINE s == InOrder(c.selections)
           n == Len(s)
           at(i) == IF i \in 1..n THEN s[i].order ELSE 0
           next == [p \in Nat \X Nat |->
                      IF at(p[1] + 1) > p[2] THEN Narrow(at(p[1] + 1)) ELSE p[2]]
           max[i \in 0..n] == IF i = 0 THEN 0
                              ELSE IF s[i].order > max[i - 1] THEN Narrow(s[i].order) ELSE max[i - 1]
<1>1. c.selections \in Seq(Selections) BY DEF Contests
<1>2. s \in Seq(Selections) /\ n = Len(c.selections) /\ n \in Nat
  BY <1>1, SelectionsOfContest, InOrderSeq
<1>3. \A i \in 1..n : s[i].order \in Nat
  <2>1. \A i \in 1..n : s[i] \in Selections BY <1>2
  <2>2. \A x \in Selections : x.order \in Nat BY DEF Selections
  <2>3. QED BY <2>1, <2>2
<1>4. \A x \in Nat : Narrow(x) \in Nat
  <2>1. OrderLimit \in Nat \ {0} BY ManifestAssumption
  <2>2. \A x \in Nat : x % OrderLimit \in Nat BY <2>1
  <2>3. QED BY <2>2 DEF Narrow
<1>5. next \in [Nat \X Nat -> Nat]
  <2>1. \A i \in Nat : at(i + 1) \in Nat BY <1>3
  <2> HIDE DEF at
  <2>2. \A i, x \in Nat : (IF at(i + 1) > x THEN Narrow(at(i + 1)) ELSE x) \in Nat BY <1>4, <2>1
  <2>3. QED BY <2>2
<1> HIDE DEF next
<1>6. PICK f \in [0..n -> Nat] : IsRecursive(f, n, 0, next) BY <1>2, <1>5, RecursionExists
<1>7. f[0] = 0 BY <1>6 DEF IsRecursive
<1>8. \A i \in 1..n : f[i] = IF s[i].order > f[i - 1] THEN Narrow(s[i].order) ELSE f[i - 1]
  <2> SUFFICES ASSUME NEW i \in 1..n
               PROVE  f[i] = IF s[i].order > f[i - 1] THEN Narrow(s[i].order) ELSE f[i - 1]
    OBVIOUS
  <2>1. i - 1 \in 0..(n - 1) /\ i - 1 \in Nat /\ i - 1 + 1 = i /\ i - 1 \in 0..n BY <1>2
  <2>2. f[i] = next[<<i - 1, f[i - 1]>>] BY <1>6, <2>1 DEF IsRecursive
  <2>3. f[i - 1] \in Nat BY <2>1
  <2>4. at(i) = s[i].order OBVIOUS
  <2> HIDE DEF at
  <2>5. next[<<i - 1, f[i - 1]>>] = IF at(i) > f[i - 1] THEN Narrow(at(i)) ELSE f[i - 1]
    BY <2>1, <2>3 DEF next
  <2>6. QED BY <2>2, <2>4, <2>5
<1>9. f = [i \in 0..n |-> IF i = 0 THEN 0
                          ELSE IF s[i].order > f[i - 1] THEN Narrow(s[i].order) ELSE f[i - 1]]
  <2>1. \A i \in 0..n : i # 0 => i \in 1..n BY <1>2
  <2>2. QED BY <1>7, <1>8, <2>1
<1>10. max = [i \in 0..n |-> IF i = 0 THEN 0
                             ELSE IF s[i].order > max[i - 1] THEN Narrow(s[i].order) ELSE max[i - 1]]
  BY <1>9
<1>11. LargestOrder(c) = max[n] BY DEF LargestOrder
<1> HIDE DEF max, n, s
<1>12. max[0] = 0 BY <1>2, <1>10
<1>13. \A i \in 1..n : max[i] = IF s[i].order > max[i - 1] THEN Narrow(s[i].order) ELSE max[i - 1]
  <2>1. \A i \in 1..n : i \in 0..n /\ i # 0 BY <1>2
  <2>2. QED BY <1>10, <2>1
<1>14. max \in [0..n -> Nat]
  <2> DEFINE A == {i \in Nat : max[i] \in Nat}
  <2>1. 0 \in A BY <1>2, <1>10
  <2>2. ASSUME NEW i \in Nat, i < n, i \in A PROVE i + 1 \in A
    <3>1. i + 1 \in 1..n /\ i + 1 \in 0..n /\ i + 1 # 0 /\ i + 1 - 1 = i BY <1>2, <2>2
    <3>2. max[i + 1] = IF s[i + 1].order > max[i] THEN Narrow(s[i + 1].order) ELSE max[i]
      BY <1>13, <3>1
    <3>3. max[i] \in Nat /\ Narrow(s[i + 1].order) \in Nat BY <1>3, <1>4, <2>2, <3>1
    <3>4. QED BY <3>2, <3>3
  <2> HIDE DEF A
  <2>3. 0..n \subseteq A BY <1>2, <2>1, <2>2, BoundedInduction
  <2>4. \A i \in 0..n : max[i] \in Nat BY <2>3 DEF A
  <2>5. QED BY <1>10, <2>4
<1>15. QED BY <1>2, <1>11, <1>12, <1>13, <1>14 DEF s

LEMMA MaxSequenceOrderType ==
    ASSUME NEW c \in Contests PROVE LargestOrder(c) \in Nat /\ MaxSequenceOrder(c) \in Nat
<1>1. c.selections \in Seq(Selections) BY DEF Contests
<1>2. LargestOrder(c) \in Nat
  <2>1. PICK f \in [0..Len(c.selections) -> Nat] : LargestOrder(c) = f[Len(c.selections)]
    BY LargestOrderRecursion
  <2>2. Len(c.selections) \in 0..Len(c.selections) BY <1>1
  <2>3. QED BY <2>1, <2>2
<1>3. OrderLimit \in Nat \ {0} BY ManifestAssumption
<1>4. QED BY <1>2, <1>3 DEF MaxSequenceOrder, Narrow

\* No order is larger than the one that is found, as long as all fit.
LEMMA LargestIsLargest ==
    ASSUME NEW c \in Contests, \A s \in ToSet(c.selections) : s.order + 1 < OrderLimit
    PROVE  \A s \in ToSet(c.selections) : s.order < MaxSequenceOrder(c)
<1> DEFINE s == InOrder(c.selections)
           n == Len(c.selections)
<1>1. c.selections \in Seq(Selections) /\ n \in Nat BY DEF Contests
<1>2. s \in Seq(Selections) /\ DOMAIN s = 1..n /\ ToSet(s) = ToSet(c.selections)
  BY <1>1, SelectionsOfContest, InOrderSeq
<1>3. \A i \in 1..n : s[i].order \in Nat /\ s[i].order + 1 < OrderLimit
  <2>1. \A i \in 1..n : s[i] \in Selections BY <1>2
  <2>2. \A i \in 1..n : s[i] \in ToSet(s) BY <1>2 DEF ToSet
  <2>3. \A x \in Selections : x.order \in Nat BY DEF Selections
  <2> HIDE DEF s
  <2>4. QED BY <1>2, <2>1, <2>2, <2>3
<1>4. OrderLimit \in Nat \ {0} BY ManifestAssumption
<1>5. PICK f \in [0..n -> Nat] :
             /\ f[0] = 0
             /\ \A i \in 1..n : f[i] = IF s[i].order > f[i - 1] THEN Narrow(s[i].order) ELSE f[i - 1]
             /\ LargestOrder(c) = f[n]
  BY LargestOrderRecursion
<1> HIDE DEF s, n
<1> DEFINE A == {i \in Nat : i = 0 \/ (f[i] + 1 < OrderLimit /\ \A k \in 1..i : s[k].order <= f[i])}
<1>6. 0 \in A OBVIOUS
<1>7. ASSUME NEW i \in Nat, i < n, i \in A PROVE i + 1 \in A
  <2>1. i + 1 \in 1..n /\ i + 1 - 1 = i /\ i \in 0..n /\ i + 1 \in 0..n BY <1>1, <1>7
  <2>2. f[i + 1] = IF s[i + 1].order > f[i] THEN Narrow(s[i + 1].order) ELSE f[i] BY <1>5, <2>1
  <2>3. s[i + 1].order \in Nat /\ s[i + 1].order + 1 < OrderLimit /\ f[i] \in Nat BY <1>3, <2>1
  <2>4. s[i + 1].order \in 0..(OrderLimit - 1) BY <1>4, <2>3
  <2>5. Narrow(s[i + 1].order) = s[i + 1].order BY <1>4, <2>4, ModOfSmall DEF Narrow
  <2>6. f[i + 1] >= f[i] /\ f[i + 1] >= s[i + 1].order BY <2>2, <2>3, <2>5
  <2>7. f[i + 1] + 1 < OrderLimit
    <3>1. CASE i = 0
      <4>1. f[i] = 0 BY <1>5, <3>1
      <4>2. QED BY <2>2, <2>3, <2>5, <4>1
    <3>2. CASE i # 0
      <4>1. f[i] + 1 < OrderLimit BY <1>7, <3>2
      <4>2. QED BY <2>2, <2>3, <2>5, <4>1
    <3>3. QED BY <3>1, <3>2
  <2>8. ASSUME NEW k \in 1..(i + 1) PROVE s[k].order <= f[i + 1]
    <3>1. CASE k = i + 1 BY <2>6, <3>1
    <3>2. CASE k # i + 1
      <4>1. k \in 1..i /\ k \in 1..n BY <1>1, <2>1, <3>2
      <4>2. s[k].order <= f[i] BY <1>7, <4>1
      <4>3. f[i + 1] \in Nat /\ s[k].order \in Nat BY <1>3, <2>1, <4>1
      <4>4. QED BY <2>3, <2>6, <4>2, <4>3
    <3>3. QED BY <3>1, <3>2
  <2>9. QED BY <2>7, <2>8
<1> HIDE DEF A
<1>8. 0..n \subseteq A BY <1>1, <1>6, <1>7, BoundedInduction
<1>9. n \in A BY <1>1, <1>8
<1>10. ASSUME NEW x \in ToSet(c.selections) PROVE x.order < MaxSequenceOrder(c)
  <2>1. PICK k \in 1..n : x = s[k] BY <1>2, <1>10 DEF ToSet
  <2>2. n # 0 BY <1>1, <2>1
  <2>3. f[n] + 1 < OrderLimit /\ s[k].order <= f[n] /\ f[n] \in Nat BY <1>1, <1>9, <2>2 DEF A
  <2>4. f[n] + 1 \in 0..(OrderLimit - 1) BY <1>4, <2>3
  <2>5. MaxSequenceOrder(c) = f[n] + 1
    BY <1>4, <1>5, <2>4, ModOfSmall DEF MaxSequenceOrder, Narrow
  <2>6. s[k].order \in Nat BY <1>3
  <2>7. QED BY <2>1, <2>3, <2>5, <2>6
<1>11. QED BY <1>10

\* The placeholders of a contest are numbered one after the other.
LEMMA PlaceholdersInOrder ==
    ASSUME NEW c \in Contests
    PROVE  /\ DOMAIN PlaceholdersOf(c) = 1..c.elected
           /\ \A k \in 1..c.elected : PlaceholdersOf(c)[k].order = MaxSequenceOrder(c) + k - 1
           /\ InOrder(PlaceholdersOf(c)) = PlaceholdersOf(c)
           /\ Each(SelectionFromJson, Each(SelectionToJson, PlaceholdersOf(c))) = PlaceholdersOf(c)
<1> DEFINE p == PlaceholdersOf(c)
           n == c.elected
           start == MaxSequenceOrder(c)
<1>1. n \in Nat /\ start \in Nat BY MaxSequenceOrderType DEF Contests
<1>2. p = [k \in 1..n |-> Placeholder(c, start + k - 1)] BY DEF PlaceholdersOf
<1> HIDE DEF p, n, start
<1>3. DOMAIN p = 1..n /\ p = [k \in 1..n |-> p[k]] BY <1>2
<1>4. \A k \in 1..n : /\ p[k] = [id |-> p[k].id, candidateId |-> p[k].candidateId, order |-> p[k].order]
                      /\ p[k].order = start + k - 1
  BY <1>2 DEF Placeholder
<1>5. Orders(p) /\ Ascending(p) BY <1>1, <1>3, <1>4 DEF Orders, Ascending
<1>6. InOrder(p) = p BY <1>1, <1>3, <1>5, AscendingInOrder
<1>7. Each(SelectionFromJson, Each(SelectionToJson, p)) = p BY <1>1, <1>3, <1>4, SelectionsRoundTrip
<1>8. QED BY <1>3, <1>4, <1>6, <1>7 DEF p, n, start

\* Each contest of the internal manifest is the copy of one of the manifest.
LEMMA CopyMade == ASSUME NEW c \in Contests PROVE CopyOf(WithPlaceholders(c), c)
<1> DEFINE copy == CloneContest(c)
           w == WithPlaceholders(c)
<1>1. c = [id |-> c.id, district |-> c.district, order |-> c.order, variation |-> c.variation,
           elected |-> c.elected, allowed |-> c.allowed, title |-> c.title, subtitle |-> c.subtitle,
           selections |-> c.selections, primaryPartyIds |-> c.primaryPartyIds]
  BY DEF Contests
<1>2. /\ copy.id = c.id /\ copy.district = c.district /\ copy.order = c.order
      /\ copy.variation = c.variation /\ copy.elected = c.elected /\ copy.title = c.title
      /\ copy.subtitle = IF c.title # NULL THEN c.subtitle ELSE NULL
      /\ copy.allowed = IF c.title # NULL THEN c.allowed ELSE DefaultVotes(c.variation, c.elected)
      /\ copy.selections = c.selections
  BY <1>1 DEF CloneContest
<1>3. /\ w.id = copy.id /\ w.district = copy.district /\ w.order = copy.order
      /\ w.variation = copy.variation /\ w.elected = copy.elected /\ w.title = copy.title
      /\ w.subtitle = copy.subtitle /\ w.allowed = copy.allowed /\ w.selections = copy.selections
      /\ w.placeholders = PlaceholdersOf(c)
  BY DEF WithPlaceholders
<1> HIDE DEF copy, w
<1>4. CopyOf(w, c) BY <1>2, <1>3 DEF CopyOf
<1>5. QED BY <1>4 DEF w

LEMMA InternalMadeFrom ==
    ASSUME NEW m \in AllManifests PROVE MadeFrom(InternalManifest(m), m)
<1> DEFINE s == InOrder(m.contests)
           n == Len(m.contests)
           i == InternalManifest(m)
<1>1. s \in Seq(Contests) /\ Len(s) = n BY LoadedContests
<1>2. /\ i.contests = [k \in 1..n |-> WithPlaceholders(s[k])]
      /\ i.manifestHash = HashManifest(m) /\ i.styles = m.styles
  BY <1>1 DEF InternalManifest
<1>3. \A k \in 1..n : s[k] \in Contests BY <1>1
<1> HIDE DEF i, s, n
<1>4. \A k \in 1..n : CopyOf(i.contests[k], s[k]) BY <1>2, <1>3, CopyMade
<1>5. i.contests = [k \in 1..n |-> i.contests[k]] BY <1>2
<1>6. QED BY <1>2, <1>4, <1>5 DEF MadeFrom, i, s, n

\* The contests of an internal manifest are in order.
LEMMA CopiesInOrder ==
    ASSUME NEW m \in AllManifests, NEW i, MadeFrom(i, m)
    PROVE  /\ DOMAIN i.contests = 1..Len(m.contests)
           /\ Orders(i.contests) /\ Ascending(i.contests)
           /\ InOrder(i.contests) = i.contests
           /\ \A k \in 1..Len(m.contests) : InOrder(m.contests)[k] \in Contests
<1> DEFINE s == InOrder(m.contests)
           n == Len(m.contests)
           w == i.contests
<1>1. /\ n \in Nat /\ DOMAIN m.contests = 1..n /\ Orders(m.contests)
      /\ s \in Seq(Contests) /\ Len(s) = n
  BY LoadedContests DEF AllManifests
<1>2. w = [k \in 1..n |-> w[k]] /\ \A k \in 1..n : CopyOf(w[k], s[k]) BY DEF MadeFrom
<1>3. Ascending(s) /\ Orders(s) /\ DOMAIN s = 1..n BY <1>1, InOrderAscending
<1>4. \A k \in 1..n : s[k] \in Contests BY <1>1
<1> HIDE DEF s, n, w
<1>5. \A k \in 1..n : w[k].order = s[k].order BY <1>2 DEF CopyOf
<1>6. DOMAIN w = 1..n BY <1>2
<1>7. Orders(w) /\ Ascending(w) BY <1>3, <1>5, <1>6 DEF Orders, Ascending
<1>8. InOrder(w) = w BY <1>1, <1>2, <1>7, AscendingInOrder
<1>9. QED BY <1>4, <1>6, <1>7, <1>8 DEF s, n, w

\* Loading a contest of an internal manifest that has no title gives a copy again.
LEMMA CopyReloaded ==
    ASSUME NEW c \in Contests, NEW w, CopyOf(w, c), c.title = NULL
    PROVE  CopyOf(InternalContestFromJson(InternalContestToJson(w)), c)
<1> DEFINE j == InternalContestToJson(w)
           l == InternalContestFromJson(j)
<1>1. c.selections \in Seq(Selections) BY DEF Contests
<1>2. /\ Orders(c.selections) /\ InOrder(InOrder(c.selections)) = InOrder(c.selections)
      /\ Each(SelectionFromJson, Each(SelectionToJson, InOrder(c.selections))) = InOrder(c.selections)
  BY <1>1, SelectionsOfContest, InOrderSeq
<1>3. InOrder(w.selections) = InOrder(c.selections) BY <1>2 DEF CopyOf
<1>4. /\ j.object_id = w.id /\ j.electoral_district_id = w.district /\ j.sequence_order = w.order
      /\ j.vote_variation = w.variation /\ j.number_elected = w.elected
      /\ j.ballot_title = WrappedText(w.title)
      /\ j.ballot_selections = Each(SelectionToJson, InOrder(w.selections))
      /\ j.ballot_placeholders = Each(SelectionToJson, InOrder(w.placeholders))
  BY DEF InternalContestToJson
<1>5. j.ballot_title = NULL BY <1>4 DEF CopyOf, WrappedText
<1> HIDE DEF j
<1>6. /\ l.id = j.object_id /\ l.district = j.electoral_district_id /\ l.order = j.sequence_order
      /\ l.variation = j.vote_variation /\ l.elected = j.number_elected
      /\ l.allowed = DefaultVotes(j.vote_variation, j.number_elected)
      /\ l.title = NULL /\ l.subtitle = NULL
      /\ l.selections = Each(SelectionFromJson, j.ballot_selections)
      /\ l.placeholders = Each(SelectionFromJson, j.ballot_placeholders)
  BY <1>5 DEF InternalContestFromJson
<1> HIDE DEF l
<1>7. l.selections = InOrder(c.selections) BY <1>2, <1>3, <1>4, <1>6
<1>8. l.placeholders = PlaceholdersOf(c) BY <1>4, <1>6, PlaceholdersInOrder DEF CopyOf
<1>9. CopyOf(l, c) BY <1>4, <1>6, <1>7, <1>8 DEF CopyOf
<1>10. QED BY <1>9 DEF l, j

\* Loading an internal manifest throws only if a contest has a title, and gives
\* an internal manifest of the same manifest otherwise.
LEMMA ReloadedMadeFrom ==
    ASSUME NEW m \in AllManifests, NEW i, MadeFrom(i, m)
    PROVE  /\ InternalThrows(InternalToJson(i)) => \E c \in ToSet(m.contests) : c.title # NULL
           /\ ~InternalThrows(InternalToJson(i)) => MadeFrom(InternalFromJson(InternalToJson(i)), m)
<1> DEFINE s == InOrder(m.contests)
           n == Len(m.contests)
           j == InternalToJson(i)
           l == InternalFromJson(j)
<1>1. /\ ToSet(s) = ToSet(m.contests) /\ DOMAIN s = 1..n /\ m.styles \in Seq(BallotStyles)
      /\ \A k \in 1..n : s[k] \in Contests
  <2>1. s \in Seq(Contests) /\ Len(s) = n /\ ToSet(s) = ToSet(m.contests) BY LoadedContests
  <2>2. QED BY <2>1 DEF AllManifests
<1>2. /\ DOMAIN i.contests = 1..n /\ InOrder(i.contests) = i.contests
      /\ \A k \in 1..n : CopyOf(i.contests[k], s[k])
      /\ i.manifestHash = HashManifest(m) /\ i.styles = m.styles
  BY CopiesInOrder DEF MadeFrom
<1>3. /\ j.contests = [k \in 1..n |-> InternalContestToJson(i.contests[k])]
      /\ j.manifest_hash = i.manifestHash /\ j.ballot_styles = Each(StyleToJson, i.styles)
  BY <1>2 DEF InternalToJson, Each
<1> HIDE DEF j, s, n
<1>4. \A k \in 1..n : j.contests[k].ballot_title = WrappedText(s[k].title)
  <2>1. \A k \in 1..n : i.contests[k].title = s[k].title BY <1>2 DEF CopyOf
  <2>2. QED BY <1>3, <2>1 DEF InternalContestToJson
<1>5. \A k \in 1..n : TextThrows(j.contests[k].ballot_title) <=> s[k].title # NULL
  <2> SUFFICES ASSUME NEW k \in 1..n
               PROVE  TextThrows(j.contests[k].ballot_title) <=> s[k].title # NULL
    OBVIOUS
  <2>1. CASE s[k].title = NULL BY <1>4, <2>1 DEF TextThrows, WrappedText
  <2>2. CASE s[k].title # NULL
    <3>1. s[k].title \in Texts BY <1>1, <2>2 DEF Contests, Or
    <3>2. WrappedText(s[k].title) = [shape |-> "object", languages |-> s[k].title]
      BY <2>2 DEF WrappedText
    <3>3. WrappedText(s[k].title) # NULL BY <3>1, <3>2, NullIsNothingElse
    <3>4. QED BY <1>4, <2>2, <3>2, <3>3 DEF TextThrows
  <2>3. QED BY <2>1, <2>2
<1>6. InternalThrows(j) <=> \E k \in 1..n : s[k].title # NULL
  <2>1. InternalThrows(j) <=> \E k \in 1..n : TextThrows(j.contests[k].ballot_title)
    BY <1>3 DEF InternalThrows, ToSet
  <2>2. QED BY <1>5, <2>1
<1>7. ASSUME InternalThrows(j) PROVE \E c \in ToSet(m.contests) : c.title # NULL
  BY <1>1, <1>6, <1>7 DEF ToSet
<1>8. ASSUME ~InternalThrows(j) PROVE MadeFrom(l, m)
  <2>1. l.contests = [k \in 1..n |-> InternalContestFromJson(InternalContestToJson(i.contests[k]))]
    BY <1>3 DEF InternalFromJson, Each
  <2>2. l.manifestHash = HashManifest(m) BY <1>2, <1>3 DEF InternalFromJson
  <2>3. l.styles = m.styles
    <3>1. Each(StyleFromJson, Each(StyleToJson, m.styles)) = m.styles BY <1>1, StylesRoundTrip
    <3>2. QED BY <1>2, <1>3, <3>1 DEF InternalFromJson
  <2> HIDE DEF l
  <2>4. \A k \in 1..n : CopyOf(InternalContestFromJson(InternalContestToJson(i.contests[k])), s[k])
    BY <1>1, <1>2, <1>6, <1>8, CopyReloaded
  <2>5. l.contests = [k \in 1..n |-> l.contests[k]] /\ \A k \in 1..n : CopyOf(l.contests[k], s[k])
    BY <2>1, <2>4
  <2>6. QED BY <2>2, <2>3, <2>5 DEF MadeFrom, s, n
<1>9. QED BY <1>7, <1>8 DEF j

\* As many different orders as there are elements.
LEMMA OrdersCounted ==
    ASSUME NEW s, NEW n \in Nat, DOMAIN s = 1..n, Numbered(s)
    PROVE  /\ IsFiniteSet({x.order : x \in ToSet(s)})
           /\ Cardinality({x.order : x \in ToSet(s)}) = n
<1> DEFINE T == {x.order : x \in ToSet(s)}
           f == [i \in 1..n |-> s[i].order]
<1>1. \A i \in 1..n : f[i] \in T BY DEF ToSet
<1>2. \A y \in T : \E i \in 1..n : f[i] = y BY DEF ToSet
<1>3. \A i, j \in 1..n : f[i] = f[j] => i = j BY DEF Numbered
<1>4. f \in [1..n -> T] BY <1>1
<1> HIDE DEF T, f
<1>5. f \in Bijection(1..n, T)
  <2>1. f \in Injection(1..n, T) BY <1>3, <1>4 DEF Injection, IsInjective
  <2>2. f \in Surjection(1..n, T) BY <1>2, <1>4 DEF Surjection
  <2>3. QED BY <2>1, <2>2 DEF Bijection
<1>6. ExistsBijection(1..n, T) BY <1>5 DEF ExistsBijection
<1>7. IsFiniteSet(1..n) /\ Cardinality(1..n) = n BY FS_Interval
<1>8. IsFiniteSet(T) /\ Cardinality(T) = Cardinality(1..n) BY <1>6, <1>7, FS_Bijection
<1>9. QED BY <1>7, <1>8 DEF T

\* The orders of the placeholders are none of the selections', nor of each other.
LEMMA PlaceholderOrders ==
    ASSUME NEW c \in Contests, Numbered(c.selections), NEW w, CopyOf(w, c),
           \A s \in ToSet(w.selections) : s.order + 1 < OrderLimit
    PROVE  Cardinality({s.order : s \in ToSet(w.selections)} \cup {s.order : s \in ToSet(w.placeholders)})
             = Len(w.selections) + w.elected
<1> DEFINE n == Len(c.selections)
           start == MaxSequenceOrder(c)
           real == {s.order : s \in ToSet(w.selections)}
           filled == {s.order : s \in ToSet(w.placeholders)}
<1>1. c.selections \in Seq(Selections) /\ c.elected \in Nat /\ n \in Nat BY DEF Contests
<1>2. start \in Nat BY MaxSequenceOrderType
<1>3. /\ Orders(c.selections) /\ Len(InOrder(c.selections)) = n
      /\ ToSet(InOrder(c.selections)) = ToSet(c.selections)
  BY <1>1, SelectionsOfContest, InOrderSeq
<1>4. ToSet(w.selections) = ToSet(c.selections) /\ Len(w.selections) = n BY <1>3 DEF CopyOf
<1>5. w.elected = c.elected /\ w.placeholders = PlaceholdersOf(c) BY DEF CopyOf
<1>6. IsFiniteSet(real) /\ Cardinality(real) = n
  <2>1. DOMAIN c.selections = 1..n BY <1>1
  <2>2. QED BY <1>1, <1>4, <2>1, OrdersCounted
<1>7. \A x \in real : x < start BY <1>4, LargestIsLargest
<1>8. filled = start..(start + c.elected - 1)
  <2>1. DOMAIN w.placeholders = 1..c.elected
        /\ \A k \in 1..c.elected : w.placeholders[k].order = start + k - 1
    BY <1>5, PlaceholdersInOrder
  <2>2. filled = {w.placeholders[k].order : k \in 1..c.elected} BY <2>1 DEF ToSet
  <2>3. ASSUME NEW x \in start..(start + c.elected - 1) PROVE x \in filled
    <3>1. x - start + 1 \in 1..c.elected /\ start + (x - start + 1) - 1 = x BY <1>1, <1>2
    <3>2. w.placeholders[x - start + 1].order = x BY <2>1, <3>1
    <3>3. QED BY <2>2, <3>1, <3>2
  <2>4. ASSUME NEW x \in filled PROVE x \in start..(start + c.elected - 1)
    <3>1. PICK k \in 1..c.elected : x = start + k - 1 BY <2>1, <2>2
    <3>2. QED BY <1>1, <1>2, <3>1
  <2>5. QED BY <2>3, <2>4
<1> HIDE DEF real, filled, start, n
<1>9. IsFiniteSet(filled) /\ Cardinality(filled) = c.elected
  <2> DEFINE end == start + c.elected - 1
  <2>1. start \in Int /\ end \in Int BY <1>1, <1>2
  <2>2. (IF start > end THEN 0 ELSE end - start + 1) = c.elected BY <1>1, <1>2
  <2>3. filled = start..end BY <1>8
  <2> HIDE DEF end
  <2>4. QED BY <2>1, <2>2, <2>3, FS_Interval
<1>10. real \cap filled = {} BY <1>1, <1>2, <1>7, <1>8
<1>11. Cardinality(real \cup filled)
         = Cardinality(real) + Cardinality(filled) - Cardinality(real \cap filled)
  BY <1>6, <1>9, FS_Union
<1>12. Cardinality(real \cap filled) = 0 BY <1>10, FS_EmptySet
<1>13. Cardinality(real \cup filled) = n + c.elected BY <1>1, <1>6, <1>9, <1>11, <1>12
<1>14. QED BY <1>4, <1>5, <1>13 DEF real, filled

\* In the contests of a loaded manifest, selections are numbered as they were.
LEMMA NumberedLoaded ==
    ASSUME NEW m \in AllManifests, \A c \in ToSet(m.contests) : Numbered(c.selections)
    PROVE  \A c \in ToSet(Loaded(m).contests) : Numbered(c.selections)
<1> SUFFICES ASSUME NEW l \in ToSet(Loaded(m).contests) PROVE Numbered(l.selections) OBVIOUS
<1> DEFINE s == InOrder(m.contests)
           n == Len(m.contests)
<1>1. /\ s \in Seq(Contests) /\ Len(s) = n /\ ToSet(s) = ToSet(m.contests)
      /\ Loaded(m).contests \in Seq(Contests) /\ Len(Loaded(m).contests) = n
      /\ \A i \in 1..n : Loaded(m).contests[i] = LoadedContest(s[i])
  BY LoadedContests
<1>2. PICK i \in 1..n : l = LoadedContest(s[i])
  <2>1. PICK i \in DOMAIN Loaded(m).contests : l = Loaded(m).contests[i] BY DEF ToSet
  <2>2. i \in 1..n BY <1>1
  <2>3. QED BY <1>1, <2>1, <2>2
<1>3. s[i] \in Contests BY <1>1
<1>4. s[i] \in ToSet(s) BY <1>1 DEF ToSet
<1>5. Numbered(s[i].selections) BY <1>1, <1>4
<1>6. s[i].selections \in Seq(Selections) BY <1>3 DEF Contests
<1>7. Numbered(InOrder(s[i].selections)) BY <1>5, <1>6, SelectionsOfContest, InOrderSeq
<1>8. QED BY <1>2, <1>3, <1>7, ContestRoundTrip

-----------------------------------------------------------------------------
(* Ballot styles and their contests.                                         *)

\* A style is found if there is one with its id.
LEMMA BallotStyleFound ==
    ASSUME NEW i, i.styles \in Seq(BallotStyles), NEW id
    PROVE  /\ BallotStyle(i, id) \in Or(BallotStyles)
           /\ BallotStyle(i, id) = NULL => id \notin IdsOf(i.styles)
<1> DEFINE I == {k \in 1..Len(i.styles) : i.styles[k].id = id}
<1>1. I \in SUBSET Nat /\ DOMAIN i.styles = 1..Len(i.styles)
      /\ \A k \in I : k \in 1..Len(i.styles) /\ i.styles[k] \in BallotStyles
  OBVIOUS
<1>2. SelectInSeq(i.styles, LAMBDA s : s.id = id) = IF I # {} THEN Min(I) ELSE 0
  BY DEF SelectInSeq
<1>3. CASE I = {}
  <2>1. BallotStyle(i, id) = NULL BY <1>2, <1>3 DEF BallotStyle
  <2>2. id \notin IdsOf(i.styles) BY <1>1, <1>3 DEF IdsOf, ToSet
  <2>3. QED BY <2>1, <2>2 DEF Or
<1>4. CASE I # {}
  <2>1. Min(I) \in I BY <1>1, <1>4, Least DEF Min
  <2>2. Min(I) # 0 BY <1>1, <2>1
  <2>3. BallotStyle(i, id) = i.styles[Min(I)] BY <1>2, <1>4, <2>2 DEF BallotStyle
  <2>4. BallotStyle(i, id) \in BallotStyles BY <1>1, <2>1, <2>3
  <2>5. QED BY <2>4, NullIsNothingElse DEF Or
<1>5. QED BY <1>3, <1>4

\* The units of a style that differ are a contest's district once or never.
LEMMA TimesOnce ==
    ASSUME NEW style, IsInjective(style.unitIds), NEW c
    PROVE  Times(style, c) = IF c.district \in ToSet(style.unitIds) THEN 1 ELSE 0
<1> DEFINE N == {n \in DOMAIN style.unitIds : style.unitIds[n] = c.district}
<1>1. Times(style, c) = Cardinality(N) BY DEF Times
<1>2. CASE c.district \in ToSet(style.unitIds)
  <2>1. PICK n \in DOMAIN style.unitIds : style.unitIds[n] = c.district BY <1>2 DEF ToSet
  <2>2. N = {n} BY <2>1 DEF IsInjective
  <2>3. Cardinality(N) = 1 BY <2>2, FS_Singleton
  <2>4. QED BY <1>1, <1>2, <2>3
<1>3. CASE c.district \notin ToSet(style.unitIds)
  <2>1. N = {} BY <1>3 DEF ToSet
  <2>2. Cardinality(N) = 0 BY <2>1, FS_EmptySet
  <2>3. QED BY <1>1, <1>3, <2>2
<1>4. QED BY <1>2, <1>3

\* What the search for the contests of a style has found after so many of them.
IsSearch(f, i, style, n) ==
    /\ f[0] = <<>>
    /\ \A k \in 1..n : f[k] = IF i.contests[k].district \in ToSet(style.unitIds)
                              THEN Append(f[k - 1], i.contests[k]) ELSE f[k - 1]

LEMMA ContestsForRecursion ==
    ASSUME NEW i, NEW style, NEW n \in Nat, DOMAIN i.contests = 1..n,
           i.contests \in Seq(ToSet(i.contests)), IsInjective(style.unitIds)
    PROVE  \E f \in [0..n -> Seq(ToSet(i.contests))] :
             IsSearch(f, i, style, n) /\ ContestsFor(i, style) = InOrder(f[n])
<1> DEFINE w == i.contests
           T == ToSet(w)
           some(k) == [l \in 1..Times(style, w[k]) |-> w[k]]
           at(k) == IF k \in 1..n THEN some(k) ELSE <<>>
           next == [p \in Nat \X Seq(T) |-> p[2] \o at(p[1] + 1)]
           found[k \in 0..n] == IF k = 0 THEN <<>> ELSE found[k - 1] \o some(k)
<1>1. DOMAIN w = 1..n /\ Len(w) = n /\ \A k \in 1..n : w[k] \in T BY DEF ToSet
<1>2. \A k \in 1..n : some(k) = IF w[k].district \in ToSet(style.unitIds) THEN <<w[k]>> ELSE <<>>
  <2> SUFFICES ASSUME NEW k \in 1..n
               PROVE  some(k) = IF w[k].district \in ToSet(style.unitIds) THEN <<w[k]>> ELSE <<>>
    OBVIOUS
  <2>1. Times(style, w[k]) = IF w[k].district \in ToSet(style.unitIds) THEN 1 ELSE 0 BY TimesOnce
  <2>2. QED BY <2>1
<1> HIDE DEF some, T
<1>3. \A k \in 1..n : some(k) \in Seq(T)
  <2>1. <<>> \in Seq(T) /\ \A x \in T : <<x>> \in Seq(T) OBVIOUS
  <2>2. QED BY <1>1, <1>2, <2>1
<1>4. next \in [Nat \X Seq(T) -> Seq(T)]
  <2>1. \A k \in Nat : at(k + 1) \in Seq(T) BY <1>3
  <2> HIDE DEF at
  <2>2. QED BY <2>1
<1>5. <<>> \in Seq(T) OBVIOUS
<1> HIDE DEF next
<1>6. PICK f \in [0..n -> Seq(T)] : IsRecursive(f, n, <<>>, next) BY <1>4, <1>5, RecursionExists
<1>7. f[0] = <<>> BY <1>6 DEF IsRecursive
<1>8. \A k \in 1..n : f[k] = f[k - 1] \o some(k)
  <2> SUFFICES ASSUME NEW k \in 1..n PROVE f[k] = f[k - 1] \o some(k) OBVIOUS
  <2>1. k - 1 \in 0..(n - 1) /\ k - 1 \in Nat /\ k - 1 + 1 = k /\ k - 1 \in 0..n OBVIOUS
  <2>2. f[k] = next[<<k - 1, f[k - 1]>>] BY <1>6, <2>1 DEF IsRecursive
  <2>3. f[k - 1] \in Seq(T) /\ at(k) = some(k) BY <2>1
  <2> HIDE DEF at
  <2>4. QED BY <2>1, <2>2, <2>3 DEF next
<1>9. f = [k \in 0..n |-> IF k = 0 THEN <<>> ELSE f[k - 1] \o some(k)]
  <2>1. \A k \in 0..n : k # 0 => k \in 1..n OBVIOUS
  <2>2. QED BY <1>7, <1>8, <2>1
<1>10. found = [k \in 0..n |-> IF k = 0 THEN <<>> ELSE found[k - 1] \o some(k)] BY <1>9
<1>11. ContestsFor(i, style) = InOrder(found[n]) BY <1>1 DEF ContestsFor, some
<1> HIDE DEF found
<1>12. found[0] = <<>> BY <1>10
<1>13. \A k \in 1..n : found[k] = found[k - 1] \o some(k)
  <2>1. \A k \in 1..n : k \in 0..n /\ k # 0 OBVIOUS
  <2>2. QED BY <1>10, <2>1
<1>14. found \in [0..n -> Seq(T)]
  <2> DEFINE A == {k \in Nat : found[k] \in Seq(T)}
  <2>1. 0 \in A BY <1>5, <1>12
  <2>2. ASSUME NEW k \in Nat, k < n, k \in A PROVE k + 1 \in A
    <3>1. PICK l \in 1..n : l = k + 1 /\ l - 1 = k
      <4>1. k + 1 \in 1..n /\ k + 1 - 1 = k BY <2>2
      <4>2. QED BY <4>1
    <3>2. found[l] = found[l - 1] \o some(l) BY <1>13, Zenon
    <3>3. found[l - 1] \in Seq(T) /\ some(l) \in Seq(T) BY <1>3, <2>2, <3>1
    <3>4. \A x, y \in Seq(T) : x \o y \in Seq(T) OBVIOUS
    <3>5. found[l] \in Seq(T) BY <3>2, <3>3, <3>4, Zenon
    <3>6. QED BY <3>1, <3>5
  <2> HIDE DEF A
  <2>3. 0..n \subseteq A BY <2>1, <2>2, BoundedInduction
  <2>4. \A k \in 0..n : found[k] \in Seq(T) BY <2>3 DEF A
  <2>5. QED BY <1>10, <2>4
<1>15. \A k \in 1..n : found[k] = IF w[k].district \in ToSet(style.unitIds)
                                  THEN Append(found[k - 1], w[k]) ELSE found[k - 1]
  <2> SUFFICES ASSUME NEW k \in 1..n
               PROVE  found[k] = IF w[k].district \in ToSet(style.unitIds)
                                 THEN Append(found[k - 1], w[k]) ELSE found[k - 1]
    OBVIOUS
  <2>1. k - 1 \in 0..n OBVIOUS
  <2>2. found[k - 1] \in Seq(T) BY <1>14, <2>1
  <2>3. CASE w[k].district \in ToSet(style.unitIds)
    <3>1. some(k) = <<w[k]>> BY <1>2, <2>3
    <3>2. w[k] \in T BY <1>1
    <3>3. found[k - 1] \o <<w[k]>> = Append(found[k - 1], w[k]) BY <2>2, <3>2
    <3>4. QED BY <1>13, <2>3, <3>1, <3>3
  <2>4. CASE w[k].district \notin ToSet(style.unitIds)
    <3>1. some(k) = <<>> BY <1>2, <2>4
    <3>2. found[k - 1] \o <<>> = found[k - 1] BY <2>2
    <3>3. QED BY <1>13, <2>4, <3>1, <3>2
  <2>5. QED BY <2>3, <2>4
<1>16. IsSearch(found, i, style, n) BY <1>12, <1>15 DEF IsSearch
<1>17. QED BY <1>11, <1>14, <1>16 DEF T

\* How many of a set of numbers are at most k.
UpTo(W, k) == {j \in W : j <= k}

LEMMA CountUpTo ==
    ASSUME NEW n \in Nat, NEW W \in SUBSET (1..n)
    PROVE  /\ Cardinality(UpTo(W, 0)) = 0
           /\ UpTo(W, n) = W
           /\ \A k \in 0..n : Cardinality(UpTo(W, k)) \in Nat
           /\ \A k \in 0..n : \A l \in UpTo(W, k) :
                Cardinality(UpTo(W, l)) \in 1..Cardinality(UpTo(W, k))
           /\ \A k \in 1..n : Cardinality(UpTo(W, k))
                = IF k \in W THEN Cardinality(UpTo(W, k - 1)) + 1 ELSE Cardinality(UpTo(W, k - 1))
<1>1. \A j \in W : j \in 1..n OBVIOUS
<1>2. \A k \in 0..n : UpTo(W, k) \in SUBSET (1..n)
  <2> SUFFICES ASSUME NEW k \in 0..n, NEW j \in UpTo(W, k) PROVE j \in 1..n OBVIOUS
  <2>1. j \in W BY DEF UpTo
  <2>2. QED BY <2>1
<1>3. \A k \in 0..n : IsFiniteSet(UpTo(W, k))
  <2>1. IsFiniteSet(1..n) BY FS_Interval
  <2>2. QED BY <1>2, <2>1, FS_Subset
<1>4. \A k \in 0..n : Cardinality(UpTo(W, k)) \in Nat BY <1>3, FS_CardinalityType
<1>5. Cardinality(UpTo(W, 0)) = 0
  <2>1. \A j \in W : ~(j <= 0) BY <1>1
  <2>2. UpTo(W, 0) = {} BY <2>1 DEF UpTo
  <2>3. QED BY <2>2, FS_EmptySet
<1>6. UpTo(W, n) = W
  <2>1. \A j \in W : j <= n BY <1>1
  <2>2. QED BY <2>1 DEF UpTo
<1>7. ASSUME NEW k \in 0..n, NEW l \in UpTo(W, k)
      PROVE  Cardinality(UpTo(W, l)) \in 1..Cardinality(UpTo(W, k))
  <2>1. l \in W /\ l <= k BY <1>7 DEF UpTo
  <2>2. UpTo(W, l) \in SUBSET UpTo(W, k) /\ l \in UpTo(W, l) /\ l \in 0..n
    <3>1. l \in 0..n /\ l <= l BY <1>1, <2>1
    <3>2. \A j \in W : j <= l => j <= k BY <1>1, <2>1, <3>1
    <3>3. QED BY <2>1, <3>1, <3>2 DEF UpTo
  <2>3. Cardinality(UpTo(W, l)) <= Cardinality(UpTo(W, k)) BY <1>3, <2>2, FS_Subset
  <2>4. Cardinality(UpTo(W, l)) # 0 BY <1>3, <2>2, FS_EmptySet
  <2>5. QED BY <1>4, <2>2, <2>3, <2>4
<1>8. ASSUME NEW k \in 1..n
      PROVE  Cardinality(UpTo(W, k))
               = IF k \in W THEN Cardinality(UpTo(W, k - 1)) + 1 ELSE Cardinality(UpTo(W, k - 1))
  <2>1. k - 1 \in 0..n OBVIOUS
  <2>2. CASE k \in W
    <3>1. UpTo(W, k) = UpTo(W, k - 1) \cup {k} /\ k \notin UpTo(W, k - 1)
      <4>1. \A j \in W : j <= k <=> j <= k - 1 \/ j = k BY <1>1
      <4>2. ~(k <= k - 1) OBVIOUS
      <4>3. QED BY <2>2, <4>1, <4>2 DEF UpTo
    <3>2. QED BY <1>3, <2>1, <2>2, <3>1, FS_AddElement
  <2>3. CASE k \notin W
    <3>1. UpTo(W, k) = UpTo(W, k - 1)
      <4>1. \A j \in W : j <= k <=> j <= k - 1 \/ j = k BY <1>1
      <4>2. \A j \in W : j <= k <=> j <= k - 1 BY <2>3, <4>1
      <4>3. QED BY <4>2 DEF UpTo
    <3>2. QED BY <2>3, <3>1
  <2>4. QED BY <2>2, <2>3
<1>9. QED BY <1>4, <1>5, <1>6, <1>7, <1>8

\* Where the contests of a style's units are.
Wanted(contests, style) == {k \in DOMAIN contests : contests[k].district \in ToSet(style.unitIds)}

\* The contests of a style whose units differ: every contest of its units once,
\* in order.
LEMMA ContestsForOnce ==
    ASSUME NEW i, NEW style, NEW n \in Nat, DOMAIN i.contests = 1..n,
           i.contests \in Seq(ToSet(i.contests)), Orders(i.contests), Ascending(i.contests), IsInjective(style.unitIds)
    PROVE  LET W == Wanted(i.contests, style) IN
             /\ DOMAIN ContestsFor(i, style) = 1..Cardinality(W)
             /\ \A k \in W : /\ Cardinality(UpTo(W, k)) \in 1..Cardinality(W)
                             /\ ContestsFor(i, style)[Cardinality(UpTo(W, k))] = i.contests[k]
<1> DEFINE w == i.contests
           W == Wanted(w, style)
           T == ToSet(w)
           size(k) == Cardinality(UpTo(W, k))
<1>1. DOMAIN w = 1..n /\ \A k \in 1..n : w[k] \in T BY DEF ToSet
<1>2. /\ W \in SUBSET (1..n) /\ \A k \in W : k \in 1..n
      /\ \A k \in 1..n : k \in W <=> w[k].district \in ToSet(style.unitIds)
  BY <1>1 DEF Wanted
<1> HIDE DEF W
<1>3. /\ size(0) = 0 /\ UpTo(W, n) = W /\ \A k \in 0..n : size(k) \in Nat
      /\ \A k \in 0..n : \A l \in UpTo(W, k) : size(l) \in 1..size(k)
      /\ \A k \in 1..n : size(k) = IF k \in W THEN size(k - 1) + 1 ELSE size(k - 1)
  BY <1>2, CountUpTo
<1>21. \A k \in W : k \in 1..n BY <1>2
<1>22. PICK f \in [0..n -> Seq(T)] : IsSearch(f, i, style, n) /\ ContestsFor(i, style) = InOrder(f[n])
  BY ContestsForRecursion
<1>4. /\ f[0] = <<>>
      /\ \A k \in 1..n : f[k] = IF k \in W THEN Append(f[k - 1], w[k]) ELSE f[k - 1]
      /\ ContestsFor(i, style) = InOrder(f[n])
  BY <1>2, <1>22 DEF IsSearch
<1>5. \A k, l \in 1..n : w[k].order \in Nat /\ (k <= l => w[k].order <= w[l].order)
  BY <1>1 DEF Orders, Ascending
<1> DEFINE Placed(k) == \A l \in UpTo(W, k) : f[k][size(l)] = w[l]
           Earlier(k) == \A p \in 1..Len(f[k]) : \E l \in 1..n : l <= k /\ f[k][p] = w[l]
           A == {k \in Nat : Len(f[k]) = size(k) /\ Placed(k) /\ Earlier(k) /\ Ascending(f[k])}
<1> HIDE DEF w, T, size
<1>6. 0 \in A
  <2>0. \A j \in W : ~(j <= 0) BY <1>2
  <2>1. UpTo(W, 0) = {} BY <2>0 DEF UpTo
  <2>2. f[0] = <<>> BY <1>4
  <2>3. DOMAIN f[0] = {} /\ Len(f[0]) = 0 BY <2>2
  <2>4. Ascending(f[0]) BY <2>3 DEF Ascending
  <2>5. QED BY <1>3, <2>1, <2>3, <2>4
<1>7. ASSUME NEW k \in Nat, k < n, k \in A PROVE k + 1 \in A
  <2>1. PICK m \in 1..n : m = k + 1 /\ m - 1 = k
    <3>1. k + 1 \in 1..n /\ k + 1 - 1 = k BY <1>7
    <3>2. QED BY <3>1
  <2>2. f[k] \in Seq(T) /\ w[m] \in T /\ k \in 0..n BY <1>1, <1>7
  <2>3. Len(f[k]) = size(k) /\ Placed(k) /\ Earlier(k) /\ Ascending(f[k]) BY <1>7
  <2>4. size(k) \in Nat BY <1>3, <2>2
  <2>5. CASE m \in W
    <3>1. f[m] = Append(f[k], w[m]) /\ size(m) = size(k) + 1 BY <1>3, <1>4, <2>1, <2>5
    <3>2. /\ Len(f[m]) = size(m) /\ f[m][size(m)] = w[m]
          /\ DOMAIN f[m] = 1..size(m)
          /\ \A p \in 1..size(k) : f[m][p] = f[k][p]
      BY <2>2, <2>3, <2>4, <3>1
    <3>3. Placed(m)
      <4> SUFFICES ASSUME NEW l \in UpTo(W, m) PROVE f[m][size(l)] = w[l] OBVIOUS
      <4>1. CASE l = m BY <3>2, <4>1
      <4>2. CASE l # m
        <5>0. l \in W /\ l <= m BY DEF UpTo
        <5>01. l <= k BY <1>21, <2>1, <4>2, <5>0
        <5>1. l \in UpTo(W, k) BY <5>0, <5>01 DEF UpTo
        <5>2. size(l) \in 1..size(k) BY <1>3, <2>2, <5>1
        <5>3. QED BY <2>3, <3>2, <5>1, <5>2
      <4>3. QED BY <4>1, <4>2
    <3>4. Earlier(m)
      <4> SUFFICES ASSUME NEW p \in 1..size(m) PROVE \E l \in 1..n : l <= m /\ f[m][p] = w[l]
        BY <3>2
      <4>1. CASE p = size(m) BY <2>1, <3>2, <4>1
      <4>2. CASE p # size(m)
        <5>1. p \in 1..size(k) BY <2>4, <3>1, <4>2
        <5>2. PICK l \in 1..n : l <= k /\ f[k][p] = w[l] BY <2>3, <5>1
        <5>3. QED BY <2>1, <3>2, <5>1, <5>2
      <4>3. QED BY <4>1, <4>2
    <3>5. Ascending(f[m])
      <4> SUFFICES ASSUME NEW p \in 1..size(m), NEW q \in 1..size(m), p <= q
                   PROVE  f[m][p].order <= f[m][q].order
        BY <3>2 DEF Ascending
      <4>1. CASE q = size(m)
        <5>1. PICK l \in 1..n : l <= m /\ f[m][p] = w[l] BY <3>2, <3>4
        <5>2. QED BY <1>5, <3>2, <4>1, <5>1
      <4>2. CASE q # size(m)
        <5>1. q \in 1..size(k) BY <2>4, <3>1, <4>2
        <5>2. p \in 1..size(k) BY <2>4, <5>1
        <5>3. DOMAIN f[k] = 1..size(k) BY <2>2, <2>3
        <5>4. f[k][p].order <= f[k][q].order BY <2>3, <5>1, <5>2, <5>3 DEF Ascending
        <5>5. QED BY <3>2, <5>1, <5>2, <5>4
      <4>3. QED BY <4>1, <4>2
    <3>6. m \in A BY <3>2, <3>3, <3>4, <3>5
    <3>7. QED BY <2>1, <3>6
  <2>6. CASE m \notin W
    <3>1. f[m] = f[k] /\ size(m) = size(k) BY <1>3, <1>4, <2>1, <2>6
    <3>2. UpTo(W, m) = UpTo(W, k)
      <4>1. \A j \in W : j <= m <=> j <= k \/ j = m BY <1>21, <2>1
      <4>2. \A j \in W : j <= m <=> j <= k BY <2>6, <4>1
      <4>3. QED BY <4>2 DEF UpTo
    <3>3. Placed(m) BY <2>3, <3>1, <3>2
    <3>4. Earlier(m)
      <4> SUFFICES ASSUME NEW p \in 1..Len(f[m]) PROVE \E l \in 1..n : l <= m /\ f[m][p] = w[l]
        OBVIOUS
      <4>1. PICK l \in 1..n : l <= k /\ f[k][p] = w[l] BY <2>3, <3>1
      <4>2. l <= m /\ f[m][p] = w[l] BY <2>1, <3>1, <4>1
      <4>3. QED BY <4>2
    <3>5. Len(f[m]) = size(m) /\ Ascending(f[m]) BY <2>3, <3>1
    <3>6. m \in Nat BY <2>1
    <3>7. m \in A BY <3>3, <3>4, <3>5, <3>6
    <3>8. QED BY <2>1, <3>7
  <2>7. QED BY <2>5, <2>6
<1> HIDE DEF A
<1>8. 0..n \subseteq A BY <1>6, <1>7, BoundedInduction
<1>9. n \in A BY <1>8
<1>10. Len(f[n]) = size(n) /\ Placed(n) /\ Earlier(n) /\ Ascending(f[n]) BY <1>9 DEF A
<1>11. f[n] \in Seq(T) /\ size(n) \in Nat
  <2>1. n \in 0..n OBVIOUS
  <2>2. QED BY <1>3, <2>1
<1>12. DOMAIN f[n] = 1..size(n) /\ f[n] = [p \in 1..size(n) |-> f[n][p]] BY <1>10, <1>11
<1>13. Orders(f[n])
  <2> SUFFICES ASSUME NEW p \in 1..size(n) PROVE f[n][p].order \in Nat BY <1>12 DEF Orders
  <2>1. PICK l \in 1..n : f[n][p] = w[l] BY <1>10
  <2>2. QED BY <1>5, <2>1
<1>14. ContestsFor(i, style) = f[n] BY <1>4, <1>10, <1>11, <1>12, <1>13, AscendingInOrder
<1>15. \A l \in W : size(l) \in 1..size(n)
  <2>1. n \in 0..n OBVIOUS
  <2>2. QED BY <1>3, <2>1
<1>16. size(n) = Cardinality(W) BY <1>3 DEF size
<1>17. QED BY <1>3, <1>10, <1>12, <1>14, <1>15, <1>16 DEF size, w, W

-----------------------------------------------------------------------------
(* The inductive invariant. However often it was saved and loaded, a manifest
   is in one of two forms, and the context and the internal manifest were made
   from either.                                                              *)

Forms == {original, Loaded(original)}

ManifestInv ==
    /\ original \in Manifests /\ loads \in Nat
    /\ manifest = IF loads = 0 THEN original ELSE Loaded(original)

ContextInv ==
    context # NULL => \E m \in Forms : ~HashReadsNull(m) /\ context = NewElection(HashManifest(m))

InternalInv == internal # NULL => \E m \in Forms : ~HashReadsNull(m) /\ MadeFrom(internal, m)

MediatorInv ==
    /\ refused => /\ context # NULL /\ internal # NULL
                  /\ internal.manifestHash # context.manifestHash
    /\ mediator => /\ context # NULL /\ internal # NULL
                   /\ internal.manifestHash = context.manifestHash

BallotInv == ballot # NULL => mediator /\ ballot = EncryptedBallot(ballot.style)

FailureInv ==
    /\ failed = "null" =>
         \/ HashReadsNull(manifest)
         \/ ballot # NULL /\ BallotStyle(internal, ballot.style) = NULL
    /\ failed = "thrown" => \E c \in ToSet(original.contests) : c.title # NULL

IInv == ManifestInv /\ ContextInv /\ InternalInv /\ MediatorInv /\ BallotInv /\ FailureInv

\* The two forms are manifests, and loading either gives the second.
LEMMA FormsLoaded ==
    ASSUME ManifestInv
    PROVE  /\ original \in AllManifests /\ manifest \in Forms
           /\ \A m \in Forms : m \in AllManifests /\ Loaded(m) = Loaded(original)
<1>1. original \in AllManifests BY ManifestsAssumption DEF ManifestInv
<1>2. Loaded(original) \in AllManifests /\ Loaded(Loaded(original)) = Loaded(original)
  BY <1>1, LoadedType
<1>3. manifest \in Forms BY DEF ManifestInv, Forms
<1>4. QED BY <1>1, <1>2, <1>3 DEF Forms

\* Every contest of a loaded manifest was one of the manifest.
LEMMA LoadedFrom ==
    ASSUME NEW m \in AllManifests, NEW c \in ToSet(Loaded(m).contests)
    PROVE  \E d \in ToSet(m.contests) : d \in Contests /\ c = LoadedContest(d)
<1> DEFINE s == InOrder(m.contests)
           t == Loaded(m).contests
           n == Len(m.contests)
<1>1. /\ s \in Seq(Contests) /\ Len(s) = n /\ ToSet(s) = ToSet(m.contests)
      /\ t \in Seq(Contests) /\ Len(t) = n
      /\ \A k \in 1..n : t[k] = LoadedContest(s[k])
  BY LoadedContests
<1> HIDE DEF s, t, n
<1>2. PICK k \in 1..n : c = t[k] BY <1>1 DEF ToSet, t
<1>3. s[k] \in Contests /\ s[k] \in ToSet(s) BY <1>1, <1>2 DEF ToSet
<1>4. QED BY <1>1, <1>2, <1>3

\* A title is not lost, and none is made up.
LEMMA TitlesKept ==
    ASSUME ManifestInv, NEW m \in Forms, NEW c \in ToSet(m.contests)
    PROVE  \E d \in ToSet(original.contests) : c.title = d.title /\ c.subtitle = d.subtitle
<1>1. CASE m = original BY <1>1
<1>2. CASE m = Loaded(original)
  <2>1. original \in AllManifests BY FormsLoaded
  <2>2. PICK d \in ToSet(original.contests) : d \in Contests /\ c = LoadedContest(d)
    BY <1>2, <2>1, LoadedFrom
  <2>3. c.title = d.title /\ c.subtitle = d.subtitle BY <2>2, ContestRoundTrip
  <2>4. QED BY <2>3
<1>3. QED BY <1>1, <1>2 DEF Forms

\* The context comes back as it was.
LEMMA ContextRoundTrip ==
    ASSUME NEW h PROVE ContextFromJson(ContextToJson(NewElection(h))) = NewElection(h)
<1>1. Read(OrNull(<<>>, <<>>), <<>>) = <<>> BY DEF Read, OrNull
<1>2. QED BY <1>1 DEF ContextFromJson, ContextToJson, NewElection, MakeContext

LEMMA InitIInv == Init => IInv
<1> SUFFICES ASSUME Init PROVE IInv OBVIOUS
<1>1. ManifestInv BY DEF Init, ManifestInv
<1>2. ContextInv /\ InternalInv /\ BallotInv BY DEF Init, ContextInv, InternalInv, BallotInv
<1>3. MediatorInv /\ FailureInv BY DEF Init, MediatorInv, FailureInv
<1>4. QED BY <1>1, <1>2, <1>3 DEF IInv

\* Until there is a mediator, no ballot is encrypted.
LEMMA NoBallotBefore == ASSUME BallotInv, ~mediator PROVE ballot = NULL
  BY DEF BallotInv

LEMMA SaveLoadManifestKeeps == ASSUME IInv, SaveLoadManifest PROVE IInv'
<1>1. /\ ~mediator /\ ~refused /\ failed = "no"
      /\ manifest' = Loaded(manifest) /\ loads' = loads + 1
      /\ UNCHANGED <<original, context, internal, refused, mediator, ballot, failed>>
  BY DEF SaveLoadManifest, SettingUp, Going, Loaded
<1>2. ManifestInv'
  <2>1. ManifestInv BY DEF IInv
  <2>2. manifest' = Loaded(original)
    <3>1. Loaded(manifest) = Loaded(original) BY <2>1, FormsLoaded
    <3>2. QED BY <1>1, <3>1
  <2>3. loads' \in Nat /\ loads' # 0 BY <1>1, <2>1 DEF ManifestInv
  <2>4. QED BY <1>1, <2>1, <2>2, <2>3 DEF ManifestInv
<1>3. ContextInv' BY <1>1 DEF IInv, ContextInv, Forms
<1>4. InternalInv' BY <1>1 DEF IInv, InternalInv, Forms
<1>5. MediatorInv' BY <1>1 DEF MediatorInv
<1>6. BallotInv'
  <2>1. ballot = NULL BY <1>1, NoBallotBefore DEF IInv
  <2>2. QED BY <1>1, <2>1 DEF BallotInv
<1>7. FailureInv' BY <1>1 DEF FailureInv
<1>8. QED BY <1>2, <1>3, <1>4, <1>5, <1>6, <1>7 DEF IInv

LEMMA NewContextKeeps == ASSUME IInv, NewContext PROVE IInv'
<1>1. /\ ~mediator /\ ~refused /\ failed = "no"
      /\ UNCHANGED <<original, manifest, loads, internal, refused, mediator, ballot>>
  BY DEF NewContext, SettingUp, Going
<1>2. ManifestInv' BY <1>1 DEF IInv, ManifestInv
<1>3. manifest \in Forms BY FormsLoaded DEF IInv
<1>4. Forms' = Forms BY <1>1 DEF Forms
<1>5. ContextInv' /\ FailureInv'
  <2>1. CASE HashReadsNull(manifest)
    <3>1. failed' = "null" /\ UNCHANGED context BY <2>1 DEF NewContext
    <3>2. ContextInv' BY <1>4, <3>1 DEF IInv, ContextInv
    <3>3. HashReadsNull(manifest)' BY <1>1, <2>1
    <3>4. FailureInv' BY <3>1, <3>3 DEF FailureInv
    <3>5. QED BY <3>2, <3>4
  <2>2. CASE ~HashReadsNull(manifest)
    <3>1. context' = NewElection(HashManifest(manifest)) /\ UNCHANGED failed
      BY <2>2 DEF NewContext
    <3>2. ContextInv' BY <1>3, <1>4, <2>2, <3>1 DEF ContextInv
    <3>3. FailureInv' BY <1>1, <3>1 DEF FailureInv
    <3>4. QED BY <3>2, <3>3
  <2>3. QED BY <2>1, <2>2
<1>6. InternalInv' BY <1>1, <1>4 DEF IInv, InternalInv
<1>7. MediatorInv' BY <1>1 DEF MediatorInv
<1>8. BallotInv'
  <2>1. ballot = NULL BY <1>1, NoBallotBefore DEF IInv
  <2>2. QED BY <1>1, <2>1 DEF BallotInv
<1>9. QED BY <1>2, <1>5, <1>6, <1>7, <1>8 DEF IInv

LEMMA SaveLoadContextKeeps == ASSUME IInv, SaveLoadContext PROVE IInv'
<1>1. /\ ~mediator /\ ~refused /\ failed = "no" /\ context # NULL
      /\ context' = ContextFromJson(ContextToJson(context))
      /\ UNCHANGED <<original, manifest, loads, internal, refused, mediator, ballot, failed>>
  BY DEF SaveLoadContext, SettingUp, Going
<1>2. ManifestInv' BY <1>1 DEF IInv, ManifestInv
<1>3. Forms' = Forms BY <1>1 DEF Forms
<1>4. ContextInv'
  <2>1. PICK m \in Forms : ~HashReadsNull(m) /\ context = NewElection(HashManifest(m))
    BY <1>1 DEF IInv, ContextInv
  <2>2. context' = NewElection(HashManifest(m)) BY <1>1, <2>1, ContextRoundTrip
  <2>3. QED BY <1>3, <2>1, <2>2 DEF ContextInv
<1>5. InternalInv' BY <1>1, <1>3 DEF IInv, InternalInv
<1>6. MediatorInv' BY <1>1 DEF MediatorInv
<1>7. BallotInv'
  <2>1. ballot = NULL BY <1>1, NoBallotBefore DEF IInv
  <2>2. QED BY <1>1, <2>1 DEF BallotInv
<1>8. FailureInv' BY <1>1 DEF FailureInv
<1>9. QED BY <1>2, <1>4, <1>5, <1>6, <1>7, <1>8 DEF IInv

LEMMA NewInternalManifestKeeps == ASSUME IInv, NewInternalManifest PROVE IInv'
<1>1. /\ ~mediator /\ ~refused /\ failed = "no"
      /\ UNCHANGED <<original, manifest, loads, context, refused, mediator, ballot>>
  BY DEF NewInternalManifest, SettingUp, Going
<1>2. ManifestInv' BY <1>1 DEF IInv, ManifestInv
<1>3. manifest \in Forms /\ manifest \in AllManifests BY FormsLoaded DEF IInv
<1>4. Forms' = Forms BY <1>1 DEF Forms
<1>5. InternalInv' /\ FailureInv'
  <2>1. CASE HashReadsNull(manifest)
    <3>1. failed' = "null" /\ UNCHANGED internal BY <2>1 DEF NewInternalManifest
    <3>2. InternalInv' BY <1>4, <3>1 DEF IInv, InternalInv
    <3>3. HashReadsNull(manifest)' BY <1>1, <2>1
    <3>4. FailureInv' BY <3>1, <3>3 DEF FailureInv
    <3>5. QED BY <3>2, <3>4
  <2>2. CASE ~HashReadsNull(manifest)
    <3>1. internal' = InternalManifest(manifest) /\ UNCHANGED failed
      BY <2>2 DEF NewInternalManifest
    <3>2. MadeFrom(internal', manifest) BY <1>3, <3>1, InternalMadeFrom
    <3>3. InternalInv' BY <1>3, <1>4, <2>2, <3>2 DEF InternalInv
    <3>4. FailureInv' BY <1>1, <3>1 DEF FailureInv
    <3>5. QED BY <3>3, <3>4
  <2>3. QED BY <2>1, <2>2
<1>6. ContextInv' BY <1>1, <1>4 DEF IInv, ContextInv
<1>7. MediatorInv' BY <1>1 DEF MediatorInv
<1>8. BallotInv'
  <2>1. ballot = NULL BY <1>1, NoBallotBefore DEF IInv
  <2>2. QED BY <1>1, <2>1 DEF BallotInv
<1>9. QED BY <1>2, <1>5, <1>6, <1>7, <1>8 DEF IInv

LEMMA SaveLoadInternalManifestKeeps == ASSUME IInv, SaveLoadInternalManifest PROVE IInv'
<1> DEFINE j == InternalToJson(internal)
<1>1. /\ ~mediator /\ ~refused /\ failed = "no" /\ internal # NULL
      /\ UNCHANGED <<original, manifest, loads, context, refused, mediator, ballot>>
  BY DEF SaveLoadInternalManifest, SettingUp, Going
<1>2. IF InternalThrows(j) THEN failed' = "thrown" /\ UNCHANGED internal
      ELSE internal' = InternalFromJson(j) /\ UNCHANGED failed
  BY DEF SaveLoadInternalManifest
<1>3. ManifestInv' BY <1>1 DEF IInv, ManifestInv
<1>4. Forms' = Forms BY <1>1 DEF Forms
<1>5. PICK m \in Forms : ~HashReadsNull(m) /\ MadeFrom(internal, m)
  BY <1>1 DEF IInv, InternalInv
<1>6. m \in AllManifests /\ ManifestInv BY FormsLoaded DEF IInv
<1>7. /\ InternalThrows(j) => \E c \in ToSet(m.contests) : c.title # NULL
      /\ ~InternalThrows(j) => MadeFrom(InternalFromJson(j), m)
  BY <1>5, <1>6, ReloadedMadeFrom
<1> HIDE DEF j
<1>8. InternalInv' /\ FailureInv'
  <2>1. CASE InternalThrows(j)
    <3>1. failed' = "thrown" /\ UNCHANGED internal BY <1>2, <2>1
    <3>2. InternalInv' BY <1>4, <3>1 DEF IInv, InternalInv
    <3>3. PICK c \in ToSet(m.contests) : c.title # NULL BY <1>7, <2>1
    <3>4. PICK d \in ToSet(original.contests) : c.title = d.title BY <1>6, TitlesKept
    <3>5. \E e \in ToSet(original'.contests) : e.title # NULL BY <1>1, <3>3, <3>4
    <3>6. FailureInv' BY <3>1, <3>5 DEF FailureInv
    <3>7. QED BY <3>2, <3>6
  <2>2. CASE ~InternalThrows(j)
    <3>1. MadeFrom(internal', m) /\ UNCHANGED failed BY <1>2, <1>7, <2>2
    <3>2. InternalInv' BY <1>4, <1>5, <3>1 DEF InternalInv
    <3>3. FailureInv' BY <1>1, <3>1 DEF FailureInv
    <3>4. QED BY <3>2, <3>3
  <2>3. QED BY <2>1, <2>2
<1>9. ContextInv' BY <1>1, <1>4 DEF IInv, ContextInv
<1>10. MediatorInv' BY <1>1 DEF MediatorInv
<1>11. BallotInv'
  <2>1. ballot = NULL BY <1>1, NoBallotBefore DEF IInv
  <2>2. QED BY <1>1, <2>1 DEF BallotInv
<1>12. QED BY <1>3, <1>8, <1>9, <1>10, <1>11 DEF IInv

LEMMA NewMediatorKeeps == ASSUME IInv, NewMediator PROVE IInv'
<1>1. /\ ~mediator /\ ~refused /\ failed = "no" /\ context # NULL /\ internal # NULL
      /\ IF internal.manifestHash # context.manifestHash THEN refused' = TRUE /\ UNCHANGED mediator
         ELSE mediator' = TRUE /\ UNCHANGED refused
      /\ UNCHANGED <<original, manifest, loads, context, internal, ballot, failed>>
  BY DEF NewMediator, SettingUp, Going
<1>2. ManifestInv' BY <1>1 DEF IInv, ManifestInv
<1>3. Forms' = Forms BY <1>1 DEF Forms
<1>4. ContextInv' BY <1>1, <1>3 DEF IInv, ContextInv
<1>5. InternalInv' BY <1>1, <1>3 DEF IInv, InternalInv
<1>6. MediatorInv'
  <2>1. CASE internal.manifestHash # context.manifestHash BY <1>1, <2>1 DEF MediatorInv
  <2>2. CASE internal.manifestHash = context.manifestHash BY <1>1, <2>2 DEF MediatorInv
  <2>3. QED BY <2>1, <2>2
<1>7. BallotInv'
  <2>1. ballot = NULL BY <1>1, NoBallotBefore DEF IInv
  <2>2. QED BY <1>1, <2>1 DEF BallotInv
<1>8. FailureInv' BY <1>1 DEF FailureInv
<1>9. QED BY <1>2, <1>4, <1>5, <1>6, <1>7, <1>8 DEF IInv

\* The steps that encrypt, or fill in, a ballot leave everything else as it was.
LEMMA SetupKeeps ==
    ASSUME IInv, UNCHANGED setup
    PROVE  ManifestInv' /\ ContextInv' /\ InternalInv' /\ MediatorInv'
<1>1. UNCHANGED <<original, manifest, loads, context, internal, mediator, refused>> BY DEF setup
<1>2. ManifestInv' BY <1>1 DEF IInv, ManifestInv
<1>3. Forms' = Forms BY <1>1 DEF Forms
<1>4. ContextInv' BY <1>1, <1>3 DEF IInv, ContextInv
<1>5. InternalInv' BY <1>1, <1>3 DEF IInv, InternalInv
<1>6. MediatorInv' BY <1>1 DEF IInv, MediatorInv
<1>7. QED BY <1>2, <1>4, <1>5, <1>6

LEMMA BallotKeeps ==
    ASSUME NEW id, mediator, UNCHANGED <<mediator, internal>>, ballot' = EncryptedBallot(id)
    PROVE  BallotInv' /\ ballot'.style = id
<1>1. EncryptedBallot(id).style = id BY DEF EncryptedBallot, Each
<1>2. internal' = internal /\ mediator' OBVIOUS
<1>3. EncryptedBallot(ballot.style)' = EncryptedBallot(ballot'.style)
  BY <1>2 DEF EncryptedBallot, Each
<1>4. BallotInv' BY <1>1, <1>2, <1>3 DEF BallotInv
<1>5. QED BY <1>1, <1>4

LEMMA EncryptKeeps == ASSUME IInv, NEW id, Encrypt(id) PROVE IInv'
<1>1. /\ mediator /\ failed = "no" /\ ballot' = EncryptedBallot(id)
      /\ UNCHANGED setup /\ UNCHANGED <<mediator, internal, failed>>
  BY DEF Encrypt, Going, setup
<1>2. ManifestInv' /\ ContextInv' /\ InternalInv' /\ MediatorInv' BY <1>1, SetupKeeps
<1>3. BallotInv' BY <1>1, BallotKeeps
<1>4. FailureInv' BY <1>1 DEF FailureInv
<1>5. QED BY <1>2, <1>3, <1>4 DEF IInv

LEMMA CompactEncryptKeeps == ASSUME IInv, NEW id \in Styles, CompactEncrypt(id) PROVE IInv'
<1>1. /\ mediator /\ failed = "no" /\ ballot' = EncryptedBallot(id)
      /\ failed' = IF BallotStyle(internal, id) = NULL THEN "null" ELSE failed
      /\ UNCHANGED setup /\ UNCHANGED <<mediator, internal>>
  BY DEF CompactEncrypt, Going, setup
<1>2. ManifestInv' /\ ContextInv' /\ InternalInv' /\ MediatorInv' BY <1>1, SetupKeeps
<1>3. BallotInv' /\ ballot'.style = id BY <1>1, BallotKeeps
<1>4. BallotStyle(internal, id) = NULL => ballot' # NULL
  <2>1. BallotStyle(internal, id) = NULL => ballot' = [style |-> id, contests |-> NULL]
    BY <1>1 DEF EncryptedBallot, Each
  <2>2. [style |-> id, contests |-> NULL] \in [style : Styles, contests : {NULL}] OBVIOUS
  <2>3. QED BY <2>1, <2>2, ManifestsAssumption
<1>5. FailureInv'
  <2>1. CASE BallotStyle(internal, id) = NULL
    <3>1. BallotStyle(internal, ballot'.style) = NULL BY <1>3, <2>1
    <3>2. BallotStyle(internal', ballot'.style) = NULL BY <1>1, <3>1
    <3>3. QED BY <1>1, <1>4, <2>1, <3>2 DEF FailureInv
  <2>2. CASE BallotStyle(internal, id) # NULL BY <1>1, <2>2 DEF FailureInv
  <2>3. QED BY <2>1, <2>2
<1>6. QED BY <1>2, <1>3, <1>5 DEF IInv

LEMMA StutterKeeps == ASSUME IInv, UNCHANGED vars PROVE IInv'
<1>1. UNCHANGED setup /\ UNCHANGED <<manifest, internal, original, mediator, ballot, failed>>
  BY DEF vars, setup
<1>2. ManifestInv' /\ ContextInv' /\ InternalInv' /\ MediatorInv' BY <1>1, SetupKeeps
<1>3. EncryptedBallot(ballot.style)' = EncryptedBallot(ballot.style) BY <1>1 DEF EncryptedBallot, Each
<1>4. BallotInv' BY <1>1, <1>3 DEF IInv, BallotInv
<1>5. FailureInv' BY <1>1 DEF IInv, FailureInv
<1>6. QED BY <1>2, <1>4, <1>5 DEF IInv

LEMMA NextIInv == IInv /\ [Next]_vars => IInv'
<1> SUFFICES ASSUME IInv, [Next]_vars PROVE IInv' OBVIOUS
<1>1. CASE SaveLoadManifest BY <1>1, SaveLoadManifestKeeps
<1>2. CASE NewContext BY <1>2, NewContextKeeps
<1>3. CASE SaveLoadContext BY <1>3, SaveLoadContextKeeps
<1>4. CASE NewInternalManifest BY <1>4, NewInternalManifestKeeps
<1>5. CASE SaveLoadInternalManifest BY <1>5, SaveLoadInternalManifestKeeps
<1>6. CASE NewMediator BY <1>6, NewMediatorKeeps
<1>7. ASSUME NEW id \in Styles, Encrypt(id) \/ CompactEncrypt(id) PROVE IInv'
  BY <1>7, EncryptKeeps, CompactEncryptKeeps
<1>8. CASE UNCHANGED vars BY <1>8, StutterKeeps
<1>9. QED BY <1>1, <1>2, <1>3, <1>4, <1>5, <1>6, <1>7, <1>8 DEF Next

\* Whatever is saved and loaded, and in whatever order, the manifest, the context
\* and the internal manifest come from one of two forms of one manifest, and every
\* ballot from the internal manifest.
THEOREM AlwaysTwoForms == Spec => []IInv
<1>1. QED BY InitIInv, NextIInv, PTL DEF Spec

-----------------------------------------------------------------------------
(* What follows from the two forms.                                          *)

LEMMA HashSurvivesIfTwoForms == IInv => HashSurvives
<1> SUFFICES ASSUME IInv, ~HashReadsNull(original)
             PROVE  HashManifest(manifest) = HashManifest(original) <=> loads = 0 \/ Canonical(original)
  BY DEF HashSurvives
<1>1. ManifestInv /\ original \in AllManifests BY FormsLoaded DEF IInv
<1>2. CASE loads = 0 BY <1>1, <1>2 DEF ManifestInv
<1>3. CASE loads # 0
  <2>1. manifest = Loaded(original) BY <1>1, <1>3 DEF ManifestInv
  <2>2. HashManifest(Loaded(original)) = HashManifest(original) <=> Canonical(original)
    BY <1>1, ManifestHash
  <2>3. QED BY <1>3, <2>1, <2>2
<1>4. QED BY <1>2, <1>3

\* Saving and loading a manifest keeps its hash exactly if it is canonical:
\* toObject, fromObject and crypto_hash lose nothing else that is hashed.
THEOREM AlwaysHashSurvives == Spec => []HashSurvives
  BY AlwaysTwoForms, HashSurvivesIfTwoForms, PTL

LEMMA StepLoadedIsStable == IInv /\ [Next]_vars => [loads > 0 => manifest' = manifest]_vars
<1> SUFFICES ASSUME IInv, Next, loads > 0 PROVE manifest' = manifest OBVIOUS
<1>1. ManifestInv BY DEF IInv
<1>2. loads # 0 BY <1>1 DEF ManifestInv
<1>3. manifest = Loaded(original) BY <1>1, <1>2 DEF ManifestInv
<1>4. CASE SaveLoadManifest
  <2>1. manifest' = Loaded(manifest) BY <1>4 DEF SaveLoadManifest, Loaded
  <2>2. Loaded(manifest) = Loaded(original) BY <1>1, FormsLoaded
  <2>3. QED BY <1>3, <2>1, <2>2
<1>5. CASE ~SaveLoadManifest
  <2>1. \A id \in Styles : Encrypt(id) \/ CompactEncrypt(id) => UNCHANGED manifest
    BY DEF Encrypt, CompactEncrypt, setup
  <2>2. QED BY <1>5, <2>1 DEF Next, NewContext, SaveLoadContext, NewInternalManifest,
                              SaveLoadInternalManifest, NewMediator
<1>6. QED BY <1>4, <1>5

\* A manifest that was loaded once is not changed by saving and loading it again.
THEOREM AlwaysLoadedIsStable == Spec => LoadedIsStable
<1>1. QED BY AlwaysTwoForms, StepLoadedIsStable, PTL DEF Spec, LoadedIsStable

LEMMA MediatorAgreesIfTwoForms == IInv => MediatorAgrees
<1> SUFFICES ASSUME IInv PROVE MediatorAgrees OBVIOUS
<1>1. ASSUME refused, Canonical(original) PROVE FALSE
  <2>1. /\ context # NULL /\ internal # NULL
        /\ internal.manifestHash # context.manifestHash
    BY <1>1 DEF IInv, MediatorInv
  <2>2. PICK m \in Forms : ~HashReadsNull(m) /\ context = NewElection(HashManifest(m))
    BY <2>1 DEF IInv, ContextInv
  <2>3. PICK l \in Forms : ~HashReadsNull(l) /\ MadeFrom(internal, l)
    BY <2>1 DEF IInv, InternalInv
  <2>4. context.manifestHash = HashManifest(m) BY <2>2 DEF NewElection, MakeContext
  <2>5. internal.manifestHash = HashManifest(l) BY <2>3 DEF MadeFrom
  <2>6. HashManifest(m) # HashManifest(l) BY <2>1, <2>4, <2>5
  <2>7. ~HashReadsNull(original) BY <2>2, <2>3, <2>6 DEF Forms
  <2>8. original \in AllManifests BY FormsLoaded DEF IInv
  <2>9. HashManifest(Loaded(original)) = HashManifest(original) BY <1>1, <2>7, <2>8, ManifestHash
  <2>10. QED BY <2>6, <2>9 DEF Forms
<1> DEFINE Agrees(m) ==
      /\ ~HashReadsNull(m)
      /\ context.cryptoExtendedBaseHash = NewElection(HashManifest(m)).cryptoExtendedBaseHash
      /\ Len(internal.contests) = Len(m.contests)
      /\ \A i \in DOMAIN internal.contests :
           LET c == InOrder(m.contests)[i] IN
             /\ internal.contests[i].id = c.id
             /\ c.title # NULL => internal.contests[i].allowed = c.allowed
<1>2. ASSUME mediator PROVE \E m \in Forms : Agrees(m)
  <2>1. context # NULL /\ internal # NULL /\ internal.manifestHash = context.manifestHash
    BY <1>2 DEF IInv, MediatorInv
  <2>2. PICK l \in Forms : context = NewElection(HashManifest(l)) BY <2>1 DEF IInv, ContextInv
  <2>3. PICK m \in Forms : ~HashReadsNull(m) /\ MadeFrom(internal, m) BY <2>1 DEF IInv, InternalInv
  <2>4. HashManifest(m) = HashManifest(l)
    BY <2>1, <2>2, <2>3 DEF NewElection, MakeContext, MadeFrom
  <2>5. context = NewElection(HashManifest(m)) BY <2>2, <2>4
  <2>6. m \in AllManifests BY FormsLoaded DEF IInv
  <2>7. Len(m.contests) \in Nat BY <2>6, LoadedContests
  <2>8. DOMAIN internal.contests = 1..Len(m.contests)
        /\ \A k \in 1..Len(m.contests) : CopyOf(internal.contests[k], InOrder(m.contests)[k])
    BY <2>3, <2>6, CopiesInOrder DEF MadeFrom
  <2>9. Len(internal.contests) = Len(m.contests)
    <3>1. internal.contests = [k \in 1..Len(m.contests) |-> internal.contests[k]] BY <2>3 DEF MadeFrom
    <3>2. QED BY <2>7, <2>8, <3>1
  <2>10. ASSUME NEW i \in DOMAIN internal.contests
         PROVE  LET c == InOrder(m.contests)[i] IN
                  /\ internal.contests[i].id = c.id
                  /\ c.title # NULL => internal.contests[i].allowed = c.allowed
    BY <2>8, <2>10 DEF CopyOf
  <2>11. Agrees(m) BY <2>3, <2>5, <2>9, <2>10
  <2>12. QED BY <2>11
<1>3. QED BY <1>1, <1>2 DEF MediatorAgrees, Forms, Loaded

\* A device refuses the context of its own election only if the manifest is not
\* canonical, and one that accepts it encrypts the contests of the manifest whose
\* hash is in the base hash.
THEOREM AlwaysMediatorAgrees == Spec => []MediatorAgrees
  BY AlwaysTwoForms, MediatorAgreesIfTwoForms, PTL

LEMMA PlaceholdersDistinctIfTwoForms == IInv => PlaceholdersDistinct
<1> SUFFICES ASSUME IInv, internal # NULL, NEW w \in ToSet(internal.contests),
                    \A s \in ToSet(w.selections) : s.order + 1 < OrderLimit
             PROVE  Cardinality({s.order : s \in ToSet(w.selections)}
                                  \cup {s.order : s \in ToSet(w.placeholders)})
                      = Len(w.selections) + w.elected
  BY DEF PlaceholdersDistinct
<1>1. PICK m \in Forms : MadeFrom(internal, m) BY DEF IInv, InternalInv
<1>2. m \in AllManifests /\ original \in AllManifests BY FormsLoaded DEF IInv
<1>3. \A c \in ToSet(m.contests) : Numbered(c.selections)
  <2>1. \A c \in ToSet(original.contests) : Numbered(c.selections)
    BY ManifestsAssumption DEF IInv, ManifestInv
  <2>2. \A c \in ToSet(Loaded(original).contests) : Numbered(c.selections)
    BY <1>2, <2>1, NumberedLoaded
  <2>3. QED BY <2>1, <2>2 DEF Forms
<1> DEFINE s == InOrder(m.contests)
           n == Len(m.contests)
<1>4. s \in Seq(Contests) /\ Len(s) = n /\ ToSet(s) = ToSet(m.contests) BY <1>2, LoadedContests
<1>5. DOMAIN internal.contests = 1..n /\ \A k \in 1..n : CopyOf(internal.contests[k], s[k])
  BY <1>1, <1>2, CopiesInOrder DEF MadeFrom
<1> HIDE DEF s, n
<1>6. PICK k \in 1..n : w = internal.contests[k] BY <1>5 DEF ToSet
<1>7. s[k] \in Contests /\ s[k] \in ToSet(s) BY <1>4 DEF ToSet
<1>8. CopyOf(w, s[k]) /\ Numbered(s[k].selections) BY <1>3, <1>4, <1>5, <1>6, <1>7
<1>9. QED BY <1>7, <1>8, PlaceholderOrders

\* For every manifest whose contests and selections are numbered without
\* repetition: as long as the next number fits, addPlaceholders gives a contest
\* one placeholder for each seat, with a number no other one of the contest has.
THEOREM AlwaysPlaceholdersDistinct == Spec => []PlaceholdersDistinct
  BY AlwaysTwoForms, PlaceholdersDistinctIfTwoForms, PTL

\* Hashing a loaded manifest reads a null pointer only for a title without subtitle.
LEMMA LoadedReadsNull ==
    ASSUME NEW m \in AllManifests, HashReadsNull(Loaded(m))
    PROVE  \E c \in ToSet(Loaded(m).contests) : HalfTitled(c)
<1>1. /\ Loaded(m).name = m.name
      /\ Loaded(m).contact = IF m.name = NULL THEN NULL
                             ELSE IF m.contact # NULL THEN m.contact ELSE NoContact
  BY ManifestRoundTrip
<1>2. NoContact # NULL
  <2>1. NoContact \in Contacts BY DEF NoContact, Contacts, Texts, Strings
  <2>2. QED BY <2>1, NullIsNothingElse
<1>3. ~(Loaded(m).name # NULL /\ Loaded(m).contact = NULL) BY <1>1, <1>2
<1>4. QED BY <1>3 DEF HashReadsNull

LEMMA FailsOnlyWhenIfTwoForms == IInv => FailsOnlyWhen
<1> SUFFICES ASSUME IInv PROVE FailsOnlyWhen OBVIOUS
<1>1. ManifestInv /\ original \in AllManifests BY FormsLoaded DEF IInv
<1>2. ASSUME HashReadsNull(manifest)
      PROVE  \/ \E c \in ToSet(original.contests) : HalfTitled(c)
             \/ loads = 0 /\ original.name # NULL /\ original.contact = NULL
  <2>1. CASE loads = 0
    <3>1. manifest = original BY <1>1, <2>1 DEF ManifestInv
    <3>2. QED BY <1>2, <2>1, <3>1 DEF HashReadsNull
  <2>2. CASE loads # 0
    <3>1. manifest = Loaded(original) BY <1>1, <2>2 DEF ManifestInv
    <3>2. PICK c \in ToSet(Loaded(original).contests) : HalfTitled(c)
      BY <1>1, <1>2, <3>1, LoadedReadsNull
    <3>3. PICK d \in ToSet(original.contests) : c.title = d.title /\ c.subtitle = d.subtitle
      BY <1>1, TitlesKept DEF Forms
    <3>4. HalfTitled(d) BY <3>2, <3>3 DEF HalfTitled
    <3>5. QED BY <3>4
  <2>3. QED BY <2>1, <2>2
<1>3. ASSUME ballot # NULL, BallotStyle(internal, ballot.style) = NULL
      PROVE  ballot.style \notin IdsOf(original.styles)
  <2>1. internal # NULL BY <1>3 DEF IInv, BallotInv, MediatorInv
  <2>2. PICK m \in Forms : MadeFrom(internal, m) BY <2>1 DEF IInv, InternalInv
  <2>3. internal.styles = original.styles
    <3>1. internal.styles = m.styles BY <2>2 DEF MadeFrom
    <3>2. Loaded(original).styles = original.styles BY <1>1, ManifestRoundTrip
    <3>3. QED BY <3>1, <3>2 DEF Forms
  <2>4. internal.styles \in Seq(BallotStyles) BY <1>1, <2>3 DEF AllManifests
  <2>5. ballot.style \notin IdsOf(internal.styles) BY <1>3, <2>4, BallotStyleFound
  <2>6. QED BY <2>3, <2>5
<1>4. /\ failed = "null" =>
           \/ HashReadsNull(manifest)
           \/ ballot # NULL /\ BallotStyle(internal, ballot.style) = NULL
      /\ failed = "thrown" => \E c \in ToSet(original.contests) : c.title # NULL
  BY DEF IInv, FailureInv
<1>5. QED BY <1>2, <1>3, <1>4 DEF FailsOnlyWhen

\* No other null pointer is read, and no other load throws.
THEOREM AlwaysFailsOnlyWhen == Spec => []FailsOnlyWhen
  BY AlwaysTwoForms, FailsOnlyWhenIfTwoForms, PTL

-----------------------------------------------------------------------------
(* Validity. A loaded manifest has what isValid looks at.                    *)

LEMMA IdsKept ==
    ASSUME NEW s, NEW t, NEW n \in Nat, DOMAIN s = 1..n, DOMAIN t = 1..n,
           \A i \in 1..n : t[i].id = s[i].id
    PROVE  IdsOf(t) = IdsOf(s)
<1>1. \A x : x \in ToSet(s) <=> \E i \in 1..n : s[i] = x BY DEF ToSet
<1>2. \A x : x \in ToSet(t) <=> \E i \in 1..n : t[i] = x BY DEF ToSet
<1>3. ASSUME NEW x \in IdsOf(t) PROVE x \in IdsOf(s)
  <2>1. PICK e \in ToSet(t) : x = e.id BY DEF IdsOf
  <2>2. PICK i \in 1..n : t[i] = e BY <1>2, <2>1
  <2>3. s[i] \in ToSet(s) /\ s[i].id = x BY <1>1, <2>1, <2>2
  <2>4. QED BY <2>3 DEF IdsOf
<1>4. ASSUME NEW x \in IdsOf(s) PROVE x \in IdsOf(t)
  <2>1. PICK e \in ToSet(s) : x = e.id BY DEF IdsOf
  <2>2. PICK i \in 1..n : s[i] = e BY <1>1, <2>1
  <2>3. t[i] \in ToSet(t) /\ t[i].id = x BY <1>2, <2>1, <2>2
  <2>4. QED BY <2>3 DEF IdsOf
<1>5. QED BY <1>3, <1>4

\* The votes a contest allows are replaced only where they do not count.
LEMMA ContestValidity ==
    ASSUME NEW c \in Contests PROVE ContestIsValid(LoadedContest(c)) <=> ContestIsValid(c)
<1> DEFINE l == LoadedContest(c)
           default == DefaultVotes(c.variation, c.elected)
<1>1. l.elected = c.elected /\ l.allowed = VotesAllowedOnceLoaded(c) /\ l.selections = InOrder(c.selections)
  BY ContestRoundTrip
<1>2. c.selections \in Seq(Selections) /\ c.elected \in Nat /\ c.allowed \in Nat BY DEF Contests
<1>3. Orders(c.selections) BY <1>2, SelectionsOfContest
<1>4. Len(l.selections) = Len(c.selections) /\ ToSet(l.selections) = ToSet(c.selections)
  BY <1>1, <1>2, <1>3, InOrderSeq
<1>5. default \in {0, c.elected} BY DefaultVotesType
<1> HIDE DEF l, default
<1>6. (l.allowed = 0 \/ l.elected <= l.allowed) <=> (c.allowed = 0 \/ c.elected <= c.allowed)
  <2>1. CASE c.allowed = 0
    <3>1. l.allowed = default BY <1>1, <2>1 DEF VotesAllowedOnceLoaded, default
    <3>2. QED BY <1>1, <1>2, <1>5, <2>1, <3>1
  <2>2. CASE c.allowed # 0
    <3>1. l.allowed = c.allowed BY <1>1, <2>2 DEF VotesAllowedOnceLoaded
    <3>2. QED BY <1>1, <3>1
  <2>3. QED BY <2>1, <2>2
<1>7. IdsOf(l.selections) = IdsOf(c.selections) BY <1>4 DEF IdsOf
<1>8. \A v : AllDistinct(v, l.selections) <=> AllDistinct(v, c.selections) BY <1>4 DEF AllDistinct
<1>9. ContestIsValid(l) <=> ContestIsValid(c) BY <1>1, <1>4, <1>6, <1>7, <1>8 DEF ContestIsValid
<1>10. QED BY <1>9 DEF l

\* No contest is left out when a manifest is loaded.
LEMMA LoadedInto ==
    ASSUME NEW m \in AllManifests, NEW d \in ToSet(m.contests)
    PROVE  d \in Contests /\ LoadedContest(d) \in ToSet(Loaded(m).contests)
<1> DEFINE s == InOrder(m.contests)
           t == Loaded(m).contests
           n == Len(m.contests)
<1>1. /\ s \in Seq(Contests) /\ Len(s) = n /\ ToSet(s) = ToSet(m.contests)
      /\ t \in Seq(Contests) /\ Len(t) = n
      /\ \A k \in 1..n : t[k] = LoadedContest(s[k])
  BY LoadedContests
<1> HIDE DEF s, t, n
<1>2. d \in ToSet(s) BY <1>1
<1>3. PICK k \in 1..n : d = s[k] BY <1>1, <1>2 DEF ToSet
<1>4. s[k] \in Contests /\ t[k] \in ToSet(t) BY <1>1, <1>3 DEF ToSet
<1>5. QED BY <1>1, <1>3, <1>4 DEF t

LEMMA LoadedContestKeeps ==
    ASSUME NEW c \in Contests
    PROVE  /\ LoadedContest(c).id = c.id /\ LoadedContest(c).order = c.order
           /\ LoadedContest(c).district = c.district
  BY ContestRoundTrip

\* What isValid asks of the contests.
ContestsAreValid(contests, units) ==
    /\ AllDistinct(IdsOf(contests), contests)
    /\ Cardinality({c.order : c \in ToSet(contests)}) = Len(contests)
    /\ \A c \in ToSet(contests) : ContestIsValid(c) /\ c.district \in units

LEMMA ContestsValidity ==
    ASSUME NEW m \in AllManifests, NEW units
    PROVE  ContestsAreValid(Loaded(m).contests, units) <=> ContestsAreValid(m.contests, units)
<1> DEFINE t == Loaded(m).contests
           s == m.contests
<1>1. Len(t) = Len(s) BY LoadedContests
<1>2. \A c \in ToSet(t) : \E d \in ToSet(s) : d \in Contests /\ c = LoadedContest(d) BY LoadedFrom
<1>3. \A d \in ToSet(s) : d \in Contests /\ LoadedContest(d) \in ToSet(t) BY LoadedInto
<1> HIDE DEF t, s
<1>4. IdsOf(t) = IdsOf(s)
  <2>1. \A c \in ToSet(t) : \E d \in ToSet(s) : c.id = d.id BY <1>2, LoadedContestKeeps
  <2>2. \A d \in ToSet(s) : LoadedContest(d).id = d.id BY <1>3, LoadedContestKeeps
  <2>3. \A d \in ToSet(s) : \E c \in ToSet(t) : c.id = d.id BY <1>3, <2>2
  <2>4. QED BY <2>1, <2>3 DEF IdsOf
<1>5. {c.order : c \in ToSet(t)} = {c.order : c \in ToSet(s)}
  <2>1. \A c \in ToSet(t) : \E d \in ToSet(s) : c.order = d.order BY <1>2, LoadedContestKeeps
  <2>2. \A d \in ToSet(s) : LoadedContest(d).order = d.order BY <1>3, LoadedContestKeeps
  <2>3. \A d \in ToSet(s) : \E c \in ToSet(t) : c.order = d.order BY <1>3, <2>2
  <2>4. QED BY <2>1, <2>3
<1>6. \A d \in ToSet(s) : /\ ContestIsValid(LoadedContest(d)) <=> ContestIsValid(d)
                          /\ LoadedContest(d).district = d.district
  BY <1>3, ContestValidity, LoadedContestKeeps
<1>7. (\A c \in ToSet(t) : ContestIsValid(c) /\ c.district \in units)
        <=> \A c \in ToSet(s) : ContestIsValid(c) /\ c.district \in units
  <2>1. ASSUME \A c \in ToSet(t) : ContestIsValid(c) /\ c.district \in units, NEW d \in ToSet(s)
        PROVE  ContestIsValid(d) /\ d.district \in units
    BY <1>3, <1>6, <2>1
  <2>2. ASSUME \A c \in ToSet(s) : ContestIsValid(c) /\ c.district \in units, NEW c \in ToSet(t)
        PROVE  ContestIsValid(c) /\ c.district \in units
    <3>1. PICK d \in ToSet(s) : c = LoadedContest(d) BY <1>2
    <3>2. QED BY <1>6, <2>2, <3>1
  <2>3. QED BY <2>1, <2>2
<1>8. AllDistinct(IdsOf(t), t) <=> AllDistinct(IdsOf(s), s) BY <1>1, <1>4 DEF AllDistinct
<1>9. ContestsAreValid(t, units) <=> ContestsAreValid(s, units)
  BY <1>1, <1>5, <1>7, <1>8 DEF ContestsAreValid
<1>10. QED BY <1>9 DEF t, s

LEMMA UnitsValidity ==
    ASSUME NEW m \in AllManifests
    PROVE  Len(Loaded(m).units) = Len(m.units) /\ IdsOf(Loaded(m).units) = IdsOf(m.units)
<1> DEFINE s == m.units
           t == Loaded(m).units
           n == Len(s)
<1>1. s \in Seq(Units) BY DEF AllManifests
<1>2. t = [i \in 1..n |-> LoadedUnit(s[i])]
  <2>1. t = Each(LoadedUnit, s) BY ManifestRoundTrip
  <2>2. DOMAIN s = 1..n BY <1>1
  <2>3. QED BY <2>1, <2>2 DEF Each
<1>3. n \in Nat /\ DOMAIN s = 1..n /\ \A i \in 1..n : s[i] \in Units BY <1>1
<1> HIDE DEF s, t, n
<1>4. \A i \in 1..n : t[i].id = s[i].id BY <1>2, <1>3, UnitRoundTrip
<1>5. DOMAIN t = 1..n /\ Len(t) = n BY <1>2, <1>3
<1>6. IdsOf(t) = IdsOf(s) BY <1>3, <1>4, <1>5, IdsKept
<1>7. QED BY <1>5, <1>6 DEF s, t, n

LEMMA PartiesValidity ==
    ASSUME NEW m \in AllManifests
    PROVE  Len(Loaded(m).parties) = Len(m.parties) /\ IdsOf(Loaded(m).parties) = IdsOf(m.parties)
<1> DEFINE s == m.parties
           t == Loaded(m).parties
           n == Len(s)
<1>1. s \in Seq(Parties) BY DEF AllManifests
<1>2. t = [i \in 1..n |-> LoadedParty(s[i])]
  <2>1. t = Each(LoadedParty, s) BY ManifestRoundTrip
  <2>2. DOMAIN s = 1..n BY <1>1
  <2>3. QED BY <2>1, <2>2 DEF Each
<1>3. n \in Nat /\ DOMAIN s = 1..n /\ \A i \in 1..n : s[i] \in Parties BY <1>1
<1> HIDE DEF s, t, n
<1>4. \A i \in 1..n : t[i].id = s[i].id BY <1>2, <1>3, PartyRoundTrip
<1>5. DOMAIN t = 1..n /\ Len(t) = n BY <1>2, <1>3
<1>6. IdsOf(t) = IdsOf(s) BY <1>3, <1>4, <1>5, IdsKept
<1>7. QED BY <1>5, <1>6 DEF s, t, n

LEMMA CandidatesValidity ==
    ASSUME NEW m \in AllManifests, NEW parties
    PROVE  /\ Len(Loaded(m).candidates) = Len(m.candidates)
           /\ IdsOf(Loaded(m).candidates) = IdsOf(m.candidates)
           /\ (\A c \in ToSet(Loaded(m).candidates) : c.partyId \in parties)
                <=> \A c \in ToSet(m.candidates) : c.partyId \in parties
<1> DEFINE s == m.candidates
           t == Loaded(m).candidates
           n == Len(s)
<1>1. s \in Seq(Candidates) BY DEF AllManifests
<1>2. t = [i \in 1..n |-> LoadedCandidate(s[i])]
  <2>1. t = Each(LoadedCandidate, s) BY ManifestRoundTrip
  <2>2. DOMAIN s = 1..n BY <1>1
  <2>3. QED BY <2>1, <2>2 DEF Each
<1>3. n \in Nat /\ DOMAIN s = 1..n /\ \A i \in 1..n : s[i] \in Candidates BY <1>1
<1> HIDE DEF s, t, n
<1>4. \A i \in 1..n : t[i].id = s[i].id /\ t[i].partyId = s[i].partyId
  BY <1>2, <1>3, CandidateRoundTrip
<1>5. DOMAIN t = 1..n /\ Len(t) = n BY <1>2, <1>3
<1>6. IdsOf(t) = IdsOf(s) BY <1>3, <1>4, <1>5, IdsKept
<1>7. /\ (\A c \in ToSet(t) : c.partyId \in parties) <=> \A i \in 1..n : t[i].partyId \in parties
      /\ (\A c \in ToSet(s) : c.partyId \in parties) <=> \A i \in 1..n : s[i].partyId \in parties
  BY <1>3, <1>5 DEF ToSet
<1>8. (\A c \in ToSet(t) : c.partyId \in parties) <=> \A c \in ToSet(s) : c.partyId \in parties
  BY <1>4, <1>7
<1>9. QED BY <1>5, <1>6, <1>8 DEF s, t, n

LEMMA LoadedValidity ==
    ASSUME NEW m \in AllManifests PROVE ManifestIsValid(Loaded(m)) <=> ManifestIsValid(m)
<1> DEFINE l == Loaded(m)
           units(o) == IdsOf(o.units) \ {""}
           StylesAreValid(o) ==
             /\ AllDistinct(IdsOf(o.styles), o.styles)
             /\ \A s \in ToSet(o.styles) : s.unitIds # <<>> /\ ToSet(s.unitIds) \subseteq units(o)
           CandidatesAreValid(o) ==
             /\ AllDistinct(IdsOf(o.candidates), o.candidates)
             /\ \A c \in ToSet(o.candidates) : c.partyId \in IdsOf(o.parties) \cup {""}
<1>1. units(l) = units(m) /\ (AllDistinct(units(l), l.units) <=> AllDistinct(units(m), m.units))
  BY UnitsValidity DEF AllDistinct
<1>2. l.styles = m.styles BY ManifestRoundTrip
<1> HIDE DEF l, units
<1>3. StylesAreValid(l) <=> StylesAreValid(m) BY <1>1, <1>2
<1>4. IdsOf(l.parties) = IdsOf(m.parties) /\ Len(l.parties) = Len(m.parties)
  BY PartiesValidity DEF l
<1>5. AllDistinct(IdsOf(l.parties), l.parties) <=> AllDistinct(IdsOf(m.parties), m.parties)
  BY <1>4 DEF AllDistinct
<1>6. CandidatesAreValid(l) <=> CandidatesAreValid(m)
  <2> DEFINE parties == IdsOf(m.parties) \cup {""}
  <2>1. /\ Len(l.candidates) = Len(m.candidates) /\ IdsOf(l.candidates) = IdsOf(m.candidates)
        /\ (\A c \in ToSet(l.candidates) : c.partyId \in parties)
             <=> \A c \in ToSet(m.candidates) : c.partyId \in parties
    BY CandidatesValidity DEF l
  <2>2. AllDistinct(IdsOf(l.candidates), l.candidates) <=> AllDistinct(IdsOf(m.candidates), m.candidates)
    BY <2>1 DEF AllDistinct
  <2>3. IdsOf(l.parties) \cup {""} = parties BY <1>4
  <2> HIDE DEF parties
  <2>4. QED BY <2>1, <2>2, <2>3 DEF parties
<1>7. ContestsAreValid(l.contests, units(l)) <=> ContestsAreValid(m.contests, units(m))
  BY <1>1, ContestsValidity DEF l
<1>8. \A o : ManifestIsValid(o) <=>
                /\ AllDistinct(units(o), o.units) /\ StylesAreValid(o)
                /\ AllDistinct(IdsOf(o.parties), o.parties) /\ CandidatesAreValid(o)
                /\ ContestsAreValid(o.contests, units(o))
  BY DEF ManifestIsValid, ContestsAreValid, units
<1> HIDE DEF StylesAreValid, CandidatesAreValid
<1>9. ManifestIsValid(l) <=> ManifestIsValid(m) BY <1>1, <1>3, <1>5, <1>6, <1>7, <1>8
<1>10. QED BY <1>9 DEF l

LEMMA ValidityKeptIfTwoForms == IInv => ValidityKept
<1> SUFFICES ASSUME IInv PROVE ManifestIsValid(manifest) <=> ManifestIsValid(original)
  BY DEF ValidityKept
<1>1. manifest \in Forms /\ original \in AllManifests BY FormsLoaded DEF IInv
<1>2. QED BY <1>1, LoadedValidity DEF Forms

\* isValid gives the same answer before and after saving and loading, for every
\* manifest.
THEOREM AlwaysValidityKept == Spec => []ValidityKept
  BY AlwaysTwoForms, ValidityKeptIfTwoForms, PTL

-----------------------------------------------------------------------------
(* Ballots. What is encrypted is what the manifest says.                     *)

\* A canonical manifest keeps its contests where they are.
LEMMA FormContests ==
    ASSUME ManifestInv, Canonical(original), NEW m \in Forms
    PROVE  /\ original.contests \in Seq(Contests) /\ Len(m.contests) = Len(original.contests)
           /\ \A k \in 1..Len(original.contests) :
                InOrder(m.contests)[k] \in {original.contests[k], LoadedContest(original.contests[k])}
<1>1. original \in AllManifests BY FormsLoaded
<1>2. original.contests \in Seq(Contests) BY <1>1 DEF AllManifests
<1>3. InOrder(original.contests) = original.contests BY DEF Canonical
<1>4. CASE m = original BY <1>2, <1>3, <1>4
<1>5. CASE m = Loaded(original)
  <2>1. /\ Len(Loaded(original).contests) = Len(original.contests)
        /\ \A k \in 1..Len(original.contests) :
             Loaded(original).contests[k] = LoadedContest(InOrder(original.contests)[k])
        /\ InOrder(Loaded(original).contests) = Loaded(original).contests
    BY <1>1, LoadedContests
  <2>2. QED BY <1>2, <1>3, <1>5, <2>1
<1>6. QED BY <1>4, <1>5 DEF Forms

\* A contest of a canonical manifest keeps its hash in the internal manifest,
\* but for votes that are not the default where it has no title.
LEMMA CopyHash ==
    ASSUME NEW c \in Contests, InOrder(c.selections) = c.selections,
           c.allowed = 0 => DefaultVotes(c.variation, c.elected) = 0,
           NEW d \in {c, LoadedContest(c)}, NEW w, CopyOf(w, d)
    PROVE  /\ w.id = c.id /\ w.district = c.district
           /\ HashContest(w) = HashContest(c) <=> ~Unfaithful(c)
<1> DEFINE default == DefaultVotes(c.variation, c.elected)
<1>1. /\ d.id = c.id /\ d.district = c.district /\ d.order = c.order /\ d.variation = c.variation
      /\ d.elected = c.elected /\ d.title = c.title /\ d.subtitle = c.subtitle
      /\ d.selections = c.selections /\ d.allowed = c.allowed
  <2>1. CASE d = c BY <2>1
  <2>2. CASE d = LoadedContest(c)
    <3>1. VotesAllowedOnceLoaded(c) = c.allowed BY DEF VotesAllowedOnceLoaded
    <3>2. QED BY <2>2, <3>1, ContestRoundTrip
  <2>3. QED BY <2>1, <2>2
<1>2. /\ w.id = c.id /\ w.district = c.district /\ w.order = c.order /\ w.variation = c.variation
      /\ w.elected = c.elected /\ w.title = c.title /\ w.selections = c.selections
      /\ w.subtitle = IF c.title # NULL THEN c.subtitle ELSE NULL
      /\ w.allowed = IF c.title # NULL THEN c.allowed ELSE default
  BY <1>1 DEF CopyOf
<1>3. c.allowed \in Nat /\ default \in Nat BY DefaultVotesType DEF Contests
<1> HIDE DEF default
<1>4. (IF w.title # NULL THEN HashText(w.subtitle) ELSE NULL)
        = IF c.title # NULL THEN HashText(c.subtitle) ELSE NULL
  BY <1>2
<1>5. HashContest(w) = HashContest(c) <=> OrNull(w.allowed, 0) = OrNull(c.allowed, 0)
  BY <1>2, <1>4 DEF HashContest
<1>6. w.allowed \in Nat BY <1>2, <1>3
<1>7. OrNull(w.allowed, 0) = OrNull(c.allowed, 0) <=> w.allowed = c.allowed
  BY <1>3, <1>6, NullIsNothingElse DEF OrNull
<1>8. w.allowed = c.allowed <=> ~Unfaithful(c) BY <1>2 DEF Unfaithful, default
<1>9. QED BY <1>2, <1>5, <1>7, <1>8

\* A ballot style depends on the list of styles only.
LEMMA SameStyle ==
    ASSUME NEW i, NEW o, i.styles = o.styles, NEW id PROVE BallotStyle(i, id) = BallotStyle(o, id)
  BY DEF BallotStyle, SelectInSeq

LEMMA EncryptedContests ==
    ASSUME NEW id, NEW n \in Nat, BallotStyle(internal, id) # NULL, BallotStyle(internal, id).unitIds # <<>>,
           DOMAIN ContestsFor(internal, BallotStyle(internal, id)) = 1..n
    PROVE  LET found == ContestsFor(internal, BallotStyle(internal, id)) IN
             /\ Len(EncryptedBallot(id).contests) = n
             /\ \A p \in 1..n :
                  /\ EncryptedBallot(id).contests[p].id = found[p].id
                  /\ EncryptedBallot(id).contests[p].descriptionHash = HashContest(found[p])
<1> DEFINE found == ContestsFor(internal, BallotStyle(internal, id))
           all == EncryptedBallot(id).contests
<1>1. all = [p \in 1..n |-> [id |-> found[p].id, descriptionHash |-> HashContest(found[p])]]
  BY DEF EncryptedBallot, Each
<1> HIDE DEF all, found
<1>2. Len(all) = n BY <1>1
<1>3. \A p \in 1..n : all[p].id = found[p].id /\ all[p].descriptionHash = HashContest(found[p])
  BY <1>1
<1>4. QED BY <1>2, <1>3 DEF all, found

LEMMA BallotMatchesManifestIfTwoForms == IInv => BallotMatchesManifest
<1> DEFINE o == original
           style == BallotStyle(original, ballot.style)
           wanted == {k \in DOMAIN original.contests :
                        original.contests[k].district \in ToSet(style.unitIds)}
<1> SUFFICES ASSUME IInv, ballot # NULL, Canonical(original),
                    style # NULL, style.unitIds # <<>>, IsInjective(style.unitIds)
             PROVE  /\ Len(ballot.contests) = Cardinality(wanted)
                    /\ \A k \in wanted :
                         LET c == original.contests[k]
                             cast == ballot.contests[Cardinality({j \in wanted : j <= k})]
                         IN  cast.id = c.id /\ (cast.descriptionHash = HashContest(c) <=> ~Unfaithful(c))
  BY DEF BallotMatchesManifest
<1>1. ManifestInv /\ original \in AllManifests BY FormsLoaded DEF IInv
<1>2. internal # NULL /\ ballot = EncryptedBallot(ballot.style) BY DEF IInv, BallotInv, MediatorInv
<1>3. PICK m \in Forms : MadeFrom(internal, m) BY <1>2 DEF IInv, InternalInv
<1>4. m \in AllManifests BY <1>1, FormsLoaded
<1>5. style = BallotStyle(internal, ballot.style)
  <2>1. Loaded(original).styles = original.styles BY <1>1, ManifestRoundTrip
  <2>2. internal.styles = original.styles BY <1>3, <2>1 DEF MadeFrom, Forms
  <2>3. QED BY <2>2, SameStyle
<1> DEFINE n == Len(original.contests)
           s == InOrder(m.contests)
           w == internal.contests
<1>6. /\ original.contests \in Seq(Contests) /\ Len(m.contests) = n
      /\ \A k \in 1..n : s[k] \in {original.contests[k], LoadedContest(original.contests[k])}
  BY <1>1, FormContests
<1>7. /\ DOMAIN w = 1..n /\ Orders(w) /\ Ascending(w)
      /\ w = [k \in 1..n |-> w[k]] /\ \A k \in 1..n : CopyOf(w[k], s[k])
  BY <1>3, <1>4, <1>6, CopiesInOrder DEF MadeFrom
<1>8. /\ n \in Nat /\ DOMAIN original.contests = 1..n
      /\ \A k \in 1..n : original.contests[k] \in Contests
      /\ \A k \in 1..n : original.contests[k] \in ToSet(original.contests)
  BY <1>6 DEF ToSet
<1> HIDE DEF n, s, style
<1>9. ASSUME NEW k \in 1..n
      PROVE  /\ w[k].id = original.contests[k].id /\ w[k].district = original.contests[k].district
             /\ HashContest(w[k]) = HashContest(original.contests[k]) <=> ~Unfaithful(original.contests[k])
  <2>1. /\ InOrder(original.contests[k].selections) = original.contests[k].selections
        /\ original.contests[k].allowed = 0
             => DefaultVotes(original.contests[k].variation, original.contests[k].elected) = 0
    BY <1>8 DEF Canonical
  <2>2. QED BY <1>6, <1>7, <1>8, <2>1, CopyHash
<1>10. wanted = Wanted(w, style)
  <2>1. \A k \in 1..n : w[k].district = original.contests[k].district BY <1>9
  <2>2. DOMAIN w = DOMAIN original.contests BY <1>7, <1>8
  <2>3. QED BY <1>8, <2>1, <2>2 DEF Wanted
<1>11. w \in Seq(ToSet(w))
  <2>1. \A k \in 1..n : w[k] \in ToSet(w) BY <1>7 DEF ToSet
  <2>2. QED BY <1>7, <1>8, <2>1
<1> DEFINE found == ContestsFor(internal, style)
<1>12. /\ DOMAIN found = 1..Cardinality(wanted)
       /\ \A k \in wanted : /\ Cardinality(UpTo(wanted, k)) \in 1..Cardinality(wanted)
                            /\ found[Cardinality(UpTo(wanted, k))] = w[k]
  <2>1. DOMAIN w = 1..n /\ Orders(w) /\ Ascending(w) /\ n \in Nat BY <1>7, <1>8
  <2>2. /\ DOMAIN ContestsFor(internal, style) = 1..Cardinality(Wanted(internal.contests, style))
        /\ \A k \in Wanted(internal.contests, style) :
             /\ Cardinality(UpTo(Wanted(internal.contests, style), k))
                  \in 1..Cardinality(Wanted(internal.contests, style))
             /\ ContestsFor(internal, style)[Cardinality(UpTo(Wanted(internal.contests, style), k))]
                  = internal.contests[k]
    BY <2>1, <1>11, ContestsForOnce
  <2> HIDE DEF wanted
  <2>3. QED BY <1>10, <2>2
<1>13. wanted \in SUBSET (1..n) /\ \A k \in wanted : k \in 1..n BY <1>8
<1> HIDE DEF wanted, w, found
<1>14. Cardinality(wanted) \in Nat
  <2>1. IsFiniteSet(1..n) BY <1>8, FS_Interval
  <2>2. QED BY <1>13, <2>1, FS_Subset, FS_CardinalityType
<1> DEFINE id == ballot.style
           all == EncryptedBallot(id).contests
<1>15. /\ Len(all) = Cardinality(wanted)
       /\ \A p \in 1..Cardinality(wanted) :
            all[p].id = found[p].id /\ all[p].descriptionHash = HashContest(found[p])
  BY <1>5, <1>12, <1>14, EncryptedContests DEF found
<1>16. ballot.contests = all BY <1>2
<1> HIDE DEF all, id
<1>17. ASSUME NEW k \in wanted
       PROVE  LET c == original.contests[k]
                  cast == ballot.contests[Cardinality({j \in wanted : j <= k})]
              IN  cast.id = c.id /\ (cast.descriptionHash = HashContest(c) <=> ~Unfaithful(c))
  <2> DEFINE p == Cardinality(UpTo(wanted, k))
  <2>1. p \in 1..Cardinality(wanted) /\ found[p] = w[k] /\ k \in 1..n BY <1>12, <1>13
  <2>2. Cardinality({j \in wanted : j <= k}) = p BY DEF UpTo
  <2> HIDE DEF p
  <2>3. ballot.contests[p].id = w[k].id /\ ballot.contests[p].descriptionHash = HashContest(w[k])
    BY <1>15, <1>16, <2>1
  <2>4. QED BY <1>9, <2>1, <2>2, <2>3 DEF w
<1>18. QED BY <1>15, <1>16, <1>17

\* An encrypted ballot of a canonical manifest has every contest of its style's
\* units once, in order, and under the hash of the manifest's own contest unless
\* that has no title and not the default number of votes.
THEOREM AlwaysBallotMatchesManifest == Spec => []BallotMatchesManifest
  BY AlwaysTwoForms, BallotMatchesManifestIfTwoForms, PTL
=============================================================================
