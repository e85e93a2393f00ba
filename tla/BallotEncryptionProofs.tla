----------------------- MODULE BallotEncryptionProofs -----------------------
(***************************************************************************)
(* Proofs about BallotEncryption: for any number of threads sharing the    *)
(* mediator, any keys, ballots, contests and bounds.                       *)
(***************************************************************************)
EXTENDS BallotEncryption, SequenceTheorems, FiniteSetTheorems, TLAPS

-----------------------------------------------------------------------------
(* The inductive invariant.                                                *)

\* The steps of a call once its ballot has a nonce.
Encrypting == {"selection", "extended", "contest", "ballot", "compare_code", "store_seed"}
Steps == {"idle", "check_seed", "new_seed", "deref_seed"} \cup Encrypting

Fields == {"op", "verify", "ballot", "vote", "root", "seed", "object", "expected",
           "contest", "selections", "extended", "proofs"}

\* A sequence, of whatever.
IsSeq(s) == Len(s) \in Nat /\ s = [i \in 1..Len(s) |-> s[i]]

Precomputed == Seq([root : Nat, key : Keys])

StateOK ==
    /\ draws \in Nat /\ populated \in Nat /\ overlapped \in BOOLEAN
    /\ pairs \in Precomputed /\ triples \in Precomputed
    /\ at \in [Threads -> Steps]
    /\ call = [u \in Threads |-> call[u]]
    /\ IsSeq(released)
    /\ \A k \in compacts : k.ballot \in Ballots /\ k.vote \in Votes /\ k.root \in 1..draws

\* A call's record, and which steps belong to which entry point.
CallOK(t) ==
    LET c == call[t] IN
    /\ DOMAIN c = Fields
    /\ c.op \in {"encrypt", "compactEncrypt", "expand"} /\ c.verify \in BOOLEAN
    /\ c.ballot \in Ballots /\ c.vote \in Votes
    /\ c.contest \in 1..ContestCount
    /\ at[t] \in {"check_seed", "new_seed", "deref_seed", "store_seed"} => c.op # "expand"
    /\ at[t] = "compare_code" => c.op = "expand"
    /\ at[t] \in Encrypting => c.root \in 1..draws
    /\ IsSeq(c.proofs)

\* Selections come in order: two for every contest.
Placed(s) ==
    /\ IsSeq(s)
    /\ \A i \in 1..Len(s) : /\ s[i].contest \in Nat /\ s[i].slot \in 1..2
                            /\ i = 2 * (s[i].contest - 1) + s[i].slot

\* How many there are when a call is at a step.
PlacedOK(t) ==
    LET c == call[t]
        before == 2 * (c.contest - 1)
    IN  /\ Placed(c.selections)
        /\ at[t] \in {"check_seed", "new_seed", "deref_seed"} =>
              c.contest = 1 /\ Len(c.selections) = 0
        /\ at[t] = "selection" => Len(c.selections) \in before..(before + 1)
        /\ at[t] \in {"extended", "contest"} => Len(c.selections) = before + 2
        /\ at[t] \in {"ballot", "compare_code", "store_seed"} =>
              Len(c.selections) = 2 * ContestCount

CallsOK == \A t \in Threads : at[t] # "idle" => CallOK(t) /\ PlacedOK(t)

TypeInv == StateOK /\ CallsOK

\* The values in the buffers: each has a draw of its own, which no ciphertext
\* has used yet.
PoolOK ==
    /\ \A i \in DOMAIN pairs : pairs[i].root <= draws
    /\ \A i \in DOMAIN triples : triples[i].root <= draws
    /\ \A i, j \in DOMAIN pairs : pairs[i].root = pairs[j].root => i = j
    /\ \A i, j \in DOMAIN triples : triples[i].root = triples[j].root => i = j
    /\ \A i \in DOMAIN pairs, j \in DOMAIN triples : pairs[i].root # triples[j].root

Unused(q) == \A i \in DOMAIN q, u \in uses : u.nonce # Random(q[i].root)

\* The nonce that is derived for a use from the ballot's.
DerivedNonce(u) ==
    CASE u.what = "selection" -> selectionNonce(u, u.slot)
      [] u.what = "extended"  -> extendedDataNonce(u)
      [] u.what = "proof"     -> proofNonce(u)

\* Every nonce in use is a draw from the buffers or the one derived for the use.
UseOK(u) ==
    /\ u.what \in {"selection", "extended", "proof"}
    /\ u.slot \in Nat /\ u.vote \in {0, 1}
    /\ u.what # "selection" => u.slot = 0
    /\ u = Use(u, u.nonce, u.what, u.slot, u.vote)
    /\ u.nonce = DerivedNonce(u) \/ \E n \in 0..draws : u.nonce = Random(n)

\* The vote of the ballot a use belongs to.
BallotVote(u) == IF u.what = "selection" /\ u.slot # 1 THEN 1 - u.vote ELSE u.vote

\* Who says which ballot and vote a nonce belongs to: the calls that encrypt
\* with it, the compact ballots that keep it, the uses already made.
Claim(c, vote) == [root |-> c.root, ballot |-> c.ballot, vote |-> vote]
Claims ==
    {Claim(call[t], call[t].vote) : t \in {u \in Threads : at[u] \in Encrypting}}
       \cup {Claim(k, k.vote) : k \in compacts}
       \cup {Claim(u, BallotVote(u)) : u \in uses}

\* They agree: a ballot's nonce is for one ballot and one vote.
ClaimsAgree == /\ \A x \in Claims : x.root \in 1..draws
               /\ \A x, y \in Claims : x.root = y.root => x = y

NonceInv ==
    /\ PoolOK
    /\ Unused(pairs) /\ Unused(triples)
    /\ \A u \in uses : UseOK(u)
    /\ ClaimsAgree
    /\ NonceSeparation

\* What has been checked when a call reaches its last step.
VerifiedInv ==
    /\ \A t \in Threads :
          at[t] = "store_seed" /\ call[t].verify => Ballot_isValidEncryption(call[t])
    /\ VerifiedUnderElectionKey

\* The seed after the ballots released so far.
NextInChain ==
    IF released = << >> THEN DeviceHash ELSE released[Len(released)].code

\* With one call of the mediator at a time: the mediator's seed is the next in the
\* chain, and the call holds it, by reference and by value.
Mediating == {t \in Threads : at[t] # "idle" /\ call[t].op # "expand"}
SeedInv ==
    ~overlapped =>
       /\ \A t, u \in Mediating : t = u
       /\ ballotCodeSeed = << >> => released = << >>
       /\ ballotCodeSeed # << >> => ballotCodeSeed = << NextInChain >>
       /\ \A t \in Mediating :
             /\ at[t] = "new_seed" => ballotCodeSeed = << >>
             /\ at[t] = "deref_seed" => ballotCodeSeed # << >>
             /\ at[t] \in Encrypting =>
                   /\ ballotCodeSeed # << >>
                   /\ call[t].object = seedObject
                   /\ call[t].seed = NextInChain
       /\ ChainUnbroken

\* The selections of a ballot whose nonces are all derived from its own.
DerivedSelection(c, contest, slot) ==
    [contest |-> contest, slot |-> slot, vote |-> VoteFor(c, slot),
     nonce |-> selectionNonce([root |-> c.root, ballot |-> c.ballot,
                               contest |-> contest], slot),
     key |-> ElectionKey]
Derived(c, s) ==
    \A i \in 1..Len(s) : s[i] = DerivedSelection(c, s[i].contest, s[i].slot)

\* A compact ballot stores the code of the ballot its nonce determines.
CompactOK(k) ==
    /\ k.code = BallotCode([ballot |-> k.ballot, selections |-> k.code.selections], k.seed)
    /\ Placed(k.code.selections) /\ Len(k.code.selections) = 2 * ContestCount

\* An expansion runs with the data of a compact ballot.
Expands(c, k) == /\ c.root = k.root /\ c.ballot = k.ballot /\ c.vote = k.vote
                 /\ c.seed = k.seed /\ c.expected = k.code

CompactInv ==
    /\ \A k \in compacts : CompactOK(k)
    /\ \A t \in Threads : at[t] # "idle" /\ call[t].op = "expand" =>
          at[t] \in Encrypting /\ \E k \in compacts : Expands(call[t], k)

ExpandInv ==
    populated = 0 =>
       /\ pairs = << >> /\ triples = << >>
       /\ \A k \in compacts : Derived(k, k.code.selections)
       /\ \A t \in Threads : at[t] # "idle" =>
             /\ Derived(call[t], call[t].selections)
             /\ \A i \in 1..Len(call[t].proofs) : call[t].proofs[i] = ElectionKey
       /\ expansions \subseteq {"same"}

-----------------------------------------------------------------------------
(* Sequences of anything, and the operators of the model.                  *)

\* An element is added at the end.
LEMMA AppendToSeq ==
    ASSUME NEW s, IsSeq(s), NEW x
    PROVE  /\ IsSeq(Append(s, x))
           /\ Len(Append(s, x)) = Len(s) + 1
           /\ \A i \in 1..Len(s) : Append(s, x)[i] = s[i]
           /\ Append(s, x)[Len(s) + 1] = x
<1> DEFINE S == {s[i] : i \in 1..Len(s)} \cup {x}
<1>1. s \in Seq(S)
  BY DEF IsSeq
<1>2. x \in S
  OBVIOUS
<1> HIDE DEF S
<1>3. /\ Append(s, x) \in Seq(S)
      /\ Len(Append(s, x)) = Len(s) + 1
      /\ \A i \in 1..Len(s) : Append(s, x)[i] = s[i]
      /\ Append(s, x)[Len(s) + 1] = x
  BY <1>1, <1>2, AppendProperties
<1>4. IsSeq(Append(s, x))
  <2>1. Append(s, x) \in [1..Len(Append(s, x)) -> S] /\ Len(Append(s, x)) \in Nat
    BY <1>3, LenProperties
  <2>2. QED
    BY <2>1 DEF IsSeq
<1>5. QED
  BY <1>3, <1>4

LEMMA EmptyIsSeq == IsSeq(<< >>) /\ Len(<< >>) = 0
  BY DEF IsSeq

\* The getters leave a queue of precomputed values.
LEMMA GetterOK ==
    ASSUME NEW q \in Precomputed, NEW nonce
    PROVE  /\ AfterGet(q) \in Precomputed
           /\ PrecomputedOr(q, nonce).key \in Keys
<1>1. CASE q = << >>
  BY <1>1 DEF AfterGet, PrecomputedOr, Keys
<1>2. CASE q # << >>
  <2>1. Head(q) \in [root : Nat, key : Keys] /\ Tail(q) \in Precomputed
    BY <1>2, HeadTailProperties DEF Precomputed
  <2>2. QED
    BY <1>2, <2>1 DEF AfterGet, PrecomputedOr
<1>3. QED
  BY <1>1, <1>2

\* The slot encryptSelection works on is the first that is missing.
LEMMA SlotOf ==
    ASSUME NEW s, Placed(s), NEW n \in Nat \ {0},
           Len(s) \in 2 * (n - 1) .. 2 * (n - 1) + 1
    PROVE  Cardinality({i \in 1..Len(s) : s[i].contest = n}) = Len(s) - 2 * (n - 1)
<1> DEFINE I == {i \in 1..Len(s) : s[i].contest = n}
<1>1. ASSUME NEW i \in 1..Len(s), s[i].contest = n
      PROVE  i = 2 * (n - 1) + 1
  <2>1. s[i].slot \in 1..2 /\ i = 2 * (n - 1) + s[i].slot
    BY <1>1 DEF Placed
  <2>2. Len(s) \in Nat /\ i <= 2 * (n - 1) + 1
    BY DEF Placed, IsSeq
  <2>3. QED
    BY <2>1, <2>2
<1>2. CASE Len(s) = 2 * (n - 1)
  <2>1. I = {}
    BY <1>1, <1>2
  <2>2. QED
    BY <1>2, <2>1, FS_EmptySet
<1>3. CASE Len(s) = 2 * (n - 1) + 1
  <2>1. Len(s) \in 1..Len(s) /\ s[Len(s)].contest = n
    <3>1. Len(s) \in 1..Len(s)
      BY <1>3
    <3>2. /\ s[Len(s)].contest \in Nat /\ s[Len(s)].slot \in 1..2
          /\ Len(s) = 2 * (s[Len(s)].contest - 1) + s[Len(s)].slot
      BY <3>1 DEF Placed
    <3>3. QED
      BY <1>3, <3>1, <3>2
  <2>2. I = {Len(s)}
    BY <1>1, <1>3, <2>1
  <2>3. QED
    <3>1. Cardinality(I) = 1
      BY <2>2, FS_Singleton
    <3>2. QED
      BY <1>3, <3>1
<1>4. QED
  BY <1>2, <1>3

\* Storing the selection keeps the order.
LEMMA PlaceSelection ==
    ASSUME NEW s, Placed(s), NEW x, x.contest \in Nat, x.slot \in 1..2,
           Len(s) + 1 = 2 * (x.contest - 1) + x.slot
    PROVE  Placed(Append(s, x)) /\ Len(Append(s, x)) = Len(s) + 1
  BY AppendToSeq DEF Placed

\* What VerifyThenGoto does: the call fails, or goes on.
LEMMA VerifyCases ==
    ASSUME NEW t, NEW valid \in BOOLEAN, NEW step, NEW c, c.verify \in BOOLEAN,
           VerifyThenGoto(t, valid, step, c)
    PROVE  \/ /\ c.verify /\ ~valid
              /\ at' = [at EXCEPT ![t] = "idle"]
              /\ call' = [call EXCEPT ![t] = Null]
              /\ expansions' = Outcome(c, "threw")
           \/ /\ c.verify => valid
              /\ at' = [at EXCEPT ![t] = step]
              /\ call' = [call EXCEPT ![t] = c]
              /\ expansions' = expansions
  BY DEF VerifyThenGoto, Leave, Goto

\* A new call.
LEMMA NewCallOK ==
    ASSUME NEW op, NEW verify, NEW ballot, NEW vote, NEW root, NEW seed, NEW expected,
           NEW c, c = NewCall(op, verify, ballot, vote, root, seed, expected)
    PROVE  /\ DOMAIN c = Fields
           /\ c.op = op /\ c.verify = verify /\ c.ballot = ballot /\ c.vote = vote
           /\ c.root = root /\ c.seed = seed /\ c.expected = expected
           /\ c.contest = 1 /\ c.selections = << >> /\ c.proofs = << >>
  BY DEF NewCall, Fields

-----------------------------------------------------------------------------
(* Types.                                                                  *)

\* A step of one thread leaves the calls of the others alone.
LEMMA OneCall ==
    ASSUME TypeInv, NEW t \in Threads, NEW step \in Steps, NEW c,
           at' = [at EXCEPT ![t] = step],
           call' = [call EXCEPT ![t] = c],
           draws' \in Nat, draws <= draws',
           step # "idle" => CallOK(t)' /\ PlacedOK(t)'
    PROVE  /\ at' \in [Threads -> Steps] /\ call' = [u \in Threads |-> call'[u]]
           /\ at'[t] = step /\ call'[t] = c
           /\ \A u \in Threads : u # t => at'[u] = at[u] /\ call'[u] = call[u]
           /\ CallsOK'
<1>1. /\ at' \in [Threads -> Steps] /\ call' = [u \in Threads |-> call'[u]]
      /\ at'[t] = step /\ call'[t] = c
      /\ \A u \in Threads : u # t => at'[u] = at[u] /\ call'[u] = call[u]
  BY DEF TypeInv, StateOK
<1>2. ASSUME NEW u \in Threads, at'[u] # "idle" PROVE CallOK(u)' /\ PlacedOK(u)'
  <2>1. CASE u = t
    BY <1>1, <1>2, <2>1
  <2>2. CASE u # t
    <3>1. at'[u] = at[u] /\ call'[u] = call[u] /\ CallOK(u) /\ PlacedOK(u)
      BY <1>1, <1>2, <2>2 DEF TypeInv, CallsOK
    <3>2. CallOK(u)'
      BY <3>1 DEF CallOK, TypeInv, StateOK
    <3>3. PlacedOK(u)'
      BY <3>1 DEF PlacedOK, Placed
    <3>4. QED
      BY <3>2, <3>3
  <2>3. QED
    BY <2>1, <2>2
<1>3. QED
  BY <1>1, <1>2 DEF CallsOK

\* A step that touches no call.
LEMMA NoCall ==
    ASSUME TypeInv, at' = at, call' = call, draws' \in Nat, draws <= draws'
    PROVE  CallsOK'
<1>1. ASSUME NEW u \in Threads, at'[u] # "idle" PROVE CallOK(u)' /\ PlacedOK(u)'
  <2>1. CallOK(u) /\ PlacedOK(u)
    BY <1>1 DEF TypeInv, CallsOK
  <2>2. CallOK(u)'
    BY <2>1 DEF CallOK, TypeInv, StateOK
  <2>3. PlacedOK(u)'
    BY <2>1 DEF PlacedOK, Placed
  <2>4. QED
    BY <2>2, <2>3
<1>2. QED
  BY <1>1 DEF CallsOK

LEMMA TypeInit == Init => TypeInv
<1> SUFFICES ASSUME Init PROVE TypeInv
  OBVIOUS
<1>1. /\ draws \in Nat /\ populated \in Nat /\ overlapped \in BOOLEAN
      /\ at \in [Threads -> Steps] /\ call = [u \in Threads |-> call[u]]
  BY DEF Init, Steps
<1>2. pairs \in Precomputed /\ triples \in Precomputed
  BY EmptySeq DEF Init, Precomputed
<1>3. IsSeq(released) /\ compacts = {}
  BY EmptyIsSeq DEF Init
<1>4. CallsOK
  BY DEF Init, CallsOK
<1>5. QED
  BY <1>1, <1>2, <1>3, <1>4 DEF TypeInv, StateOK

\* encryptSelection, with the slot it is found to work on.
SelectionOf(c, slot, e) ==
    [contest |-> c.contest, slot |-> slot, vote |-> VoteFor(c, slot),
     nonce |-> e.nonce, key |-> e.key]

LEMMA SelectionStep ==
    ASSUME TypeInv, NEW t \in Threads, encryptSelection(t)
    PROVE  \E slot \in 1..2 :
              LET c == call[t]
                  e == PrecomputedOr(pairs, selectionNonce(c, slot))
              IN  /\ at[t] = "selection"
                  /\ Len(c.selections) + 1 = 2 * (c.contest - 1) + slot
                  /\ pairs' = AfterGet(pairs)
                  /\ uses' = uses \cup {Use(c, e.nonce, "selection", slot, VoteFor(c, slot))}
                  /\ VerifyThenGoto(t, ValidUnder(e.key),
                        IF slot = 2 THEN "extended" ELSE "selection",
                        [c EXCEPT !.selections = Append(@, SelectionOf(c, slot, e))])
<1> DEFINE c == call[t]
           slot == Cardinality({i \in 1..Len(c.selections) :
                                   c.selections[i].contest = c.contest}) + 1
<1>1. at[t] = "selection"
  BY DEF encryptSelection
<1>2. CallOK(t) /\ PlacedOK(t)
  BY <1>1 DEF TypeInv, CallsOK
<1>3. /\ Placed(c.selections) /\ c.contest \in Nat \ {0}
      /\ Len(c.selections) \in 2 * (c.contest - 1) .. 2 * (c.contest - 1) + 1
  BY <1>1, <1>2, BallotAssumption DEF CallOK, PlacedOK
<1>4. slot = Len(c.selections) - 2 * (c.contest - 1) + 1
  BY <1>3, SlotOf
<1>5. slot \in 1..2 /\ Len(c.selections) + 1 = 2 * (c.contest - 1) + slot
  <2>1. ASSUME NEW n \in Nat \ {0}, NEW len \in 2 * (n - 1) .. 2 * (n - 1) + 1
        PROVE  len - 2 * (n - 1) + 1 \in 1..2 /\ len \in Nat
    OBVIOUS
  <2> HIDE DEF slot, c
  <2>2. QED
    BY <1>3, <1>4, <2>1
<1>6. /\ pairs' = AfterGet(pairs)
      /\ LET e == PrecomputedOr(pairs, selectionNonce(c, slot))
         IN  /\ uses' = uses \cup {Use(c, e.nonce, "selection", slot, VoteFor(c, slot))}
             /\ VerifyThenGoto(t, ValidUnder(e.key),
                   IF slot = 2 THEN "extended" ELSE "selection",
                   [c EXCEPT !.selections = Append(@, SelectionOf(c, slot, e))])
  BY DEF encryptSelection, SelectionOf
<1> HIDE DEF slot
<1>7. QED
  BY <1>1, <1>5, <1>6

LEMMA TypeStep == TypeInv /\ [Next]_vars => TypeInv'
<1> SUFFICES ASSUME TypeInv, [Next]_vars PROVE TypeInv'
  OBVIOUS
<1>0. draws \in Nat /\ draws <= draws /\ at \in [Threads -> Steps] /\ call = [u \in Threads |-> call[u]]
  BY DEF TypeInv, StateOK
<1>1. CASE UNCHANGED vars
  <2>1. CallsOK'
    BY <1>0, <1>1, NoCall DEF vars, pool
  <2>2. QED
    BY <1>1, <2>1 DEF TypeInv, StateOK, vars, pool, seedVars, history
<1>2. CASE populate
  <2>1. PICK key \in Keys :
           LET value(n) == [root |-> draws + n, key |-> key]
           IN  /\ pairs' = Append(pairs, value(1))
               /\ \/ triples' = triples \o << value(2), value(3) >> /\ draws' = draws + 3
                  \/ UNCHANGED triples /\ draws' = draws + 1
    BY <1>2 DEF populate
  <2>2. draws \in Nat /\ pairs \in Precomputed /\ triples \in Precomputed
    BY DEF TypeInv, StateOK
  <2>3. \A n \in 1..3 : [root |-> draws + n, key |-> key] \in [root : Nat, key : Keys]
    BY <2>2
  <2>4. pairs' \in Precomputed
    BY <2>1, <2>2, <2>3, AppendProperties DEF Precomputed
  <2>5. << [root |-> draws + 2, key |-> key], [root |-> draws + 3, key |-> key] >>
           \in Precomputed
    BY <2>3 DEF Precomputed
  <2>6. triples' \in Precomputed /\ draws' \in Nat /\ draws <= draws'
    <3>1. triples \o << [root |-> draws + 2, key |-> key], [root |-> draws + 3, key |-> key] >>
             \in Precomputed
      BY <2>2, <2>5, ConcatProperties DEF Precomputed
    <3>2. QED
      <4>1. CASE UNCHANGED triples /\ draws' = draws + 1
        BY <2>2, <4>1
      <4>2. CASE draws' = draws + 3 /\ triples' = triples \o
                   << [root |-> draws + 2, key |-> key], [root |-> draws + 3, key |-> key] >>
        BY <2>2, <3>1, <4>2
      <4>3. QED
        BY <2>1, <4>1, <4>2
  <2>7. CallsOK'
    BY <1>0, <1>2, <2>6, NoCall DEF populate
  <2>8. QED
    BY <1>2, <2>4, <2>6, <2>7 DEF populate, TypeInv, StateOK, history
<1>3. CASE empty_queues
  <2>1. CallsOK'
    BY <1>0, <1>3, NoCall DEF empty_queues
  <2>2. pairs' \in Precomputed /\ triples' \in Precomputed
    BY <1>3, EmptySeq DEF empty_queues, Precomputed
  <2>3. QED
    BY <1>3, <2>1, <2>2 DEF empty_queues, TypeInv, StateOK, history
<1>4. ASSUME NEW t \in Threads, mediate(t) PROVE TypeInv'
  <2>1. PICK mode \in Modes, b \in Ballots, v \in Votes :
           Start(t, "check_seed", NewCall(mode.op, mode.verify, b, v, 0, Null, Null))
    BY <1>4 DEF mediate
  <2> DEFINE c == NewCall(mode.op, mode.verify, b, v, 0, Null, Null)
  <2>2. /\ DOMAIN c = Fields /\ c.op = mode.op /\ c.verify = mode.verify /\ c.ballot = b
        /\ c.vote = v /\ c.contest = 1 /\ c.selections = << >> /\ c.proofs = << >>
    BY NewCallOK
  <2> HIDE DEF c
  <2>3. /\ at' = [at EXCEPT ![t] = "check_seed"] /\ call' = [call EXCEPT ![t] = c]
        /\ at'[t] = "check_seed" /\ call'[t] = c
    BY <2>1 DEF Start, Goto, TypeInv, StateOK, c
  <2>4. CallOK(t)' /\ PlacedOK(t)'
    BY <2>2, <2>3, EmptyIsSeq, BallotAssumption
       DEF CallOK, PlacedOK, Placed, Encrypting
  <2>5. at' \in [Threads -> Steps] /\ call' = [u \in Threads |-> call'[u]] /\ CallsOK'
    BY <1>0, <1>4, <2>3, <2>4, OneCall DEF mediate, Steps
  <2>6. overlapped' \in BOOLEAN
    BY <1>4 DEF mediate
  <2>7. QED
    BY <1>4, <2>5, <2>6 DEF mediate, TypeInv, StateOK, pool, history
<1>5. ASSUME NEW t \in Threads, expand(t) PROVE TypeInv'
  <2>1. PICK k \in compacts : Start(t, "selection", ExpansionOf(k, draws + 1))
    BY <1>5 DEF expand
  <2> DEFINE c == ExpansionOf(k, draws + 1)
  <2>2. /\ DOMAIN c = Fields /\ c.op = "expand" /\ c.verify = TRUE /\ c.ballot = k.ballot
        /\ c.vote = k.vote /\ c.root = k.root
        /\ c.contest = 1 /\ c.selections = << >> /\ c.proofs = << >>
    BY DEF ExpansionOf, NewCall, Fields
  <2> HIDE DEF c
  <2>3. /\ at' = [at EXCEPT ![t] = "selection"] /\ call' = [call EXCEPT ![t] = c]
        /\ at'[t] = "selection" /\ call'[t] = c
    BY <2>1 DEF Start, Goto, TypeInv, StateOK, c
  <2>4. CallOK(t)' /\ PlacedOK(t)'
    <3>1. c.ballot \in Ballots /\ c.vote \in Votes /\ c.root \in 1..draws
      BY <2>2 DEF TypeInv, StateOK
    <3>2. draws' = draws
      BY <1>5 DEF expand
    <3>3. CallOK(t)'
      <4>1. c.verify \in BOOLEAN
        <5>1. c.verify = TRUE
          BY <2>2
        <5>2. TRUE \in BOOLEAN
          OBVIOUS
        <5>3. QED
          BY <5>1, <5>2, Zenon
      <4>4. c.contest \in 1..ContestCount
        BY <2>2, BallotAssumption
      <4>2. IsSeq(c.proofs)
        BY <2>2, EmptyIsSeq
      <4>3. QED
        BY <2>2, <2>3, <3>1, <3>2, <4>1, <4>2, <4>4 DEF CallOK, Encrypting
    <3>4. PlacedOK(t)'
      BY <2>2, <2>3, EmptyIsSeq DEF PlacedOK, Placed
    <3>5. QED
      BY <3>3, <3>4
  <2>5. at' \in [Threads -> Steps] /\ call' = [u \in Threads |-> call'[u]] /\ CallsOK'
    BY <1>0, <1>5, <2>3, <2>4, OneCall DEF expand, Steps, Encrypting
  <2>6. QED
    BY <1>5, <2>5 DEF expand, TypeInv, StateOK, pool, history
<1>6. ASSUME NEW t \in Threads, check_seed(t) PROVE TypeInv'
  <2> DEFINE step == IF ballotCodeSeed = << >> THEN "new_seed" ELSE "deref_seed"
  <2>1. /\ at' = [at EXCEPT ![t] = step] /\ call' = [call EXCEPT ![t] = call[t]]
        /\ at'[t] = step /\ call'[t] = call[t]
    BY <1>6 DEF check_seed, Goto, TypeInv, StateOK
  <2>2. at[t] = "check_seed" /\ CallOK(t) /\ PlacedOK(t)
    BY <1>6 DEF check_seed, TypeInv, CallsOK
  <2>3. CallOK(t)' /\ PlacedOK(t)'
    <3>1. at'[t] \in {"new_seed", "deref_seed"} /\ draws' = draws
      BY <1>6, <2>1 DEF check_seed
    <3>2. CallOK(t)'
      BY <2>1, <2>2, <3>1 DEF CallOK, Encrypting
    <3>3. PlacedOK(t)'
      BY <2>1, <2>2, <3>1 DEF PlacedOK
    <3>4. QED
      BY <3>2, <3>3
  <2>4. at' \in [Threads -> Steps] /\ call' = [u \in Threads |-> call'[u]] /\ CallsOK'
    BY <1>0, <1>6, <2>1, <2>3, OneCall DEF check_seed, Steps
  <2>5. QED
    BY <1>6, <2>4 DEF check_seed, TypeInv, StateOK, pool, history
<1>7. ASSUME NEW t \in Threads, new_seed(t) PROVE TypeInv'
  <2>1. /\ at' = [at EXCEPT ![t] = "deref_seed"] /\ call' = [call EXCEPT ![t] = call[t]]
        /\ at'[t] = "deref_seed" /\ call'[t] = call[t]
    BY <1>7 DEF new_seed, Goto, TypeInv, StateOK
  <2>2. at[t] = "new_seed" /\ CallOK(t) /\ PlacedOK(t)
    BY <1>7 DEF new_seed, TypeInv, CallsOK
  <2>3. CallOK(t)' /\ PlacedOK(t)'
    BY <1>7, <2>1, <2>2 DEF CallOK, PlacedOK, Placed, Encrypting, new_seed
  <2>4. at' \in [Threads -> Steps] /\ call' = [u \in Threads |-> call'[u]] /\ CallsOK'
    BY <1>0, <1>7, <2>1, <2>3, OneCall DEF new_seed, Steps
  <2>5. QED
    BY <1>7, <2>4 DEF new_seed, TypeInv, StateOK, pool, history
<1>8. ASSUME NEW t \in Threads, deref_seed(t) PROVE TypeInv'
  <2> DEFINE c == [call[t] EXCEPT !.seed = Head(ballotCodeSeed), !.object = seedObject,
                                  !.root = draws + 1]
  <2>1. at[t] = "deref_seed" /\ CallOK(t) /\ PlacedOK(t)
    BY <1>8 DEF deref_seed, TypeInv, CallsOK
  <2>2. /\ at' = [at EXCEPT ![t] = "selection"] /\ call' = [call EXCEPT ![t] = c]
        /\ at'[t] = "selection" /\ call'[t] = c
    BY <1>8 DEF deref_seed, Goto, TypeInv, StateOK
  <2>3. /\ DOMAIN c = Fields /\ c.op = call[t].op /\ c.verify = call[t].verify
        /\ c.ballot = call[t].ballot /\ c.vote = call[t].vote
        /\ c.contest = call[t].contest /\ c.selections = call[t].selections
        /\ c.proofs = call[t].proofs /\ c.root = draws + 1
    BY <2>1 DEF CallOK, Fields
  <2> HIDE DEF c
  <2>4. draws \in Nat /\ draws' = draws + 1 /\ draws' \in Nat /\ draws <= draws'
    BY <1>8 DEF deref_seed, TypeInv, StateOK
  <2>5. CallOK(t)'
    BY <2>1, <2>2, <2>3, <2>4 DEF CallOK, Encrypting
  <2>6. PlacedOK(t)'
    BY <2>1, <2>2, <2>3 DEF PlacedOK, Placed
  <2>7. at' \in [Threads -> Steps] /\ call' = [u \in Threads |-> call'[u]] /\ CallsOK'
    BY <1>0, <2>2, <2>4, <2>5, <2>6, OneCall DEF Steps, Encrypting
  <2>8. compacts' = compacts /\ pairs' = pairs /\ triples' = triples
    BY <1>8 DEF deref_seed, history, pool
  <2>9. \A k \in compacts' : k.ballot \in Ballots /\ k.vote \in Votes /\ k.root \in 1..draws'
    BY <2>4, <2>8 DEF TypeInv, StateOK
  <2>10. QED
    BY <1>8, <2>4, <2>7, <2>8, <2>9 DEF deref_seed, TypeInv, StateOK, history
<1>9. ASSUME NEW t \in Threads, encryptSelection(t) PROVE TypeInv'
  <2>1. PICK slot \in 1..2 :
           LET c == call[t]
               e == PrecomputedOr(pairs, selectionNonce(c, slot))
           IN  /\ at[t] = "selection"
               /\ Len(c.selections) + 1 = 2 * (c.contest - 1) + slot
               /\ pairs' = AfterGet(pairs)
               /\ VerifyThenGoto(t, ValidUnder(e.key),
                     IF slot = 2 THEN "extended" ELSE "selection",
                     [c EXCEPT !.selections = Append(@, SelectionOf(c, slot, e))])
    BY <1>9, SelectionStep
  <2> DEFINE x == SelectionOf(call[t], slot, PrecomputedOr(pairs, selectionNonce(call[t], slot)))
             c == [call[t] EXCEPT !.selections = Append(@, x)]
             step == IF slot = 2 THEN "extended" ELSE "selection"
  <2>2. CallOK(t) /\ PlacedOK(t)
    BY <2>1 DEF TypeInv, CallsOK
  <2>3. /\ DOMAIN c = Fields /\ c.op = call[t].op /\ c.verify = call[t].verify
        /\ c.ballot = call[t].ballot /\ c.vote = call[t].vote /\ c.root = call[t].root
        /\ c.contest = call[t].contest /\ c.proofs = call[t].proofs
        /\ c.selections = Append(call[t].selections, x)
    BY <2>2 DEF CallOK, Fields
  <2>4. x.contest = call[t].contest /\ x.slot = slot
    BY DEF SelectionOf
  <2> HIDE DEF c, x
  <2>4a. /\ Placed(c.selections) /\ Len(c.selections) = Len(call[t].selections) + 1
    <3>2. Placed(call[t].selections) /\ call[t].contest \in Nat
      BY <2>2 DEF PlacedOK, CallOK
    <3>3. QED
      BY <2>1, <2>3, <2>4, <3>2, PlaceSelection
  <2>5. \/ at' = [at EXCEPT ![t] = "idle"] /\ call' = [call EXCEPT ![t] = Null]
        \/ at' = [at EXCEPT ![t] = step] /\ call' = [call EXCEPT ![t] = c]
    BY <2>1 DEF VerifyThenGoto, Leave, Goto, c, x
  <2>6. draws' = draws /\ draws \in Nat
    BY <1>9 DEF encryptSelection, TypeInv, StateOK
  <2>7. at' \in [Threads -> Steps] /\ call' = [u \in Threads |-> call'[u]] /\ CallsOK'
    <3>1. CASE at' = [at EXCEPT ![t] = "idle"] /\ call' = [call EXCEPT ![t] = Null]
      BY <1>0, <2>6, <3>1, OneCall DEF Steps
    <3>2. CASE at' = [at EXCEPT ![t] = step] /\ call' = [call EXCEPT ![t] = c]
      <4>1. at'[t] = step /\ call'[t] = c
        BY <3>2 DEF TypeInv, StateOK
      <4>2. CallOK(t)'
        BY <2>1, <2>2, <2>3, <2>6, <4>1 DEF CallOK, Encrypting
      <4>3. call[t].contest \in Nat /\ Len(call[t].selections) \in Nat
        BY <2>2 DEF CallOK, PlacedOK, Placed, IsSeq
      <4>4. PlacedOK(t)'
        <5>1. CASE slot = 1
          <6>1. Len(c.selections) = 2 * (c.contest - 1) + 1 /\ c.contest \in Nat
            BY <2>1, <2>3, <2>4a, <4>3, <5>1
          <6>2. at'[t] = "selection" /\ call'[t] = c
            BY <4>1, <5>1
          <6>3. QED
            BY <2>4a, <6>1, <6>2 DEF PlacedOK
        <5>2. CASE slot = 2
          BY <2>1, <2>3, <2>4a, <4>1, <4>3, <5>2 DEF PlacedOK
        <5>3. QED
          BY <5>1, <5>2
      <4>5. QED
        BY <1>0, <2>6, <3>2, <4>2, <4>4, OneCall DEF Steps, Encrypting
    <3>3. QED
      BY <2>5, <3>1, <3>2
  <2>8. pairs' \in Precomputed
    BY <2>1, GetterOK DEF TypeInv, StateOK
  <2>9. QED
    BY <1>9, <2>7, <2>8 DEF encryptSelection, TypeInv, StateOK
<1>10. ASSUME NEW t \in Threads, hashedElgamalEncrypt(t) PROVE TypeInv'
  <2>1. PICK key : /\ call' = [call EXCEPT ![t].extended = Append(@, key)]
                   /\ at[t] = "extended" /\ at' = [at EXCEPT ![t] = "contest"]
                   /\ triples' = AfterGet(triples) /\ draws' = draws
    BY <1>10 DEF hashedElgamalEncrypt, Goto
  <2> DEFINE c == [call[t] EXCEPT !.extended = Append(@, key)]
  <2>2. CallOK(t) /\ PlacedOK(t)
    BY <2>1 DEF TypeInv, CallsOK
  <2>3. /\ DOMAIN c = Fields /\ c.op = call[t].op /\ c.verify = call[t].verify
        /\ c.ballot = call[t].ballot /\ c.vote = call[t].vote /\ c.root = call[t].root
        /\ c.contest = call[t].contest /\ c.proofs = call[t].proofs
        /\ c.selections = call[t].selections
    BY <2>2 DEF CallOK, Fields
  <2>4. call' = [call EXCEPT ![t] = c] /\ call'[t] = c /\ at'[t] = "contest"
    BY <2>1 DEF TypeInv, StateOK
  <2> HIDE DEF c
  <2>5. CallOK(t)'
    BY <2>1, <2>2, <2>3, <2>4 DEF CallOK, Encrypting
  <2>6. PlacedOK(t)'
    BY <2>1, <2>2, <2>3, <2>4 DEF PlacedOK
  <2>7. at' \in [Threads -> Steps] /\ call' = [u \in Threads |-> call'[u]] /\ CallsOK'
    BY <1>0, <2>1, <2>4, <2>5, <2>6, OneCall DEF Steps, Encrypting
  <2>8. triples' \in Precomputed
    BY <2>1, GetterOK DEF TypeInv, StateOK
  <2>9. QED
    BY <1>10, <2>7, <2>8 DEF hashedElgamalEncrypt, TypeInv, StateOK
<1>11. ASSUME NEW t \in Threads, makeContest(t) PROVE TypeInv'
  <2> DEFINE e == PrecomputedOr(triples, proofNonce(call[t]))
             c == [call[t] EXCEPT !.proofs = Append(@, e.key),
                                  !.contest = NextContest(call[t])]
             step == IF call[t].contest < ContestCount THEN "selection" ELSE "ballot"
  <2>1. /\ at[t] = "contest" /\ triples' = AfterGet(triples) /\ draws' = draws
        /\ VerifyThenGoto(t, ValidUnder(e.key), step, c)
    BY <1>11 DEF makeContest
  <2>2. CallOK(t) /\ PlacedOK(t)
    BY <2>1 DEF TypeInv, CallsOK
  <2>3. /\ DOMAIN c = Fields /\ c.op = call[t].op /\ c.verify = call[t].verify
        /\ c.ballot = call[t].ballot /\ c.vote = call[t].vote /\ c.root = call[t].root
        /\ c.contest = NextContest(call[t]) /\ c.proofs = Append(call[t].proofs, e.key)
        /\ c.selections = call[t].selections
    BY <2>2 DEF CallOK, Fields
  <2> HIDE DEF c, e
  <2>4. \/ at' = [at EXCEPT ![t] = "idle"] /\ call' = [call EXCEPT ![t] = Null]
        \/ at' = [at EXCEPT ![t] = step] /\ call' = [call EXCEPT ![t] = c]
    BY <2>1 DEF VerifyThenGoto, Leave, Goto
  <2>5. at' \in [Threads -> Steps] /\ call' = [u \in Threads |-> call'[u]] /\ CallsOK'
    <3>1. CASE at' = [at EXCEPT ![t] = "idle"] /\ call' = [call EXCEPT ![t] = Null]
      BY <1>0, <2>1, <3>1, OneCall DEF Steps
    <3>2. CASE at' = [at EXCEPT ![t] = step] /\ call' = [call EXCEPT ![t] = c]
      <4>1. at'[t] = step /\ call'[t] = c
        BY <3>2 DEF TypeInv, StateOK
      <4>2. IsSeq(c.proofs)
        BY <2>2, <2>3, AppendToSeq DEF CallOK
      <4>4. call[t].contest \in 1..ContestCount /\ Len(call[t].selections) = 2 * call[t].contest
        BY <2>1, <2>2 DEF CallOK, PlacedOK
      <4>7. c.contest \in 1..ContestCount /\ at'[t] \in {"selection", "ballot"}
        BY <2>3, <4>1, <4>4, BallotAssumption DEF NextContest
      <4>3. CallOK(t)'
        BY <2>1, <2>2, <2>3, <4>1, <4>2, <4>7 DEF CallOK, Encrypting
      <4>5. PlacedOK(t)'
        <5>1. Placed(c.selections) /\ Len(c.selections) = 2 * call[t].contest
          BY <2>2, <2>3, <4>4 DEF PlacedOK
        <5>2. CASE call[t].contest < ContestCount
          <6>1. at'[t] = "selection" /\ c.contest = call[t].contest + 1
            BY <2>3, <4>1, <5>2 DEF NextContest
          <6>2. Len(c.selections) = 2 * (c.contest - 1) /\ c.contest - 1 \in Nat
            BY <4>4, <5>1, <6>1
          <6>3. QED
            BY <4>1, <5>1, <6>1, <6>2 DEF PlacedOK
        <5>3. CASE ~ (call[t].contest < ContestCount)
          <6>1. at'[t] = "ballot" /\ call[t].contest = ContestCount
            BY <4>1, <4>4, <5>3, BallotAssumption
          <6>2. QED
            BY <4>1, <5>1, <6>1 DEF PlacedOK
        <5>4. QED
          BY <5>2, <5>3
      <4>6. QED
        BY <1>0, <2>1, <3>2, <4>3, <4>5, OneCall DEF Steps, Encrypting
    <3>3. QED
      BY <2>4, <3>1, <3>2
  <2>6. triples' \in Precomputed
    BY <2>1, GetterOK DEF TypeInv, StateOK
  <2>7. QED
    BY <1>11, <2>5, <2>6 DEF makeContest, TypeInv, StateOK
<1>12. ASSUME NEW t \in Threads, makeBallot(t) PROVE TypeInv'
  <2>1. PICK seed \in SeedRead(t) :
          VerifyThenGoto(t, Ballot_isValidEncryption(call[t]),
             IF call[t].op = "expand" THEN "compare_code" ELSE "store_seed",
             [call[t] EXCEPT !.seed = seed])
    BY <1>12 DEF makeBallot
  <2> DEFINE c == [call[t] EXCEPT !.seed = seed]
             step == IF call[t].op = "expand" THEN "compare_code" ELSE "store_seed"
  <2>2. at[t] = "ballot" /\ CallOK(t) /\ PlacedOK(t) /\ draws' = draws
    BY <1>12 DEF makeBallot, TypeInv, CallsOK
  <2>3. /\ DOMAIN c = Fields /\ c.op = call[t].op /\ c.verify = call[t].verify
        /\ c.ballot = call[t].ballot /\ c.vote = call[t].vote /\ c.root = call[t].root
        /\ c.contest = call[t].contest /\ c.proofs = call[t].proofs
        /\ c.selections = call[t].selections
    BY <2>2 DEF CallOK, Fields
  <2> HIDE DEF c
  <2>4. \/ at' = [at EXCEPT ![t] = "idle"] /\ call' = [call EXCEPT ![t] = Null]
        \/ at' = [at EXCEPT ![t] = step] /\ call' = [call EXCEPT ![t] = c]
    BY <2>1 DEF VerifyThenGoto, Leave, Goto, c
  <2>5. at' \in [Threads -> Steps] /\ call' = [u \in Threads |-> call'[u]] /\ CallsOK'
    <3>1. CASE at' = [at EXCEPT ![t] = "idle"] /\ call' = [call EXCEPT ![t] = Null]
      BY <1>0, <2>2, <3>1, OneCall DEF Steps
    <3>2. CASE at' = [at EXCEPT ![t] = step] /\ call' = [call EXCEPT ![t] = c]
      <4>1. at'[t] = step /\ call'[t] = c
        BY <3>2 DEF TypeInv, StateOK
      <4>2. CallOK(t)'
        BY <2>2, <2>3, <4>1 DEF CallOK, Encrypting
      <4>3. PlacedOK(t)'
        BY <2>2, <2>3, <4>1 DEF PlacedOK
      <4>4. QED
        BY <1>0, <2>2, <3>2, <4>2, <4>3, OneCall DEF Steps, Encrypting
    <3>3. QED
      BY <2>4, <3>1, <3>2
  <2>6. QED
    BY <1>12, <2>5 DEF makeBallot, TypeInv, StateOK, pool
<1>13. ASSUME NEW t \in Threads, compare_code(t) PROVE TypeInv'
  <2>1. at' \in [Threads -> Steps] /\ call' = [u \in Threads |-> call'[u]] /\ CallsOK'
    BY <1>0, <1>13, OneCall DEF compare_code, Leave, Goto, Steps
  <2>2. QED
    BY <1>13, <2>1 DEF compare_code, TypeInv, StateOK, pool
<1>14. ASSUME NEW t \in Threads, store_seed(t) PROVE TypeInv'
  <2>1. at' \in [Threads -> Steps] /\ call' = [u \in Threads |-> call'[u]] /\ CallsOK'
    BY <1>0, <1>14, OneCall DEF store_seed, Leave, Goto, Steps
  <2>2. IsSeq(released')
    BY <1>14, AppendToSeq DEF store_seed, TypeInv, StateOK
  <2>3. CallOK(t) /\ at[t] = "store_seed"
    BY <1>14 DEF store_seed, TypeInv, CallsOK
  <2>4. \A k \in compacts' : k.ballot \in Ballots /\ k.vote \in Votes /\ k.root \in 1..draws'
    BY <1>14, <2>3 DEF store_seed, TypeInv, StateOK, CallOK, Encrypting
  <2>5. QED
    BY <1>14, <2>1, <2>2, <2>4 DEF store_seed, TypeInv, StateOK, pool
<1>15. CASE Quiescent
  BY <1>1, <1>15 DEF Quiescent
<1>16. QED
  BY <1>1, <1>2, <1>3, <1>4, <1>5, <1>6, <1>7, <1>8, <1>9, <1>10, <1>11, <1>12, <1>13,
     <1>14, <1>15 DEF Next

-----------------------------------------------------------------------------
(* Verified ballots are under the election's key.                          *)

LEMMA VerifiedInit == Init => VerifiedInv
  BY DEF Init, VerifiedInv, VerifiedUnderElectionKey

\* A step that reaches no store and releases nothing.
LEMMA NotReleasing ==
    ASSUME TypeInv, VerifiedInv, released' = released,
           \A u \in Threads : at'[u] = "store_seed" =>
              at[u] = "store_seed" /\ call'[u] = call[u]
    PROVE  VerifiedInv'
<1>1. ASSUME NEW u \in Threads, at'[u] = "store_seed", call'[u].verify
      PROVE  Ballot_isValidEncryption(call'[u])
  BY <1>1 DEF VerifiedInv
<1>2. VerifiedUnderElectionKey'
  BY DEF VerifiedInv, VerifiedUnderElectionKey
<1>4. QED
  BY <1>1, <1>2 DEF VerifiedInv, Ballot_isValidEncryption, ValidUnder

LEMMA VerifiedStep == TypeInv /\ VerifiedInv /\ [Next]_vars => VerifiedInv'
<1> SUFFICES ASSUME TypeInv, VerifiedInv, [Next]_vars PROVE VerifiedInv'
  OBVIOUS
<1>0. at \in [Threads -> Steps] /\ call = [u \in Threads |-> call[u]]
  BY DEF TypeInv, StateOK
<1>1. CASE UNCHANGED vars
  BY <1>1, NotReleasing DEF vars, history
<1>2. CASE populate
  BY <1>2, NotReleasing DEF populate, history
<1>3. CASE empty_queues
  BY <1>3, NotReleasing DEF empty_queues, history
<1>4. ASSUME NEW t \in Threads, mediate(t) PROVE VerifiedInv'
  BY <1>0, <1>4, NotReleasing DEF mediate, Start, Goto, history
<1>5. ASSUME NEW t \in Threads, expand(t) PROVE VerifiedInv'
  BY <1>0, <1>5, NotReleasing DEF expand, Start, Goto, history
<1>6. ASSUME NEW t \in Threads, check_seed(t) PROVE VerifiedInv'
  BY <1>0, <1>6, NotReleasing DEF check_seed, Goto, history
<1>7. ASSUME NEW t \in Threads, new_seed(t) PROVE VerifiedInv'
  BY <1>0, <1>7, NotReleasing DEF new_seed, Goto, history
<1>8. ASSUME NEW t \in Threads, deref_seed(t) PROVE VerifiedInv'
  BY <1>0, <1>8, NotReleasing DEF deref_seed, Goto, history
<1>9. ASSUME NEW t \in Threads, encryptSelection(t) PROVE VerifiedInv'
  BY <1>0, <1>9, NotReleasing DEF encryptSelection, VerifyThenGoto, Leave, Goto
<1>10. ASSUME NEW t \in Threads, hashedElgamalEncrypt(t) PROVE VerifiedInv'
  BY <1>0, <1>10, NotReleasing DEF hashedElgamalEncrypt, Goto
<1>11. ASSUME NEW t \in Threads, makeContest(t) PROVE VerifiedInv'
  BY <1>0, <1>11, NotReleasing DEF makeContest, VerifyThenGoto, Leave, Goto
<1>12. ASSUME NEW t \in Threads, makeBallot(t) PROVE VerifiedInv'
  <2>1. PICK seed \in SeedRead(t) :
          VerifyThenGoto(t, Ballot_isValidEncryption(call[t]),
             IF call[t].op = "expand" THEN "compare_code" ELSE "store_seed",
             [call[t] EXCEPT !.seed = seed])
    BY <1>12 DEF makeBallot
  <2> DEFINE c == [call[t] EXCEPT !.seed = seed]
             step == IF call[t].op = "expand" THEN "compare_code" ELSE "store_seed"
  <2>2. at[t] = "ballot" /\ CallOK(t) /\ released' = released
    BY <1>12 DEF makeBallot, TypeInv, CallsOK
  <2>3. /\ c.verify = call[t].verify
        /\ c.proofs = call[t].proofs /\ c.selections = call[t].selections
    BY <2>2 DEF CallOK, Fields
  <2> HIDE DEF c
  <2>4. \/ at' = [at EXCEPT ![t] = "idle"] /\ call' = [call EXCEPT ![t] = Null]
        \/ /\ at' = [at EXCEPT ![t] = step] /\ call' = [call EXCEPT ![t] = c]
           /\ c.verify => Ballot_isValidEncryption(call[t])
    BY <2>1 DEF VerifyThenGoto, Leave, Goto, c
  <2>5. CASE at' = [at EXCEPT ![t] = "idle"] /\ call' = [call EXCEPT ![t] = Null]
    BY <1>0, <2>2, <2>5, NotReleasing
  <2>6. CASE /\ at' = [at EXCEPT ![t] = step] /\ call' = [call EXCEPT ![t] = c]
             /\ c.verify => Ballot_isValidEncryption(call[t])
    <3>1. c.verify => Ballot_isValidEncryption(c)
      BY <2>3, <2>6 DEF Ballot_isValidEncryption
    <3>2. ASSUME NEW u \in Threads, at'[u] = "store_seed", call'[u].verify
          PROVE  Ballot_isValidEncryption(call'[u])
      <4>1. CASE u = t
        BY <1>0, <2>6, <3>1, <3>2, <4>1
      <4>2. CASE u # t
        BY <1>0, <2>6, <3>2, <4>2 DEF VerifiedInv
      <4>3. QED
        BY <4>1, <4>2
    <3>3. VerifiedUnderElectionKey'
      BY <2>2 DEF VerifiedInv, VerifiedUnderElectionKey
    <3>4. QED
      BY <3>2, <3>3 DEF VerifiedInv, Ballot_isValidEncryption, ValidUnder
  <2>7. QED
    BY <2>4, <2>5, <2>6
<1>13. ASSUME NEW t \in Threads, compare_code(t) PROVE VerifiedInv'
  BY <1>0, <1>13, NotReleasing DEF compare_code, Leave, Goto
<1>14. ASSUME NEW t \in Threads, store_seed(t) PROVE VerifiedInv'
  <2> DEFINE c == call[t]
             b == [seed |-> c.seed, code |-> BallotCode(c, c.seed), verify |-> c.verify,
                   selections |-> c.selections, extended |-> c.extended,
                   proofs |-> c.proofs]
  <2>1. at[t] = "store_seed" /\ released' = Append(released, b)
    BY <1>14 DEF store_seed
  <2>2. /\ IsSeq(released) /\ Len(released') = Len(released) + 1
        /\ \A i \in 1..Len(released) : released'[i] = released[i]
        /\ released'[Len(released) + 1] = b
    BY <2>1, AppendToSeq DEF TypeInv, StateOK
  <2>3. b.verify => /\ \A s \in ToSet(b.selections) : s.key = ElectionKey
                    /\ \A key \in ToSet(b.proofs) : key = ElectionKey
    BY <2>1 DEF VerifiedInv, Ballot_isValidEncryption, ValidUnder
  <2>4. VerifiedUnderElectionKey'
    <3> HIDE DEF b
    <3>1. ASSUME NEW i \in 1..Len(released'), released'[i].verify
          PROVE  /\ \A s \in ToSet(released'[i].selections) : s.key = ElectionKey
                 /\ \A key \in ToSet(released'[i].proofs) : key = ElectionKey
      <4>1. CASE i = Len(released) + 1
        BY <2>2, <2>3, <3>1, <4>1
      <4>2. CASE i # Len(released) + 1
        <5>1. i \in 1..Len(released)
          BY <2>2, <4>2 DEF IsSeq
        <5>2. QED
          BY <2>2, <3>1, <5>1 DEF VerifiedInv, VerifiedUnderElectionKey
      <4>3. QED
        BY <4>1, <4>2
    <3>2. QED
      BY <3>1 DEF VerifiedUnderElectionKey
  <2>5. \A u \in Threads : at'[u] = "store_seed" =>
           at[u] = "store_seed" /\ call'[u] = call[u]
    BY <1>0, <1>14 DEF store_seed, Leave, Goto
  <2>6. QED
    BY <2>4, <2>5 DEF VerifiedInv, Ballot_isValidEncryption, ValidUnder
<1>15. CASE Quiescent
  BY <1>1, <1>15 DEF Quiescent
<1>16. QED
  BY <1>1, <1>2, <1>3, <1>4, <1>5, <1>6, <1>7, <1>8, <1>9, <1>10, <1>11, <1>12, <1>13,
     <1>14, <1>15 DEF Next

-----------------------------------------------------------------------------
(* The chain of ballot codes.                                              *)

LEMMA SeedInit == Init => SeedInv
<1> SUFFICES ASSUME Init PROVE SeedInv
  OBVIOUS
<1>1. Mediating = {}
  BY DEF Init, Mediating
<1>2. ChainUnbroken
  BY DEF Init, ChainUnbroken
<1>3. QED
  BY <1>1, <1>2 DEF Init, SeedInv

\* A step that leaves the mediator and its seed alone, of a call that is not the
\* mediator's or that goes on encrypting.
LEMMA SeedKept ==
    ASSUME SeedInv, overlapped' = overlapped, released' = released,
           ballotCodeSeed' = ballotCodeSeed, seedObject' = seedObject,
           \A u \in Threads : at'[u] # "idle" /\ call'[u].op # "expand" =>
              /\ at[u] # "idle" /\ call[u].op # "expand"
              /\ call'[u].object = call[u].object
              /\ ~overlapped => call'[u].seed = call[u].seed
              /\ at'[u] = at[u] \/ (at'[u] \in Encrypting /\ at[u] \in Encrypting)
    PROVE  SeedInv'
<1> SUFFICES ASSUME ~overlapped PROVE SeedInv'
  BY DEF SeedInv
<1>1. \A u \in Mediating' :
         /\ u \in Mediating
         /\ call'[u].object = call[u].object /\ call'[u].seed = call[u].seed
         /\ at'[u] = at[u] \/ (at'[u] \in Encrypting /\ at[u] \in Encrypting)
  BY DEF Mediating
<1>2. NextInChain' = NextInChain
  BY DEF NextInChain
<1>3. ChainUnbroken'
  BY DEF SeedInv, ChainUnbroken
<1>4. \A t, u \in Mediating' : t = u
  BY <1>1 DEF SeedInv
<1>5. ASSUME NEW t \in Mediating'
      PROVE  /\ at'[t] = "new_seed" => ballotCodeSeed' = << >>
             /\ at'[t] = "deref_seed" => ballotCodeSeed' # << >>
             /\ at'[t] \in Encrypting =>
                   /\ ballotCodeSeed' # << >>
                   /\ call'[t].object = seedObject'
                   /\ call'[t].seed = NextInChain'
  BY <1>1, <1>2 DEF SeedInv, Encrypting
<1>6. QED
  BY <1>2, <1>3, <1>4, <1>5 DEF SeedInv

LEMMA SeedStep == TypeInv /\ SeedInv /\ [Next]_vars => SeedInv'
<1> SUFFICES ASSUME TypeInv, SeedInv, [Next]_vars PROVE SeedInv'
  OBVIOUS
<1>0. at \in [Threads -> Steps] /\ call = [u \in Threads |-> call[u]]
  BY DEF TypeInv, StateOK
<1>1. CASE UNCHANGED vars
  BY <1>1, SeedKept DEF vars, history, seedVars
<1>2. CASE populate
  BY <1>2, SeedKept DEF populate, history, seedVars
<1>3. CASE empty_queues
  BY <1>3, SeedKept DEF empty_queues, history, seedVars
<1>4. ASSUME NEW t \in Threads, mediate(t) PROVE SeedInv'
  <2>1. CASE overlapped'
    BY <2>1 DEF SeedInv
  <2>2. CASE ~overlapped'
    <3>1. ~overlapped /\ Mediating = {}
      BY <1>4, <2>2 DEF mediate, Mediating
    <3>2. PICK c : at' = [at EXCEPT ![t] = "check_seed"] /\ call' = [call EXCEPT ![t] = c]
      BY <1>4 DEF mediate, Start, Goto
    <3>3. \A u \in Mediating' : u = t /\ at'[u] = "check_seed"
      BY <1>0, <3>1, <3>2 DEF Mediating
    <3>4. /\ ballotCodeSeed' = ballotCodeSeed /\ seedObject' = seedObject
          /\ released' = released
      BY <1>4 DEF mediate, seedVars, history
    <3>5. NextInChain' = NextInChain
      BY <3>4 DEF NextInChain
    <3>6. ChainUnbroken'
      BY <3>1, <3>4 DEF SeedInv, ChainUnbroken
    <3>7. QED
      BY <3>1, <3>3, <3>4, <3>5, <3>6 DEF SeedInv, Encrypting
  <2>3. QED
    BY <2>1, <2>2
<1>5. ASSUME NEW t \in Threads, expand(t) PROVE SeedInv'
  <2>1. PICK k \in compacts : Start(t, "selection", ExpansionOf(k, draws + 1))
    BY <1>5 DEF expand
  <2>2. ExpansionOf(k, draws + 1).op = "expand"
    BY DEF ExpansionOf, NewCall
  <2>3. /\ at'[t] = "selection" /\ call'[t].op = "expand"
        /\ \A u \in Threads : u # t => at'[u] = at[u] /\ call'[u] = call[u]
    BY <1>0, <2>1, <2>2 DEF Start, Goto
  <2>4. QED
    BY <1>5, <2>3, SeedKept DEF expand, seedVars, history
<1>6. ASSUME NEW t \in Threads, check_seed(t) PROVE SeedInv'
  <2>1. /\ at[t] = "check_seed" /\ call' = call /\ overlapped' = overlapped
        /\ at'[t] = IF ballotCodeSeed = << >> THEN "new_seed" ELSE "deref_seed"
        /\ \A u \in Threads : u # t => at'[u] = at[u]
        /\ ballotCodeSeed' = ballotCodeSeed /\ seedObject' = seedObject /\ released' = released
    BY <1>0, <1>6 DEF check_seed, Goto, seedVars, history
  <2>2. NextInChain' = NextInChain /\ (SeedInv => overlapped \/ ChainUnbroken')
    BY <2>1 DEF NextInChain, SeedInv, ChainUnbroken
  <2>3. Mediating' = Mediating /\ t \in Mediating
    <3>1. call[t].op # "expand"
      BY <2>1 DEF TypeInv, CallsOK, CallOK
    <3>2. QED
      BY <2>1, <3>1 DEF Mediating
  <2>4. QED
    BY <2>1, <2>2, <2>3 DEF SeedInv, Encrypting
<1>7. ASSUME NEW t \in Threads, new_seed(t) PROVE SeedInv'
  <2> SUFFICES ASSUME ~overlapped' PROVE SeedInv'
    BY DEF SeedInv
  <2>1. /\ at[t] = "new_seed" /\ call' = call /\ ~overlapped /\ released' = released
        /\ at'[t] = "deref_seed"
        /\ \A u \in Threads : u # t => at'[u] = at[u]
        /\ ballotCodeSeed' = << DeviceHash >>
    BY <1>0, <1>7 DEF new_seed, Goto, history
  <2>2. Mediating' = Mediating /\ t \in Mediating
    <3>1. call[t].op # "expand"
      BY <2>1 DEF TypeInv, CallsOK, CallOK
    <3>2. QED
      BY <2>1, <3>1 DEF Mediating
  <2>3. released = << >>
    BY <2>1, <2>2 DEF SeedInv
  <2>4. ballotCodeSeed' # << >> /\ ballotCodeSeed' = << NextInChain' >>
    BY <2>1, <2>3 DEF NextInChain
  <2>5. ChainUnbroken'
    BY <2>1, <2>3 DEF ChainUnbroken
  <2>6. \A u \in Mediating' : u = t
    BY <2>1, <2>2 DEF SeedInv
  <2>7. QED
    BY <2>1, <2>2, <2>4, <2>5, <2>6 DEF SeedInv, Encrypting
<1>8. ASSUME NEW t \in Threads, deref_seed(t) PROVE SeedInv'
  <2> SUFFICES ASSUME ~overlapped' PROVE SeedInv'
    BY DEF SeedInv
  <2> DEFINE c == [call[t] EXCEPT !.seed = Head(ballotCodeSeed), !.object = seedObject,
                                  !.root = draws + 1]
  <2>1. /\ at[t] = "deref_seed" /\ ~overlapped /\ released' = released
        /\ at'[t] = "selection" /\ call'[t] = c
        /\ \A u \in Threads : u # t => at'[u] = at[u] /\ call'[u] = call[u]
        /\ ballotCodeSeed' = ballotCodeSeed /\ seedObject' = seedObject
    BY <1>0, <1>8 DEF deref_seed, Goto, history, seedVars
  <2>2. CallOK(t)
    BY <2>1 DEF TypeInv, CallsOK
  <2>3. c.op = call[t].op /\ c.seed = Head(ballotCodeSeed) /\ c.object = seedObject
    BY <2>2 DEF CallOK, Fields
  <2>4. call[t].op # "expand"
    BY <2>1, <2>2 DEF CallOK
  <2> HIDE DEF c
  <2>5. Mediating' = Mediating /\ t \in Mediating
    BY <2>1, <2>3, <2>4 DEF Mediating
  <2>6. ballotCodeSeed # << >> /\ ballotCodeSeed = << NextInChain >>
    BY <2>1, <2>5 DEF SeedInv
  <2>7. NextInChain' = NextInChain /\ ChainUnbroken'
    BY <2>1 DEF NextInChain, SeedInv, ChainUnbroken
  <2>8. Head(ballotCodeSeed) = NextInChain
    BY <2>6
  <2>9. \A u \in Mediating' : u = t
    BY <2>1, <2>5 DEF SeedInv
  <2>10. QED
    BY <2>1, <2>3, <2>5, <2>6, <2>7, <2>8, <2>9 DEF SeedInv, Encrypting
<1>9. ASSUME NEW t \in Threads, encryptSelection(t) PROVE SeedInv'
  <2>1. PICK s, step : VerifyThenGoto(t, ValidUnder(s.key), step,
                                [call[t] EXCEPT !.selections = Append(@, s)])
                       /\ step \in {"extended", "selection"}
    BY <1>9 DEF encryptSelection
  <2> DEFINE c == [call[t] EXCEPT !.selections = Append(@, s)]
  <2>2. at[t] = "selection" /\ CallOK(t)
    BY <1>9 DEF encryptSelection, TypeInv, CallsOK
  <2>3. c.op = call[t].op /\ c.seed = call[t].seed /\ c.object = call[t].object
    BY <2>2 DEF CallOK, Fields
  <2> HIDE DEF c
  <2>4. /\ at'[t] = "idle" \/ (at'[t] \in Encrypting /\ call'[t] = c)
        /\ \A u \in Threads : u # t => at'[u] = at[u] /\ call'[u] = call[u]
    BY <1>0, <2>1 DEF VerifyThenGoto, Leave, Goto, Encrypting, c
  <2>5. QED
    BY <1>9, <2>2, <2>3, <2>4, SeedKept DEF encryptSelection, seedVars, Encrypting
<1>10. ASSUME NEW t \in Threads, hashedElgamalEncrypt(t) PROVE SeedInv'
  <2>1. PICK key : call' = [call EXCEPT ![t].extended = Append(@, key)]
    BY <1>10 DEF hashedElgamalEncrypt
  <2>2. at[t] = "extended" /\ CallOK(t)
    BY <1>10 DEF hashedElgamalEncrypt, TypeInv, CallsOK
  <2>3. /\ call'[t].op = call[t].op /\ call'[t].seed = call[t].seed
        /\ call'[t].object = call[t].object
        /\ \A u \in Threads : u # t => call'[u] = call[u]
    BY <1>0, <2>1, <2>2 DEF CallOK, Fields
  <2>4. at'[t] = "contest" /\ \A u \in Threads : u # t => at'[u] = at[u]
    BY <1>0, <1>10 DEF hashedElgamalEncrypt, Goto
  <2>5. QED
    BY <1>10, <2>2, <2>3, <2>4, SeedKept DEF hashedElgamalEncrypt, seedVars, Encrypting
<1>11. ASSUME NEW t \in Threads, makeContest(t) PROVE SeedInv'
  <2>1. PICK key, step :
           VerifyThenGoto(t, ValidUnder(key), step,
              [call[t] EXCEPT !.proofs = Append(@, key), !.contest = NextContest(call[t])])
           /\ step \in {"selection", "ballot"}
    BY <1>11 DEF makeContest
  <2> DEFINE c == [call[t] EXCEPT !.proofs = Append(@, key), !.contest = NextContest(call[t])]
  <2>2. at[t] = "contest" /\ CallOK(t)
    BY <1>11 DEF makeContest, TypeInv, CallsOK
  <2>3. c.op = call[t].op /\ c.seed = call[t].seed /\ c.object = call[t].object
    BY <2>2 DEF CallOK, Fields
  <2> HIDE DEF c
  <2>4. /\ at'[t] = "idle" \/ (at'[t] \in Encrypting /\ call'[t] = c)
        /\ \A u \in Threads : u # t => at'[u] = at[u] /\ call'[u] = call[u]
    BY <1>0, <2>1 DEF VerifyThenGoto, Leave, Goto, Encrypting, c
  <2>5. QED
    BY <1>11, <2>2, <2>3, <2>4, SeedKept DEF makeContest, seedVars, Encrypting
<1>12. ASSUME NEW t \in Threads, makeBallot(t) PROVE SeedInv'
  <2>1. PICK seed \in SeedRead(t) :
          VerifyThenGoto(t, Ballot_isValidEncryption(call[t]),
             IF call[t].op = "expand" THEN "compare_code" ELSE "store_seed",
             [call[t] EXCEPT !.seed = seed])
    BY <1>12 DEF makeBallot
  <2> DEFINE c == [call[t] EXCEPT !.seed = seed]
  <2>2. at[t] = "ballot" /\ CallOK(t)
    BY <1>12 DEF makeBallot, TypeInv, CallsOK
  <2>3. c.op = call[t].op /\ c.seed = seed /\ c.object = call[t].object
    BY <2>2 DEF CallOK, Fields
  <2>4. ~overlapped => seed = call[t].seed
    <3>1. CASE call[t].op = "expand"
      BY <2>1, <3>1 DEF SeedRead
    <3>2. CASE call[t].op # "expand"
      <4>1. t \in Mediating /\ at[t] \in Encrypting
        BY <2>2, <3>2 DEF Mediating, Encrypting
      <4>2. ~overlapped => call[t].object = seedObject
        BY <4>1 DEF SeedInv
      <4>3. QED
        BY <2>1, <4>2 DEF SeedRead
    <3>3. QED
      BY <3>1, <3>2
  <2> HIDE DEF c
  <2>5. /\ at'[t] = "idle" \/ (at'[t] \in Encrypting /\ call'[t] = c)
        /\ \A u \in Threads : u # t => at'[u] = at[u] /\ call'[u] = call[u]
    BY <1>0, <2>1 DEF VerifyThenGoto, Leave, Goto, Encrypting, c
  <2>6. QED
    BY <1>12, <2>2, <2>3, <2>4, <2>5, SeedKept DEF makeBallot, seedVars, Encrypting
<1>13. ASSUME NEW t \in Threads, compare_code(t) PROVE SeedInv'
  <2>1. at'[t] = "idle" /\ \A u \in Threads : u # t => at'[u] = at[u] /\ call'[u] = call[u]
    BY <1>0, <1>13 DEF compare_code, Leave, Goto
  <2>2. QED
    BY <1>13, <2>1, SeedKept DEF compare_code, seedVars
<1>14. ASSUME NEW t \in Threads, store_seed(t) PROVE SeedInv'
  <2> SUFFICES ASSUME ~overlapped' PROVE SeedInv'
    BY DEF SeedInv
  <2> DEFINE c == call[t]
             code == BallotCode(c, c.seed)
             b == [seed |-> c.seed, code |-> code, verify |-> c.verify,
                   selections |-> c.selections, extended |-> c.extended,
                   proofs |-> c.proofs]
  <2>1. /\ at[t] = "store_seed" /\ released' = Append(released, b) /\ ~overlapped
        /\ ballotCodeSeed' = << code >>
        /\ at'[t] = "idle" /\ \A u \in Threads : u # t => at'[u] = at[u] /\ call'[u] = call[u]
    BY <1>0, <1>14 DEF store_seed, Leave, Goto, NextSeed
  <2>2. t \in Mediating
    BY <2>1 DEF Mediating, TypeInv, CallsOK, CallOK
  <2>3. Mediating' = {}
    BY <2>1, <2>2 DEF SeedInv, Mediating
  <2>4. c.seed = NextInChain
    BY <2>1, <2>2 DEF SeedInv, Encrypting
  <2>5. b.seed = c.seed /\ b.code = code
    OBVIOUS
  <2> HIDE DEF b, code
  <2>6. /\ IsSeq(released) /\ Len(released') = Len(released) + 1
        /\ \A i \in 1..Len(released) : released'[i] = released[i]
        /\ released'[Len(released) + 1] = b
    BY <2>1, AppendToSeq DEF TypeInv, StateOK
  <2>7. ballotCodeSeed' # << >> /\ ballotCodeSeed' = << NextInChain' >>
    <3>1. released' # << >> /\ NextInChain' = code
      BY <2>5, <2>6 DEF NextInChain, IsSeq
    <3>2. QED
      BY <2>1, <3>1
  <2>8. ChainUnbroken'
    <3>1. ASSUME NEW i \in 1..Len(released')
          PROVE  released'[i].seed = IF i = 1 THEN DeviceHash ELSE released'[i - 1].code
      <4>1. Len(released) \in Nat
        BY <2>6 DEF IsSeq
      <4>2. CASE i = Len(released) + 1
        <5>1. released'[i].seed = NextInChain
          BY <2>4, <2>5, <2>6, <4>2
        <5>2. CASE released = << >>
          BY <4>2, <5>1, <5>2 DEF NextInChain
        <5>3. CASE released # << >>
          <6>1. Len(released) # 0
            BY <2>6, <5>3 DEF IsSeq
          <6>2. i # 1 /\ i - 1 = Len(released) /\ Len(released) \in 1..Len(released)
            BY <4>1, <4>2, <6>1
          <6>3. QED
            BY <2>6, <5>1, <5>3, <6>2 DEF NextInChain
        <5>4. QED
          BY <5>2, <5>3
      <4>3. CASE i # Len(released) + 1
        <5>1. i \in 1..Len(released) /\ (i # 1 => i - 1 \in 1..Len(released))
          BY <2>6, <4>1, <4>3
        <5>2. QED
          BY <2>1, <2>6, <5>1 DEF SeedInv, ChainUnbroken
      <4>4. QED
        BY <4>2, <4>3
    <3>2. QED
      BY <3>1 DEF ChainUnbroken
  <2>9. QED
    BY <2>3, <2>7, <2>8 DEF SeedInv
<1>15. CASE Quiescent
  BY <1>1, <1>15 DEF Quiescent
<1>16. QED
  BY <1>1, <1>2, <1>3, <1>4, <1>5, <1>6, <1>7, <1>8, <1>9, <1>10, <1>11, <1>12, <1>13,
     <1>14, <1>15 DEF Next

-----------------------------------------------------------------------------
(* Compact ballots and their expansion.                                    *)

\* What the steps of encryptBallot leave of a call: what it was called with.
SameCall(t) ==
    /\ call'[t].op = call[t].op /\ call'[t].root = call[t].root
    /\ call'[t].ballot = call[t].ballot /\ call'[t].vote = call[t].vote
    /\ call'[t].expected = call[t].expected
    /\ call[t].op = "expand" => call'[t].seed = call[t].seed

OthersKept(t) == \A u \in Threads : u # t => at'[u] = at[u] /\ call'[u] = call[u]

LEMMA EncryptStep ==
    ASSUME TypeInv, NEW t \in Threads,
           \/ encryptSelection(t) \/ hashedElgamalEncrypt(t)
           \/ makeContest(t) \/ makeBallot(t)
    PROVE  /\ at[t] \in Encrypting /\ OthersKept(t)
           /\ at'[t] = "idle" \/ (at'[t] \in Encrypting /\ SameCall(t))
<1>0. at \in [Threads -> Steps] /\ call = [u \in Threads |-> call[u]]
  BY DEF TypeInv, StateOK
<1>1. CASE encryptSelection(t)
  <2>1. PICK s, step : VerifyThenGoto(t, ValidUnder(s.key), step,
                                [call[t] EXCEPT !.selections = Append(@, s)])
                       /\ step \in {"extended", "selection"}
    BY <1>1 DEF encryptSelection
  <2>2. at[t] = "selection" /\ CallOK(t)
    BY <1>1 DEF encryptSelection, TypeInv, CallsOK
  <2>3. OthersKept(t)
    BY <1>0, <2>1 DEF VerifyThenGoto, Leave, Goto, OthersKept
  <2>4. \/ at'[t] = "idle"
        \/ at'[t] \in Encrypting /\ call'[t] = [call[t] EXCEPT !.selections = Append(@, s)]
    BY <1>0, <2>1 DEF VerifyThenGoto, Leave, Goto, Encrypting
  <2>5. QED
    BY <2>2, <2>3, <2>4 DEF CallOK, Fields, SameCall, Encrypting
<1>2. CASE hashedElgamalEncrypt(t)
  <2>1. PICK key : call' = [call EXCEPT ![t].extended = Append(@, key)]
    BY <1>2 DEF hashedElgamalEncrypt
  <2>2. at[t] = "extended" /\ CallOK(t)
    BY <1>2 DEF hashedElgamalEncrypt, TypeInv, CallsOK
  <2>3. SameCall(t)
    BY <1>0, <2>1, <2>2 DEF CallOK, Fields, SameCall
  <2>4. at'[t] = "contest" /\ OthersKept(t)
    BY <1>0, <1>2, <2>1 DEF hashedElgamalEncrypt, Goto, OthersKept
  <2>5. QED
    BY <2>2, <2>3, <2>4 DEF Encrypting
<1>3. CASE makeContest(t)
  <2>1. PICK key, step :
           VerifyThenGoto(t, ValidUnder(key), step,
              [call[t] EXCEPT !.proofs = Append(@, key), !.contest = NextContest(call[t])])
           /\ step \in {"selection", "ballot"}
    BY <1>3 DEF makeContest
  <2>2. at[t] = "contest" /\ CallOK(t)
    BY <1>3 DEF makeContest, TypeInv, CallsOK
  <2>3. OthersKept(t)
    BY <1>0, <2>1 DEF VerifyThenGoto, Leave, Goto, OthersKept
  <2>4. \/ at'[t] = "idle"
        \/ /\ at'[t] \in Encrypting
           /\ call'[t] = [call[t] EXCEPT !.proofs = Append(@, key),
                                         !.contest = NextContest(call[t])]
    BY <1>0, <2>1 DEF VerifyThenGoto, Leave, Goto, Encrypting
  <2>5. QED
    BY <2>2, <2>3, <2>4 DEF CallOK, Fields, SameCall, Encrypting
<1>4. CASE makeBallot(t)
  <2>1. PICK seed \in SeedRead(t) :
          VerifyThenGoto(t, Ballot_isValidEncryption(call[t]),
             IF call[t].op = "expand" THEN "compare_code" ELSE "store_seed",
             [call[t] EXCEPT !.seed = seed])
    BY <1>4 DEF makeBallot
  <2>2. at[t] = "ballot" /\ CallOK(t)
    BY <1>4 DEF makeBallot, TypeInv, CallsOK
  <2>3. OthersKept(t)
    BY <1>0, <2>1 DEF VerifyThenGoto, Leave, Goto, OthersKept
  <2>4. \/ at'[t] = "idle"
        \/ at'[t] \in Encrypting /\ call'[t] = [call[t] EXCEPT !.seed = seed]
    BY <1>0, <2>1 DEF VerifyThenGoto, Leave, Goto, Encrypting
  <2>5. call[t].op = "expand" => seed = call[t].seed
    BY <2>1 DEF SeedRead
  <2>6. QED
    BY <2>2, <2>3, <2>4, <2>5 DEF CallOK, Fields, SameCall, Encrypting
<1>5. QED
  BY <1>1, <1>2, <1>3, <1>4

LEMMA CompactInit == Init => CompactInv
  BY DEF Init, CompactInv

\* A step that makes no compact ballot and starts no expansion.
LEMMA CompactsKept ==
    ASSUME CompactInv, compacts' = compacts,
           \A u \in Threads : at'[u] # "idle" /\ call'[u].op = "expand" =>
              /\ at[u] # "idle" /\ call[u].op = "expand" /\ at'[u] \in Encrypting
              /\ \A k \in compacts : Expands(call[u], k) => Expands(call'[u], k)
    PROVE  CompactInv'
<1>1. \A k \in compacts' : CompactOK(k)'
  BY DEF CompactInv, CompactOK, BallotCode, Placed, IsSeq
<1>2. ASSUME NEW u \in Threads, at'[u] # "idle", call'[u].op = "expand"
      PROVE  at'[u] \in Encrypting /\ \E k \in compacts' : Expands(call'[u], k)
  BY <1>2 DEF CompactInv
<1>3. QED
  BY <1>1, <1>2 DEF CompactInv, Expands

LEMMA CompactStep == TypeInv /\ CompactInv /\ [Next]_vars => CompactInv'
<1> SUFFICES ASSUME TypeInv, CompactInv, [Next]_vars PROVE CompactInv'
  OBVIOUS
<1>0. at \in [Threads -> Steps] /\ call = [u \in Threads |-> call[u]]
  BY DEF TypeInv, StateOK
<1>1. CASE at' = at /\ call' = call /\ compacts' = compacts
  BY <1>1, CompactsKept DEF CompactInv
<1>2. ASSUME NEW t \in Threads, mediate(t) PROVE CompactInv'
  <2>1. PICK mode \in Modes, b \in Ballots, v \in Votes :
           Start(t, "check_seed", NewCall(mode.op, mode.verify, b, v, 0, Null, Null))
    BY <1>2 DEF mediate
  <2>2. NewCall(mode.op, mode.verify, b, v, 0, Null, Null).op # "expand"
    BY BallotAssumption DEF NewCall
  <2>3. call'[t].op # "expand" /\ OthersKept(t)
    BY <1>0, <2>1, <2>2 DEF Start, Goto, OthersKept
  <2>4. compacts' = compacts
    BY <1>2 DEF mediate, history
  <2>5. QED
    BY <2>3, <2>4, CompactsKept DEF OthersKept, CompactInv
<1>3. ASSUME NEW t \in Threads, expand(t) PROVE CompactInv'
  <2>1. PICK k \in compacts : Start(t, "selection", ExpansionOf(k, draws + 1))
    BY <1>3 DEF expand
  <2>2. Expands(ExpansionOf(k, draws + 1), k)
    BY DEF ExpansionOf, NewCall, Expands
  <2>3. /\ at'[t] = "selection" /\ Expands(call'[t], k)
        /\ \A u \in Threads : u # t => at'[u] = at[u] /\ call'[u] = call[u]
    BY <1>0, <2>1, <2>2 DEF Start, Goto
  <2>4. compacts' = compacts
    BY <1>3 DEF expand, history
  <2>5. ASSUME NEW u \in Threads, at'[u] # "idle", call'[u].op = "expand"
        PROVE  at'[u] \in Encrypting /\ \E l \in compacts' : Expands(call'[u], l)
    <3>1. CASE u = t
      BY <2>3, <2>4, <3>1 DEF Encrypting
    <3>2. CASE u # t
      BY <2>3, <2>4, <2>5, <3>2 DEF CompactInv
    <3>3. QED
      BY <3>1, <3>2
  <2>6. \A l \in compacts' : CompactOK(l)'
    BY <2>4 DEF CompactInv, CompactOK, BallotCode, Placed, IsSeq
  <2>7. QED
    BY <2>5, <2>6 DEF CompactInv, Expands
<1>4. ASSUME NEW t \in Threads, check_seed(t) \/ new_seed(t) \/ deref_seed(t)
      PROVE  CompactInv'
  <2>1. at[t] \in {"check_seed", "new_seed", "deref_seed"} /\ CallOK(t)
    BY <1>4 DEF check_seed, new_seed, deref_seed, TypeInv, CallsOK
  <2>2. call[t].op # "expand"
    BY <2>1 DEF CallOK
  <2>3. call'[t].op = call[t].op
    BY <1>0, <1>4, <2>1 DEF check_seed, new_seed, deref_seed, CallOK, Fields
  <2>4. OthersKept(t) /\ compacts' = compacts
    BY <1>0, <1>4 DEF check_seed, new_seed, deref_seed, Goto, OthersKept, history
  <2>5. QED
    BY <2>2, <2>3, <2>4, CompactsKept DEF OthersKept, CompactInv
<1>5. ASSUME NEW t \in Threads,
             \/ encryptSelection(t) \/ hashedElgamalEncrypt(t)
             \/ makeContest(t) \/ makeBallot(t)
      PROVE  CompactInv'
  <2>1. compacts' = compacts
    BY <1>5 DEF encryptSelection, hashedElgamalEncrypt, makeContest, makeBallot
  <2>2. /\ at[t] \in Encrypting /\ OthersKept(t)
        /\ at'[t] = "idle" \/ (at'[t] \in Encrypting /\ SameCall(t))
    BY <1>5, EncryptStep
  <2>3. ASSUME NEW u \in Threads, at'[u] # "idle", call'[u].op = "expand"
        PROVE  /\ at[u] # "idle" /\ call[u].op = "expand" /\ at'[u] \in Encrypting
               /\ \A k \in compacts : Expands(call[u], k) => Expands(call'[u], k)
    BY <2>2, <2>3 DEF OthersKept, SameCall, Expands, Encrypting, CompactInv
  <2>4. QED
    BY <2>1, <2>3, CompactsKept
<1>6. ASSUME NEW t \in Threads, compare_code(t) PROVE CompactInv'
  <2>1. at'[t] = "idle" /\ OthersKept(t)
    BY <1>0, <1>6 DEF compare_code, Leave, Goto, OthersKept
  <2>2. QED
    BY <1>6, <2>1, CompactsKept DEF compare_code, OthersKept, CompactInv
<1>7. ASSUME NEW t \in Threads, store_seed(t) PROVE CompactInv'
  <2> DEFINE c == call[t]
             code == BallotCode(c, c.seed)
             k == [ballot |-> c.ballot, vote |-> c.vote,
                   root |-> c.root, seed |-> c.seed, code |-> code]
  <2>1. /\ at[t] = "store_seed" /\ compacts' \in {compacts, compacts \cup {k}}
        /\ at'[t] = "idle" /\ OthersKept(t)
    BY <1>0, <1>7 DEF store_seed, Leave, Goto, OthersKept
  <2>2. PlacedOK(t)
    BY <2>1 DEF TypeInv, CallsOK
  <2>3. CompactOK(k)
    BY <2>1, <2>2 DEF CompactOK, PlacedOK, BallotCode
  <2> HIDE DEF k
  <2>4. \A l \in compacts' : CompactOK(l)
    BY <2>1, <2>3 DEF CompactInv
  <2>5. \A l \in compacts' : CompactOK(l)'
    BY <2>4 DEF CompactOK, BallotCode, Placed, IsSeq
  <2>6. ASSUME NEW u \in Threads, at'[u] # "idle", call'[u].op = "expand"
        PROVE  at'[u] \in Encrypting /\ \E l \in compacts' : Expands(call'[u], l)
    BY <2>1, <2>6 DEF OthersKept, CompactInv
  <2>7. QED
    BY <2>5, <2>6 DEF CompactInv, Expands
<1>8. QED
  <2>1. CASE UNCHANGED vars
    BY <1>1, <2>1 DEF vars, history
  <2>2. CASE populate \/ empty_queues \/ Quiescent
    BY <1>1, <2>2 DEF populate, empty_queues, Quiescent, vars, history
  <2>3. QED
    BY <1>2, <1>3, <1>4, <1>5, <1>6, <1>7, <2>1, <2>2 DEF Next

\* Only the ballot's nonce, id and vote matter to the derived selections.
SameBallot(c, d) == c.root = d.root /\ c.ballot = d.ballot /\ c.vote = d.vote

LEMMA DerivedSame ==
    ASSUME NEW c, NEW d, SameBallot(c, d), NEW s, Derived(c, s)
    PROVE  Derived(d, s)
  BY DEF SameBallot, Derived, DerivedSelection, selectionNonce, contestNonce, nonceSeed,
         VoteFor

\* The whole ballot is determined by them.
LEMMA DerivedUnique ==
    ASSUME NEW c, NEW d, SameBallot(c, d),
           NEW s, Placed(s), Derived(c, s),
           NEW q, Placed(q), Derived(d, q), Len(s) = Len(q)
    PROVE  s = q
<1>1. Derived(d, s)
  BY DerivedSame
<1>2. ASSUME NEW i \in 1..Len(s) PROVE s[i] = q[i]
  <2>1. /\ s[i].contest \in Nat /\ s[i].slot \in 1..2 /\ i = 2 * (s[i].contest - 1) + s[i].slot
        /\ q[i].contest \in Nat /\ q[i].slot \in 1..2 /\ i = 2 * (q[i].contest - 1) + q[i].slot
    BY DEF Placed
  <2>2. s[i].contest = q[i].contest /\ s[i].slot = q[i].slot
    <3> DEFINE n == s[i].contest
               a == s[i].slot
               m == q[i].contest
               b == q[i].slot
    <3>1. /\ n \in Nat /\ m \in Nat /\ a \in 1..2 /\ b \in 1..2
          /\ 2 * (n - 1) + a = 2 * (m - 1) + b
      BY <2>1
    <3> HIDE DEF n, a, m, b
    <3>2. n = m /\ a = b
      BY <3>1
    <3>3. QED
      BY <3>2 DEF n, a, m, b
  <2>3. /\ s[i] = DerivedSelection(d, s[i].contest, s[i].slot)
        /\ q[i] = DerivedSelection(d, q[i].contest, q[i].slot)
    BY <1>1 DEF Derived
  <2>4. QED
    BY <2>2, <2>3
<1>3. s = [i \in 1..Len(s) |-> s[i]] /\ q = [i \in 1..Len(q) |-> q[i]]
  BY DEF Placed, IsSeq
<1>4. QED
  BY <1>2, <1>3

\* Without precomputed values everything is under the election's key.
LEMMA DerivedValid ==
    ASSUME NEW c, Placed(c.selections), Derived(c, c.selections), IsSeq(c.proofs),
           \A i \in 1..Len(c.proofs) : c.proofs[i] = ElectionKey
    PROVE  Ballot_isValidEncryption(c)
<1>1. DOMAIN c.selections = 1..Len(c.selections) /\ DOMAIN c.proofs = 1..Len(c.proofs)
  BY DEF Placed, IsSeq
<1>2. ASSUME NEW i \in 1..Len(c.selections) PROVE c.selections[i].key = ElectionKey
  <2>1. \A n, m : DerivedSelection(c, n, m).key = ElectionKey
    BY DEF DerivedSelection
  <2>2. QED
    BY <2>1 DEF Derived
<1>3. QED
  BY <1>1, <1>2 DEF Ballot_isValidEncryption, ToSet, ValidUnder

LEMMA ExpandInit == Init => ExpandInv
  BY DEF Init, ExpandInv

\* The part of ExpandInv about one call.
DerivedCall(c) ==
    /\ Derived(c, c.selections)
    /\ \A i \in 1..Len(c.proofs) : c.proofs[i] = ElectionKey

LEMMA ExpandKept ==
    ASSUME ExpandInv, populated' = 0 => populated = 0,
           populated = 0 => /\ pairs' = << >> /\ triples' = << >>
                            /\ expansions' \subseteq {"same"},
           compacts' = compacts,
           NEW t \in Threads, OthersKept(t),
           populated = 0 /\ at'[t] # "idle" => DerivedCall(call'[t])
    PROVE  ExpandInv'
<1> SUFFICES ASSUME populated' = 0 PROVE ExpandInv'
  BY DEF ExpandInv
<1>1. ASSUME NEW u \in Threads, at'[u] # "idle" PROVE DerivedCall(call'[u])
  <2>1. CASE u = t
    BY <1>1, <2>1
  <2>2. CASE u # t
    BY <1>1, <2>2 DEF OthersKept, ExpandInv, DerivedCall
  <2>3. QED
    BY <2>1, <2>2
<1>2. \A u \in Threads : at'[u] # "idle" =>
         /\ Derived(call'[u], call'[u].selections)
         /\ \A i \in 1..Len(call'[u].proofs) : call'[u].proofs[i] = ElectionKey
  BY <1>1 DEF DerivedCall
<1>3. \A k \in compacts' : Derived(k, k.code.selections)
  BY DEF ExpandInv
<1>4. QED
  BY <1>2, <1>3 DEF ExpandInv, Derived

LEMMA ExpandStep == TypeInv /\ CompactInv /\ ExpandInv /\ [Next]_vars => ExpandInv'
<1> SUFFICES ASSUME TypeInv, CompactInv, ExpandInv, [Next]_vars PROVE ExpandInv'
  OBVIOUS
<1>0. at \in [Threads -> Steps] /\ call = [u \in Threads |-> call[u]]
  BY DEF TypeInv, StateOK
<1>1. CASE /\ at' = at /\ call' = call /\ compacts' = compacts /\ expansions' = expansions
           /\ pairs' \in {pairs, << >>} /\ triples' \in {triples, << >>}
           /\ populated' = populated
  BY <1>1 DEF ExpandInv, Derived
<1>2. CASE populate
  BY <1>2 DEF populate, TypeInv, StateOK, ExpandInv
<1>3. ASSUME NEW t \in Threads, mediate(t) PROVE ExpandInv'
  <2>1. PICK mode \in Modes, b \in Ballots, v \in Votes :
           Start(t, "check_seed", NewCall(mode.op, mode.verify, b, v, 0, Null, Null))
    BY <1>3 DEF mediate
  <2> DEFINE c == NewCall(mode.op, mode.verify, b, v, 0, Null, Null)
  <2>2. c.selections = << >> /\ c.proofs = << >>
    BY DEF NewCall
  <2>3. OthersKept(t) /\ call'[t] = c
    BY <1>0, <2>1 DEF Start, Goto, OthersKept
  <2>4. DerivedCall(c)
    BY <2>2, EmptyIsSeq DEF DerivedCall, Derived
  <2>5. /\ compacts' = compacts /\ expansions' = expansions
        /\ pairs' = pairs /\ triples' = triples /\ populated' = populated
    BY <1>3 DEF mediate, pool, history
  <2>6. QED
    BY <2>3, <2>4, <2>5, ExpandKept DEF ExpandInv
<1>4. ASSUME NEW t \in Threads, expand(t) PROVE ExpandInv'
  <2>1. PICK k \in compacts : Start(t, "selection", ExpansionOf(k, draws + 1))
    BY <1>4 DEF expand
  <2> DEFINE c == ExpansionOf(k, draws + 1)
  <2>2. c.selections = << >> /\ c.proofs = << >>
    BY DEF ExpansionOf, NewCall
  <2>3. OthersKept(t) /\ call'[t] = c
    BY <1>0, <2>1 DEF Start, Goto, OthersKept
  <2>4. DerivedCall(c)
    BY <2>2, EmptyIsSeq DEF DerivedCall, Derived
  <2>5. /\ compacts' = compacts /\ expansions' = expansions
        /\ pairs' = pairs /\ triples' = triples /\ populated' = populated
    BY <1>4 DEF expand, pool, history
  <2>6. QED
    BY <2>3, <2>4, <2>5, ExpandKept DEF ExpandInv
<1>5. ASSUME NEW t \in Threads, check_seed(t) \/ new_seed(t) \/ deref_seed(t)
      PROVE  ExpandInv'
  <2>1. at[t] \in {"check_seed", "new_seed", "deref_seed"} /\ CallOK(t) /\ PlacedOK(t)
    BY <1>5 DEF check_seed, new_seed, deref_seed, TypeInv, CallsOK
  <2>2. call'[t].selections = call[t].selections /\ call'[t].proofs = call[t].proofs
    BY <1>0, <1>5, <2>1 DEF check_seed, new_seed, deref_seed, CallOK, Fields
  <2>3. Derived(call'[t], call'[t].selections)
    BY <2>1, <2>2 DEF PlacedOK, Derived
  <2>4. populated = 0 => DerivedCall(call'[t])
    BY <2>1, <2>2, <2>3 DEF ExpandInv, DerivedCall
  <2>5. /\ compacts' = compacts /\ expansions' = expansions
        /\ pairs' = pairs /\ triples' = triples /\ populated' = populated
    BY <1>5 DEF check_seed, new_seed, deref_seed, pool, history
  <2>6. OthersKept(t)
    BY <1>0, <1>5 DEF check_seed, new_seed, deref_seed, Goto, OthersKept
  <2>7. QED
    BY <2>4, <2>5, <2>6, ExpandKept DEF ExpandInv
<1>6. ASSUME NEW t \in Threads, encryptSelection(t) PROVE ExpandInv'
  <2>1. PICK slot \in 1..2 :
           LET c == call[t]
               e == PrecomputedOr(pairs, selectionNonce(c, slot))
           IN  /\ at[t] = "selection"
               /\ Len(c.selections) + 1 = 2 * (c.contest - 1) + slot
               /\ pairs' = AfterGet(pairs)
               /\ VerifyThenGoto(t, ValidUnder(e.key),
                     IF slot = 2 THEN "extended" ELSE "selection",
                     [c EXCEPT !.selections = Append(@, SelectionOf(c, slot, e))])
    BY <1>6, SelectionStep
  <2> DEFINE e == PrecomputedOr(pairs, selectionNonce(call[t], slot))
             x == SelectionOf(call[t], slot, e)
             c == [call[t] EXCEPT !.selections = Append(@, x)]
  <2>2. CallOK(t) /\ PlacedOK(t)
    BY <2>1 DEF TypeInv, CallsOK
  <2>3. /\ SameBallot(call[t], c) /\ c.proofs = call[t].proofs
        /\ c.selections = Append(call[t].selections, x)
    BY <2>2 DEF CallOK, Fields, SameBallot
  <2>4. populated = 0 => /\ e = [nonce |-> selectionNonce(call[t], slot), key |-> ElectionKey]
                         /\ pairs' = << >>
    BY <2>1 DEF ExpandInv, PrecomputedOr, AfterGet
  <2>5. populated = 0 => x = DerivedSelection(call[t], x.contest, x.slot)
    BY <2>4 DEF SelectionOf, DerivedSelection, selectionNonce, contestNonce, nonceSeed
  <2>6. populated = 0 => e.key = ElectionKey
    BY <2>4
  <2> HIDE DEF e, x, c
  <2>7. populated = 0 => DerivedCall(c)
    <3> SUFFICES ASSUME populated = 0 PROVE DerivedCall(c)
      OBVIOUS
    <3>1. /\ Len(c.selections) = Len(call[t].selections) + 1
          /\ \A i \in 1..Len(call[t].selections) : c.selections[i] = call[t].selections[i]
          /\ c.selections[Len(call[t].selections) + 1] = x
          /\ Len(call[t].selections) \in Nat
      BY <2>2, <2>3, AppendToSeq DEF PlacedOK, Placed, IsSeq
    <3>2. Derived(call[t], call[t].selections) /\ \A i \in 1..Len(c.proofs) : c.proofs[i] = ElectionKey
      BY <2>1, <2>3 DEF ExpandInv
    <3>3. ASSUME NEW i \in 1..Len(c.selections)
          PROVE  c.selections[i] =
                    DerivedSelection(call[t], c.selections[i].contest, c.selections[i].slot)
      <4>1. CASE i = Len(call[t].selections) + 1
        BY <2>5, <3>1, <4>1
      <4>2. CASE i # Len(call[t].selections) + 1
        <5>1. i \in 1..Len(call[t].selections)
          BY <3>1, <4>2
        <5>2. c.selections[i] = call[t].selections[i]
          BY <3>1, <5>1
        <5>3. call[t].selections[i] = DerivedSelection(call[t], call[t].selections[i].contest,
                                                       call[t].selections[i].slot)
          BY <3>2, <5>1 DEF Derived
        <5>4. QED
          BY <5>2, <5>3
      <4>3. QED
        BY <4>1, <4>2
    <3>4. Derived(c, c.selections)
      <4>1. Derived(call[t], c.selections)
        BY <3>3 DEF Derived
      <4>2. QED
        BY <2>3, <4>1, DerivedSame
    <3>5. QED
      BY <3>2, <3>4 DEF DerivedCall
  <2>8. populated = 0 => call'[t] = c /\ expansions' = expansions
    BY <1>0, <2>1, <2>2, <2>3, <2>6 DEF VerifyThenGoto, ValidUnder, e, x, c, CallOK, Fields
  <2>9. OthersKept(t)
    BY <1>6, EncryptStep
  <2>10. compacts' = compacts /\ triples' = triples /\ populated' = populated
    BY <1>6 DEF encryptSelection
  <2>11. QED
    BY <2>4, <2>7, <2>8, <2>9, <2>10, ExpandKept DEF ExpandInv
<1>7. ASSUME NEW t \in Threads, hashedElgamalEncrypt(t) PROVE ExpandInv'
  <2>1. at[t] = "extended" /\ CallOK(t)
    BY <1>7 DEF hashedElgamalEncrypt, TypeInv, CallsOK
  <2>2. PICK key : call' = [call EXCEPT ![t].extended = Append(@, key)]
    BY <1>7 DEF hashedElgamalEncrypt
  <2>3. /\ SameBallot(call[t], call'[t]) /\ call'[t].proofs = call[t].proofs
        /\ call'[t].selections = call[t].selections
    BY <1>0, <2>1, <2>2 DEF CallOK, Fields, SameBallot
  <2>4. populated = 0 => DerivedCall(call'[t])
    BY <2>1, <2>3, DerivedSame DEF ExpandInv, DerivedCall
  <2>5. OthersKept(t)
    BY <1>7, EncryptStep
  <2>6. /\ compacts' = compacts /\ pairs' = pairs /\ populated' = populated
        /\ expansions' = expansions /\ triples' = AfterGet(triples)
    BY <1>7 DEF hashedElgamalEncrypt
  <2>7. QED
    BY <2>4, <2>5, <2>6, ExpandKept DEF ExpandInv, AfterGet
<1>8. ASSUME NEW t \in Threads, makeContest(t) PROVE ExpandInv'
  <2> DEFINE e == PrecomputedOr(triples, proofNonce(call[t]))
             c == [call[t] EXCEPT !.proofs = Append(@, e.key),
                                  !.contest = NextContest(call[t])]
             step == IF call[t].contest < ContestCount THEN "selection" ELSE "ballot"
  <2>1. /\ at[t] = "contest" /\ triples' = AfterGet(triples)
        /\ VerifyThenGoto(t, ValidUnder(e.key), step, c)
    BY <1>8 DEF makeContest
  <2>2. CallOK(t)
    BY <2>1 DEF TypeInv, CallsOK
  <2>3. /\ SameBallot(call[t], c) /\ c.selections = call[t].selections
        /\ c.proofs = Append(call[t].proofs, e.key)
    BY <2>2 DEF CallOK, Fields, SameBallot
  <2>4. populated = 0 => e.key = ElectionKey /\ triples' = << >>
    BY <2>1 DEF ExpandInv, PrecomputedOr, AfterGet
  <2> HIDE DEF e, c
  <2>5. populated = 0 => DerivedCall(c)
    <3> SUFFICES ASSUME populated = 0 PROVE DerivedCall(c)
      OBVIOUS
    <3>1. /\ Len(c.proofs) = Len(call[t].proofs) + 1
          /\ \A i \in 1..Len(call[t].proofs) : c.proofs[i] = call[t].proofs[i]
          /\ c.proofs[Len(call[t].proofs) + 1] = e.key
          /\ Len(call[t].proofs) \in Nat
      BY <2>2, <2>3, AppendToSeq DEF CallOK, IsSeq
    <3>2. /\ Derived(call[t], call[t].selections)
          /\ \A i \in 1..Len(call[t].proofs) : call[t].proofs[i] = ElectionKey
      BY <2>1 DEF ExpandInv
    <3>3. ASSUME NEW i \in 1..Len(c.proofs) PROVE c.proofs[i] = ElectionKey
      <4>1. CASE i = Len(call[t].proofs) + 1
        BY <2>4, <3>1, <4>1
      <4>2. CASE i # Len(call[t].proofs) + 1
        BY <3>1, <3>2, <4>2
      <4>3. QED
        BY <4>1, <4>2
    <3>4. QED
      BY <2>3, <3>2, <3>3, DerivedSame DEF DerivedCall
  <2>6. populated = 0 => call'[t] = c /\ expansions' = expansions
    BY <1>0, <2>1, <2>4 DEF VerifyThenGoto, ValidUnder
  <2>7. OthersKept(t)
    BY <1>8, EncryptStep
  <2>8. compacts' = compacts /\ pairs' = pairs /\ populated' = populated
    BY <1>8 DEF makeContest
  <2>9. QED
    BY <2>4, <2>5, <2>6, <2>7, <2>8, ExpandKept DEF ExpandInv
<1>9. ASSUME NEW t \in Threads, makeBallot(t) PROVE ExpandInv'
  <2>0. PICK seed \in SeedRead(t) : \E step :
          VerifyThenGoto(t, Ballot_isValidEncryption(call[t]), step,
             [call[t] EXCEPT !.seed = seed])
    BY <1>9 DEF makeBallot
  <2>1. PICK step :
          VerifyThenGoto(t, Ballot_isValidEncryption(call[t]), step,
             [call[t] EXCEPT !.seed = seed])
    BY <2>0
  <2> DEFINE c == [call[t] EXCEPT !.seed = seed]
  <2>2. at[t] = "ballot" /\ CallOK(t) /\ PlacedOK(t)
    BY <1>9 DEF makeBallot, TypeInv, CallsOK
  <2>3. /\ SameBallot(call[t], c) /\ c.proofs = call[t].proofs
        /\ c.selections = call[t].selections
    BY <2>2 DEF CallOK, Fields, SameBallot
  <2> HIDE DEF c
  <2>4. populated = 0 => Ballot_isValidEncryption(call[t])
    BY <2>2, DerivedValid DEF ExpandInv, PlacedOK, CallOK
  <2>5. populated = 0 => call'[t] = c /\ expansions' = expansions
    BY <1>0, <2>1, <2>4 DEF VerifyThenGoto, c
  <2>6. populated = 0 => DerivedCall(c)
    BY <2>2, <2>3, DerivedSame DEF ExpandInv, DerivedCall
  <2>7. OthersKept(t)
    BY <1>9, EncryptStep
  <2>8. compacts' = compacts /\ pairs' = pairs /\ triples' = triples /\ populated' = populated
    BY <1>9 DEF makeBallot, pool
  <2>9. QED
    BY <2>5, <2>6, <2>7, <2>8, ExpandKept DEF ExpandInv
<1>10. ASSUME NEW t \in Threads, compare_code(t) PROVE ExpandInv'
  <2>1. at[t] = "compare_code" /\ CallOK(t) /\ PlacedOK(t)
    BY <1>10 DEF compare_code, TypeInv, CallsOK
  <2>2. call[t].op = "expand"
    BY <2>1 DEF CallOK
  <2>3. PICK k \in compacts : Expands(call[t], k)
    BY <2>1, <2>2 DEF CompactInv
  <2>4. CompactOK(k) /\ SameBallot(call[t], k)
    BY <2>3 DEF CompactInv, Expands, SameBallot
  <2>5. populated = 0 => call[t].selections = k.code.selections
    BY <2>1, <2>4, DerivedUnique DEF ExpandInv, PlacedOK, CompactOK
  <2>6. populated = 0 => BallotCode(call[t], call[t].seed) = call[t].expected
    BY <2>3, <2>4, <2>5 DEF CompactOK, Expands, BallotCode
  <2>7. populated = 0 => expansions' \subseteq {"same"}
    BY <1>10, <2>2, <2>6 DEF compare_code, Outcome, ExpandInv
  <2>8. at'[t] = "idle" /\ OthersKept(t)
    BY <1>0, <1>10 DEF compare_code, Leave, Goto, OthersKept
  <2>9. compacts' = compacts /\ pairs' = pairs /\ triples' = triples /\ populated' = populated
    BY <1>10 DEF compare_code, pool
  <2>10. QED
    BY <2>7, <2>8, <2>9, ExpandKept DEF ExpandInv
<1>11. ASSUME NEW t \in Threads, store_seed(t) PROVE ExpandInv'
  <2> SUFFICES ASSUME populated' = 0 PROVE ExpandInv'
    BY DEF ExpandInv
  <2> DEFINE c == call[t]
             code == BallotCode(c, c.seed)
             k == [ballot |-> c.ballot, vote |-> c.vote,
                   root |-> c.root, seed |-> c.seed, code |-> code]
  <2>1. /\ at[t] = "store_seed" /\ compacts' \in {compacts, compacts \cup {k}}
        /\ at'[t] = "idle" /\ OthersKept(t)
        /\ pairs' = pairs /\ triples' = triples /\ populated' = populated
        /\ expansions' = expansions
    BY <1>0, <1>11 DEF store_seed, Leave, Goto, OthersKept, pool
  <2>2. Derived(k, k.code.selections)
    <3>1. SameBallot(c, k) /\ k.code.selections = c.selections
      BY DEF SameBallot, BallotCode
    <3>2. Derived(c, c.selections)
      BY <2>1 DEF ExpandInv
    <3> HIDE DEF k
    <3>3. QED
      BY <3>1, <3>2, DerivedSame
  <2> HIDE DEF k
  <2>3. \A l \in compacts' : Derived(l, l.code.selections)
    BY <2>1, <2>2 DEF ExpandInv
  <2>4. \A u \in Threads : at'[u] # "idle" =>
           /\ Derived(call'[u], call'[u].selections)
           /\ \A i \in 1..Len(call'[u].proofs) : call'[u].proofs[i] = ElectionKey
    BY <2>1 DEF OthersKept, ExpandInv
  <2>5. QED
    BY <2>1, <2>3, <2>4 DEF ExpandInv, Derived
<1>12. QED
  <2>1. CASE UNCHANGED vars
    BY <1>1, <2>1 DEF vars, history, pool
  <2>2. CASE empty_queues \/ Quiescent
    BY <1>1, <2>2 DEF empty_queues, Quiescent, vars, history, pool
  <2>3. QED
    BY <1>2, <1>3, <1>4, <1>5, <1>6, <1>7, <1>8, <1>9, <1>10, <1>11, <2>1, <2>2 DEF Next

-----------------------------------------------------------------------------
(* Nonces.                                                                 *)

\* A derived nonce tells the use it was derived for, but for the vote.
LEMMA DerivedNonceInjective ==
    ASSUME NEW u, NEW w, u.what \in {"selection", "extended", "proof"},
           w.what \in {"selection", "extended", "proof"},
           u.what # "selection" => u.slot = 0, w.what # "selection" => w.slot = 0,
           DerivedNonce(u) = DerivedNonce(w)
    PROVE  /\ u.root = w.root /\ u.ballot = w.ballot /\ u.contest = w.contest
           /\ u.what = w.what /\ u.slot = w.slot
<1> USE DEF selectionNonce, extendedDataNonce, proofNonce, contestNonce,
            chaumPedersenNonce, nonceSeed, Hash, Random
<1>1. u.what = w.what
  BY DEF DerivedNonce
<1>2. CASE u.what = "selection"
  BY <1>1, <1>2 DEF DerivedNonce
<1>3. CASE u.what = "extended"
  BY <1>1, <1>3 DEF DerivedNonce
<1>4. CASE u.what = "proof"
  BY <1>1, <1>4 DEF DerivedNonce
<1>5. QED
  BY <1>2, <1>3, <1>4

\* And is no random draw.
LEMMA DerivedNotRandom ==
    ASSUME NEW u, u.what \in {"selection", "extended", "proof"}, NEW n
    PROVE  DerivedNonce(u) # Random(n)
  BY DEF DerivedNonce, selectionNonce, extendedDataNonce, proofNonce, Hash, Random

\* What is left in a queue was in it.
LEMMA AfterGetIndex ==
    ASSUME NEW q \in Precomputed, NEW i \in DOMAIN AfterGet(q)
    PROVE  /\ q # << >> /\ i + 1 \in DOMAIN q /\ 1 \in DOMAIN q /\ i + 1 # 1
           /\ AfterGet(q)[i] = q[i + 1] /\ Head(q) = q[1]
<1>1. q # << >>
  BY DEF AfterGet
<1>2. /\ Len(Tail(q)) = Len(q) - 1 /\ \A j \in 1..Len(Tail(q)) : Tail(q)[j] = q[j + 1]
      /\ Tail(q) \in Precomputed
  BY <1>1, HeadTailProperties DEF Precomputed
<1>3. AfterGet(q) = Tail(q)
  BY <1>1 DEF AfterGet
<1>4. DOMAIN q = 1..Len(q) /\ DOMAIN Tail(q) = 1..Len(Tail(q)) /\ Len(q) \in Nat
  BY <1>2, LenProperties DEF Precomputed
<1>5. i \in 1..(Len(q) - 1)
  BY <1>2, <1>3, <1>4
<1>6. Head(q) = q[1]
  BY <1>1, HeadTailProperties DEF Precomputed
<1>7. QED
  BY <1>1, <1>2, <1>3, <1>4, <1>5, <1>6

\* A nonce taken from a queue q, or derived if it is empty, is used for nothing
\* else: not before, and not by what is left in the queues q and r.
LEMMA NewUse ==
    ASSUME TypeInv, NonceInv,
           NEW q \in Precomputed, NEW r \in Precomputed, Unused(q), Unused(r),
           \A i \in DOMAIN q : q[i].root <= draws,
           \A i, j \in DOMAIN q : q[i].root = q[j].root => i = j,
           \A i \in DOMAIN q, j \in DOMAIN r : q[i].root # r[j].root,
           NEW u, u = Use(u, u.nonce, u.what, u.slot, u.vote),
           u.what \in {"selection", "extended", "proof"},
           u.slot \in Nat, u.what # "selection" => u.slot = 0, u.vote \in {0, 1},
           Claim(u, BallotVote(u)) \in Claims,
           u.nonce = PrecomputedOr(q, DerivedNonce(u)).nonce
    PROVE  /\ UseOK(u)
           /\ \A w \in uses : u.nonce = w.nonce => u = w
           /\ \A i \in DOMAIN AfterGet(q) : u.nonce # Random(AfterGet(q)[i].root)
           /\ \A i \in DOMAIN r : u.nonce # Random(r[i].root)
<1>0. draws \in Nat
  BY DEF TypeInv, StateOK
<1>1. CASE q = << >>
  <2>1. u.nonce = DerivedNonce(u)
    BY <1>1 DEF PrecomputedOr
  <2>2. UseOK(u)
    BY <2>1 DEF UseOK
  <2>3. \A n : u.nonce # Random(n)
    BY <2>1, DerivedNotRandom
  <2>4. ASSUME NEW w \in uses, u.nonce = w.nonce PROVE u = w
    <3>1. UseOK(w)
      BY DEF NonceInv
    <3>2. w.nonce = DerivedNonce(w)
      BY <2>3, <2>4, <3>1 DEF UseOK
    <3>3. /\ u.root = w.root /\ u.ballot = w.ballot /\ u.contest = w.contest
          /\ u.what = w.what /\ u.slot = w.slot
      <4>1. DerivedNonce(u) = DerivedNonce(w)
        BY <2>1, <2>4, <3>2
      <4>2. w.what \in {"selection", "extended", "proof"} /\ (w.what # "selection" => w.slot = 0)
        BY <3>1 DEF UseOK
      <4>3. QED
        BY <4>1, <4>2, DerivedNonceInjective
    <3>4. Claim(w, BallotVote(w)) \in Claims
      BY DEF Claims
    <3>5. Claim(u, BallotVote(u)).root = Claim(w, BallotVote(w)).root
      BY <3>3 DEF Claim
    <3>6. Claim(u, BallotVote(u)) = Claim(w, BallotVote(w))
      BY <3>4, <3>5 DEF NonceInv, ClaimsAgree
    <3>7. BallotVote(u) = BallotVote(w)
      BY <3>6 DEF Claim
    <3>8. u.vote = w.vote
      BY <3>1, <3>3, <3>7 DEF BallotVote, UseOK
    <3>9. w = Use(w, w.nonce, w.what, w.slot, w.vote)
      BY <3>1 DEF UseOK
    <3>10. Use(u, u.nonce, u.what, u.slot, u.vote) = Use(w, w.nonce, w.what, w.slot, w.vote)
      BY <2>4, <3>3, <3>8 DEF Use
    <3>11. QED
      BY <3>9, <3>10
  <2>5. QED
    BY <2>2, <2>3, <2>4
<1>2. CASE q # << >>
  <2>1. u.nonce = Random(q[1].root) /\ 1 \in DOMAIN q
    <3>1. Len(q) \in Nat /\ Len(q) # 0 /\ DOMAIN q = 1..Len(q) /\ Head(q) = q[1]
      BY <1>2, EmptySeq, LenProperties, HeadTailProperties DEF Precomputed
    <3>2. QED
      BY <1>2, <3>1 DEF PrecomputedOr
  <2>2. q[1].root \in 0..draws
    <3>1. q[1] \in [root : Nat, key : Keys]
      <4> DEFINE S == [root : Nat, key : Keys]
      <4>1. q \in Seq(S)
        BY DEF Precomputed
      <4> HIDE DEF S
      <4>2. q \in [1..Len(q) -> S]
        BY <4>1, LenProperties
      <4>3. q[1] \in S
        BY <2>1, <4>2
      <4>4. QED
        BY <4>3 DEF S
    <3>2. q[1].root \in Nat /\ q[1].root <= draws
      BY <2>1, <3>1
    <3>3. QED
      BY <1>0, <3>2
  <2>3. UseOK(u)
    BY <2>1, <2>2 DEF UseOK
  <2>4. \A w \in uses : u.nonce # w.nonce
    BY <2>1 DEF Unused
  <2>5. \A n, m : Random(n) = Random(m) => n = m
    BY DEF Random
  <2>6. ASSUME NEW i \in DOMAIN AfterGet(q) PROVE u.nonce # Random(AfterGet(q)[i].root)
    <3>1. i + 1 \in DOMAIN q /\ i + 1 # 1 /\ AfterGet(q)[i] = q[i + 1]
      BY AfterGetIndex
    <3>2. q[i + 1].root # q[1].root
      BY <2>1, <3>1
    <3>3. QED
      BY <2>1, <2>5, <3>1, <3>2
  <2>7. ASSUME NEW i \in DOMAIN r PROVE u.nonce # Random(r[i].root)
    BY <2>1, <2>5
  <2>8. QED
    BY <2>3, <2>4, <2>6, <2>7
<1>3. QED
  BY <1>1, <1>2

\* Fewer claims agree all the more.
LEMMA FewerClaims ==
    ASSUME TypeInv, ClaimsAgree, draws' \in Nat, draws <= draws', Claims' \subseteq Claims
    PROVE  ClaimsAgree'
<1>1. draws \in Nat
  BY DEF TypeInv, StateOK
<1>2. \A x \in Claims' : x.root \in 1..draws'
  BY <1>1 DEF ClaimsAgree
<1>3. \A x, y \in Claims' : x.root = y.root => x = y
  BY DEF ClaimsAgree
<1>4. QED
  BY <1>2, <1>3 DEF ClaimsAgree

\* A step that makes no new claim.
LEMMA ClaimsKept ==
    ASSUME NEW t \in Threads, OthersKept(t),
           at'[t] \in Encrypting => Claim(call'[t], call'[t].vote) \in Claims,
           \A k \in compacts' : k \in compacts \/ Claim(k, k.vote) \in Claims,
           \A u \in uses' : u \in uses \/ Claim(u, BallotVote(u)) \in Claims
    PROVE  Claims' \subseteq Claims
<1> DEFINE OfCalls == {Claim(call[u], call[u].vote) : u \in {v \in Threads : at[v] \in Encrypting}}
           OfCompacts == {Claim(k, k.vote) : k \in compacts}
           OfUses == {Claim(u, BallotVote(u)) : u \in uses}
<1>1. /\ Claims = OfCalls \cup OfCompacts \cup OfUses
      /\ Claims' = OfCalls' \cup OfCompacts' \cup OfUses'
  BY DEF Claims, Claim, BallotVote
<1>2. OfCalls' \subseteq Claims
  <2>1. ASSUME NEW u \in Threads, at'[u] \in Encrypting
        PROVE  Claim(call'[u], call'[u].vote) \in Claims
    <3>1. CASE u = t
      BY <2>1, <3>1
    <3>2. CASE u # t
      BY <1>1, <2>1, <3>2 DEF OthersKept
    <3>3. QED
      BY <3>1, <3>2
  <2> HIDE DEF OfCompacts, OfUses
  <2>2. QED
    BY <2>1 DEF Claim
<1>3. OfCompacts' \subseteq Claims
  <2>1. \A k \in compacts' : Claim(k, k.vote) \in Claims
    BY <1>1
  <2>2. QED
    BY <2>1 DEF Claim
<1>4. OfUses' \subseteq Claims
  <2>1. \A u \in uses' : Claim(u, BallotVote(u)) \in Claims
    BY <1>1
  <2>2. QED
    BY <2>1 DEF Claim, BallotVote
<1> HIDE DEF OfCalls, OfCompacts, OfUses
<1>5. QED
  BY <1>1, <1>2, <1>3, <1>4

\* What is left of a queue after a getter or empty_queues is a part of it.
LEMMA Shifted ==
    ASSUME NEW q \in Precomputed, NEW p \in {q, AfterGet(q), << >>}
    PROVE  \E d \in {0, 1} : \A i \in DOMAIN p :
              i \in Nat /\ i + d \in DOMAIN q /\ p[i] = q[i + d]
<1>1. CASE p = q
  <2>1. DOMAIN q = 1..Len(q) /\ Len(q) \in Nat
    BY LenProperties DEF Precomputed
  <2>2. \A i \in DOMAIN p : i \in Nat /\ i + 0 \in DOMAIN q /\ p[i] = q[i + 0]
    BY <1>1, <2>1
  <2>3. QED
    BY <2>2
<1>2. CASE p = AfterGet(q)
  <2>1. DOMAIN AfterGet(q) \subseteq Nat
    <3> DEFINE S == [root : Nat, key : Keys]
    <3>1. AfterGet(q) \in Seq(S)
      BY GetterOK DEF Precomputed
    <3> HIDE DEF S
    <3>2. DOMAIN AfterGet(q) = 1..Len(AfterGet(q)) /\ Len(AfterGet(q)) \in Nat
      BY <3>1, LenProperties
    <3>3. QED
      BY <3>2
  <2>2. \A i \in DOMAIN p : i \in Nat /\ i + 1 \in DOMAIN q /\ p[i] = q[i + 1]
    BY <1>2, <2>1, AfterGetIndex
  <2>3. QED
    BY <2>2
<1>3. CASE p = << >>
  BY <1>3
<1>4. QED
  BY <1>1, <1>2, <1>3

LEMMA PoolShrinks ==
    ASSUME TypeInv, NonceInv, draws' \in Nat, draws <= draws',
           pairs' \in {pairs, AfterGet(pairs), << >>},
           triples' \in {triples, AfterGet(triples), << >>}
    PROVE  /\ PoolOK'
           /\ \A i \in DOMAIN pairs', u \in uses : u.nonce # Random(pairs'[i].root)
           /\ \A i \in DOMAIN triples', u \in uses : u.nonce # Random(triples'[i].root)
<1>1. pairs \in Precomputed /\ triples \in Precomputed /\ draws \in Nat
  BY DEF TypeInv, StateOK
<1>2. PICK d \in {0, 1} : \A i \in DOMAIN pairs' :
              i \in Nat /\ i + d \in DOMAIN pairs /\ pairs'[i] = pairs[i + d]
  BY <1>1, Shifted
<1>3. PICK e \in {0, 1} : \A i \in DOMAIN triples' :
              i \in Nat /\ i + e \in DOMAIN triples /\ triples'[i] = triples[i + e]
  BY <1>1, Shifted
<1>4. /\ \A i \in DOMAIN pairs : pairs[i].root \in Nat
      /\ \A i \in DOMAIN triples : triples[i].root \in Nat
  <2> DEFINE S == [root : Nat, key : Keys]
  <2>1. pairs \in Seq(S) /\ triples \in Seq(S)
    BY <1>1 DEF Precomputed
  <2> HIDE DEF S
  <2>2. pairs \in [1..Len(pairs) -> S] /\ triples \in [1..Len(triples) -> S]
    BY <2>1, LenProperties
  <2>3. (\A i \in DOMAIN pairs : pairs[i] \in S) /\ (\A i \in DOMAIN triples : triples[i] \in S)
    BY <2>2
  <2>4. QED
    BY <2>3 DEF S
<1>5. (\A i \in DOMAIN pairs' : pairs'[i].root <= draws') /\ (\A i \in DOMAIN triples' : triples'[i].root <= draws')
  BY <1>1, <1>2, <1>3, <1>4 DEF NonceInv, PoolOK
<1>6. \A i, j \in DOMAIN pairs' : pairs'[i].root = pairs'[j].root => i = j
  <2>1. ASSUME NEW i \in DOMAIN pairs', NEW j \in DOMAIN pairs',
               pairs'[i].root = pairs'[j].root
        PROVE  i = j
    <3>1. i + d = j + d
      BY <1>2, <2>1 DEF NonceInv, PoolOK
    <3>2. QED
      BY <1>2, <3>1
  <2>2. QED
    BY <2>1
<1>7. \A i, j \in DOMAIN triples' : triples'[i].root = triples'[j].root => i = j
  <2>1. ASSUME NEW i \in DOMAIN triples', NEW j \in DOMAIN triples',
               triples'[i].root = triples'[j].root
        PROVE  i = j
    <3>1. i + e = j + e
      BY <1>3, <2>1 DEF NonceInv, PoolOK
    <3>2. QED
      BY <1>3, <3>1
  <2>2. QED
    BY <2>1
<1>8. \A i \in DOMAIN pairs', j \in DOMAIN triples' : pairs'[i].root # triples'[j].root
  BY <1>2, <1>3 DEF NonceInv, PoolOK
<1>9. /\ \A i \in DOMAIN pairs', u \in uses : u.nonce # Random(pairs'[i].root)
      /\ \A i \in DOMAIN triples', u \in uses : u.nonce # Random(triples'[i].root)
  BY <1>2, <1>3 DEF NonceInv, Unused
<1>10. QED
  BY <1>5, <1>6, <1>7, <1>8, <1>9 DEF PoolOK

\* More draws do no harm to the uses so far.
LEMMA UseKept ==
    ASSUME draws \in Nat, draws' \in Nat, draws <= draws', NEW u, UseOK(u)
    PROVE  UseOK(u)'
  BY DEF UseOK, DerivedNonce, selectionNonce, extendedDataNonce, proofNonce, contestNonce,
         chaumPedersenNonce, nonceSeed, Hash, Random, Use

\* A step that uses no nonce.
LEMMA NoUse ==
    ASSUME TypeInv, NonceInv, uses' = uses, draws' \in Nat, draws <= draws',
           pairs' \in {pairs, AfterGet(pairs), << >>},
           triples' \in {triples, AfterGet(triples), << >>},
           ClaimsAgree'
    PROVE  NonceInv'
<1>1. draws \in Nat /\ \A u \in uses : UseOK(u)
  BY DEF TypeInv, StateOK, NonceInv
<1>2. \A u \in uses' : UseOK(u)'
  BY <1>1, UseKept
<1>3. NonceSeparation'
  BY DEF NonceInv, NonceSeparation
<1>4. PoolOK' /\ Unused(pairs)' /\ Unused(triples)'
  BY PoolShrinks DEF Unused, Random
<1>5. QED
  BY <1>2, <1>3, <1>4 DEF NonceInv

\* A step that uses one: taken from the queue q of the two, or derived.
LEMMA OneUse ==
    ASSUME TypeInv, NonceInv, NEW t \in Threads, OthersKept(t),
           at[t] \in Encrypting, at'[t] = "idle" \/ SameCall(t),
           compacts' = compacts, draws' = draws,
           NEW q, NEW u,
           \/ q = pairs /\ pairs' = AfterGet(q) /\ triples' = triples
           \/ q = triples /\ triples' = AfterGet(q) /\ pairs' = pairs,
           u = Use(u, u.nonce, u.what, u.slot, u.vote),
           u.what \in {"selection", "extended", "proof"},
           u.slot \in Nat, u.what # "selection" => u.slot = 0, u.vote \in {0, 1},
           Claim(u, BallotVote(u)) = Claim(call[t], call[t].vote),
           u.nonce = PrecomputedOr(q, DerivedNonce(u)).nonce,
           uses' = uses \cup {u}
    PROVE  NonceInv'
<1>0. pairs \in Precomputed /\ triples \in Precomputed /\ draws \in Nat
  BY DEF TypeInv, StateOK
<1>1. Claim(call[t], call[t].vote) \in Claims
  BY DEF Claims
<1>2. ClaimsAgree'
  <2>1. at'[t] \in Encrypting => Claim(call'[t], call'[t].vote) \in Claims
    BY <1>1 DEF SameCall, Claim, Encrypting
  <2>2. \A w \in uses' : w \in uses \/ Claim(w, BallotVote(w)) \in Claims
    BY <1>1
  <2>3. Claims' \subseteq Claims
    BY <2>1, <2>2, ClaimsKept
  <2>4. QED
    BY <1>0, <2>3, FewerClaims DEF NonceInv
<1>3. /\ UseOK(u)
      /\ \A w \in uses : u.nonce = w.nonce => u = w
      /\ \A i \in DOMAIN pairs' : u.nonce # Random(pairs'[i].root)
      /\ \A i \in DOMAIN triples' : u.nonce # Random(triples'[i].root)
  <2>1. CASE q = pairs /\ pairs' = AfterGet(q) /\ triples' = triples
    <3>1. /\ UseOK(u)
          /\ \A w \in uses : u.nonce = w.nonce => u = w
          /\ \A i \in DOMAIN AfterGet(pairs) : u.nonce # Random(AfterGet(pairs)[i].root)
          /\ \A i \in DOMAIN triples : u.nonce # Random(triples[i].root)
      BY <1>0, <1>1, <2>1, NewUse DEF NonceInv, PoolOK
    <3>2. QED
      BY <2>1, <3>1
  <2>2. CASE q = triples /\ triples' = AfterGet(q) /\ pairs' = pairs
    <3>1. /\ UseOK(u)
          /\ \A w \in uses : u.nonce = w.nonce => u = w
          /\ \A i \in DOMAIN AfterGet(triples) : u.nonce # Random(AfterGet(triples)[i].root)
          /\ \A i \in DOMAIN pairs : u.nonce # Random(pairs[i].root)
      BY <1>0, <1>1, <2>2, NewUse DEF NonceInv, PoolOK
    <3>2. QED
      BY <2>2, <3>1
  <2>3. QED
    BY <2>1, <2>2
<1>4. \A w \in uses' : UseOK(w)'
  <2>1. \A w \in uses' : UseOK(w)
    BY <1>3 DEF NonceInv
  <2>2. QED
    BY <1>0, <2>1, UseKept
<1>5. NonceSeparation'
  BY <1>3 DEF NonceInv, NonceSeparation
<1>6. /\ PoolOK'
      /\ \A i \in DOMAIN pairs', w \in uses : w.nonce # Random(pairs'[i].root)
      /\ \A i \in DOMAIN triples', w \in uses : w.nonce # Random(triples'[i].root)
  BY <1>0, PoolShrinks
<1>7. Unused(pairs)' /\ Unused(triples)'
  BY <1>3, <1>6 DEF Unused, Random
<1>8. QED
  BY <1>2, <1>4, <1>5, <1>6, <1>7 DEF NonceInv

LEMMA NonceInit == Init => NonceInv
<1> SUFFICES ASSUME Init PROVE NonceInv
  OBVIOUS
<1>1. Claims = {}
  BY DEF Init, Claims, Encrypting
<1>2. ClaimsAgree
  BY <1>1 DEF ClaimsAgree
<1>3. PoolOK /\ Unused(pairs) /\ Unused(triples)
  BY DEF Init, PoolOK, Unused
<1>4. QED
  BY <1>2, <1>3 DEF Init, NonceInv, NonceSeparation

\* populate puts fresh draws into the queues.
LEMMA PopulateNonces == TypeInv /\ NonceInv /\ populate => NonceInv'
<1> SUFFICES ASSUME TypeInv, NonceInv, populate PROVE NonceInv'
  OBVIOUS
<1>1. PICK key \in Keys :
         LET value(n) == [root |-> draws + n, key |-> key]
         IN  /\ pairs' = Append(pairs, value(1))
             /\ \/ triples' = triples \o << value(2), value(3) >> /\ draws' = draws + 3
                \/ UNCHANGED triples /\ draws' = draws + 1
  BY DEF populate
<1> DEFINE S == [root : Nat, key : Keys]
           v(n) == [root |-> draws + n, key |-> key]
<1>2. draws \in Nat /\ pairs \in Seq(S) /\ triples \in Seq(S)
  BY DEF TypeInv, StateOK, Precomputed
<1>3. v(1) \in S /\ v(2) \in S /\ v(3) \in S
  BY <1>2
<1>4. (\A n \in 1..3 : v(n).root = draws + n) /\ \A x \in S : x.root \in Nat
  OBVIOUS
<1>5. /\ pairs' = Append(pairs, v(1))
      /\ \/ triples' = triples \o << v(2), v(3) >> /\ draws' = draws + 3
         \/ triples' = triples /\ draws' = draws + 1
  BY <1>1
<1> HIDE DEF S, v
<1>6. /\ pairs \in [1..Len(pairs) -> S] /\ triples \in [1..Len(triples) -> S]
      /\ Len(pairs) \in Nat /\ Len(triples) \in Nat
  BY <1>2, LenProperties
<1>7. /\ Len(pairs') = Len(pairs) + 1 /\ DOMAIN pairs' = 1..(Len(pairs) + 1)
      /\ \A i \in 1..Len(pairs) : pairs'[i] = pairs[i]
      /\ pairs'[Len(pairs) + 1] = v(1)
  BY <1>2, <1>3, <1>5, AppendProperties
<1>8. \/ /\ DOMAIN triples' = 1..(Len(triples) + 2) /\ draws' = draws + 3
         /\ \A i \in 1..Len(triples) : triples'[i] = triples[i]
         /\ triples'[Len(triples) + 1] = v(2) /\ triples'[Len(triples) + 2] = v(3)
      \/ triples' = triples /\ draws' = draws + 1
  <2>1. CASE triples' = triples \o << v(2), v(3) >> /\ draws' = draws + 3
    <3>1. << v(2), v(3) >> \in Seq(S) /\ Len(<< v(2), v(3) >>) = 2
      BY <1>3
    <3>2. /\ triples' \in Seq(S) /\ Len(triples') = Len(triples) + 2
          /\ \A i \in 1..Len(triples') : triples'[i] =
                IF i <= Len(triples) THEN triples[i]
                                     ELSE << v(2), v(3) >>[i - Len(triples)]
      BY <1>2, <2>1, <3>1, ConcatProperties
    <3>3. DOMAIN triples' = 1..(Len(triples) + 2)
      BY <3>2, LenProperties
    <3>4. \A i \in 1..Len(triples) : triples'[i] = triples[i]
      BY <1>6, <3>2
    <3>5. /\ Len(triples) + 1 \in 1..Len(triples') /\ ~(Len(triples) + 1 <= Len(triples))
          /\ Len(triples) + 2 \in 1..Len(triples') /\ ~(Len(triples) + 2 <= Len(triples))
          /\ Len(triples) + 1 - Len(triples) = 1 /\ Len(triples) + 2 - Len(triples) = 2
      BY <1>6, <3>2
    <3>6. triples'[Len(triples) + 1] = v(2) /\ triples'[Len(triples) + 2] = v(3)
      BY <3>2, <3>5
    <3>7. QED
      BY <2>1, <3>3, <3>4, <3>6
  <2>2. QED
    BY <1>5, <2>1
<1>9. /\ draws' \in Nat /\ draws <= draws'
      /\ v(1).root = draws + 1 /\ v(2).root = draws + 2 /\ v(3).root = draws + 3
  BY <1>2, <1>4, <1>8
<1>10. /\ \A i \in DOMAIN pairs : pairs[i].root \in Nat /\ pairs[i].root <= draws
       /\ \A i \in DOMAIN triples : triples[i].root \in Nat /\ triples[i].root <= draws
  BY <1>4, <1>6 DEF NonceInv, PoolOK
<1>11. /\ DOMAIN pairs = 1..Len(pairs) /\ DOMAIN triples = 1..Len(triples)
  BY <1>6
\* What an element of the new queues is: an old one, or a draw of this step.
<1>12. ASSUME NEW i \in DOMAIN pairs'
       PROVE  \/ i \in DOMAIN pairs /\ pairs'[i] = pairs[i]
              \/ i = Len(pairs) + 1 /\ pairs'[i].root = draws + 1
  BY <1>6, <1>7, <1>9, <1>11
<1>13. ASSUME NEW i \in DOMAIN triples'
       PROVE  \/ i \in DOMAIN triples /\ triples'[i] = triples[i]
              \/ /\ draws' = draws + 3
                 /\ \/ i = Len(triples) + 1 /\ triples'[i].root = draws + 2
                    \/ i = Len(triples) + 2 /\ triples'[i].root = draws + 3
  BY <1>6, <1>8, <1>9, <1>11
<1>14. PoolOK'
  <2>1. \A i \in DOMAIN pairs' : pairs'[i].root <= draws'
    BY <1>2, <1>8, <1>10, <1>12
  <2>2. \A i \in DOMAIN triples' : triples'[i].root <= draws'
    BY <1>2, <1>9, <1>10, <1>13
  <2>3. \A i, j \in DOMAIN pairs' : pairs'[i].root = pairs'[j].root => i = j
    BY <1>2, <1>10, <1>12 DEF NonceInv, PoolOK
  <2>4. \A i, j \in DOMAIN triples' : triples'[i].root = triples'[j].root => i = j
    BY <1>2, <1>10, <1>13 DEF NonceInv, PoolOK
  <2>5. \A i \in DOMAIN pairs', j \in DOMAIN triples' : pairs'[i].root # triples'[j].root
    BY <1>2, <1>10, <1>12, <1>13 DEF NonceInv, PoolOK
  <2>6. QED
    BY <2>1, <2>2, <2>3, <2>4, <2>5 DEF PoolOK
<1>15. uses' = uses /\ at' = at /\ call' = call /\ compacts' = compacts
  BY DEF populate, history
<1>16. ASSUME NEW n \in Nat, draws < n, NEW u \in uses PROVE u.nonce # Random(n)
  <2>1. u.nonce = DerivedNonce(u) \/ \E m \in 0..draws : u.nonce = Random(m)
    BY DEF NonceInv, UseOK
  <2>2. CASE u.nonce = DerivedNonce(u)
    BY <2>2, DerivedNotRandom DEF NonceInv, UseOK
  <2>3. CASE \E m \in 0..draws : u.nonce = Random(m)
    BY <1>2, <1>16, <2>3 DEF Random
  <2>4. QED
    BY <2>1, <2>2, <2>3
<1>17. /\ \A i \in DOMAIN pairs', u \in uses : u.nonce # Random(pairs'[i].root)
       /\ \A i \in DOMAIN triples', u \in uses : u.nonce # Random(triples'[i].root)
  <2>1. draws + 1 \in Nat /\ draws + 2 \in Nat /\ draws + 3 \in Nat
        /\ draws < draws + 1 /\ draws < draws + 2 /\ draws < draws + 3
    BY <1>2
  <2>2. QED
    BY <1>12, <1>13, <1>16, <2>1 DEF NonceInv, Unused
<1>18. Unused(pairs)' /\ Unused(triples)'
  BY <1>15, <1>17 DEF Unused, Random
<1>19. ClaimsAgree'
  <2>1. Claims' = Claims
    BY <1>15 DEF Claims, Claim, BallotVote
  <2>2. QED
    BY <1>9, <2>1, FewerClaims DEF NonceInv
<1>20. \A u \in uses' : UseOK(u)'
  BY <1>2, <1>9, <1>15, UseKept DEF NonceInv
<1>21. NonceSeparation'
  BY <1>15 DEF NonceInv, NonceSeparation
<1>22. QED
  BY <1>14, <1>18, <1>19, <1>20, <1>21 DEF NonceInv

\* The ballot a use is made for is the call's.
LEMMA UseClaim ==
    ASSUME NEW c, c.vote \in {0, 1}, NEW nonce, NEW slot, NEW what \in {"extended", "proof"}
    PROVE  /\ LET u == Use(c, nonce, "selection", slot, VoteFor(c, slot))
              IN  u.vote \in {0, 1} /\ Claim(u, BallotVote(u)) = Claim(c, c.vote)
           /\ LET u == Use(c, nonce, what, 0, c.vote)
              IN  u.vote \in {0, 1} /\ Claim(u, BallotVote(u)) = Claim(c, c.vote)
<1> DEFINE s == Use(c, nonce, "selection", slot, VoteFor(c, slot))
           o == Use(c, nonce, what, 0, c.vote)
<1>1. /\ s.vote = VoteFor(c, slot) /\ s.slot = slot /\ s.what = "selection"
      /\ s.root = c.root /\ s.ballot = c.ballot
      /\ o.vote = c.vote /\ o.what = what /\ o.root = c.root /\ o.ballot = c.ballot
  BY DEF Use
<1> HIDE DEF s, o
<1>2. VoteFor(c, slot) \in {0, 1}
  BY DEF VoteFor
<1>3. BallotVote(s) = c.vote /\ BallotVote(o) = c.vote
  BY <1>1 DEF BallotVote, VoteFor
<1>4. QED
  BY <1>1, <1>2, <1>3 DEF Claim, s, o

LEMMA NonceStep == TypeInv /\ NonceInv /\ [Next]_vars => NonceInv'
<1> SUFFICES ASSUME TypeInv, NonceInv, [Next]_vars PROVE NonceInv'
  OBVIOUS
<1>0. /\ at \in [Threads -> Steps] /\ call = [u \in Threads |-> call[u]]
      /\ draws \in Nat /\ draws <= draws
  BY DEF TypeInv, StateOK
<1>1. CASE /\ at' = at /\ call' = call /\ compacts' = compacts /\ uses' = uses
           /\ pairs' \in {pairs, << >>} /\ triples' \in {triples, << >>} /\ draws' = draws
  <2>1. Claims' = Claims
    BY <1>1 DEF Claims, Claim, BallotVote
  <2>2. ClaimsAgree'
    BY <1>0, <1>1, <2>1, FewerClaims DEF NonceInv
  <2>3. QED
    BY <1>0, <1>1, <2>2, NoUse
<1>2. CASE populate
  BY <1>2, PopulateNonces
<1>3. ASSUME NEW t \in Threads, mediate(t) \/ check_seed(t) \/ new_seed(t) PROVE NonceInv'
  <2>1. at'[t] \notin Encrypting /\ OthersKept(t)
    BY <1>0, <1>3 DEF mediate, check_seed, new_seed, Start, Goto, Encrypting, OthersKept
  <2>2. /\ uses' = uses /\ compacts' = compacts /\ draws' = draws
        /\ pairs' = pairs /\ triples' = triples
    BY <1>3 DEF mediate, check_seed, new_seed, history, pool
  <2>3. Claims' \subseteq Claims
    BY <2>1, <2>2, ClaimsKept
  <2>4. QED
    BY <1>0, <2>2, <2>3, FewerClaims, NoUse DEF NonceInv
<1>4. ASSUME NEW t \in Threads, expand(t) PROVE NonceInv'
  <2>1. PICK k \in compacts : Start(t, "selection", ExpansionOf(k, draws + 1))
    BY <1>4 DEF expand
  <2>2. Claim(ExpansionOf(k, draws + 1), ExpansionOf(k, draws + 1).vote) = Claim(k, k.vote)
    BY DEF ExpansionOf, NewCall, Claim
  <2>3. call'[t] = ExpansionOf(k, draws + 1) /\ OthersKept(t)
    BY <1>0, <2>1 DEF Start, Goto, OthersKept
  <2>4. Claim(k, k.vote) \in Claims
    BY DEF Claims
  <2>5. /\ uses' = uses /\ compacts' = compacts /\ draws' = draws
        /\ pairs' = pairs /\ triples' = triples
    BY <1>4 DEF expand, history, pool
  <2>6. Claims' \subseteq Claims
    BY <2>2, <2>3, <2>4, <2>5, ClaimsKept
  <2>7. QED
    BY <1>0, <2>5, <2>6, FewerClaims, NoUse DEF NonceInv
<1>5. ASSUME NEW t \in Threads, deref_seed(t) PROVE NonceInv'
  <2> DEFINE new == Claim(call'[t], call'[t].vote)
  <2>1. /\ uses' = uses /\ compacts' = compacts /\ draws' = draws + 1
        /\ pairs' = pairs /\ triples' = triples
    BY <1>5 DEF deref_seed, history, pool
  <2>2. /\ at'[t] = "selection" /\ OthersKept(t)
        /\ call'[t] = [call[t] EXCEPT !.seed = Head(ballotCodeSeed), !.object = seedObject,
                                      !.root = draws + 1]
    BY <1>0, <1>5 DEF deref_seed, Goto, OthersKept
  <2>3. CallOK(t)
    BY <1>5 DEF deref_seed, TypeInv, CallsOK
  <2>4. new.root = draws + 1
    BY <2>2, <2>3 DEF CallOK, Fields, Claim
  <2> HIDE DEF new
  <2>5. Claims' \subseteq Claims \cup {new}
    <3>1. ASSUME NEW x \in Claims' PROVE x \in Claims \/ x = new
      <4>1. \/ \E u \in Threads : at'[u] \in Encrypting /\ x = Claim(call'[u], call'[u].vote)
            \/ \E k \in compacts : x = Claim(k, k.vote)
            \/ \E u \in uses : x = Claim(u, BallotVote(u))
        BY <2>1 DEF Claims, Claim, BallotVote
      <4>2. CASE \E k \in compacts : x = Claim(k, k.vote)
        BY <4>2 DEF Claims
      <4>3. CASE \E u \in uses : x = Claim(u, BallotVote(u))
        BY <4>3 DEF Claims
      <4>4. ASSUME NEW u \in Threads, at'[u] \in Encrypting,
                   x = Claim(call'[u], call'[u].vote)
            PROVE  x \in Claims \/ x = new
        <5>1. CASE u = t
          BY <4>4, <5>1 DEF new
        <5>2. CASE u # t
          BY <2>2, <4>4, <5>2 DEF OthersKept, Claims
        <5>3. QED
          BY <5>1, <5>2
      <4>5. QED
        BY <4>1, <4>2, <4>3, <4>4
    <3>2. QED
      BY <3>1
  <2>6. ClaimsAgree'
    <3>1. \A x \in Claims : x.root \in 1..draws
      BY DEF NonceInv, ClaimsAgree
    <3>2. \A x \in Claims' : x.root \in 1..draws'
      BY <1>0, <2>1, <2>4, <2>5, <3>1
    <3>3. \A x, y \in Claims' : x.root = y.root => x = y
      BY <1>0, <2>4, <2>5, <3>1 DEF NonceInv, ClaimsAgree
    <3>4. QED
      BY <3>2, <3>3 DEF ClaimsAgree
  <2>7. draws' \in Nat /\ draws <= draws'
    BY <1>0, <2>1
  <2>8. QED
    BY <2>1, <2>6, <2>7, NoUse
<1>6. ASSUME NEW t \in Threads, encryptSelection(t) PROVE NonceInv'
  <2>1. PICK slot \in 1..2 :
           LET c == call[t]
               e == PrecomputedOr(pairs, selectionNonce(c, slot))
           IN  /\ at[t] = "selection"
               /\ pairs' = AfterGet(pairs)
               /\ uses' = uses \cup {Use(c, e.nonce, "selection", slot, VoteFor(c, slot))}
    BY <1>6, SelectionStep
  <2> DEFINE nonce == PrecomputedOr(pairs, selectionNonce(call[t], slot)).nonce
             u == Use(call[t], nonce, "selection", slot, VoteFor(call[t], slot))
  <2>2. CallOK(t)
    BY <2>1 DEF TypeInv, CallsOK
  <2>3. call[t].vote \in {0, 1}
    BY <2>2, BallotAssumption DEF CallOK
  <2> HIDE DEF nonce
  <2>4. /\ u = Use(u, u.nonce, u.what, u.slot, u.vote)
        /\ u.nonce = nonce /\ u.what = "selection" /\ u.slot = slot /\ u.vote \in {0, 1}
        /\ Claim(u, BallotVote(u)) = Claim(call[t], call[t].vote)
        /\ u.root = call[t].root /\ u.ballot = call[t].ballot /\ u.contest = call[t].contest
    <3>1. u.vote \in {0, 1} /\ Claim(u, BallotVote(u)) = Claim(call[t], call[t].vote)
      BY <2>3, UseClaim
    <3>2. QED
      BY <3>1 DEF Use
  <2>5. uses' = uses \cup {u}
    BY <2>1 DEF nonce
  <2> HIDE DEF u
  <2>6. DerivedNonce(u) = selectionNonce(call[t], slot)
    BY <2>4 DEF DerivedNonce, selectionNonce, contestNonce, nonceSeed
  <2>7. u.nonce = PrecomputedOr(pairs, DerivedNonce(u)).nonce
    BY <2>4, <2>6 DEF nonce
  <2>8. /\ at[t] \in Encrypting /\ OthersKept(t) /\ (at'[t] = "idle" \/ SameCall(t))
    BY <1>6, EncryptStep
  <2>9. compacts' = compacts /\ draws' = draws /\ triples' = triples
    BY <1>6 DEF encryptSelection
  <2>10. QED
    BY <2>1, <2>4, <2>5, <2>7, <2>8, <2>9, OneUse
<1>7. ASSUME NEW t \in Threads, hashedElgamalEncrypt(t) PROVE NonceInv'
  <2> DEFINE nonce == PrecomputedOr(triples, extendedDataNonce(call[t])).nonce
             u == Use(call[t], nonce, "extended", 0, call[t].vote)
  <2>1. /\ at[t] = "extended" /\ triples' = AfterGet(triples) /\ uses' = uses \cup {u}
        /\ compacts' = compacts /\ draws' = draws /\ pairs' = pairs
    BY <1>7 DEF hashedElgamalEncrypt
  <2>2. CallOK(t)
    BY <2>1 DEF TypeInv, CallsOK
  <2>3. call[t].vote \in {0, 1}
    BY <2>2, BallotAssumption DEF CallOK
  <2> HIDE DEF nonce
  <2>4. /\ u = Use(u, u.nonce, u.what, u.slot, u.vote)
        /\ u.nonce = nonce /\ u.what = "extended" /\ u.slot = 0 /\ u.vote \in {0, 1}
        /\ Claim(u, BallotVote(u)) = Claim(call[t], call[t].vote)
        /\ u.root = call[t].root /\ u.ballot = call[t].ballot /\ u.contest = call[t].contest
    <3>1. u.vote \in {0, 1} /\ Claim(u, BallotVote(u)) = Claim(call[t], call[t].vote)
      BY <2>3, UseClaim
    <3>2. QED
      BY <3>1 DEF Use
  <2> HIDE DEF u
  <2>5. DerivedNonce(u) = extendedDataNonce(call[t])
    BY <2>4 DEF DerivedNonce, extendedDataNonce, contestNonce, nonceSeed
  <2>6. u.nonce = PrecomputedOr(triples, DerivedNonce(u)).nonce
    BY <2>4, <2>5 DEF nonce
  <2>7. /\ at[t] \in Encrypting /\ OthersKept(t) /\ (at'[t] = "idle" \/ SameCall(t))
    BY <1>7, EncryptStep
  <2>8. QED
    BY <2>1, <2>4, <2>6, <2>7, OneUse
<1>8. ASSUME NEW t \in Threads, makeContest(t) PROVE NonceInv'
  <2> DEFINE nonce == PrecomputedOr(triples, proofNonce(call[t])).nonce
             u == Use(call[t], nonce, "proof", 0, call[t].vote)
  <2>1. /\ at[t] = "contest" /\ triples' = AfterGet(triples) /\ uses' = uses \cup {u}
        /\ compacts' = compacts /\ draws' = draws /\ pairs' = pairs
    BY <1>8 DEF makeContest
  <2>2. CallOK(t)
    BY <2>1 DEF TypeInv, CallsOK
  <2>3. call[t].vote \in {0, 1}
    BY <2>2, BallotAssumption DEF CallOK
  <2> HIDE DEF nonce
  <2>4. /\ u = Use(u, u.nonce, u.what, u.slot, u.vote)
        /\ u.nonce = nonce /\ u.what = "proof" /\ u.slot = 0 /\ u.vote \in {0, 1}
        /\ Claim(u, BallotVote(u)) = Claim(call[t], call[t].vote)
        /\ u.root = call[t].root /\ u.ballot = call[t].ballot /\ u.contest = call[t].contest
    <3>1. u.vote \in {0, 1} /\ Claim(u, BallotVote(u)) = Claim(call[t], call[t].vote)
      BY <2>3, UseClaim
    <3>2. QED
      BY <3>1 DEF Use
  <2> HIDE DEF u
  <2>5. DerivedNonce(u) = proofNonce(call[t])
    BY <2>4 DEF DerivedNonce, proofNonce, chaumPedersenNonce, nonceSeed
  <2>6. u.nonce = PrecomputedOr(triples, DerivedNonce(u)).nonce
    BY <2>4, <2>5 DEF nonce
  <2>7. /\ at[t] \in Encrypting /\ OthersKept(t) /\ (at'[t] = "idle" \/ SameCall(t))
    BY <1>8, EncryptStep
  <2>8. QED
    BY <2>1, <2>4, <2>6, <2>7, OneUse
<1>9. ASSUME NEW t \in Threads, makeBallot(t) PROVE NonceInv'
  <2>1. /\ uses' = uses /\ compacts' = compacts /\ draws' = draws
        /\ pairs' = pairs /\ triples' = triples
    BY <1>9 DEF makeBallot, pool
  <2>2. /\ at[t] \in Encrypting /\ OthersKept(t) /\ (at'[t] = "idle" \/ SameCall(t))
    BY <1>9, EncryptStep
  <2>3. at'[t] \in Encrypting => Claim(call'[t], call'[t].vote) \in Claims
    <3>1. Claim(call[t], call[t].vote) \in Claims
      BY <2>2 DEF Claims
    <3>2. QED
      BY <2>2, <3>1 DEF SameCall, Claim, Encrypting
  <2>4. Claims' \subseteq Claims
    BY <2>1, <2>2, <2>3, ClaimsKept
  <2>5. QED
    BY <1>0, <2>1, <2>4, FewerClaims, NoUse DEF NonceInv
<1>10. ASSUME NEW t \in Threads, compare_code(t) PROVE NonceInv'
  <2>1. /\ uses' = uses /\ compacts' = compacts /\ draws' = draws
        /\ pairs' = pairs /\ triples' = triples
    BY <1>10 DEF compare_code, pool
  <2>2. at'[t] = "idle" /\ OthersKept(t)
    BY <1>0, <1>10 DEF compare_code, Leave, Goto, OthersKept
  <2>3. Claims' \subseteq Claims
    BY <2>1, <2>2, ClaimsKept DEF Encrypting
  <2>4. QED
    BY <1>0, <2>1, <2>3, FewerClaims, NoUse DEF NonceInv
<1>11. ASSUME NEW t \in Threads, store_seed(t) PROVE NonceInv'
  <2> DEFINE c == call[t]
             k == [ballot |-> c.ballot, vote |-> c.vote, root |-> c.root, seed |-> c.seed,
                   code |-> BallotCode(c, c.seed)]
  <2>1. /\ uses' = uses /\ draws' = draws /\ pairs' = pairs /\ triples' = triples
        /\ at[t] = "store_seed" /\ compacts' \in {compacts, compacts \cup {k}}
    BY <1>11 DEF store_seed, pool
  <2>2. at'[t] = "idle" /\ OthersKept(t)
    BY <1>0, <1>11 DEF store_seed, Leave, Goto, OthersKept
  <2>3. Claim(k, k.vote) \in Claims
    <3>1. Claim(c, c.vote) \in Claims
      BY <2>1 DEF Claims, Encrypting
    <3>2. QED
      BY <3>1 DEF Claim
  <2> HIDE DEF k
  <2>4. Claims' \subseteq Claims
    BY <2>1, <2>2, <2>3, ClaimsKept DEF Encrypting
  <2>5. QED
    BY <1>0, <2>1, <2>4, FewerClaims, NoUse DEF NonceInv
<1>12. QED
  <2>1. CASE UNCHANGED vars
    BY <1>1, <2>1 DEF vars, history, pool
  <2>2. CASE empty_queues \/ Quiescent
    BY <1>1, <2>2 DEF empty_queues, Quiescent, vars, history, pool
  <2>3. QED
    BY <1>2, <1>3, <1>4, <1>5, <1>6, <1>7, <1>8, <1>9, <1>10, <1>11, <2>1, <2>2 DEF Next

-----------------------------------------------------------------------------
(* The theorems.                                                           *)

\* What is in the state at any time: typed calls at the steps their entry point
\* has, with two selections for every contest done so far.
THEOREM CallsTyped == Spec => []TypeInv
  BY TypeInit, TypeStep, PTL DEF Spec

\* No nonce is used twice, whatever the threads, the precomputed values and the
\* verification failures: the nonces of encryptBallot (encrypt.cpp) and those of
\* the buffers are kept apart, and a ballot's nonce is for one ballot only.
THEOREM NoncesSeparate == Spec => []NonceSeparation
<1>1. NonceInv => NonceSeparation
  BY DEF NonceInv
<1>2. QED
  BY <1>1, NonceInit, NonceStep, CallsTyped, PTL DEF Spec

\* A ballot whose proofs were verified on encryption is under the election's key,
\* whatever key the buffers were filled for.
THEOREM VerifiedBallots == Spec => []VerifiedUnderElectionKey
<1>1. VerifiedInv => VerifiedUnderElectionKey
  BY DEF VerifiedInv
<1>2. QED
  BY <1>1, VerifiedInit, VerifiedStep, CallsTyped, PTL DEF Spec

\* The chain of ballot codes of EncryptionMediator has no gap and no fork, as long
\* as one call runs at a time.
THEOREM Chained == Spec => []ChainUnbroken
<1>1. SeedInv => ChainUnbroken
  BY DEF SeedInv, ChainUnbroken
<1>2. QED
  BY <1>1, SeedInit, SeedStep, CallsTyped, PTL DEF Spec

\* expandCompactCiphertextBallot reproduces the ballot when every nonce is derived.
THEOREM DerivedExpands == Spec => []DerivedExpansion
<1>1. ExpandInv => DerivedExpansion
  BY DEF ExpandInv, DerivedExpansion
<1>2. Spec => []CompactInv
  BY CompactInit, CompactStep, CallsTyped, PTL DEF Spec
<1>3. QED
  BY <1>1, <1>2, ExpandInit, ExpandStep, CallsTyped, PTL DEF Spec
=============================================================================
