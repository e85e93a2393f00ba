---------------------- MODULE PrecomputeBuffersProofs ----------------------
(***************************************************************************)
(* Proofs about PrecomputeBuffers, for any set of threads, keys and sizes  *)
(* and any bounds: who holds the lock, and the values: none is handed out  *)
(* twice, none is lost, each getter returns the oldest first, and the      *)
(* buffers implement the one-shot pool.                                    *)
(***************************************************************************)
EXTENDS PrecomputeBuffers, SequenceTheorems, FiniteSetTheorems, TLAPS

\* Who may run which step with which argument: the steps under the lock belong
\* to the thread that holds queue_lock, and to it alone.
LockOwner == \A t \in Threads : at[t] \in CriticalSteps <=> queue_lock = t

ArgOK ==
    \A t \in Threads :
       /\ at[t] \in {"init_lock", "init_body"} => arg[t] \in Sizes
       /\ at[t] \in {"populate_lock", "populate_check", "populate_push",
                     "populate_contest", "populate_test"} => arg[t] \in Keys

\* A pop follows a move from a queue that is not empty.
PopOK ==
    \A t \in Threads :
       /\ at[t] = "getTwo_pop" => Pairs # << >>
       /\ at[t] = "getTriple_pop" => triple_queue # << >>

TypeInv == TypeOK /\ LockOwner /\ ArgOK /\ PopOK

\* Pop drops the front element and shifts the others.
LEMMA PopProperties ==
    ASSUME NEW S, NEW q \in Seq(S)
    PROVE  /\ Pop(q) \in Seq(S)
           /\ Len(Pop(q)) = IF Len(q) = 0 THEN 0 ELSE Len(q) - 1
           /\ \A i \in 1..Len(Pop(q)) : Pop(q)[i] = q[i + 1]
  BY SubSeqProperties DEF Pop

LEMMA TypeInit == Init => TypeInv
<1> SUFFICES ASSUME Init PROVE TypeInv
  OBVIOUS
<1>1. TypeOK
  <2> USE PrecomputeAssumption DEF Init
  <2>1. max \in Nat /\ populate_OK \in BOOLEAN /\ queue_lock \in Threads \cup {Null}
    OBVIOUS
  <2>2. at \in [Threads -> Steps]
    BY DEF Steps
  <2>3. /\ arg \in [Threads -> Sizes \cup Keys \cup {Null}]
        /\ iteration_count \in [Threads -> 0..2]
    OBVIOUS
  <2>4. QED
    BY <2>1, <2>2, <2>3, EmptySeq DEF TypeOK
<1>2. LockOwner
  BY PrecomputeAssumption DEF Init, LockOwner, CriticalSteps
<1>3. ArgOK /\ PopOK
  BY DEF Init, ArgOK, PopOK
<1>4. QED
  BY <1>1, <1>2, <1>3 DEF TypeInv

LEMMA TypeStep == TypeInv /\ [Next]_vars => TypeInv'
<1> SUFFICES ASSUME TypeInv, [Next]_vars PROVE TypeInv'
  OBVIOUS
<1> USE PrecomputeAssumption
    DEF TypeInv, TypeOK, LockOwner, ArgOK, PopOK, Steps, LockSteps,
        CriticalSteps, Pairs, Push, MoveFront, Goto, UnlockAndGoto, Enter
<1>1. CASE UNCHANGED vars
  BY <1>1 DEF vars, shared, local, taken, bounds
<1>2. ASSUME NEW u \in Threads, CallInit(u) PROVE TypeInv'
  BY <1>2 DEF CallInit, shared, taken
<1>3. ASSUME NEW u \in Threads, CallPopulate(u) PROVE TypeInv'
  BY <1>3 DEF CallPopulate, shared, taken
<1>4. ASSUME NEW u \in Threads, CallOther(u) PROVE TypeInv'
  BY <1>4 DEF CallOther, shared, taken
<1>5. ASSUME NEW u \in Threads, stop_populate(u) PROVE TypeInv'
  <2>1. populate_OK' \in BOOLEAN
    BY <1>5 DEF stop_populate
  <2>2. QED
    BY <1>5, <2>1 DEF stop_populate, taken
<1>6. ASSUME NEW u \in Threads, Lock(u) PROVE TypeInv'
  <2>1. TypeOK'
    BY <1>6 DEF Lock, LockFree, LockThen, taken, bounds
  <2>2. LockOwner'
    BY <1>6 DEF Lock, LockFree, LockThen
  <2>3. ArgOK'
    BY <1>6 DEF Lock, LockFree, LockThen
  <2>4. PopOK'
    BY <1>6 DEF Lock, LockFree, LockThen
  <2>5. QED
    BY <2>1, <2>2, <2>3, <2>4
<1>7. ASSUME NEW u \in Threads, init(u) PROVE TypeInv'
  BY <1>7 DEF init, taken
<1>8. ASSUME NEW u \in Threads, populate_check(u) PROVE TypeInv'
  BY <1>8 DEF populate_check, OnStopped, taken, bounds
<1>9. ASSUME NEW u \in Threads, populate_push(u) PROVE TypeInv'
  BY <1>9 DEF populate_push, Fresh, Item, taken, bounds
<1>10. ASSUME NEW u \in Threads, populate_contest(u) PROVE TypeInv'
  <2>1. TypeOK'
    <3>1. Fresh(u, 0) \in Item /\ Fresh(u, 1) \in Item
      BY <1>10 DEF populate_contest, Fresh, Item
    <3>2. Push(triple_queue, Fresh(u, 0)) \in Seq(Item \cup {Null})
      BY <3>1
    <3>3. triple_queue' \in Seq(Item \cup {Null})
      <4>1. Push(Push(triple_queue, Fresh(u, 0)), Fresh(u, 1))
               \in Seq(Item \cup {Null})
        BY <3>1, <3>2, AppendProperties
      <4>2. QED
        BY <1>10, <4>1 DEF populate_contest
    <3>4. (iteration_count[u] + 1) % 3 \in 0..2
      <4>1. iteration_count[u] \in 0..2
        BY DEF TypeOK
      <4> HIDE DEF TypeOK
      <4>2. QED
        BY <4>1
    <3>5. iteration_count' \in [Threads -> 0..2]
      BY <1>10, <3>4 DEF populate_contest
    <3>6. QED
      BY <1>10, <3>3, <3>5 DEF populate_contest, taken, bounds
  <2>2. LockOwner'
    BY <1>10 DEF populate_contest
  <2>3. ArgOK'
    BY <1>10 DEF populate_contest
  <2>4. PopOK'
    BY <1>10 DEF populate_contest
  <2>5. QED
    BY <2>1, <2>2, <2>3, <2>4
<1>11. ASSUME NEW u \in Threads, populate_test(u) PROVE TypeInv'
  <2>1. TypeOK'
    BY <1>11 DEF populate_test, shared, taken
  <2>2. LockOwner'
    BY <1>11 DEF populate_test, shared
  <2>3. ArgOK'
    BY <1>11 DEF populate_test, shared
  <2>4. PopOK'
    BY <1>11 DEF populate_test, shared
  <2>5. QED
    BY <2>1, <2>2, <2>3, <2>4
<1>12. ASSUME NEW u \in Threads, getTwo_front(u) PROVE TypeInv'
  <2>1. TypeOK'
    <3>1. Pairs # << >> => /\ MoveFront(Pairs) \in Seq(Item \cup {Null})
                           /\ Head(Pairs) \in Item \cup {Null}
      BY ExceptSeq, EmptySeq
    <3>2. takenPairs' \in Seq(Item)
      <4>1. Pairs # << >> /\ Head(Pairs) # Null
               => Append(takenPairs, Head(Pairs)) \in Seq(Item)
        BY <3>1, AppendProperties
      <4>2. QED
        BY <1>12, <4>1 DEF getTwo_front
    <3>3. QED
      BY <1>12, <3>1, <3>2 DEF getTwo_front, bounds
  <2>2. LockOwner'
    BY <1>12 DEF getTwo_front
  <2>3. ArgOK'
    BY <1>12 DEF getTwo_front
  <2>4. PopOK'
    BY <1>12 DEF getTwo_front
  <2>5. QED
    BY <2>1, <2>2, <2>3, <2>4
<1>13. ASSUME NEW u \in Threads, getTwo_pop(u) PROVE TypeInv'
  <2>1. Pop(Pairs) \in Seq(Item \cup {Null})
    BY PopProperties
  <2>2. QED
    BY <1>13, <2>1 DEF getTwo_pop, taken, bounds
<1>14. ASSUME NEW u \in Threads, getTriple_front(u) PROVE TypeInv'
  <2>1. TypeOK'
    <3>1. triple_queue # << >> =>
             /\ MoveFront(triple_queue) \in Seq(Item \cup {Null})
             /\ Head(triple_queue) \in Item \cup {Null}
      BY ExceptSeq, EmptySeq
    <3>2. takenTriples' \in Seq(Item)
      <4>1. triple_queue # << >> /\ Head(triple_queue) # Null
               => Append(takenTriples, Head(triple_queue)) \in Seq(Item)
        BY <3>1, AppendProperties
      <4>2. QED
        BY <1>14, <4>1 DEF getTriple_front
    <3>3. QED
      BY <1>14, <3>1, <3>2 DEF getTriple_front, bounds
  <2>2. LockOwner'
    BY <1>14 DEF getTriple_front
  <2>3. ArgOK'
    BY <1>14 DEF getTriple_front
  <2>4. PopOK'
    BY <1>14 DEF getTriple_front
  <2>5. QED
    BY <2>1, <2>2, <2>3, <2>4
<1>15. ASSUME NEW u \in Threads, getTriple_pop(u) PROVE TypeInv'
  <2>1. Pop(triple_queue) \in Seq(Item \cup {Null})
    BY PopProperties
  <2>2. QED
    BY <1>15, <2>1 DEF getTriple_pop, taken, bounds
<1>16. ASSUME NEW u \in Threads, empty_triples(u) PROVE TypeInv'
  BY <1>16 DEF empty_triples, Contents, bounds
<1>17. ASSUME NEW u \in Threads, empty_pairs(u) PROVE TypeInv'
  BY <1>17 DEF empty_pairs, Contents, bounds
<1>18. CASE Quiescent
  BY <1>18 DEF Quiescent, vars, shared, local, taken, bounds
<1> HIDE DEF TypeInv
<1>19. QED
  BY <1>1, <1>2, <1>3, <1>4, <1>5, <1>6, <1>7, <1>8, <1>9, <1>10, <1>11,
     <1>12, <1>13, <1>14, <1>15, <1>16, <1>17, <1>18
     DEF Next, Call, Run

\* TypeOK holds in every reachable state, with the lock discipline it needs.
THEOREM TypeCorrect == Spec => []TypeOK
<1>1. Spec => []TypeInv
  BY TypeInit, TypeStep, PTL DEF Spec
<1>2. TypeInv => TypeOK
  BY DEF TypeInv
<1>3. QED
  BY <1>1, <1>2, PTL

-----------------------------------------------------------------------------
(* After stop_populate.  The thread that has passed the check of           *)
(* populate_OK holds queue_lock, so there is one of them at most, and it   *)
(* has not pushed yet.                                                     *)

StopInv ==
    ~populate_OK =>
       /\ pairsSinceStop <= 1
       /\ \A t \in Threads : at[t] = "populate_push" => pairsSinceStop = 0

LEMMA StopStep == TypeInv /\ StopInv /\ [Next]_vars => StopInv'
<1> SUFFICES ASSUME TypeInv, StopInv, [Next]_vars PROVE StopInv'
  OBVIOUS
<1> USE PrecomputeAssumption
    DEF TypeInv, TypeOK, LockOwner, StopInv, Steps, LockSteps, CriticalSteps,
        Goto, UnlockAndGoto, Enter
\* A step that neither writes populate_OK nor counts a pair, and takes no thread
\* to populate_push.
<1>1. ASSUME UNCHANGED << populate_OK, pairsSinceStop >>,
             \A t \in Threads : at'[t] = "populate_push" => at[t] = "populate_push"
      PROVE  StopInv'
  BY <1>1
<1>2. CASE UNCHANGED vars
  BY <1>1, <1>2 DEF vars, shared, local
<1>3. ASSUME NEW u \in Threads, CallInit(u) \/ CallPopulate(u) \/ CallOther(u)
      PROVE  StopInv'
  BY <1>1, <1>3 DEF CallInit, CallPopulate, CallOther, shared
<1>4. ASSUME NEW u \in Threads, stop_populate(u) PROVE StopInv'
  BY <1>4 DEF stop_populate
<1>5. ASSUME NEW u \in Threads, Lock(u) PROVE StopInv'
  BY <1>1, <1>5 DEF Lock, LockThen
<1>6. ASSUME NEW u \in Threads, init(u) PROVE StopInv'
  BY <1>6 DEF init
<1>7. ASSUME NEW u \in Threads, populate_check(u) PROVE StopInv'
  BY <1>1, <1>7 DEF populate_check, OnStopped
<1>8. ASSUME NEW u \in Threads, populate_push(u) PROVE StopInv'
  BY <1>8 DEF populate_push
<1>9. ASSUME NEW u \in Threads, populate_contest(u) \/ populate_test(u)
      PROVE  StopInv'
  BY <1>1, <1>9 DEF populate_contest, populate_test, shared
<1>10. ASSUME NEW u \in Threads, getTwo_front(u) \/ getTwo_pop(u)
       PROVE  StopInv'
  BY <1>1, <1>10 DEF getTwo_front, getTwo_pop
<1>11. ASSUME NEW u \in Threads, getTriple_front(u) \/ getTriple_pop(u)
       PROVE  StopInv'
  BY <1>1, <1>11 DEF getTriple_front, getTriple_pop
<1>12. ASSUME NEW u \in Threads, empty_triples(u) \/ empty_pairs(u)
       PROVE  StopInv'
  BY <1>1, <1>12 DEF empty_triples, empty_pairs
<1>13. CASE Quiescent
  BY <1>1, <1>13 DEF Quiescent, vars, shared, local
<1> HIDE DEF TypeInv, StopInv
<1>14. QED
  BY <1>2, <1>3, <1>4, <1>5, <1>6, <1>7, <1>8, <1>9, <1>10, <1>11, <1>12,
     <1>13 DEF Next, Call, Run

\* After stop_populate one pair at most is pushed, whatever the number of threads
\* in populate.
THEOREM StopStopsPopulate == Spec => []AtMostOnePairAfterStop
<1>1. Init => TypeInv /\ StopInv
  BY TypeInit DEF Init, StopInv
<1>2. TypeInv /\ StopInv /\ [Next]_vars => (TypeInv /\ StopInv)'
  BY TypeStep, StopStep
<1>3. StopInv => AtMostOnePairAfterStop
  BY DEF StopInv, AtMostOnePairAfterStop
<1>4. QED
  BY <1>1, <1>2, <1>3, PTL DEF Spec

-----------------------------------------------------------------------------
(* How many pairs populate makes.  A thread is committed when it will push *)
(* a pair with no further look at the size: it has just entered populate,  *)
(* or the loop test has sent it round.  Every thread in populate is in a   *)
(* call of its own, so a test that reads a size below max finds at most    *)
(* populateCalls threads committed, itself included; a call and a torn     *)
(* read that commit a thread without a test are counted when they do.      *)

CommittedSteps == {"populate_lock", "populate_check", "populate_push"}
PopulateSteps == CommittedSteps \cup {"populate_contest", "populate_test"}

\* The number of threads that f puts at one of the steps A.
Count(f, A) == Cardinality({u \in Threads : f[u] \in A})

OvershootInv ==
    /\ max <= peakMax /\ 1 <= peakMax
    /\ Count(at, CommittedSteps) <= Count(at, PopulateSteps)
    /\ Count(at, PopulateSteps) <= populateCalls
    /\ Len(Pairs) + Count(at, CommittedSteps)
          < peakMax + populateCalls + tornReads

LEMMA CountNat == \A f, A : Count(f, A) \in Nat
<1> SUFFICES ASSUME NEW f, NEW A PROVE Count(f, A) \in Nat
  OBVIOUS
<1>1. IsFiniteSet({u \in Threads : f[u] \in A})
  BY PrecomputeAssumption, FS_Subset
<1>2. QED
  BY <1>1, FS_CardinalityType DEF Count

\* Fewer steps, fewer threads at them.
LEMMA CountSubset ==
    ASSUME NEW f, NEW A, NEW B, A \subseteq B
    PROVE  Count(f, A) <= Count(f, B)
<1>1. IsFiniteSet({u \in Threads : f[u] \in B})
  BY PrecomputeAssumption, FS_Subset
<1>2. QED
  BY <1>1, FS_Subset DEF Count

\* One thread moves: the count goes up by one when it comes to A from outside,
\* down by one when it leaves A, and is the same otherwise.
LEMMA CountMove ==
    ASSUME NEW f \in [Threads -> Steps], NEW t \in Threads, NEW s \in Steps, NEW A
    PROVE  LET g == [f EXCEPT ![t] = s]
           IN  /\ (f[t] \in A <=> s \in A) => Count(g, A) = Count(f, A)
               /\ f[t] \notin A /\ s \in A => Count(g, A) = Count(f, A) + 1
               /\ f[t] \in A /\ s \notin A => Count(g, A) = Count(f, A) - 1
<1> DEFINE g == [f EXCEPT ![t] = s]
           V == {u \in Threads : f[u] \in A}
           W == {u \in Threads : g[u] \in A}
<1>1. IsFiniteSet(V) /\ Count(f, A) = Cardinality(V) /\ Count(g, A) = Cardinality(W)
  BY PrecomputeAssumption, FS_Subset DEF Count
<1>2. (f[t] \in A <=> s \in A) => W = V
  OBVIOUS
<1>3. ASSUME f[t] \notin A, s \in A PROVE W = V \cup {t} /\ t \notin V
  BY <1>3
<1>4. ASSUME f[t] \in A, s \notin A PROVE W = V \ {t} /\ t \in V
  BY <1>4
<1> HIDE DEF V, W
<1>5. f[t] \notin A /\ s \in A => Cardinality(W) = Cardinality(V) + 1
  BY <1>1, <1>3, FS_AddElement
<1>6. f[t] \in A /\ s \notin A => Cardinality(W) = Cardinality(V) - 1
  BY <1>1, <1>4, FS_RemoveElement
<1>7. QED
  BY <1>1, <1>2, <1>5, <1>6

LEMMA OvershootInit == Init => OvershootInv
<1> SUFFICES ASSUME Init PROVE OvershootInv
  OBVIOUS
<1>1. \A A : "idle" \notin A => Count(at, A) = 0
  <2> SUFFICES ASSUME NEW A, "idle" \notin A PROVE Count(at, A) = 0
    OBVIOUS
  <2>1. {u \in Threads : at[u] \in A} = {}
    BY DEF Init
  <2>2. QED
    BY <2>1, FS_EmptySet DEF Count
<1>2. Count(at, CommittedSteps) = 0 /\ Count(at, PopulateSteps) = 0
  BY <1>1 DEF CommittedSteps, PopulateSteps
<1>3. QED
  BY <1>2, PrecomputeAssumption DEF Init, OvershootInv, Pairs

\* What a step of thread t to the step s does to the two counts.
LEMMA StepCounts ==
    ASSUME TypeOK, NEW t \in Threads, NEW s \in Steps, Goto(t, s)
    PROVE  /\ (at[t] \in CommittedSteps <=> s \in CommittedSteps) =>
                 Count(at, CommittedSteps)' = Count(at, CommittedSteps)
           /\ at[t] \notin CommittedSteps /\ s \in CommittedSteps =>
                 Count(at, CommittedSteps)' = Count(at, CommittedSteps) + 1
           /\ at[t] \in CommittedSteps /\ s \notin CommittedSteps =>
                 Count(at, CommittedSteps)' = Count(at, CommittedSteps) - 1
           /\ (at[t] \in PopulateSteps <=> s \in PopulateSteps) =>
                 Count(at, PopulateSteps)' = Count(at, PopulateSteps)
           /\ at[t] \notin PopulateSteps /\ s \in PopulateSteps =>
                 Count(at, PopulateSteps)' = Count(at, PopulateSteps) + 1
           /\ at[t] \in PopulateSteps /\ s \notin PopulateSteps =>
                 Count(at, PopulateSteps)' = Count(at, PopulateSteps) - 1
<1>1. at \in [Threads -> Steps] /\ at' = [at EXCEPT ![t] = s]
  BY DEF TypeOK, Goto
<1>2. /\ Count(at, CommittedSteps)' = Count([at EXCEPT ![t] = s], CommittedSteps)
      /\ Count(at, PopulateSteps)' = Count([at EXCEPT ![t] = s], PopulateSteps)
  BY <1>1 DEF Count, CommittedSteps, PopulateSteps
<1>3. QED
  BY <1>1, <1>2, CountMove

LEMMA OvershootStep == TypeInv /\ OvershootInv /\ [Next]_vars => OvershootInv'
<1> SUFFICES ASSUME TypeInv, OvershootInv, [Next]_vars PROVE OvershootInv'
  OBVIOUS
<1> DEFINE committed == Count(at, CommittedSteps)
           inside == Count(at, PopulateSteps)
\* What is known of the numbers, before and after.
<1>1. /\ max \in Nat /\ peakMax \in Nat /\ populateCalls \in Nat /\ tornReads \in Nat
      /\ Len(Pairs) \in Nat /\ committed \in Nat /\ inside \in Nat
  BY CountNat DEF TypeInv, TypeOK, Pairs
<1>2. /\ max' \in Nat /\ peakMax' \in Nat /\ populateCalls' \in Nat
      /\ tornReads' \in Nat /\ Len(Pairs)' \in Nat
  BY TypeStep DEF TypeInv, TypeOK, Pairs
<1>3. committed' \in Nat /\ inside' \in Nat /\ committed' <= inside'
  <2>1. (CommittedSteps \subseteq PopulateSteps)'
    BY DEF PopulateSteps
  <2>2. /\ Count(at', CommittedSteps') \in Nat /\ Count(at', PopulateSteps') \in Nat
        /\ Count(at', CommittedSteps') <= Count(at', PopulateSteps')
    BY <2>1, CountNat, CountSubset
  <2>3. /\ committed' = Count(at', CommittedSteps')
        /\ inside' = Count(at', PopulateSteps')
    BY DEF Count
  <2>4. QED
    BY <2>2, <2>3
<1>4. /\ max <= peakMax /\ 1 <= peakMax /\ committed <= inside
      /\ inside <= populateCalls
      /\ Len(Pairs) + committed < peakMax + populateCalls + tornReads
  BY DEF OvershootInv
<1>5. OvershootInv' <=>
        /\ max' <= peakMax' /\ 1 <= peakMax' /\ committed' <= inside'
        /\ inside' <= populateCalls'
        /\ Len(Pairs)' + committed' < peakMax' + populateCalls' + tornReads'
  BY DEF OvershootInv
\* The step of a thread that is at a, to b.
<1>6. ASSUME NEW t \in Threads, NEW b \in Steps, Goto(t, b)
      PROVE  /\ (at[t] \in CommittedSteps <=> b \in CommittedSteps)
                   => committed' = committed
             /\ at[t] \notin CommittedSteps /\ b \in CommittedSteps
                   => committed' = committed + 1
             /\ at[t] \in CommittedSteps /\ b \notin CommittedSteps
                   => committed' = committed - 1
             /\ (at[t] \in PopulateSteps <=> b \in PopulateSteps)
                   => inside' = inside
             /\ at[t] \notin PopulateSteps /\ b \in PopulateSteps
                   => inside' = inside + 1
             /\ at[t] \in PopulateSteps /\ b \notin PopulateSteps
                   => inside' = inside - 1
  BY <1>6, StepCounts DEF TypeInv
<1> HIDE DEF committed, inside
\* A step that commits nobody, and pushes nothing.
<1>7. ASSUME committed' <= committed, inside' <= inside, Len(Pairs)' <= Len(Pairs),
             UNCHANGED << max, peakMax, populateCalls, tornReads >>
      PROVE  OvershootInv'
  BY <1>1, <1>2, <1>3, <1>4, <1>5, <1>7
<1> USE DEF Steps, LockSteps, CriticalSteps, CommittedSteps, PopulateSteps
<1>8. CASE UNCHANGED vars
  <2>1. committed' = committed /\ inside' = inside
    BY <1>8 DEF committed, inside, Count, vars, local
  <2>2. QED
    BY <1>1, <1>7, <1>8, <2>1 DEF vars, shared, bounds, Pairs
<1>9. ASSUME NEW u \in Threads, CallInit(u) \/ CallOther(u) PROVE OvershootInv'
  <2>1. PICK b \in {"init_lock", "getTwo_lock", "getTriple_lock", "empty_lock"} :
           at[u] = "idle" /\ Goto(u, b)
    BY <1>9 DEF CallInit, CallOther, Enter
  <2>2. committed' = committed /\ inside' = inside
    BY <1>6, <2>1
  <2>3. QED
    BY <1>1, <1>7, <1>9, <2>2 DEF CallInit, CallOther, shared, Pairs
<1>10. ASSUME NEW u \in Threads, CallPopulate(u) PROVE OvershootInv'
  <2>1. at[u] = "idle" /\ Goto(u, "populate_lock")
    BY <1>10 DEF CallPopulate, Enter
  <2>2. committed' = committed + 1 /\ inside' = inside + 1
    BY <1>6, <2>1
  <2>3. /\ populateCalls' = populateCalls + 1 /\ Len(Pairs)' = Len(Pairs)
        /\ UNCHANGED << max, peakMax, tornReads >>
    BY <1>10 DEF CallPopulate, shared, Pairs
  <2>4. QED
    BY <1>1, <1>3, <1>4, <1>5, <2>2, <2>3
<1>11. ASSUME NEW u \in Threads, stop_populate(u) PROVE OvershootInv'
  <2>1. at[u] = "idle" /\ Goto(u, "idle")
    BY <1>11 DEF stop_populate, Enter
  <2>2. committed' = committed /\ inside' = inside
    BY <1>6, <2>1
  <2>3. QED
    BY <1>1, <1>7, <1>11, <2>2 DEF stop_populate, Pairs
<1>12. ASSUME NEW u \in Threads, Lock(u) PROVE OvershootInv'
  <2>1. PICK step \in LockThen : at[u] = step[1] /\ Goto(u, step[2])
    BY <1>12 DEF Lock
  <2>2. /\ step[2] \in Steps
        /\ step[1] \in CommittedSteps <=> step[2] \in CommittedSteps
        /\ step[1] \in PopulateSteps <=> step[2] \in PopulateSteps
    BY DEF LockThen
  <2>3. committed' = committed /\ inside' = inside
    BY <1>6, <2>1, <2>2
  <2>4. QED
    BY <1>1, <1>7, <1>12, <2>3 DEF Lock, bounds, Pairs
<1>13. ASSUME NEW u \in Threads, init(u) PROVE OvershootInv'
  <2>1. at[u] = "init_body" /\ Goto(u, "idle")
    BY <1>13 DEF init, UnlockAndGoto
  <2>2. committed' = committed /\ inside' = inside
    BY <1>6, <2>1
  <2>3. /\ peakMax' = IF max' > peakMax THEN max' ELSE peakMax
        /\ Len(Pairs)' = Len(Pairs)
        /\ UNCHANGED << populateCalls, tornReads >>
    BY <1>13 DEF init, Pairs
  <2>4. QED
    BY <1>1, <1>2, <1>4, <1>5, <2>2, <2>3
<1>14. ASSUME NEW u \in Threads, populate_check(u) PROVE OvershootInv'
  <2>1. /\ at[u] = "populate_check"
        /\ Goto(u, "populate_push") \/ Goto(u, "idle")
    BY <1>14 DEF populate_check, OnStopped, UnlockAndGoto
  <2>2. committed' <= committed /\ inside' <= inside
    BY <1>1, <1>6, <2>1
  <2>3. QED
    BY <1>1, <1>7, <1>14, <2>2 DEF populate_check, bounds, Pairs
<1>15. ASSUME NEW u \in Threads, populate_push(u) PROVE OvershootInv'
  <2>1. at[u] = "populate_push" /\ Goto(u, "populate_contest")
    BY <1>15 DEF populate_push
  <2>2. committed' = committed - 1 /\ inside' = inside
    BY <1>6, <2>1
  <2>3. Len(Pairs)' = Len(Pairs) + 1
    BY <1>15, AppendProperties DEF populate_push, Push, Pairs, TypeInv, TypeOK
  <2>4. UNCHANGED << max, peakMax, populateCalls, tornReads >>
    BY <1>15 DEF populate_push, bounds
  <2>5. QED
    BY <1>1, <1>3, <1>4, <1>5, <2>2, <2>3, <2>4
<1>16. ASSUME NEW u \in Threads, populate_contest(u) PROVE OvershootInv'
  <2>1. at[u] = "populate_contest" /\ Goto(u, "populate_test")
    BY <1>16 DEF populate_contest, UnlockAndGoto
  <2>2. committed' = committed /\ inside' = inside
    BY <1>6, <2>1
  <2>3. QED
    BY <1>1, <1>7, <1>16, <2>2 DEF populate_contest, bounds, Pairs
<1>17. ASSUME NEW u \in Threads, populate_test(u) PROVE OvershootInv'
  <2>1. /\ at[u] = "populate_test" /\ Len(Pairs)' = Len(Pairs)
        /\ UNCHANGED << max, peakMax, populateCalls >>
    BY <1>17 DEF populate_test, shared, Pairs
  <2>2. CASE Goto(u, "idle") /\ tornReads' \in {tornReads, tornReads + 1}
    <3>1. committed' = committed /\ inside' <= inside
      BY <1>1, <1>6, <2>1, <2>2
    <3>2. QED
      BY <1>1, <1>3, <1>4, <1>5, <2>1, <2>2, <3>1
  <2>3. CASE Goto(u, "populate_lock") /\ tornReads' = tornReads + 1
    <3>1. committed' = committed + 1 /\ inside' = inside
      BY <1>6, <2>1, <2>3
    <3>2. QED
      BY <1>1, <1>3, <1>4, <1>5, <2>1, <2>3, <3>1
  <2>4. CASE Goto(u, "populate_lock") /\ NotFull /\ tornReads' = tornReads
    <3>1. committed' = committed + 1 /\ inside' = inside
      BY <1>6, <2>1, <2>4
    <3>2. Len(Pairs) < max
      BY <2>4 DEF NotFull, Pairs
    <3>3. QED
      BY <1>1, <1>3, <1>4, <1>5, <2>1, <2>4, <3>1, <3>2
  <2>5. QED
    BY <1>17, <2>2, <2>3, <2>4 DEF populate_test
<1>18. ASSUME NEW u \in Threads, getTwo_front(u) PROVE OvershootInv'
  <2>1. /\ at[u] = "getTwo_front"
        /\ Goto(u, "idle") \/ Goto(u, "getTwo_pop")
    BY <1>18 DEF getTwo_front, UnlockAndGoto
  <2>2. committed' = committed /\ inside' = inside
    BY <1>6, <2>1
  <2>3. Len(Pairs)' = Len(Pairs)
    <3>1. Pairs # << >> => Len(MoveFront(Pairs)) = Len(Pairs)
      BY ExceptSeq, EmptySeq DEF MoveFront, TypeInv, TypeOK, Pairs
    <3>2. QED
      BY <1>18, <3>1 DEF getTwo_front, Pairs
  <2>4. QED
    BY <1>1, <1>7, <1>18, <2>2, <2>3 DEF getTwo_front, bounds
<1>19. ASSUME NEW u \in Threads, getTwo_pop(u) PROVE OvershootInv'
  <2>1. at[u] = "getTwo_pop" /\ Goto(u, "idle")
    BY <1>19 DEF getTwo_pop, UnlockAndGoto
  <2>2. committed' = committed /\ inside' = inside
    BY <1>6, <2>1
  <2>3. Len(Pairs)' <= Len(Pairs)
    <3>1. Len(Pop(Pairs)) = IF Len(Pairs) = 0 THEN 0 ELSE Len(Pairs) - 1
      BY PopProperties DEF TypeInv, TypeOK, Pairs
    <3>2. QED
      BY <1>1, <1>19, <3>1 DEF getTwo_pop, Pairs
  <2>4. QED
    BY <1>1, <1>7, <1>19, <2>2, <2>3 DEF getTwo_pop, bounds
<1>20. ASSUME NEW u \in Threads, getTriple_front(u) \/ getTriple_pop(u)
       PROVE  OvershootInv'
  <2>1. /\ at[u] \in {"getTriple_front", "getTriple_pop"}
        /\ Goto(u, "idle") \/ Goto(u, "getTriple_pop")
    BY <1>20 DEF getTriple_front, getTriple_pop, UnlockAndGoto
  <2>2. committed' = committed /\ inside' = inside
    BY <1>6, <2>1
  <2>3. QED
    BY <1>1, <1>7, <1>20, <2>2 DEF getTriple_front, getTriple_pop, bounds, Pairs
<1>21. ASSUME NEW u \in Threads, empty_triples(u) \/ empty_pairs(u)
       PROVE  OvershootInv'
  <2>1. /\ at[u] \in {"empty_triples", "empty_pairs"}
        /\ Goto(u, "empty_pairs") \/ Goto(u, "idle")
    BY <1>21 DEF empty_triples, empty_pairs, UnlockAndGoto
  <2>2. committed' = committed /\ inside' = inside
    BY <1>6, <2>1
  <2>3. Len(Pairs)' <= Len(Pairs)
    <3>1. Len(<< >>) = 0
      OBVIOUS
    <3>2. Pairs' = Pairs \/ Pairs' = << >>
      BY <1>21 DEF empty_triples, empty_pairs, Pairs
    <3>3. QED
      BY <1>1, <3>1, <3>2
  <2>4. QED
    BY <1>7, <1>21, <2>2, <2>3, <1>1 DEF empty_triples, empty_pairs, bounds
<1>22. CASE Quiescent
  BY <1>8, <1>22 DEF Quiescent
<1>23. QED
  BY <1>8, <1>9, <1>10, <1>11, <1>12, <1>13, <1>14, <1>15, <1>16, <1>17, <1>18,
     <1>19, <1>20, <1>21, <1>22 DEF Next, Call, Run

\* populate overshoots max by less than the number of its calls and torn reads.
THEOREM OvershootIsBounded == Spec => []OvershootBounded
<1>1. Init => TypeInv /\ OvershootInv
  BY TypeInit, OvershootInit
<1>2. TypeInv /\ OvershootInv /\ [Next]_vars => (TypeInv /\ OvershootInv)'
  BY TypeStep, OvershootStep
<1>3. TypeInv /\ OvershootInv => OvershootBounded
  <2> SUFFICES ASSUME TypeInv, OvershootInv PROVE OvershootBounded
    OBVIOUS
  <2>1. /\ Count(at, CommittedSteps) \in Nat /\ Len(Pairs) \in Nat
        /\ peakMax \in Nat /\ populateCalls \in Nat /\ tornReads \in Nat
    BY CountNat DEF TypeInv, TypeOK, Pairs
  <2>2. Len(Pairs) + Count(at, CommittedSteps) < peakMax + populateCalls + tornReads
    BY DEF OvershootInv
  <2>3. QED
    BY <2>1, <2>2 DEF OvershootBounded
<1>4. QED
  BY <1>1, <1>2, <1>3, PTL DEF Spec

----------------------------------------------------------------------------
(* The values.  A line is what the getters of one queue returned, followed *)
(* by what the queue still holds: its exponents increase, and all of them  *)
(* are below the next one to be drawn.                                     *)

Line(s, q, n) ==
    /\ \A i, j \in 1..Len(s) : i < j => s[i].exp < s[j].exp
    /\ \A i, j \in 1..Len(q) :
          i < j /\ q[i] # Null /\ q[j] # Null => q[i].exp < q[j].exp
    /\ \A i \in 1..Len(s), j \in 1..Len(q) : q[j] # Null => s[i].exp < q[j].exp
    /\ \A i \in 1..Len(s) : s[i].exp < n
    /\ \A j \in 1..Len(q) : q[j] # Null => q[j].exp < n

\* Pushing a value that is new.
LEMMA PushLine ==
    ASSUME NEW s \in Seq(Item), NEW q \in Seq(Item \cup {Null}),
           NEW n \in Nat, NEW m \in Nat, NEW v \in Item,
           Line(s, q, n), n <= v.exp, v.exp < m
    PROVE  Line(s, Push(q, v), m)
<1>1. v.exp \in Nat
  BY DEF Item
<1>2. /\ \A i \in 1..Len(s) : s[i].exp \in Nat
      /\ \A j \in 1..Len(q) : q[j] # Null => q[j].exp \in Nat
  <2>1. /\ \A i \in 1..Len(s) : s[i] \in Item
        /\ \A j \in 1..Len(q) : q[j] # Null => q[j] \in Item
    OBVIOUS
  <2>2. \A w \in Item : w.exp \in Nat
    BY DEF Item
  <2>3. QED
    BY <2>1, <2>2
<1>3. /\ Len(Push(q, v)) = Len(q) + 1
      /\ \A j \in 1..Len(q) : Push(q, v)[j] = q[j]
      /\ Push(q, v)[Len(q) + 1] = v
  BY AppendProperties DEF Push
<1>4. \A j \in 1..Len(Push(q, v)) :
         \/ j \in 1..Len(q) /\ Push(q, v)[j] = q[j]
         \/ j = Len(q) + 1 /\ Push(q, v)[j] = v
  BY <1>3
<1>5. /\ \A i \in 1..Len(s) : s[i].exp < v.exp
      /\ \A j \in 1..Len(q) : q[j] # Null => q[j].exp < v.exp
  <2>1. /\ \A i \in 1..Len(s) : s[i].exp < n
        /\ \A j \in 1..Len(q) : q[j] # Null => q[j].exp < n
    BY DEF Line
  <2>2. \A e \in Nat : e < n => e < v.exp
    BY <1>1
  <2>3. QED
    BY <1>2, <2>1, <2>2
<1>6. \A i, j \in 1..Len(Push(q, v)) :
         i < j /\ Push(q, v)[i] # Null /\ Push(q, v)[j] # Null
            => Push(q, v)[i].exp < Push(q, v)[j].exp
  BY <1>4, <1>5 DEF Line
<1>7. \A i \in 1..Len(s), j \in 1..Len(Push(q, v)) :
         Push(q, v)[j] # Null => s[i].exp < Push(q, v)[j].exp
  BY <1>4, <1>5 DEF Line
<1>8. /\ \A i \in 1..Len(s) : s[i].exp < m
      /\ \A j \in 1..Len(q) : q[j] # Null => q[j].exp < m
  <2>1. \A e \in Nat : e < v.exp => e < m
    BY <1>1
  <2>2. QED
    BY <1>2, <1>5, <2>1
<1>9. \A j \in 1..Len(Push(q, v)) : Push(q, v)[j] # Null => Push(q, v)[j].exp < m
  BY <1>4, <1>8
<1>10. QED
  BY <1>6, <1>7, <1>8, <1>9 DEF Line

\* Moving the front value out of the queue, to the caller.
LEMMA MoveLine ==
    ASSUME NEW s \in Seq(Item), NEW q \in Seq(Item \cup {Null}), NEW n \in Nat,
           Line(s, q, n), q # << >>, Head(q) # Null
    PROVE  Line(Append(s, Head(q)), MoveFront(q), n)
<1>1. 1 \in 1..Len(q) /\ Head(q) = q[1] /\ q[1] \in Item
  BY EmptySeq
<1>2. /\ Len(Append(s, Head(q))) = Len(s) + 1
      /\ \A i \in 1..Len(s) : Append(s, Head(q))[i] = s[i]
      /\ Append(s, Head(q))[Len(s) + 1] = q[1]
  BY <1>1, AppendProperties
<1>3. /\ Len(MoveFront(q)) = Len(q)
      /\ MoveFront(q)[1] = Null
      /\ \A j \in 2..Len(q) : MoveFront(q)[j] = q[j]
  BY <1>1, ExceptSeq DEF MoveFront
<1>4. QED
  BY <1>1, <1>2, <1>3 DEF Line

\* Popping, and emptying, take values away.
LEMMA PopLine ==
    ASSUME NEW s \in Seq(Item), NEW q \in Seq(Item \cup {Null}), NEW n \in Nat,
           Line(s, q, n)
    PROVE  Line(s, Pop(q), n) /\ Line(s, << >>, n)
<1>1. /\ Len(Pop(q)) = IF Len(q) = 0 THEN 0 ELSE Len(q) - 1
      /\ \A i \in 1..Len(Pop(q)) : Pop(q)[i] = q[i + 1]
  BY PopProperties
<1>2. \A i \in 1..Len(Pop(q)) : i \in 1..Len(q) /\ i + 1 \in 1..Len(q)
  BY <1>1
<1>3. Line(s, Pop(q), n)
  <2>1. \A i, j \in 1..Len(Pop(q)) :
           i < j /\ Pop(q)[i] # Null /\ Pop(q)[j] # Null
              => Pop(q)[i].exp < Pop(q)[j].exp
    <3>1. \A i, j \in 1..Len(Pop(q)) : i < j => i + 1 < j + 1
      OBVIOUS
    <3>2. QED
      BY <1>1, <1>2, <3>1 DEF Line
  <2>2. \A i \in 1..Len(s), j \in 1..Len(Pop(q)) :
           Pop(q)[j] # Null => s[i].exp < Pop(q)[j].exp
    BY <1>1, <1>2 DEF Line
  <2>3. \A j \in 1..Len(Pop(q)) : Pop(q)[j] # Null => Pop(q)[j].exp < n
    BY <1>1, <1>2 DEF Line
  <2>4. QED
    BY <2>1, <2>2, <2>3 DEF Line
<1>4. Len(<< >>) = 0 /\ \A i \in 1..0 : FALSE
  OBVIOUS
<1>5. Line(s, << >>, n)
  BY <1>4 DEF Line
<1>6. QED
  BY <1>3, <1>5

\* What each operation does to the contents of a queue.
LEMMA ContentsPush ==
    ASSUME NEW q \in Seq(Item \cup {Null}), NEW v \in Item
    PROVE  Contents(Push(q, v)) = Contents(q) \cup {v}
<1>1. /\ Len(Push(q, v)) = Len(q) + 1
      /\ \A j \in 1..Len(q) : Push(q, v)[j] = q[j]
      /\ Push(q, v)[Len(q) + 1] = v
  BY AppendProperties DEF Push
<1>2. v # Null
  BY PrecomputeAssumption
<1>3. \A j \in 1..(Len(q) + 1) : j \in 1..Len(q) \/ j = Len(q) + 1
  OBVIOUS
<1>4. \A j \in 1..Len(q) : j \in 1..(Len(q) + 1)
  OBVIOUS
<1>5. Len(q) + 1 \in 1..(Len(q) + 1)
  OBVIOUS
<1>6. QED
  BY <1>1, <1>2, <1>3, <1>4, <1>5 DEF Contents

LEMMA ContentsMove ==
    ASSUME NEW s, NEW q \in Seq(Item \cup {Null}), NEW n \in Nat,
           Line(s, q, n), q # << >>
    PROVE  Contents(MoveFront(q)) = Contents(q) \ {Head(q)}
<1>1. 1 \in 1..Len(q) /\ Head(q) = q[1]
  BY EmptySeq
<1>2. /\ Len(MoveFront(q)) = Len(q)
      /\ MoveFront(q)[1] = Null
      /\ \A j \in 2..Len(q) : MoveFront(q)[j] = q[j]
  BY <1>1, ExceptSeq DEF MoveFront
<1>3. \A j \in 2..Len(q) : q[j] # Null => q[j] # q[1]
  <2> SUFFICES ASSUME NEW j \in 2..Len(q), q[j] # Null, q[j] = q[1]
               PROVE FALSE
    OBVIOUS
  <2>1. q[j] \in Item
    OBVIOUS
  <2>2. q[1].exp < q[j].exp
    BY <1>1 DEF Line
  <2>3. QED
    BY <2>1, <2>2 DEF Item
<1>4. \A j \in 1..Len(q) : j = 1 \/ j \in 2..Len(q)
  OBVIOUS
<1>5. \A j \in 2..Len(q) : j \in 1..Len(q)
  OBVIOUS
<1>6. QED
  BY <1>1, <1>2, <1>3, <1>4, <1>5 DEF Contents

LEMMA ContentsPop ==
    ASSUME NEW q \in Seq(Item \cup {Null})
    PROVE  /\ Contents(Pop(q)) \subseteq Contents(q)
           /\ q # << >> /\ Head(q) = Null => Contents(Pop(q)) = Contents(q)
<1>1. /\ Len(Pop(q)) = IF Len(q) = 0 THEN 0 ELSE Len(q) - 1
      /\ \A i \in 1..Len(Pop(q)) : Pop(q)[i] = q[i + 1]
  BY PopProperties
<1>2. Contents(Pop(q)) \subseteq Contents(q)
  BY <1>1 DEF Contents
<1>3. ASSUME q # << >>, Head(q) = Null
      PROVE  Contents(q) \subseteq Contents(Pop(q))
  <2> SUFFICES ASSUME NEW i \in 1..Len(q), q[i] # Null
               PROVE  \E k \in 1..Len(Pop(q)) : Pop(q)[k] = q[i]
    BY DEF Contents
  <2>1. q[1] = Null
    BY <1>3
  <2>2. i - 1 \in 1..Len(Pop(q)) /\ (i - 1) + 1 = i
    BY <1>1, <2>1
  <2>3. Pop(q)[i - 1] = q[i]
    BY <1>1, <2>2
  <2>4. QED
    BY <2>2, <2>3
<1>4. QED
  BY <1>2, <1>3

LEMMA ContentsAppend ==
    ASSUME NEW s \in Seq(Item), NEW v \in Item
    PROVE  Contents(Append(s, v)) = Contents(s) \cup {v}
  BY ContentsPush DEF Push

LEMMA ContentsItem ==
    ASSUME NEW q \in Seq(Item \cup {Null})
    PROVE  \A v \in Contents(q) : v \in Item /\ v.exp \in Nat
  BY DEF Contents, Item

LEMMA LineGrows ==
    ASSUME NEW s \in Seq(Item), NEW q \in Seq(Item \cup {Null}),
           NEW n \in Nat, NEW m \in Nat, Line(s, q, n), n <= m
    PROVE  Line(s, q, m)
<1>1. /\ \A i \in 1..Len(s) : s[i] \in Item
      /\ \A j \in 1..Len(q) : q[j] # Null => q[j] \in Item
  OBVIOUS
<1>2. \A v \in Item : v.exp \in Nat
  BY DEF Item
<1>3. \A e \in Nat : e < n => e < m
  OBVIOUS
<1>4. /\ \A i \in 1..Len(s) : s[i].exp < n
      /\ \A j \in 1..Len(q) : q[j] # Null => q[j].exp < n
  BY DEF Line
<1>5. /\ \A i \in 1..Len(s) : s[i].exp < m
      /\ \A j \in 1..Len(q) : q[j] # Null => q[j].exp < m
  BY <1>1, <1>2, <1>3, <1>4
<1>6. QED
  BY <1>5 DEF Line

\* The values of a line are items below the bound, and the ones the getter
\* returned are not the ones in the queue.
LEMMA LineValues ==
    ASSUME NEW s \in Seq(Item), NEW q \in Seq(Item \cup {Null}),
           NEW n \in Nat, Line(s, q, n)
    PROVE  /\ \A v \in Contents(s) \cup Contents(q) :
                 v \in Item /\ v.exp \in Nat /\ v.exp < n
           /\ \A v \in Contents(s), w \in Contents(q) : v.exp < w.exp
<1>1. /\ \A i \in 1..Len(s) : s[i] \in Item
      /\ \A j \in 1..Len(q) : q[j] # Null => q[j] \in Item
  OBVIOUS
<1>2. \A v \in Item : v.exp \in Nat
  BY DEF Item
<1>3. /\ \A i \in 1..Len(s) : s[i].exp < n
      /\ \A j \in 1..Len(q) : q[j] # Null => q[j].exp < n
      /\ \A i \in 1..Len(s), j \in 1..Len(q) : q[j] # Null => s[i].exp < q[j].exp
  BY DEF Line
<1>4. /\ \A v \in Contents(s) : \E i \in 1..Len(s) : v = s[i]
      /\ \A v \in Contents(q) : v # Null /\ \E j \in 1..Len(q) : v = q[j]
  BY DEF Contents
<1>5. QED
  BY <1>1, <1>2, <1>3, <1>4

-----------------------------------------------------------------------------
(* The invariant.                                                          *)

PairValues == Contents(takenPairs) \cup Contents(Pairs)
TripleValues == Contents(takenTriples) \cup Contents(triple_queue)

Apart(S, T) == \A v \in S, w \in T : v.exp # w.exp

ValueInv ==
    /\ Line(takenPairs, Pairs, nextExp)
    /\ Line(takenTriples, triple_queue, nextExp)
    /\ Apart(PairValues, TripleValues)
    /\ Apart(discarded, PairValues) /\ Apart(discarded, TripleValues)
    /\ \A v \in discarded : v.exp < nextExp

\* A pop drops the null that the move before it left.
NullInv ==
    \A t \in Threads :
       /\ at[t] = "getTwo_pop" => Head(Pairs) = Null
       /\ at[t] = "getTriple_pop" => Head(triple_queue) = Null

PoolInv == TypeInv /\ ValueInv /\ NullInv

LEMMA PoolInit == Init => PoolInv
<1> SUFFICES ASSUME Init PROVE PoolInv
  OBVIOUS
<1>1. /\ Pairs = << >> /\ triple_queue = << >> /\ takenPairs = << >>
      /\ takenTriples = << >> /\ discarded = {}
  BY DEF Init, Pairs
<1>2. Line(<< >>, << >>, nextExp)
  <2>1. Len(<< >>) = 0 /\ \A i \in 1..0 : FALSE
    OBVIOUS
  <2>2. QED
    BY <2>1 DEF Line
<1>3. Contents(<< >>) = {}
  <2>1. Len(<< >>) = 0 /\ 1..0 = {}
    OBVIOUS
  <2>2. QED
    BY <2>1 DEF Contents
<1>4. ValueInv
  BY <1>1, <1>2, <1>3 DEF ValueInv, PairValues, TripleValues, Apart
<1>5. NullInv
  BY DEF Init, NullInv
<1>6. QED
  BY <1>4, <1>5, TypeInit DEF PoolInv

LEMMA NullStep == TypeInv /\ NullInv /\ [Next]_vars => NullInv'
<1> SUFFICES ASSUME TypeInv, NullInv, [Next]_vars PROVE NullInv'
  OBVIOUS
<1> USE PrecomputeAssumption
    DEF TypeInv, TypeOK, LockOwner, NullInv, Steps, LockSteps, CriticalSteps,
        Goto, UnlockAndGoto, Enter, Pairs
\* The queues stay, and nobody gets to a pop.
<1>1. ASSUME UNCHANGED << Pairs, triple_queue >>,
             \A t \in Threads : at'[t] \in {"getTwo_pop", "getTriple_pop"}
                                   => at'[t] = at[t]
      PROVE  NullInv'
  BY <1>1
\* Nobody is at a pop afterwards.
<1>2. ASSUME \A t \in Threads : at'[t] \notin {"getTwo_pop", "getTriple_pop"}
      PROVE  NullInv'
  BY <1>2
<1>3. CASE UNCHANGED vars
  BY <1>1, <1>3 DEF vars, shared, local
<1>4. ASSUME NEW u \in Threads, Call(u) PROVE NullInv'
  BY <1>1, <1>4 DEF Call, CallInit, CallPopulate, CallOther, stop_populate, shared
<1>5. ASSUME NEW u \in Threads, Lock(u) PROVE NullInv'
  BY <1>1, <1>5 DEF Lock, LockThen
<1>6. ASSUME NEW u \in Threads, init(u) \/ populate_check(u) \/ populate_test(u)
      PROVE  NullInv'
  BY <1>1, <1>6 DEF init, populate_check, OnStopped, populate_test, shared
<1>7. ASSUME NEW u \in Threads, populate_push(u) \/ populate_contest(u)
      PROVE  NullInv'
  BY <1>2, <1>7 DEF populate_push, populate_contest
<1>8. ASSUME NEW u \in Threads, getTwo_front(u) PROVE NullInv'
  <2>1. Pairs # << >> => Head(MoveFront(Pairs)) = Null
    BY EmptySeq, ExceptSeq DEF MoveFront
  <2>2. QED
    BY <1>8, <2>1 DEF getTwo_front
<1>9. ASSUME NEW u \in Threads, getTriple_front(u) PROVE NullInv'
  <2>1. triple_queue # << >> => Head(MoveFront(triple_queue)) = Null
    BY EmptySeq, ExceptSeq DEF MoveFront
  <2>2. QED
    BY <1>9, <2>1 DEF getTriple_front
<1>10. ASSUME NEW u \in Threads, getTwo_pop(u) \/ getTriple_pop(u)
       PROVE  NullInv'
  BY <1>2, <1>10 DEF getTwo_pop, getTriple_pop
<1>11. ASSUME NEW u \in Threads, empty_triples(u) \/ empty_pairs(u)
       PROVE  NullInv'
  BY <1>2, <1>11 DEF empty_triples, empty_pairs
<1>12. CASE Quiescent
  BY <1>1, <1>12 DEF Quiescent, vars, shared, local
<1> HIDE DEF TypeInv, NullInv
<1>13. QED
  BY <1>3, <1>4, <1>5, <1>6, <1>7, <1>8, <1>9, <1>10, <1>11, <1>12
     DEF Next, Run

\* The values that were there stay apart from each other: a step that draws
\* nothing and takes no value from one side to the other.
LEMMA ValueFrame ==
    ASSUME ValueInv, nextExp' = nextExp, discarded' = discarded,
           Line(takenPairs, Pairs, nextExp)', Line(takenTriples, triple_queue, nextExp)',
           PairValues' \subseteq PairValues, TripleValues' \subseteq TripleValues
    PROVE  ValueInv'
  BY DEF ValueInv, Apart

\* What a thread draws is new.
LEMMA FreshItem ==
    ASSUME TypeOK, NEW u \in Threads, arg[u] \in Keys, NEW n \in Nat
    PROVE  Fresh(u, n) \in Item /\ Fresh(u, n).exp = nextExp + n
  BY DEF TypeOK, Fresh, Item

LEMMA ValueStep == TypeInv /\ ValueInv /\ [Next]_vars => ValueInv'
<1> SUFFICES ASSUME TypeInv, ValueInv, [Next]_vars PROVE ValueInv'
  OBVIOUS
<1> USE DEF Goto, UnlockAndGoto, Enter
<1>1. /\ Pairs \in Seq(Item \cup {Null}) /\ triple_queue \in Seq(Item \cup {Null})
      /\ takenPairs \in Seq(Item) /\ takenTriples \in Seq(Item)
      /\ nextExp \in Nat
  BY DEF TypeInv, TypeOK, Pairs
<1>2. /\ Line(takenPairs, Pairs, nextExp)
      /\ Line(takenTriples, triple_queue, nextExp)
  BY DEF ValueInv
<1>3. /\ \A v \in PairValues : v \in Item /\ v.exp \in Nat /\ v.exp < nextExp
      /\ \A v \in TripleValues : v \in Item /\ v.exp \in Nat /\ v.exp < nextExp
  BY <1>1, <1>2, LineValues DEF PairValues, TripleValues
<1>4. discarded \subseteq Item /\ \A v \in discarded : v.exp \in Nat /\ v.exp < nextExp
  BY DEF TypeInv, TypeOK, ValueInv, Item
<1>5. ASSUME UNCHANGED << Pairs, triple_queue, takenPairs, takenTriples, discarded,
                          nextExp >>
      PROVE  ValueInv'
  BY <1>5 DEF ValueInv, Line, PairValues, TripleValues, Contents, Apart
<1>0. /\ PairValues' = Contents(takenPairs') \cup Contents(Pairs')
      /\ TripleValues' = Contents(takenTriples') \cup Contents(triple_queue')
  BY DEF PairValues, TripleValues, Contents
<1>6. CASE UNCHANGED vars
  BY <1>5, <1>6 DEF vars, shared, taken, Pairs
<1>7. ASSUME NEW u \in Threads, Call(u) PROVE ValueInv'
  BY <1>5, <1>7 DEF Call, CallInit, CallPopulate, CallOther, stop_populate,
     shared, taken, Pairs
<1>8. ASSUME NEW u \in Threads, Lock(u) \/ init(u) PROVE ValueInv'
  BY <1>5, <1>8 DEF Lock, init, taken, Pairs
<1>9. ASSUME NEW u \in Threads, populate_check(u) \/ populate_test(u)
      PROVE  ValueInv'
  BY <1>5, <1>9 DEF populate_check, OnStopped, populate_test, shared, taken, Pairs
<1>10. ASSUME NEW u \in Threads, populate_push(u) PROVE ValueInv'
  <2> DEFINE v == Fresh(u, 0)
  <2>1. /\ Pairs' = Push(Pairs, v) /\ nextExp' = nextExp + 1
        /\ UNCHANGED << triple_queue, takenPairs, takenTriples, discarded >>
    BY <1>10 DEF populate_push, taken, Pairs
  <2>2. v \in Item /\ v.exp = nextExp
    BY <1>1, <1>10, FreshItem DEF populate_push, TypeInv, ArgOK
  <2> HIDE DEF v
  <2>3. nextExp + 1 \in Nat /\ nextExp <= nextExp /\ nextExp < nextExp + 1
        /\ nextExp <= nextExp + 1
    BY <1>1
  <2>4. Line(takenPairs, Push(Pairs, v), nextExp + 1)
    BY <1>1, <1>2, <2>2, <2>3, PushLine
  <2>5. Line(takenTriples, triple_queue, nextExp + 1)
    BY <1>1, <1>2, <2>3, LineGrows
  <2>6. PairValues' = PairValues \cup {v} /\ TripleValues' = TripleValues
    <3>1. Contents(Push(Pairs, v)) = Contents(Pairs) \cup {v}
      BY <1>1, <2>2, ContentsPush
    <3>2. Contents(Pairs)' = Contents(Pairs) \cup {v}
      BY <2>1, <3>1 DEF Contents
    <3>3. /\ Contents(takenPairs)' = Contents(takenPairs)
          /\ Contents(takenTriples)' = Contents(takenTriples)
          /\ Contents(triple_queue)' = Contents(triple_queue)
      BY <2>1 DEF Contents
    <3>4. QED
      BY <3>2, <3>3 DEF PairValues, TripleValues
  <2>7. /\ \A w \in TripleValues : w.exp # v.exp
        /\ \A w \in discarded : w.exp # v.exp /\ w.exp < nextExp + 1
    BY <1>1, <1>3, <1>4, <2>2
  <2>8. Line(takenPairs, Pairs, nextExp)' /\ Line(takenTriples, triple_queue, nextExp)'
    BY <2>1, <2>4, <2>5 DEF Line
  <2>9. QED
    BY <2>1, <2>6, <2>7, <2>8 DEF ValueInv, Apart
<1>11. ASSUME NEW u \in Threads, populate_contest(u) PROVE ValueInv'
  <2>1. CASE iteration_count[u] # 0
    BY <1>5, <1>11, <2>1 DEF populate_contest, taken, Pairs
  <2>2. CASE iteration_count[u] = 0
    <3> DEFINE v == Fresh(u, 0)
               w == Fresh(u, 1)
    <3>1. /\ triple_queue' = Push(Push(triple_queue, v), w) /\ nextExp' = nextExp + 2
          /\ UNCHANGED << Pairs, takenPairs, takenTriples, discarded >>
      BY <1>11, <2>2 DEF populate_contest, taken, Pairs
    <3>2. v \in Item /\ v.exp = nextExp /\ w \in Item /\ w.exp = nextExp + 1
      <4>1. arg[u] \in Keys /\ TypeOK
        BY <1>11 DEF populate_contest, TypeInv, ArgOK
      <4>2. /\ Fresh(u, 0) \in Item /\ Fresh(u, 0).exp = nextExp + 0
            /\ Fresh(u, 1) \in Item /\ Fresh(u, 1).exp = nextExp + 1
        BY <4>1, FreshItem
      <4>3. QED
        BY <1>1, <4>2
    <3> HIDE DEF v, w
    <3>3. /\ nextExp + 1 \in Nat /\ nextExp + 2 \in Nat
          /\ nextExp <= nextExp /\ nextExp < nextExp + 1
          /\ nextExp + 1 <= nextExp + 1 /\ nextExp + 1 < nextExp + 2
          /\ nextExp <= nextExp + 2
      BY <1>1
    <3>4. /\ Push(triple_queue, v) \in Seq(Item \cup {Null})
          /\ Line(takenTriples, Push(triple_queue, v), nextExp + 1)
      BY <1>1, <1>2, <3>2, <3>3, PushLine, AppendProperties DEF Push
    <3>5. Line(takenTriples, Push(Push(triple_queue, v), w), nextExp + 2)
      BY <1>1, <3>2, <3>3, <3>4, PushLine
    <3>6. Line(takenPairs, Pairs, nextExp + 2)
      BY <1>1, <1>2, <3>3, LineGrows
    <3>7. TripleValues' = TripleValues \cup {v, w}
      <4>1. Contents(Push(triple_queue, v)) = Contents(triple_queue) \cup {v}
        BY <1>1, <3>2, ContentsPush
      <4>2. Contents(Push(Push(triple_queue, v), w)) =
               Contents(Push(triple_queue, v)) \cup {w}
        BY <3>2, <3>4, ContentsPush
      <4>3. QED
        BY <1>0, <3>1, <4>1, <4>2 DEF TripleValues
    <3>8. PairValues' = PairValues
      BY <3>1 DEF PairValues, Contents
    <3>9. /\ \A x \in PairValues : x.exp # v.exp /\ x.exp # w.exp
          /\ \A x \in discarded : x.exp # v.exp /\ x.exp # w.exp /\ x.exp < nextExp + 2
      BY <1>1, <1>3, <1>4, <3>2
    <3>10. Line(takenPairs, Pairs, nextExp)' /\ Line(takenTriples, triple_queue, nextExp)'
      BY <3>1, <3>5, <3>6 DEF Line
    <3>11. QED
      BY <3>1, <3>7, <3>8, <3>9, <3>10 DEF ValueInv, Apart
  <2>3. QED
    BY <2>1, <2>2
<1>12. ASSUME NEW u \in Threads, getTwo_front(u) PROVE ValueInv'
  <2>1. CASE Pairs = << >>
    BY <1>5, <1>12, <2>1 DEF getTwo_front, Pairs
  <2>2. CASE Pairs # << >> /\ Head(Pairs) = Null
    <3>1. MoveFront(Pairs) = Pairs
      BY <1>1, <2>2, EmptySeq, ExceptSeq DEF MoveFront
    <3>2. QED
      BY <1>5, <1>12, <2>2, <3>1 DEF getTwo_front, Pairs
  <2>3. CASE Pairs # << >> /\ Head(Pairs) # Null
    <3>1. /\ Pairs' = MoveFront(Pairs)
          /\ takenPairs' = Append(takenPairs, Head(Pairs))
          /\ UNCHANGED << triple_queue, takenTriples, discarded, nextExp >>
      BY <1>12, <2>3 DEF getTwo_front, Pairs
    <3>2. Line(Append(takenPairs, Head(Pairs)), MoveFront(Pairs), nextExp)
      BY <1>1, <1>2, <2>3, MoveLine
    <3>3. Head(Pairs) \in Item /\ Head(Pairs) \in Contents(Pairs)
      BY <1>1, <2>3, EmptySeq DEF Contents
    <3>4. /\ Contents(MoveFront(Pairs)) = Contents(Pairs) \ {Head(Pairs)}
          /\ Contents(Append(takenPairs, Head(Pairs))) =
                Contents(takenPairs) \cup {Head(Pairs)}
      BY <1>1, <1>2, <2>3, <3>3, ContentsMove, ContentsAppend
    <3>5. PairValues' = PairValues /\ TripleValues' = TripleValues
      BY <1>0, <3>1, <3>3, <3>4 DEF PairValues, TripleValues
    <3>6. Line(takenPairs, Pairs, nextExp)' /\ Line(takenTriples, triple_queue, nextExp)'
      BY <1>2, <3>1, <3>2 DEF Line
    <3>7. QED
      BY <3>1, <3>5, <3>6, ValueFrame
  <2>4. QED
    BY <2>1, <2>2, <2>3
<1>13. ASSUME NEW u \in Threads, getTwo_pop(u) PROVE ValueInv'
  <2>1. /\ Pairs' = Pop(Pairs)
        /\ UNCHANGED << triple_queue, takenPairs, takenTriples, discarded, nextExp >>
    BY <1>13 DEF getTwo_pop, taken, Pairs
  <2>2. PairValues' \subseteq PairValues /\ TripleValues' = TripleValues
    BY <1>0, <1>1, <2>1, ContentsPop DEF PairValues, TripleValues
  <2>3. Line(takenPairs, Pop(Pairs), nextExp)
    BY <1>1, <1>2, PopLine
  <2>4. Line(takenPairs, Pairs, nextExp)' /\ Line(takenTriples, triple_queue, nextExp)'
    BY <1>2, <2>1, <2>3 DEF Line
  <2>5. QED
    BY <2>1, <2>2, <2>4, ValueFrame
<1>14. ASSUME NEW u \in Threads, getTriple_front(u) PROVE ValueInv'
  <2>1. CASE triple_queue = << >>
    BY <1>5, <1>14, <2>1 DEF getTriple_front, Pairs
  <2>2. CASE triple_queue # << >> /\ Head(triple_queue) = Null
    <3>1. MoveFront(triple_queue) = triple_queue
      BY <1>1, <2>2, EmptySeq, ExceptSeq DEF MoveFront
    <3>2. QED
      BY <1>5, <1>14, <2>2, <3>1 DEF getTriple_front, Pairs
  <2>3. CASE triple_queue # << >> /\ Head(triple_queue) # Null
    <3>1. /\ triple_queue' = MoveFront(triple_queue)
          /\ takenTriples' = Append(takenTriples, Head(triple_queue))
          /\ UNCHANGED << Pairs, takenPairs, discarded, nextExp >>
      BY <1>14, <2>3 DEF getTriple_front, Pairs
    <3>2. Line(Append(takenTriples, Head(triple_queue)), MoveFront(triple_queue), nextExp)
      BY <1>1, <1>2, <2>3, MoveLine
    <3>3. Head(triple_queue) \in Item /\ Head(triple_queue) \in Contents(triple_queue)
      BY <1>1, <2>3, EmptySeq DEF Contents
    <3>4. /\ Contents(MoveFront(triple_queue)) =
                Contents(triple_queue) \ {Head(triple_queue)}
          /\ Contents(Append(takenTriples, Head(triple_queue))) =
                Contents(takenTriples) \cup {Head(triple_queue)}
      BY <1>1, <1>2, <2>3, <3>3, ContentsMove, ContentsAppend
    <3>5. PairValues' = PairValues /\ TripleValues' = TripleValues
      BY <1>0, <3>1, <3>3, <3>4 DEF PairValues, TripleValues
    <3>6. Line(takenPairs, Pairs, nextExp)' /\ Line(takenTriples, triple_queue, nextExp)'
      BY <1>2, <3>1, <3>2 DEF Line
    <3>7. QED
      BY <3>1, <3>5, <3>6, ValueFrame
  <2>4. QED
    BY <2>1, <2>2, <2>3
<1>15. ASSUME NEW u \in Threads, getTriple_pop(u) PROVE ValueInv'
  <2>1. /\ triple_queue' = Pop(triple_queue)
        /\ UNCHANGED << Pairs, takenPairs, takenTriples, discarded, nextExp >>
    BY <1>15 DEF getTriple_pop, taken, Pairs
  <2>2. TripleValues' \subseteq TripleValues /\ PairValues' = PairValues
    BY <1>0, <1>1, <2>1, ContentsPop DEF PairValues, TripleValues
  <2>3. Line(takenTriples, Pop(triple_queue), nextExp)
    BY <1>1, <1>2, PopLine
  <2>4. Line(takenPairs, Pairs, nextExp)' /\ Line(takenTriples, triple_queue, nextExp)'
    BY <1>2, <2>1, <2>3 DEF Line
  <2>5. QED
    BY <2>1, <2>2, <2>4, ValueFrame
<1>16. Contents(<< >>) = {}
  <2>1. Len(<< >>) = 0 /\ 1..0 = {}
    OBVIOUS
  <2>2. QED
    BY <2>1 DEF Contents
<1>17. ASSUME NEW u \in Threads, empty_triples(u) PROVE ValueInv'
  <2>1. /\ triple_queue' = << >> /\ discarded' = discarded \cup Contents(triple_queue)
        /\ UNCHANGED << Pairs, takenPairs, takenTriples, nextExp >>
    BY <1>17 DEF empty_triples, Pairs
  <2>2. TripleValues' = Contents(takenTriples) /\ PairValues' = PairValues
    BY <1>16, <2>1 DEF PairValues, TripleValues, Contents
  <2>3. Apart(Contents(triple_queue), Contents(takenTriples))
    <3>1. /\ \A v \in Contents(takenTriples) : v.exp \in Nat
          /\ \A v \in Contents(triple_queue) : v.exp \in Nat
          /\ \A v \in Contents(takenTriples), w \in Contents(triple_queue) : v.exp < w.exp
      BY <1>1, <1>2, LineValues
    <3>2. QED
      BY <3>1 DEF Apart
  <2>4. Apart(Contents(triple_queue), PairValues)
    BY DEF ValueInv, Apart, TripleValues
  <2>5. Line(takenTriples, << >>, nextExp)
    BY <1>1, <1>2, PopLine
  <2>6. Line(takenPairs, Pairs, nextExp)' /\ Line(takenTriples, triple_queue, nextExp)'
    BY <1>2, <2>1, <2>5 DEF Line
  <2>7. /\ Apart(PairValues, TripleValues)'
        /\ Apart(discarded, PairValues)' /\ Apart(discarded, TripleValues)'
    BY <2>1, <2>2, <2>3, <2>4 DEF ValueInv, Apart, TripleValues
  <2>8. (\A v \in discarded : v.exp < nextExp)'
    BY <1>3, <1>4, <2>1 DEF TripleValues
  <2>9. QED
    BY <2>6, <2>7, <2>8 DEF ValueInv
<1>18. ASSUME NEW u \in Threads, empty_pairs(u) PROVE ValueInv'
  <2>1. /\ Pairs' = << >> /\ discarded' = discarded \cup Contents(Pairs)
        /\ UNCHANGED << triple_queue, takenPairs, takenTriples, nextExp >>
    BY <1>18 DEF empty_pairs, Pairs
  <2>2. PairValues' = Contents(takenPairs) /\ TripleValues' = TripleValues
    BY <1>16, <2>1 DEF PairValues, TripleValues, Contents
  <2>3. Apart(Contents(Pairs), Contents(takenPairs))
    <3>1. /\ \A v \in Contents(takenPairs) : v.exp \in Nat
          /\ \A v \in Contents(Pairs) : v.exp \in Nat
          /\ \A v \in Contents(takenPairs), w \in Contents(Pairs) : v.exp < w.exp
      BY <1>1, <1>2, LineValues
    <3>2. QED
      BY <3>1 DEF Apart
  <2>4. Apart(Contents(Pairs), TripleValues)
    BY DEF ValueInv, Apart, PairValues
  <2>5. Line(takenPairs, << >>, nextExp)
    BY <1>1, <1>2, PopLine
  <2>6. Line(takenPairs, Pairs, nextExp)' /\ Line(takenTriples, triple_queue, nextExp)'
    BY <1>2, <2>1, <2>5 DEF Line
  <2>7. /\ Apart(PairValues, TripleValues)'
        /\ Apart(discarded, PairValues)' /\ Apart(discarded, TripleValues)'
    BY <2>1, <2>2, <2>3, <2>4 DEF ValueInv, Apart, PairValues
  <2>8. (\A v \in discarded : v.exp < nextExp)'
    BY <1>3, <1>4, <2>1 DEF PairValues
  <2>9. QED
    BY <2>6, <2>7, <2>8 DEF ValueInv
<1>19. CASE Quiescent
  BY <1>5, <1>19 DEF Quiescent, vars, shared, taken, Pairs
<1>20. QED
  BY <1>6, <1>7, <1>8, <1>9, <1>10, <1>11, <1>12, <1>13, <1>14, <1>15, <1>17,
     <1>18, <1>19 DEF Next, Run

LEMMA PoolStep == PoolInv /\ [Next]_vars => PoolInv'
  BY TypeStep, ValueStep, NullStep DEF PoolInv

LEMMA PoolInvariant == Spec => []PoolInv
  BY PoolInit, PoolStep, PTL DEF Spec

\* Nobody is given a precomputed value that someone else was given, by either
\* getter, or that is still in a queue or was thrown away.
THEOREM NoNonceReuse == Spec => []NoReuse
<1>1. PoolInv => NoReuse
  <2> SUFFICES ASSUME PoolInv PROVE NoReuse
    OBVIOUS
  <2>1. /\ Pairs \in Seq(Item \cup {Null}) /\ triple_queue \in Seq(Item \cup {Null})
        /\ takenPairs \in Seq(Item) /\ takenTriples \in Seq(Item)
        /\ nextExp \in Nat
    BY DEF PoolInv, TypeInv, TypeOK, Pairs
  <2>2. /\ Line(takenPairs, Pairs, nextExp)
        /\ Line(takenTriples, triple_queue, nextExp)
    BY DEF PoolInv, ValueInv
  <2>3. \A i, j \in 1..Len(takenPairs) : takenPairs[i].exp = takenPairs[j].exp => i = j
    <3>1. \A i \in 1..Len(takenPairs) : takenPairs[i] \in Item
      BY <2>1
    <3>2. \A v \in Item : v.exp \in Nat
      BY DEF Item
    <3>3. \A i, j \in 1..Len(takenPairs) : i < j \/ j < i \/ i = j
      BY <2>1
    <3>4. \A i, j \in 1..Len(takenPairs) : i < j => takenPairs[i].exp < takenPairs[j].exp
      BY <2>2 DEF Line
    <3>5. QED
      BY <3>1, <3>2, <3>3, <3>4
  <2>4. \A i, j \in 1..Len(takenTriples) :
           takenTriples[i].exp = takenTriples[j].exp => i = j
    <3>1. \A i \in 1..Len(takenTriples) : takenTriples[i] \in Item
      BY <2>1
    <3>2. \A v \in Item : v.exp \in Nat
      BY DEF Item
    <3>3. \A i, j \in 1..Len(takenTriples) : i < j \/ j < i \/ i = j
      BY <2>1
    <3>4. \A i, j \in 1..Len(takenTriples) :
             i < j => takenTriples[i].exp < takenTriples[j].exp
      BY <2>2 DEF Line
    <3>5. QED
      BY <3>1, <3>2, <3>3, <3>4
  <2>5. /\ Apart(PairValues, TripleValues)
        /\ Apart(discarded, PairValues) /\ Apart(discarded, TripleValues)
    BY DEF PoolInv, ValueInv
  <2>6. /\ \A v \in Contents(takenPairs), w \in Contents(Pairs) : v.exp # w.exp
        /\ \A v \in Contents(takenTriples), w \in Contents(triple_queue) : v.exp # w.exp
    <3>1. /\ \A v \in Contents(takenPairs) \cup Contents(Pairs) : v.exp \in Nat
          /\ \A v \in Contents(takenPairs), w \in Contents(Pairs) : v.exp < w.exp
      BY <2>1, <2>2, LineValues
    <3>2. /\ \A v \in Contents(takenTriples) \cup Contents(triple_queue) : v.exp \in Nat
          /\ \A v \in Contents(takenTriples), w \in Contents(triple_queue) : v.exp < w.exp
      BY <2>1, <2>2, LineValues
    <3>3. QED
      BY <3>1, <3>2
  <2>7. \A v \in Contents(takenPairs), w \in Contents(takenTriples) : v.exp # w.exp
    BY <2>5 DEF Apart, PairValues, TripleValues
  <2>8. \A v \in Taken, w \in InStock : v.exp # w.exp
    BY <2>5, <2>6 DEF Apart, PairValues, TripleValues, Taken, InStock
  <2>9. \A v \in discarded, w \in InStock \cup Taken : v.exp # w.exp
    BY <2>5 DEF Apart, PairValues, TripleValues, Taken, InStock
  <2>10. QED
    BY <2>3, <2>4, <2>7, <2>8, <2>9 DEF NoReuse, Exps
<1>2. QED
  BY <1>1, PoolInvariant, PTL

\* The getters return the values in the order populate drew them.
THEOREM FirstInFirstOut == Spec => []OldestFirst
<1>1. PoolInv => OldestFirst
  <2> SUFFICES ASSUME PoolInv PROVE OldestFirst
    OBVIOUS
  <2>1. /\ Line(takenPairs, Pairs, nextExp)
        /\ Line(takenTriples, triple_queue, nextExp)
    BY DEF PoolInv, ValueInv
  <2>2. QED
    BY <2>1 DEF OldestFirst, Line, Contents
<1>2. QED
  BY <1>1, PoolInvariant, PTL

-----------------------------------------------------------------------------
(* The refinement.  Each step either leaves the pool alone or is one of    *)
(* its three actions; what populate draws it puts into the queues.         *)

NoEffect == UNCHANGED << InStock, Taken, discarded, nextExp >>

Supplied ==
    /\ Pool!Supply
    /\ nextExp' \in Nat
    /\ \A e \in nextExp..(nextExp' - 1) : e \in Exps(InStock)'

Effect ==
    \/ NoEffect
    \/ Supplied
    \/ Pool!Take /\ UNCHANGED nextExp
    \/ Pool!Discard /\ UNCHANGED nextExp

\* A value is in one place.
LEMMA OnePlace ==
    ASSUME PoolInv
    PROVE  /\ Contents(Pairs) \cap Contents(triple_queue) = {}
           /\ InStock \cap Taken = {}
           /\ InStock \cap discarded = {}
<1>1. /\ Pairs \in Seq(Item \cup {Null}) /\ triple_queue \in Seq(Item \cup {Null})
      /\ takenPairs \in Seq(Item) /\ takenTriples \in Seq(Item)
      /\ nextExp \in Nat
  BY DEF PoolInv, TypeInv, TypeOK, Pairs
<1>2. /\ Apart(PairValues, TripleValues)
      /\ Apart(discarded, PairValues) /\ Apart(discarded, TripleValues)
      /\ Line(takenPairs, Pairs, nextExp)
      /\ Line(takenTriples, triple_queue, nextExp)
  BY DEF PoolInv, ValueInv
<1>3. /\ PairValues \cap TripleValues = {}
      /\ discarded \cap PairValues = {} /\ discarded \cap TripleValues = {}
  BY <1>2 DEF Apart
<1>4. Contents(takenPairs) \cap Contents(Pairs) = {}
  <2>1. /\ \A v \in Contents(takenPairs) : v.exp \in Nat
        /\ \A v \in Contents(takenPairs), w \in Contents(Pairs) : v.exp < w.exp
    BY <1>1, <1>2, LineValues
  <2>2. QED
    BY <2>1
<1>5. Contents(takenTriples) \cap Contents(triple_queue) = {}
  <2>1. /\ \A v \in Contents(takenTriples) : v.exp \in Nat
        /\ \A v \in Contents(takenTriples), w \in Contents(triple_queue) : v.exp < w.exp
    BY <1>1, <1>2, LineValues
  <2>2. QED
    BY <2>1
<1>6. QED
  BY <1>3, <1>4, <1>5 DEF PairValues, TripleValues, InStock, Taken

LEMMA StepEffect == PoolInv /\ [Next]_vars => Effect
<1> SUFFICES ASSUME PoolInv, [Next]_vars PROVE Effect
  OBVIOUS
<1> USE DEF Goto, UnlockAndGoto, Enter
<1>1. /\ Pairs \in Seq(Item \cup {Null}) /\ triple_queue \in Seq(Item \cup {Null})
      /\ takenPairs \in Seq(Item) /\ takenTriples \in Seq(Item)
      /\ nextExp \in Nat
  BY DEF PoolInv, TypeInv, TypeOK, Pairs
<1>2. /\ Line(takenPairs, Pairs, nextExp)
      /\ Line(takenTriples, triple_queue, nextExp)
  BY DEF PoolInv, ValueInv
<1>3. \A v \in Taken \cup discarded : v.exp \in Nat /\ v.exp < nextExp
  <2>1. \A v \in Contents(takenPairs) \cup Contents(takenTriples) :
           v.exp \in Nat /\ v.exp < nextExp
    BY <1>1, <1>2, LineValues
  <2>2. \A v \in discarded : v.exp \in Nat /\ v.exp < nextExp
    BY DEF PoolInv, TypeInv, TypeOK, ValueInv, Item
  <2>3. QED
    BY <2>1, <2>2 DEF Taken
<1>4. /\ InStock' = Contents(Pairs') \cup Contents(triple_queue')
      /\ Taken' = Contents(takenPairs') \cup Contents(takenTriples')
  BY DEF InStock, Taken, Contents
<1>5. ASSUME UNCHANGED << Pairs, triple_queue, takenPairs, takenTriples, discarded,
                          nextExp >>
      PROVE  Effect
  BY <1>4, <1>5 DEF Effect, NoEffect, InStock, Taken
<1>6. CASE UNCHANGED vars
  BY <1>5, <1>6 DEF vars, shared, taken, Pairs
<1>7. ASSUME NEW u \in Threads, Call(u) PROVE Effect
  BY <1>5, <1>7 DEF Call, CallInit, CallPopulate, CallOther, stop_populate,
     shared, taken, Pairs
<1>8. ASSUME NEW u \in Threads, Lock(u) \/ init(u) PROVE Effect
  BY <1>5, <1>8 DEF Lock, init, taken, Pairs
<1>9. ASSUME NEW u \in Threads, populate_check(u) \/ populate_test(u) PROVE Effect
  BY <1>5, <1>9 DEF populate_check, OnStopped, populate_test, shared, taken, Pairs
<1>10. ASSUME NEW u \in Threads, populate_push(u) PROVE Effect
  <2> DEFINE v == Fresh(u, 0)
  <2>1. /\ Pairs' = Push(Pairs, v) /\ nextExp' = nextExp + 1
        /\ UNCHANGED << triple_queue, takenPairs, takenTriples, discarded >>
    BY <1>10 DEF populate_push, taken, Pairs
  <2>2. v \in Item /\ v.exp = nextExp
    <3>1. arg[u] \in Keys /\ TypeOK
      BY <1>10 DEF populate_push, PoolInv, TypeInv, ArgOK
    <3>2. Fresh(u, 0) \in Item /\ Fresh(u, 0).exp = nextExp + 0
      BY <3>1, FreshItem
    <3>3. QED
      BY <1>1, <3>2
  <2> HIDE DEF v
  <2>3. InStock' = InStock \cup {v} /\ Taken' = Taken
    <3>1. Contents(Push(Pairs, v)) = Contents(Pairs) \cup {v}
      BY <1>1, <2>2, ContentsPush
    <3>2. Contents(Pairs)' = Contents(Pairs) \cup {v}
      BY <2>1, <3>1 DEF Contents
    <3>3. /\ Contents(takenPairs)' = Contents(takenPairs)
          /\ Contents(takenTriples)' = Contents(takenTriples)
          /\ Contents(triple_queue)' = Contents(triple_queue)
      BY <2>1 DEF Contents
    <3>4. QED
      BY <3>2, <3>3 DEF InStock, Taken
  <2>4. v \notin Taken \cup discarded
    BY <1>1, <1>3, <2>2
  <2>5. \A e \in nextExp..(nextExp' - 1) : e = v.exp
    BY <1>1, <2>1, <2>2
  <2>6. \A e \in nextExp..(nextExp' - 1) : e \in Exps(InStock)'
    BY <2>3, <2>5 DEF Exps
  <2>7. Pool!Supply
    BY <2>1, <2>3, <2>4 DEF Pool!Supply
  <2>8. QED
    BY <1>1, <2>1, <2>6, <2>7 DEF Effect, Supplied
<1>11. ASSUME NEW u \in Threads, populate_contest(u) PROVE Effect
  <2>1. CASE iteration_count[u] # 0
    BY <1>5, <1>11, <2>1 DEF populate_contest, taken, Pairs
  <2>2. CASE iteration_count[u] = 0
    <3> DEFINE v == Fresh(u, 0)
               w == Fresh(u, 1)
    <3>1. /\ triple_queue' = Push(Push(triple_queue, v), w) /\ nextExp' = nextExp + 2
          /\ UNCHANGED << Pairs, takenPairs, takenTriples, discarded >>
      BY <1>11, <2>2 DEF populate_contest, taken, Pairs
    <3>2. v \in Item /\ v.exp = nextExp /\ w \in Item /\ w.exp = nextExp + 1
      <4>1. arg[u] \in Keys /\ TypeOK
        BY <1>11 DEF populate_contest, PoolInv, TypeInv, ArgOK
      <4>2. /\ Fresh(u, 0) \in Item /\ Fresh(u, 0).exp = nextExp + 0
            /\ Fresh(u, 1) \in Item /\ Fresh(u, 1).exp = nextExp + 1
        BY <4>1, FreshItem
      <4>3. QED
        BY <1>1, <4>2
    <3> HIDE DEF v, w
    <3>3. Contents(Push(Push(triple_queue, v), w)) = Contents(triple_queue) \cup {v, w}
      <4>1. Contents(Push(triple_queue, v)) = Contents(triple_queue) \cup {v}
        BY <1>1, <3>2, ContentsPush
      <4>2. Push(triple_queue, v) \in Seq(Item \cup {Null})
        BY <1>1, <3>2, AppendProperties DEF Push
      <4>3. Contents(Push(Push(triple_queue, v), w)) =
               Contents(Push(triple_queue, v)) \cup {w}
        BY <3>2, <4>2, ContentsPush
      <4>4. QED
        BY <4>1, <4>3
    <3>4. InStock' = InStock \cup {v, w} /\ Taken' = Taken
      BY <1>4, <3>1, <3>3 DEF InStock, Taken
    <3>5. {v, w} \cap (Taken \cup discarded) = {}
      BY <1>1, <1>3, <3>2
    <3>6. \A e \in nextExp..(nextExp' - 1) : e = v.exp \/ e = w.exp
      BY <1>1, <3>1, <3>2
    <3>7. \A e \in nextExp..(nextExp' - 1) : e \in Exps(InStock)'
      BY <3>4, <3>6 DEF Exps
    <3>8. Pool!Supply
      BY <3>1, <3>4, <3>5 DEF Pool!Supply
    <3>9. QED
      BY <1>1, <3>1, <3>7, <3>8 DEF Effect, Supplied
  <2>3. QED
    BY <2>1, <2>2
<1>12. ASSUME NEW u \in Threads, getTwo_front(u) PROVE Effect
  <2>1. CASE Pairs = << >>
    BY <1>5, <1>12, <2>1 DEF getTwo_front, Pairs
  <2>2. CASE Pairs # << >> /\ Head(Pairs) = Null
    <3>1. MoveFront(Pairs) = Pairs
      BY <1>1, <2>2, EmptySeq, ExceptSeq DEF MoveFront
    <3>2. QED
      BY <1>5, <1>12, <2>2, <3>1 DEF getTwo_front, Pairs
  <2>3. CASE Pairs # << >> /\ Head(Pairs) # Null
    <3> DEFINE v == Head(Pairs)
    <3>1. /\ Pairs' = MoveFront(Pairs) /\ takenPairs' = Append(takenPairs, v)
          /\ UNCHANGED << triple_queue, takenTriples, discarded, nextExp >>
      BY <1>12, <2>3 DEF getTwo_front, Pairs
    <3>2. v \in Item /\ v \in Contents(Pairs)
      BY <1>1, <2>3, EmptySeq DEF Contents
    <3>3. /\ Contents(MoveFront(Pairs)) = Contents(Pairs) \ {v}
          /\ Contents(Append(takenPairs, v)) = Contents(takenPairs) \cup {v}
      BY <1>1, <1>2, <2>3, <3>2, ContentsMove, ContentsAppend
    <3> HIDE DEF v
    <3>4. InStock' = InStock \ {v} /\ Taken' = Taken \cup {v}
      BY <1>4, <3>1, <3>2, <3>3, OnePlace DEF InStock, Taken
    <3>5. v \in InStock /\ v \notin Taken
      BY <3>2, OnePlace DEF InStock
    <3>6. QED
      BY <3>1, <3>4, <3>5 DEF Effect, Pool!Take
  <2>4. QED
    BY <2>1, <2>2, <2>3
<1>13. ASSUME NEW u \in Threads, getTwo_pop(u) PROVE Effect
  <2>1. /\ Pairs' = Pop(Pairs)
        /\ UNCHANGED << triple_queue, takenPairs, takenTriples, discarded, nextExp >>
    BY <1>13 DEF getTwo_pop, taken, Pairs
  <2>2. Pairs # << >> /\ Head(Pairs) = Null
    BY <1>13 DEF getTwo_pop, PoolInv, TypeInv, PopOK, NullInv
  <2>3. InStock' = InStock /\ Taken' = Taken
    BY <1>1, <1>4, <2>1, <2>2, ContentsPop DEF InStock, Taken
  <2>4. QED
    BY <2>1, <2>3 DEF Effect, NoEffect
<1>14. ASSUME NEW u \in Threads, getTriple_front(u) PROVE Effect
  <2>1. CASE triple_queue = << >>
    BY <1>5, <1>14, <2>1 DEF getTriple_front, Pairs
  <2>2. CASE triple_queue # << >> /\ Head(triple_queue) = Null
    <3>1. MoveFront(triple_queue) = triple_queue
      BY <1>1, <2>2, EmptySeq, ExceptSeq DEF MoveFront
    <3>2. QED
      BY <1>5, <1>14, <2>2, <3>1 DEF getTriple_front, Pairs
  <2>3. CASE triple_queue # << >> /\ Head(triple_queue) # Null
    <3> DEFINE v == Head(triple_queue)
    <3>1. /\ triple_queue' = MoveFront(triple_queue)
          /\ takenTriples' = Append(takenTriples, v)
          /\ UNCHANGED << Pairs, takenPairs, discarded, nextExp >>
      BY <1>14, <2>3 DEF getTriple_front, Pairs
    <3>2. v \in Item /\ v \in Contents(triple_queue)
      BY <1>1, <2>3, EmptySeq DEF Contents
    <3>3. /\ Contents(MoveFront(triple_queue)) = Contents(triple_queue) \ {v}
          /\ Contents(Append(takenTriples, v)) = Contents(takenTriples) \cup {v}
      BY <1>1, <1>2, <2>3, <3>2, ContentsMove, ContentsAppend
    <3> HIDE DEF v
    <3>4. InStock' = InStock \ {v} /\ Taken' = Taken \cup {v}
      BY <1>4, <3>1, <3>2, <3>3, OnePlace DEF InStock, Taken
    <3>5. v \in InStock /\ v \notin Taken
      BY <3>2, OnePlace DEF InStock
    <3>6. QED
      BY <3>1, <3>4, <3>5 DEF Effect, Pool!Take
  <2>4. QED
    BY <2>1, <2>2, <2>3
<1>15. ASSUME NEW u \in Threads, getTriple_pop(u) PROVE Effect
  <2>1. /\ triple_queue' = Pop(triple_queue)
        /\ UNCHANGED << Pairs, takenPairs, takenTriples, discarded, nextExp >>
    BY <1>15 DEF getTriple_pop, taken, Pairs
  <2>2. triple_queue # << >> /\ Head(triple_queue) = Null
    BY <1>15 DEF getTriple_pop, PoolInv, TypeInv, PopOK, NullInv
  <2>3. InStock' = InStock /\ Taken' = Taken
    BY <1>1, <1>4, <2>1, <2>2, ContentsPop DEF InStock, Taken
  <2>4. QED
    BY <2>1, <2>3 DEF Effect, NoEffect
<1>16. Contents(<< >>) = {}
  <2>1. Len(<< >>) = 0 /\ 1..0 = {}
    OBVIOUS
  <2>2. QED
    BY <2>1 DEF Contents
<1>17. ASSUME NEW u \in Threads, empty_triples(u) PROVE Effect
  <2>1. /\ triple_queue' = << >> /\ discarded' = discarded \cup Contents(triple_queue)
        /\ UNCHANGED << Pairs, takenPairs, takenTriples, nextExp >>
    BY <1>17 DEF empty_triples, Pairs
  <2>2. InStock' = Contents(Pairs) /\ Taken' = Taken
    BY <1>4, <1>16, <2>1 DEF Taken
  <2>3. InStock \ Contents(Pairs) = Contents(triple_queue)
    BY OnePlace DEF InStock
  <2>4. QED
    BY <2>1, <2>2, <2>3 DEF Effect, Pool!Discard, InStock
<1>18. ASSUME NEW u \in Threads, empty_pairs(u) PROVE Effect
  <2>1. /\ Pairs' = << >> /\ discarded' = discarded \cup Contents(Pairs)
        /\ UNCHANGED << triple_queue, takenPairs, takenTriples, nextExp >>
    BY <1>18 DEF empty_pairs, Pairs
  <2>2. InStock' = Contents(triple_queue) /\ Taken' = Taken
    BY <1>4, <1>16, <2>1 DEF Taken
  <2>3. InStock \ Contents(triple_queue) = Contents(Pairs)
    BY OnePlace DEF InStock
  <2>4. QED
    BY <2>1, <2>2, <2>3 DEF Effect, Pool!Discard, InStock
<1>19. CASE Quiescent
  BY <1>5, <1>19 DEF Quiescent, vars, shared, taken, Pairs
<1>20. QED
  BY <1>6, <1>7, <1>8, <1>9, <1>10, <1>11, <1>12, <1>13, <1>14, <1>15, <1>17,
     <1>18, <1>19 DEF Next, Run

\* The buffers implement the one-shot pool: whatever the threads do, a value
\* leaves the queues once, to one caller or to nowhere, and never comes back.
THEOREM BuffersImplementPool == Spec => ImplementsPool
<1>1. Init => Pool!PoolInit
  <2>1. Contents(<< >>) = {}
    <3>1. Len(<< >>) = 0 /\ 1..0 = {}
      OBVIOUS
    <3>2. QED
      BY <3>1 DEF Contents
  <2>2. QED
    BY <2>1 DEF Init, Pool!PoolInit, InStock, Taken, Pairs
<1>2. PoolInv /\ [Next]_vars => [Pool!PoolNext]_(Pool!poolVars)
  BY StepEffect DEF Effect, NoEffect, Supplied, Pool!PoolNext, Pool!poolVars
<1>3. QED
  BY <1>1, <1>2, PoolInvariant, PTL DEF Spec, ImplementsPool, Pool!PoolSpec

\* Every value populate drew is in a queue, was returned, or was dropped by
\* empty_queues.
THEOREM NoValueLost == Spec => []NothingLost
<1>1. Init => NothingLost
  BY DEF Init, NothingLost
<1>2. PoolInv /\ NothingLost /\ [Next]_vars => NothingLost'
  <2> SUFFICES ASSUME PoolInv, NothingLost, [Next]_vars PROVE NothingLost'
    OBVIOUS
  <2> DEFINE values == InStock \cup Taken \cup discarded
  <2>1. Effect /\ nextExp \in Nat
    BY StepEffect DEF PoolInv, TypeInv, TypeOK
  <2>2. values \subseteq values'
    BY <2>1 DEF Effect, NoEffect, Supplied, Pool!Supply, Pool!Take, Pool!Discard
  <2>3. \A e \in 0..(nextExp - 1) : e \in Exps(values)'
    BY <2>2 DEF NothingLost, Exps
  <2>4. CASE nextExp' = nextExp
    BY <2>3, <2>4 DEF NothingLost
  <2>5. CASE Supplied
    <3>1. \A e \in nextExp..(nextExp' - 1) : e \in Exps(values)'
      BY <2>5 DEF Supplied, Exps
    <3>2. \A e \in 0..(nextExp' - 1) :
             e \in 0..(nextExp - 1) \/ e \in nextExp..(nextExp' - 1)
      <4>1. nextExp' \in Nat
        BY <2>5 DEF Supplied
      <4>2. nextExp \in Nat
        BY <2>1
      <4>3. \A m, n \in Nat :
               \A e \in 0..(m - 1) : e \in 0..(n - 1) \/ e \in n..(m - 1)
        OBVIOUS
      <4>4. QED
        BY <4>1, <4>2, <4>3
    <3>3. QED
      BY <2>3, <3>1, <3>2 DEF NothingLost
  <2>6. QED
    BY <2>1, <2>4, <2>5 DEF Effect, NoEffect
<1>3. QED
  BY <1>1, <1>2, PoolInvariant, PTL DEF Spec
============================================================================
