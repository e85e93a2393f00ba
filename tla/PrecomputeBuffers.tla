-------------------------- MODULE PrecomputeBuffers --------------------------
(***************************************************************************)
(* The PrecomputeBufferContext singleton of precompute_buffers.cpp: two    *)
(* queues of precomputed encryption randomness, filled by populate() and   *)
(* drained by getTwoTriplesAndAQuadruple() (one per encrypted selection)   *)
(* and getTriple() (one per contest proof and per hashed ElGamal           *)
(* ciphertext), all from threads of the caller's choosing.                 *)
(*                                                                         *)
(* Every member function but stop_populate and the two size getters takes  *)
(* queue_lock.  A critical section is several steps here, because the loop *)
(* test of populate reads the queue and max after the lock_guard of the    *)
(* loop body is gone, and stop_populate writes populate_OK with no lock.   *)
(*                                                                         *)
(* A precomputed value is [exp, key]: exp stands for the random exponents  *)
(* drawn for it (rand_q is idealised to never repeat), key for the public  *)
(* key its powers were computed with.                                      *)
(***************************************************************************)
EXTENDS Integers, Sequences, FiniteSets

CONSTANTS
    Threads,                   \* threads that call the API
    Keys,                      \* ElGamal public keys passed to populate
    Sizes,                     \* arguments of init; 0 asks for the default
    DEFAULT_PRECOMPUTE_SIZE,   \* 5000 in constants.h
    Null,                      \* nullptr, and a moved-from unique_ptr
    MaxCalls,                  \* bound: API calls in a behaviour
    MaxTornReads               \* bound: loop tests that read garbage

Item == [exp : Nat, key : Keys]

ASSUME PrecomputeAssumption ==
    /\ IsFiniteSet(Threads)
    /\ Sizes \subseteq Nat
    /\ DEFAULT_PRECOMPUTE_SIZE \in Nat \ {0}
    /\ MaxCalls \in Nat
    /\ MaxTornReads \in Nat
    /\ Null \notin Item
    /\ Null \notin Threads
    /\ Null \notin Keys

VARIABLES
    max, populate_OK, queue_lock,
    triple_queue, twoTriplesAndAQuadruple_queue,
    at,               \* at[t]: the next step of the call thread t is in
    arg,              \* arg[t]: the argument of that call
    iteration_count,  \* populate's local, modulo 3: all the code looks at
    \* History, for the properties and the bounds.
    nextExp,          \* exponents drawn so far
    takenPairs, takenTriples,   \* values handed to callers, in order
    discarded,        \* values dropped by empty_queues
    pairsSinceStop,   \* pairs pushed since the last stop_populate
    peakMax,          \* largest max so far
    populateCalls, calls, tornReads

shared == << max, populate_OK, queue_lock, triple_queue,
             twoTriplesAndAQuadruple_queue >>
local  == << at, arg, iteration_count >>
taken  == << takenPairs, takenTriples, discarded >>
bounds == << peakMax, populateCalls, calls, tornReads >>
vars   == << shared, local, nextExp, taken, pairsSinceStop, bounds >>

Pairs == twoTriplesAndAQuadruple_queue

\* The first step of each locking member function, and the steps under the lock.
LockSteps == {"init_lock", "populate_lock", "getTwo_lock", "getTriple_lock",
              "empty_lock"}
CriticalSteps == {"init_body", "populate_check", "populate_push",
                  "populate_contest", "getTwo_front", "getTwo_pop",
                  "getTriple_front", "getTriple_pop",
                  "empty_triples", "empty_pairs"}
\* What each of them runs once it has the lock.
LockThen == { << "init_lock", "init_body" >>,
              << "populate_lock", "populate_check" >>,
              << "getTwo_lock", "getTwo_front" >>,
              << "getTriple_lock", "getTriple_front" >>,
              << "empty_lock", "empty_triples" >> }
Steps == {"idle", "populate_test"} \cup LockSteps \cup CriticalSteps

\* Steps under the lock that change the queue whose size the loop test reads.
PairWriters == {"populate_push", "getTwo_pop", "empty_pairs"}

TypeOK ==
    /\ max \in Nat /\ populate_OK \in BOOLEAN
    /\ queue_lock \in Threads \cup {Null}
    /\ triple_queue \in Seq(Item \cup {Null})
    /\ twoTriplesAndAQuadruple_queue \in Seq(Item \cup {Null})
    /\ at \in [Threads -> Steps]
    /\ arg \in [Threads -> Sizes \cup Keys \cup {Null}]
    /\ iteration_count \in [Threads -> 0..2]
    /\ nextExp \in Nat
    /\ takenPairs \in Seq(Item) /\ takenTriples \in Seq(Item)
    /\ discarded \subseteq Item
    /\ pairsSinceStop \in Nat
    /\ peakMax \in Nat /\ populateCalls \in Nat /\ calls \in Nat
    /\ tornReads \in Nat

Init ==
    /\ max = DEFAULT_PRECOMPUTE_SIZE
    /\ populate_OK = FALSE
    /\ queue_lock = Null
    /\ triple_queue = << >> /\ twoTriplesAndAQuadruple_queue = << >>
    /\ at = [t \in Threads |-> "idle"]
    /\ arg = [t \in Threads |-> Null]
    /\ iteration_count = [t \in Threads |-> 0]
    /\ nextExp = 0
    /\ takenPairs = << >> /\ takenTriples = << >> /\ discarded = {}
    /\ pairsSinceStop = 0
    /\ peakMax = DEFAULT_PRECOMPUTE_SIZE
    /\ populateCalls = 0 /\ calls = 0 /\ tornReads = 0

-----------------------------------------------------------------------------
(* Calls.  Any thread may call any member function at any time.            *)

Goto(t, step) == at' = [at EXCEPT ![t] = step]

Enter(t, step, a) ==
    /\ at[t] = "idle"
    /\ calls < MaxCalls
    /\ calls' = calls + 1
    /\ Goto(t, step)
    /\ arg' = [arg EXCEPT ![t] = a]

CallInit(t) ==
    /\ \E size \in Sizes : Enter(t, "init_lock", size)
    /\ UNCHANGED << shared, iteration_count, nextExp, taken, pairsSinceStop,
                    peakMax, populateCalls, tornReads >>

CallPopulate(t) ==
    /\ \E key \in Keys : Enter(t, "populate_lock", key)
    /\ iteration_count' = [iteration_count EXCEPT ![t] = 0]
    /\ populateCalls' = populateCalls + 1
    /\ UNCHANGED << shared, nextExp, taken, pairsSinceStop, peakMax, tornReads >>

CallOther(t) ==
    /\ \E step \in {"getTwo_lock", "getTriple_lock", "empty_lock"} :
          Enter(t, step, Null)
    /\ UNCHANGED << shared, iteration_count, nextExp, taken, pairsSinceStop,
                    peakMax, populateCalls, tornReads >>

\* One store, with no lock.
stop_populate(t) ==
    /\ Enter(t, "idle", Null)
    /\ populate_OK' = FALSE
    /\ pairsSinceStop' = 0
    /\ UNCHANGED << max, queue_lock, triple_queue, twoTriplesAndAQuadruple_queue,
                    iteration_count, nextExp, taken, peakMax, populateCalls,
                    tornReads >>

-----------------------------------------------------------------------------
(* queue_lock.                                                             *)

LockFree_NoMutex == TRUE
LockFree == queue_lock = Null

Lock(t) ==
    /\ LockFree
    /\ queue_lock' = t
    /\ \E step \in LockThen : at[t] = step[1] /\ Goto(t, step[2])
    /\ UNCHANGED << max, populate_OK, triple_queue,
                    twoTriplesAndAQuadruple_queue, arg, iteration_count,
                    nextExp, taken, pairsSinceStop, bounds >>

\* The lock_guard goes out of scope and control moves on to step.
UnlockAndGoto(t, step) == queue_lock' = Null /\ Goto(t, step)

\* std::queue: push at the back, move out of front() (which leaves a null
\* unique_ptr in the queue), pop the front.
Push_Front(q, v) == << v >> \o q
Push(q, v) == Append(q, v)
MoveFront(q) == [q EXCEPT ![1] = Null]
Pop(q) == SubSeq(q, 2, Len(q))

-----------------------------------------------------------------------------
(* init.                                                                   *)

init(t) ==
    /\ at[t] = "init_body"
    /\ populate_OK' = TRUE
    /\ max' = IF arg[t] # 0 THEN arg[t] ELSE DEFAULT_PRECOMPUTE_SIZE
    /\ peakMax' = IF max' > peakMax THEN max' ELSE peakMax
    /\ UnlockAndGoto(t, "idle")
    /\ UNCHANGED << triple_queue, twoTriplesAndAQuadruple_queue, arg,
                    iteration_count, nextExp, taken, pairsSinceStop,
                    populateCalls, calls, tornReads >>

-----------------------------------------------------------------------------
(* populate: one iteration is check, push, contest under the lock, and     *)
(* then the loop test without it.                                          *)

\* The early return of a stopped populate, and the same without it.
OnStopped_NoReturn(t) == UnlockAndGoto(t, "populate_test")
OnStopped(t) == UnlockAndGoto(t, "idle")

populate_check(t) ==
    /\ at[t] = "populate_check"
    /\ \/ populate_OK /\ Goto(t, "populate_push") /\ UNCHANGED queue_lock
       \/ ~populate_OK /\ OnStopped(t)
    /\ UNCHANGED << max, populate_OK, triple_queue,
                    twoTriplesAndAQuadruple_queue, arg, iteration_count,
                    nextExp, taken, pairsSinceStop, bounds >>

Fresh_Unset(t, n) == [exp |-> nextExp + n, key |-> Null]
Fresh_OneDraw(t, n) == [exp |-> nextExp, key |-> arg[t]]
\* A Triple or TwoTriplesAndAQuadruple built by thread t: n counts the ones the
\* same step builds.
Fresh(t, n) == [exp |-> nextExp + n, key |-> arg[t]]

populate_push(t) ==
    /\ at[t] = "populate_push"
    /\ twoTriplesAndAQuadruple_queue' =
          Push(twoTriplesAndAQuadruple_queue, Fresh(t, 0))
    /\ nextExp' = nextExp + 1
    /\ pairsSinceStop' = pairsSinceStop + 1
    /\ Goto(t, "populate_contest")
    /\ UNCHANGED << max, populate_OK, queue_lock, triple_queue, arg,
                    iteration_count, taken, bounds >>

\* Every third iteration two more triples for the contest, then iteration_count++.
populate_contest(t) ==
    /\ at[t] = "populate_contest"
    /\ \/ /\ iteration_count[t] = 0
          /\ triple_queue' = Push(Push(triple_queue, Fresh(t, 0)), Fresh(t, 1))
          /\ nextExp' = nextExp + 2
       \/ /\ iteration_count[t] # 0
          /\ UNCHANGED << triple_queue, nextExp >>
    /\ iteration_count' = [iteration_count EXCEPT ![t] = (@ + 1) % 3]
    /\ UnlockAndGoto(t, "populate_test")
    /\ UNCHANGED << max, populate_OK, twoTriplesAndAQuadruple_queue, arg, taken,
                    pairsSinceStop, bounds >>

NotFull_OffByOne == Len(twoTriplesAndAQuadruple_queue) <= max
NotFull == Len(twoTriplesAndAQuadruple_queue) < max

\* std::deque::size() subtracts four pointers; while another thread is in a
\* push or a pop that crosses a block, their combination can be any number.
SizeReadRaces == \E u \in Threads : queue_lock = u /\ at[u] \in PairWriters

populate_test(t) ==
    /\ at[t] = "populate_test"
    /\ \/ /\ Goto(t, IF NotFull THEN "populate_lock" ELSE "idle")
          /\ UNCHANGED tornReads
       \/ /\ SizeReadRaces /\ tornReads < MaxTornReads
          /\ \E next \in {"populate_lock", "idle"} : Goto(t, next)
          /\ tornReads' = tornReads + 1
    /\ UNCHANGED << shared, arg, iteration_count, nextExp, taken,
                    pairsSinceStop, peakMax, populateCalls, calls >>

-----------------------------------------------------------------------------
(* The consumers: move the front out, leaving a null unique_ptr, then pop. *)

getTwo_front(t) ==
    /\ at[t] = "getTwo_front"
    /\ \/ /\ Pairs = << >>
          /\ UnlockAndGoto(t, "idle")
          /\ UNCHANGED << twoTriplesAndAQuadruple_queue, takenPairs >>
       \/ /\ Pairs # << >>
          /\ takenPairs' = IF Head(Pairs) = Null THEN takenPairs
                           ELSE Append(takenPairs, Head(Pairs))
          /\ twoTriplesAndAQuadruple_queue' = MoveFront(Pairs)
          /\ Goto(t, "getTwo_pop")
          /\ UNCHANGED queue_lock
    /\ UNCHANGED << max, populate_OK, triple_queue, arg, iteration_count,
                    nextExp, takenTriples, discarded, pairsSinceStop, bounds >>

getTwo_pop(t) ==
    /\ at[t] = "getTwo_pop"
    /\ twoTriplesAndAQuadruple_queue' = Pop(Pairs)
    /\ UnlockAndGoto(t, "idle")
    /\ UNCHANGED << max, populate_OK, triple_queue, arg, iteration_count,
                    nextExp, taken, pairsSinceStop, bounds >>

getTriple_front(t) ==
    /\ at[t] = "getTriple_front"
    /\ \/ /\ triple_queue = << >>
          /\ UnlockAndGoto(t, "idle")
          /\ UNCHANGED << triple_queue, takenTriples >>
       \/ /\ triple_queue # << >>
          /\ takenTriples' = IF Head(triple_queue) = Null THEN takenTriples
                             ELSE Append(takenTriples, Head(triple_queue))
          /\ triple_queue' = MoveFront(triple_queue)
          /\ Goto(t, "getTriple_pop")
          /\ UNCHANGED queue_lock
    /\ UNCHANGED << max, populate_OK, twoTriplesAndAQuadruple_queue, arg,
                    iteration_count, nextExp, takenPairs, discarded,
                    pairsSinceStop, bounds >>

getTriple_pop(t) ==
    /\ at[t] = "getTriple_pop"
    /\ triple_queue' = Pop(triple_queue)
    /\ UnlockAndGoto(t, "idle")
    /\ UNCHANGED << max, populate_OK, twoTriplesAndAQuadruple_queue, arg,
                    iteration_count, nextExp, taken, pairsSinceStop, bounds >>

-----------------------------------------------------------------------------
(* empty_queues pops the triples, then the pairs.                          *)

Contents(q) == {q[i] : i \in 1..Len(q)} \ {Null}

empty_triples(t) ==
    /\ at[t] = "empty_triples"
    /\ triple_queue' = << >>
    /\ discarded' = discarded \cup Contents(triple_queue)
    /\ Goto(t, "empty_pairs")
    /\ UNCHANGED << max, populate_OK, queue_lock, twoTriplesAndAQuadruple_queue,
                    arg, iteration_count, nextExp, takenPairs, takenTriples,
                    pairsSinceStop, bounds >>

empty_pairs(t) ==
    /\ at[t] = "empty_pairs"
    /\ twoTriplesAndAQuadruple_queue' = << >>
    /\ discarded' = discarded \cup Contents(Pairs)
    /\ UnlockAndGoto(t, "idle")
    /\ UNCHANGED << max, populate_OK, triple_queue, arg, iteration_count,
                    nextExp, takenPairs, takenTriples, pairsSinceStop, bounds >>

-----------------------------------------------------------------------------
Call(t) == CallInit(t) \/ CallPopulate(t) \/ CallOther(t) \/ stop_populate(t)

\* The steps a call takes on its own: these the scheduler eventually runs.
Run(t) ==
    \/ Lock(t) \/ init(t)
    \/ populate_check(t) \/ populate_push(t) \/ populate_contest(t)
    \/ populate_test(t)
    \/ getTwo_front(t) \/ getTwo_pop(t)
    \/ getTriple_front(t) \/ getTriple_pop(t)
    \/ empty_triples(t) \/ empty_pairs(t)

\* All calls have returned and the bound allows no more.
Quiescent ==
    /\ calls = MaxCalls
    /\ \A t \in Threads : at[t] = "idle"
    /\ UNCHANGED vars

Next == (\E t \in Threads : Call(t) \/ Run(t)) \/ Quiescent

Spec == Init /\ [][Next]_vars

\* Every runnable thread is eventually run.  std::mutex promises no more than
\* that, so the fairness is weak, on the thread, not on its lock acquisition.
FairSpec == Spec /\ \A t \in Threads : WF_vars(Run(t))

-----------------------------------------------------------------------------
(* Properties.                                                             *)

Exps(S) == {v.exp : v \in S}
Taken == Contents(takenPairs) \cup Contents(takenTriples)
InStock == Contents(Pairs) \cup Contents(triple_queue)

\* No precomputed exponent is handed out twice, by either getter, and one that
\* was handed out or thrown away is in no queue: getTwoTriplesAndAQuadruple and
\* getTriple give every encryption its own nonce, whatever the threads do.
NoReuse ==
    /\ \A i, j \in 1..Len(takenPairs) :
          takenPairs[i].exp = takenPairs[j].exp => i = j
    /\ \A i, j \in 1..Len(takenTriples) :
          takenTriples[i].exp = takenTriples[j].exp => i = j
    /\ Exps(Contents(takenPairs)) \cap Exps(Contents(takenTriples)) = {}
    /\ Exps(Taken) \cap Exps(InStock) = {}
    /\ Exps(discarded) \cap Exps(InStock \cup Taken) = {}

\* Every value populate ever pushed is in a queue, was returned by a getter, or
\* was dropped by empty_queues: no interleaving makes a getter pop a value
\* another one moved out, or lose one.
NothingLost ==
    \A e \in 0..(nextExp - 1) : e \in Exps(InStock \cup Taken \cup discarded)

\* The getters return values in the order populate generated them, and only
\* younger ones are left in the queues (null marks a value being moved out).
OldestFirst ==
    /\ \A i, j \in 1..Len(takenPairs) :
          i < j => takenPairs[i].exp < takenPairs[j].exp
    /\ \A i, j \in 1..Len(takenTriples) :
          i < j => takenTriples[i].exp < takenTriples[j].exp
    /\ \A i \in 1..Len(takenPairs) : \A v \in Contents(Pairs) :
          takenPairs[i].exp < v.exp
    /\ \A i \in 1..Len(takenTriples) : \A v \in Contents(triple_queue) :
          takenTriples[i].exp < v.exp

\* "if we call stop it will finish the two triples and a quad before stopping":
\* after stop_populate, one pair at most is still pushed, however many threads
\* are in populate, because populate_OK is checked under queue_lock.
AtMostOnePairAfterStop == ~populate_OK => pairsSinceStop <= 1

\* How far populate overshoots max.  Its loop tests the size only after a push
\* and outside the lock, so each populate call beyond the first, and each torn
\* read, may add one pair too many, and no more than that.
OvershootBounded == Len(Pairs) < peakMax + populateCalls + tornReads

\* Every call returns: stop_populate or a full queue ends populate, and nobody
\* is left waiting for queue_lock.
CallsReturn == \A t \in Threads : at[t] # "idle" ~> at[t] = "idle"

\* The buffers implement the one-shot pool.
Pool == INSTANCE OneShotPool
          WITH stock <- InStock, used <- Taken, gone <- discarded
ImplementsPool == Pool!PoolSpec
=============================================================================
