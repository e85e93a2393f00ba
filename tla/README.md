# ElectionGuard C++: models and proofs

This directory is a verification development of the ElectionGuard C++ library: the library a voting
device links to encrypt ballots, prove that they are well formed, and chain them into an election
record. The sources are under `src/src/electionguard` and `src/include/electionguard`, the .NET
binding under `src/bindings/netstandard/ElectionGuard/ElectionGuard.Encryption`; file names below
are relative to these.

Contents:

1. [The system](#1-the-system): components, state, interactions, what is hard, what makes each part
   correct
2. [Modules](#2-modules): what models what, and how state and actions correspond to the code
3. [Runs](#3-runs): what TLC checks, with which bounds and fairness, and what it shows
4. [Where the code and its documentation disagree](#4-where-the-code-and-its-documentation-disagree)
5. [Proofs](#5-proofs): what holds for every value of the constants, and why
6. [What is not covered](#6-what-is-not-covered)
7. [Plan](#7-plan)

## 1. The system

A ballot goes through the library like this:

```
 Manifest --> InternalManifest --> CiphertextElectionContext (keys, hashes)
                     |                          |
 PlaintextBallot --> EncryptionMediator.encrypt / compactEncrypt      <-- ballotCodeSeed
                     |   (per contest) encryptContest                     (mutable, unlocked)
                     |   (per selection) encryptSelection
                     |         |              |              |
                     |     elgamalEncrypt  Chaum-Pedersen  hashedElgamalEncrypt
                     |         |   \          |   \           |    \
                     |      group.cpp  \   group.cpp  PrecomputeBufferContext (process-wide)
                     |         |
                     |     LookupTableContext (process-wide, built on first use)
                     v
 CiphertextBallot (code = hash of seed and contents) --> CompactCiphertextBallot --> expand
```

| Component | State it keeps | Operations | Talks to |
|---|---|---|---|
| Precompute buffers (`precompute_buffers.*`) | two process-wide queues, `max`, `populate_OK`, a mutex | `init`, `populate`, `stop_populate`, `getTwoTriplesAndAQuadruple`, `getTriple`, `empty_queues` | filled on a thread of the caller's choosing, drained by every encryption |
| Encryption mediator (`encrypt.*`) | `ballotCodeSeed`, the last ballot's code | `encrypt`, `compactEncrypt` | everything below; shared by threads at the caller's discretion |
| Contest encryption (`encrypt.cpp`, `ballot.cpp`) | per call: the normalised contest, its counters, the extended data | `emplaceMissingValues`, `isValid`, `getOvervoteAndWriteIns`, `encryptContest`, `encryptSelection` | manifest, ElGamal, proofs |
| Nonces and ballot codes (`nonces.*`, `ballot_code.*`) | a header, a seed and a position | `get`, `next`, `getBallotCode` | `hash_elems` |
| Compact ballots (`ballot_compact.*`) | nonce, seed, code, selections by position | compress, `expandCompactCiphertextBallot` | the mediator, `encryptBallot` again |
| ElGamal (`elgamal.*`) | key pairs, ciphertexts | `elgamalEncrypt`, `elgamalAdd`, `decrypt`, `hashedElgamalEncrypt` | group, buffers |
| Chaum-Pedersen proofs (`chaum_pedersen.*`) | commitments, challenges, responses | `make` (six ways), `isValid`, `clone` | group, hash, buffers |
| Group arithmetic (`group.*`) | fixed-width numbers, a cached text of an element | sums, differences, powers, random elements, range checks | HACL* big numbers |
| Exponentiation tables (`lookup_table.hpp`, `async.hpp`) | a process-wide map of tables, a semaphore | `pow_mod_p`, `getBaseLookupTable` | group |
| Manifest (`manifest.*`, its JSON in `serialize.hpp`) | immutable descriptions: units, parties, candidates, contests, ballot styles | constructors, `isValid`, `crypto_hash`, to and from JSON | hashed into the context; copied into internal manifests |
| Internal manifest (`manifest.*`) | contests with placeholders, the manifest's hash | constructor, `getBallotStyle`, `getContestsFor`, JSON | every ballot is filled in and encrypted from it |
| Election context (`election.*`) | key, number of guardians, hashes | `make` (several ways), JSON | a mediator compares its manifest hash with the internal manifest's |
| Ballot objects (`ballot.*`) | plaintext, ciphertext and submitted ballots | `make`, `isValidEncryption`, `nonceSeed`, copies | everything |
| Thread pool, queues (`async.hpp`) | tasks, permits | `push`, `try_pop`, `wait_all` | only `AsyncSemaphore` is used by the library |
| Hashing, random numbers (`hash.cpp`, `hmac.cpp`, `random.hpp`) | none | `hash_elems`, `getBytes` | HACL*, the operating system |
| Serialization, conversion (`serialize.hpp`, `convert.*`) | none | to and from JSON, BSON, MsgPack | JSON library |
| C interface (`facades/*`, the `.h` headers) | the heap behind opaque handles | one function per C++ constructor, member and destructor | everything; every binding calls it |
| .NET binding (`NativeInterface.cs` and a class per object) | wrappers: `SafeHandle`s, disposed of or finalized | one class per handle type | the C interface |

### What is hard in it

* **Global mutable state under the caller's threads.** The buffers lock most accesses, not all: the
  loop test of `populate` and `stop_populate` are outside the lock. The cache of tables and the
  cached text of an element have no lock at all; a mediator's seed has none either.
* **One value, one use.** An ElGamal nonce that is used twice shows two votes. Nonces come from two
  sources: a tree of hashes rooted at one draw per ballot, and queues of precomputed exponents
  drained by two getters from any number of threads.
* **Normal and precomputed paths must agree**, and every path that repeats an encryption (expanding
  a compact ballot) must take the path the first one took.
* **Chains.** Each ballot's code is the next one's seed, also when a call in between throws.
* **Counting.** Marks may be missing, repeated, unknown, above one or too many; every contest must
  still encrypt exactly `numberElected` votes or be refused, and the proof at its end must not fail.
* **Ownership across a language border.** Some constructors of the C interface move the contents out
  of their arguments, some take the argument itself, some copy, some keep a reference; most getters
  lend a part. Over it runs a garbage collector that knows none of this.
* **Saving and loading.** Everything is agreed on by hash. Absent, empty and null are three things
  in memory and two in JSON; contests are hashed in the order they are stored in and saved in
  another.
* **Arithmetic at the edge of the word.** 256-bit sums that carry, equal the modulus, or are all
  ones; two forms of zero.

### What makes each part correct

| Component | Correct means | Properties |
|---|---|---|
| Precompute buffers | a value leaves once, to one caller; none is lost; oldest first; stop stops; bounded overshoot; calls return | `NoReuse`, `NothingLost`, `OldestFirst`, `AtMostOnePairAfterStop`, `OvershootBounded`, `CallsReturn`, `ImplementsPool` |
| Contests | what is encrypted is what was asked for, it sums to `numberElected`, honest marks are accepted, write-ins survive | `AlwaysSumsToNumberElected`, `HonestBallotAccepted`, `VoterIntent`, `ExtendedDataComplete` |
| Ballots | no nonce has two uses; verified ballots are under the election's key; the chain has no gap; expansion reproduces | `NonceSeparation`, `VerifiedUnderElectionKey`, `ChainUnbroken`, `DerivedExpansion`, `ExpandReproduces` |
| Proofs | complete, sound, bound to the statement, silent about the vote; sums decrypt | `HonestProofAccepted`, `ProofsSound`, `WrongClaimRejected`, `BoundToStatement`, `VoteHidden`, `DecryptsTotal` |
| Group | in range and exact whatever wraps | `ResidueExact`, `OnlyNegatedZeroUnreduced` |
| Tables | each thread takes powers from its own base's table, and they are the powers; nobody sleeps for good | `PowerIsExact`, `BuiltOnce`, `CallsReturn` |
| Manifest, context | devices that loaded the same manifest agree with the context made from it; what is encrypted is what was written; placeholders do not collide; nothing is read through a null pointer | `HashSurvives`, `LoadedIsStable`, `MediatorAgrees`, `ValidityKept`, `BallotMatchesManifest`, `PlaceholdersDistinct`, `FailsOnlyWhen` |
| C interface | every object has one owner, what can be used is alive and of its class | `OneOwner`, `RefsAlive`, `ClassSound` |
| .NET binding | no order of disposal and finalization makes the library use or free what is not there; what is given up is given back | `NoFault`, `BallotsReclaimed`, `Reclaimed` |

`PROJECT.json` lists the hazards one by one, each at its line and with the properties that would
catch it.

## 2. Modules

```
 OneShotPool <--refines-- PrecomputeBuffers <-- PrecomputeBuffersProofs
              (as an atomic pool)   |
                                    v
 ContestEncryption             BallotEncryption          ManifestData
    |        |                    |        |                  |
    |        |                    |        |             ManifestLifecycle <-- MCManifestLifecycle
    |  MCContestEncryption        |  MCBallotEncryption        |
    |                             |                            |
 ContestEncryptionProofs    BallotEncryptionProofs        ManifestProofs

 ChaumPedersen <-- ChaumPedersenProtocol <-- ChaumPedersenProofs
 LookupTable   <-- LookupTableContext    <-- ArithmeticProofs
                   GroupArithmetic       <------'

 NativeHeap <-- FacadeManifest, FacadeBallot, FacadeElection <-- Facade <-- CInterface <------,
                                                                   ^                          |
                                     Interop <-- DotNetClasses <-- DotNetBinding <-- ObjectProofs
```

An arrow points at the module that is extended, or used as it says. The proofs of contests, proofs,
tables, arithmetic and manifests share the lemmas of `ArithmeticLemmas`.

**`OneShotPool`** is the abstract specification of the buffers: values are created, and each leaves
the stock once, to be used or to be discarded.

**`PrecomputeBuffers`** is `PrecomputeBufferContext`. The two queues, `max`, `populate_OK` and
`queue_lock` are variables under their source names; `at[t]`, `arg[t]` and `iteration_count[t]` are
a thread's position, argument and local variable inside a call. A call is several steps, because
that is where the interest lies: acquiring the lock, the body, a move out of the front of a queue
and the pop after it, and, for `populate`, the check, the push of a pair, every third time two
triples, and the loop test that runs outside the lock. A loop test that overlaps a writer of the
queue may read anything (`SizeReadRaces`, bounded by `MaxTornReads`). A precomputed value is `[exp,
key]`; `rand_q` is idealised to never repeat.

**`ContestEncryption`** takes one contest from the caller's marks to its encrypted votes:
`emplaceMissingValues`, `PlaintextBallotContest::isValid`, `getOvervoteAndWriteIns`, the two loops
of `encryptContest` and its final verification. Vote counters are below `VoteLimit`, where they wrap
as `uint64_t` does at 2^64. Both entries are modelled: through `encryptBallot`, which normalises first,
and `encryptContest` called directly.

**`BallotEncryption`** is the mediator, `encryptBallot`, and compact ballots, run by threads that
share one mediator and the buffers (taken as a pool with atomic operations, which is what
`PrecomputeBuffers` shows them to be). Nonces are terms: a draw and the path of hashes taken from
it. The seed a ballot is chained to is a term too: the device's hash, or the code of the ballot
before. A ballot code is the term that was hashed. A step is what happens between two accesses of shared
state. The seed is passed down by reference and read at the end of the cryptography, so a store in
between leaves a dangling reference, which reads as `Garbage`. Calls that throw return with the
values they consumed gone. `overlapped` is a history variable: whether two calls of the mediator
have ever run at a time, which is where the promise of an unbroken chain ends.

**`ChaumPedersen`** holds ElGamal encryption, addition and decryption, every way to make a proof and
both verifiers as operators over a group given by `P`, `Q` and `G`. **`ChaumPedersenProtocol`** is
the life of a proof: encryptions are accumulated, a proof is made in one of the ways with any random
values, and checked against its statement or one that differs in the ciphertext, the key or the
header. The hash is a random oracle: what was hashed before has the same challenge, anything else
has any challenge. `ProofsSound` turns the verifiers around: for any commitments, which challenges
have an accepted answer.

**`GroupArithmetic`** is the addition, subtraction and negation mod Q of `group.cpp` with its words,
carries and offsets. One register runs through a chain of operations; a second one follows in exact
arithmetic. `Q_INVERSE_OFFSET` is 2^256 - Q, as in `constants.h:68`; its own comment there, "MAX_256
- Q + 1", is the same number.

**`LookupTable`** is the windowed exponentiation in Montgomery form: the table as a function of row
and digit, each entry from the one before, the exponent taken apart digit by digit. **`LookupTableContext`** is the
cache of its tables: `toHex` with its cached text, the semaphore with its mutex and condition
variable, and the map. Accesses of the map and the text have a beginning and an end; `raced[t]` says
that the access of thread `t` overlapped a conflicting one. A race is undefined behaviour; the
outcomes modelled are a lookup that misses, an insertion that is lost and a text read half copied.
Worse outcomes (a broken tree, a crash inside the container) would only add to them. `warmUp`,
chosen in the initial state, says how the callers use the cache: with it, one thread raises every
base before the others start; without, anyone starts.

**`ManifestData`** translates the objects of a manifest, with the functions on them: how each is
hashed, copied, validated, written to JSON and read back, the placeholders and styles of an internal
manifest, and the hashes of a context. An object is a record, a null pointer is `NULL`, a hash is
the tuple of what was hashed. A JSON object is a record of the keys that may be written, `NULL`
where one is absent, as every reader of the code takes an absent key and a null alike. Orders are
below `OrderLimit`, where `maxSequenceOrder` wraps as `uint32_t` does at 2^32.
**`ManifestLifecycle`** has one action for each thing that is done with them: save and load any of
the three, make a context and an internal manifest from what was loaded, make a mediator from both,
encrypt a ballot of a style, known or not. A null pointer that is read, and an exception out of a
load, end a behaviour in `failed`. What encrypting a contest computes is in `ContestEncryption`.

**`NativeHeap`** says what a function of the C interface can do to the objects behind its handles:
make one, lend a part, free one with all that is in it; and what becomes of the arguments, which are
moved from (the shell stays the caller's), adopted, consumed, copied, or referred to after the call.
**`FacadeManifest`**, **`FacadeBallot`** and **`FacadeElection`** say of every function of
`facades/` which of these it does, one line to a function, from its body; **`Facade`** puts them
together and adds what the headers promise their caller (`Owned`, from each "Caller is responsible
for lifecycle"), which is a second source: the model's program frees what the *headers* say, on a
heap that the *bodies* change. **`CInterface`** is that program. It looks at one table of the
interface at a time (`focus`), starts with one object for each argument, and calls the functions in
any order, with an exception after any of the moves of a call. `TablesAssumption` in `Facade` says
what the tables have in common as far as ownership depends on it (no argument is taken in two ways,
what is moved in is a member the result's getters fit, what can be emptied is never a part, ...);
TLC evaluates it over every function of every table, and the proofs know nothing else of them. Paths
stand for addresses (`<<result, member, member>>`), so that what is inside what can be told.

**`Interop`** is `NativeInterface.cs`: what each class imports, the handle each `out` parameter is
declared with, and the guard at the head of each `Free`. **`DotNetClasses`** is what the members of
each class do with a result: wrap it in a handle that owns, read a string and free it, copy it.
**`DotNetBinding`** runs a program with these wrappers on the same heap. Any wrapper can be disposed
of or finalized between any two calls; a fault is a call of the library with undefined behaviour,
with its kind. `Release` follows the runtime's protocol: `SafeHandle` marks a handle closed *before*
it calls `ReleaseHandle`, so a `Free` that starts with `if (IsClosed) return true`
(`NativeInterface.cs:879` and most others) never reaches the library; three test `IsFreed` instead
and do (2796, 2927, 3121). A wrapper is released once: `DisposableBase` returns at once from a second
`Dispose`, and `SafeHandle` calls `ReleaseHandle` a single time, so no `Free` finds `IsFreed` set, and
the model keeps neither the flag nor the wrapper. `BindingAssumption` says of the classes, as `TablesAssumption` does of the
tables, what the proofs rely on: each entry point called is declared as the function is, what is
wrapped is wrapped as the class it has, no part and no constant is wrapped as one of the three that
are freed, and no argument that a call takes over or disposes of is one of them.

`MC*` modules name model values, symmetry sets and small inputs; they define no behaviour.

## 3. Runs

All runs use `tlc -config <cfg> <module>`. Each module or group of modules has one run of all its
properties.

| Run (`.cfg`) | Module | Question | Bounds, and why they are enough |
|---|---|---|---|
| `Precompute` | `PrecomputeBuffers` | one-shot use, order, nothing lost, stop, overshoot, refinement of `OneShotPool`, every call returns | three threads, four calls, queues of 0, 1 or 2, one torn read: a producer, a consumer and one that stops, resizes or empties; two producers and a stop need three threads, and triples come with the first pair of each call, the next two pairs bring none |
| `ContestEncryption` | `MCContestEncryption` | intent, sums, honest marks accepted, records of overvotes and write-ins | up to three marks over two candidates and a stranger, counters that wrap at 4 (`VoteLimit`): repeated, unknown, zero, one, above one and wrapping sums all occur |
| `Ballots` | `MCBallotEncryption` | nonces, keys of verified ballots, chain, expansion | two threads that share a mediator, two contests, calls that throw, and three steps of the outside: calls, or two calls and an iteration of `populate` at any time, with the right or a foreign key, so that both sources of nonces mix within one ballot. Without `populate`, there is a third call before, during or after a compact ballot is made and expanded, and the chain has three ballots. `encrypt` is called with verification only: what a ballot is returned as makes no difference to the steps before, and the compact one can be expanded |
| `ChaumPedersenProtocol` | `ChaumPedersenProtocol` | complete, sound, bound, hidden, decryption | group of order 5 mod 11, all random values, commitments and challenges, two keys, sums of up to two ciphertexts, claims 0 to 2 |
| `GroupChecked` | `GroupArithmetic` | arithmetic mod Q | Q = 113 in a 7-bit word: the gap between Q and the word is 15, which leaves room for every case of carry, all ones and equal to Q; a chain of any length |
| `Tables` | `LookupTableContext` | the cache under threads, with and without a warm-up; exact powers from its tables; wake-ups | three threads, two bases, one permit, so two sleep at a time; races included; P = 23, digits of two bits, three rows, every exponent |
| `ManifestLifecycle` | `MCManifestLifecycle` | hashes over saving and loading, mediators, ballots of a style, placeholders, nulls and exceptions | 2,496 manifests in two families: contests differ in all that is optional or ordered (title, subtitle, number of votes, orders of contests and selections up to the last one, where `maxSequenceOrder` wraps: 16 here, 2^32 in the code) with five ballot styles, or else names, contacts, units and parties differ. Two loads of each: the first changes what is not canonical, the second must not |
| `CObjects` | `CInterface` | ownership, references and classes of every handle of the C interface | 39 tables in turn, three handles (`Slots`, `Extra`) besides the arguments (two where there are more than five arguments): enough to lend a part of a part, to move that whole into another object, and to free either first |
| `DotNetObjects` | `DotNetBinding` | disposal and finalization in any order | 36 classes in turn, three objects or parts besides the arguments (two for those with more than five) |

The remaining configurations, `BallotExpandPrecomputed`, `ChaumPedersenClone` and `DotNetLeak`,
check one documented statement each, and TLC finds it violated: see section 4.

Some properties hold under a condition that is part of their statement, as the code promises them to
no one else. `ChainUnbroken` speaks of mediators whose calls do not overlap; `DerivedExpansion` of
elections in which nothing was precomputed; `PowerIsExact` and `BuiltOnce` of programs that warm the
cache up; `BallotMatchesManifest` and the first half of `MediatorAgrees` of manifests that are *canonical* (contests
and selections stored in the order of their numbers, no empty contacts, no unnamed parties, no
`votesAllowed` of 0 with a default other than 0), and `HashSurvives` says that the canonical ones
are exactly those whose hash does survive. The runs explore the other cases too, for the properties
that hold in them.

**Assumptions of the object models.** The C program frees what the headers leave to it, once, and
nothing else; it does not use an object it has given to a constructor, except to free it; and it
keeps what a mediator was made from. `Mistyped` lists the seven functions whose declaration, or
whose cast, names another class than the object's; `ClassSound` and the program leave them alone and
hold for all others. The .NET program is `Careful`: it keeps the wrapper of an object while it uses
a part of it, does not use one it has passed to a constructor, gives away only what is its own
(`AtHand`), and leaves the six members of `Broken` alone. With `Careful = FALSE` the model contains
all four, and faults. The third is no matter of course: `Encrypt.Ballot(..., ballot.Nonce)`
(`Encrypt.cs:295`) passes a part of `ballot` to a function that deletes it (`encrypt.cpp:353`), and
the wrapper of that part looks like that of any number. Programs free their
arguments in one order where the frees commute (`InOrder`, `IdleInOrder`); no property or action tells these
orders apart.

**The type invariants** kept as properties are `TypeOK` of `PrecomputeBuffers` and of
`GroupArithmetic`; those of the other modules are part of the invariants in their proofs.

`Ballots` uses symmetry over its threads, which no property and no action tells apart; runs with
liveness properties use none.

**Fairness.** `PrecomputeBuffers` and `LookupTableContext` assume weak fairness of each thread that
is inside a call: a thread that can run is eventually run. That is what an operating system's
scheduler gives. Locks are not fair (`std::mutex` promises no order), calls are made at will, and no
fairness is put on the caller. Calls are bounded, so a thread that waits for a lock competes with
finitely many others; with endless callers an unfair mutex or semaphore could let one starve, and
`CallsReturn` does not say otherwise. No other liveness is claimed: the rest of the library is
sequential code with loops over finite lists.

**Deadlock** is checked wherever a system may not stop: quiescent states with all calls returned
have an explicit stuttering step, so that a state with a thread stuck inside a call is reported. It
is off for `CObjects`, `DotNetObjects`, `DotNetLeak` and `ManifestLifecycle`: those programs are
sequential and may end, at a bound, after a refusal or a failure.

## 4. Where the code and its documentation disagree

Each of these is a configuration whose one property states the documented behaviour.

| Configuration | Documented | What the code does |
|---|---|---|
| `BallotExpandPrecomputed` | a compact ballot re-encrypts to the same ballot (`ballot_compact.hpp:115`) | not if a precomputed nonce was, or is, used |
| `ChaumPedersenClone` | `clone()` is a deep copy (`elgamal.hpp:105`, `group.hpp:73`, of other classes; that of proofs, `chaum_pedersen.hpp:148`, has no comment) | the clone of a disjunctive proof has `proof_one_pad` in place of `proof_one_data` and is not accepted |
| `DotNetLeak` | a handle made by a constructor owns its object, and releasing it frees it (`ElectionguardSafeHandle.cs:11`) | `Free` returns at once, as the handle is closed by then; only the three kinds of ballots are freed |

Others were seen while modelling and have no configuration of their own. The models contain the
behaviour, unless it says otherwise; the properties that hold state what is left of the promise.

In the manifest:

* `InternalManifest::fromJson` throws for every contest that has a title, also when it reads what
  `toJson` wrote: the title is wrapped in a second `"text"` (`serialize.hpp:632`). The header calls
  the two export and import (`manifest.hpp:1037`), and the test (`test_manifest.cpp:51`) has no
  title. `FailsOnlyWhen` says that nothing else throws.
* A contest may have a title and no subtitle; its hash and its copy read the subtitle all the same
  (`manifest.cpp:1099`, `:1124`). So does the hash of a manifest with a name and no contact.
* The copy of a contest without a title puts the default in `votesAllowed` (`manifest.cpp:1104`), so
  the description hash a ballot is encrypted under is not that of the manifest's contest.
  `BallotMatchesManifest` says that this is the only difference.
* A manifest that is not canonical gets another hash when it is saved and loaded, and a device that
  loaded it refuses the context made from the original.
* A style that names a unit twice gets the contests of that unit twice; `compactEncrypt` of an
  unknown style reads a null pointer (`encrypt.cpp:239`), where `encrypt` throws.

In the C interface and the .NET binding:

* The address lines of a contact are "a reference and not owned by the caller" (`manifest.h:248`);
  the facade returns a copy from `malloc` (`facades/manifest.cpp:343`). `CObjects` frees it; with
  `ByTheHeader = TRUE` the model leaks it.
* The seven of `Mistyped`, such as the email lines of a contact, which are annotated strings and are
  declared as internationalized texts, and the hash of a candidate, which casts its handle to
  another class.
* In .NET, constructors dispose of the elements of their arrays before the native call that moves
  from them (`Manifest.cs:280`), every getter wraps a borrowed part as if it owned it, and a
  mediator keeps no wrapper of its arguments (`Encrypt.cs:109`). All of it is harmless because, and
  as long as, `Free` does nothing: the mutant of `NoFault` lets it free, and faults at once.
* `Broken`: `Candidate.Name` (`Manifest.cs:971`) and the lines and hash of a contact, the hash of a
  candidate, `CiphertextBallotContest.IsValidEncryption`, which is bound to the function of a
  selection (`NativeInterface.cs:2776`), and `Encrypt.Contest`, whose import lacks an argument
  (3389). Two imports name functions the library does not have (2471, 2502); two lack their `out`
  (1846, 2379). `ToMsgPack` of a ciphertext ballot calls the same function with nonces and without
  (`Ballot.cs:1278`), and `ONE_MOD_P` and `TWO_MOD_P` give zero (`Group.cs:316`); values are not
  modelled there.

Elsewhere:

* `populate` is to make twice as many triples as pairs (`precompute_buffers.hpp:210`); it makes two
  for every third pair.
* `add_mod_p` is documented as the sum mod P (`group.hpp:206`) and adjusts a wrapped sum by the
  offset of Q (`group.cpp:552`). Nothing in the library calls it; not modelled.
* `max` is documented as the maximum (`precompute_buffers.hpp:202`). Each call of `populate` on a
  full queue pushes one more; `OvershootBounded` says that it is one per call, no more.
* A mediator's chain of codes is to have no gaps (`encrypt.cpp:143`), and concurrent use is meant to
  work (`Design_and_Architecture.md:35`). Two overlapping calls fork the chain, or read a freed
  seed.
* The key given to `encryptContest` encrypts the ballot (`encrypt.hpp:160`). Extended data takes the
  key of the precomputed triple, and nothing verifies it.
* The record of an overvote leaves out selections whose vote is above one. `ExtendedDataComplete`
  covers the others.
* Two first uses of tables race on the map, and two first uses of an element on its text; the same
  document says that memoization will be made thread safe.
* `add_mod_q` is one too large for an operand above Q, which only unchecked construction gives.
* `isInBounds` is documented as `[0, Q)` (`group.hpp:133`) and is `(0, Q)`.

## 5. Proofs

Everything below is checked by TLAPS for every value of the constants that the modules' assumptions
allow.

Each proof goes the same way. An inductive invariant, in named parts, is shown to hold initially and
to be kept by each action, one step per action and one below it for each part the action can
disturb; the properties follow from it. TLC was given the inductive invariants too, on
the instances of the runs, and found none of them violated.

### The buffers (`PrecomputeBuffersProofs`)

For any finite set of threads, any keys and sizes, and any bounds on calls and torn reads:

* `TypeCorrect`: `[]TypeOK`. The type invariant is not inductive alone: a pop is defined only
  because the thread that runs it moved from a queue that was not empty, and only the owner of
  `queue_lock` runs the steps under it. `TypeInv` adds `ArgOK` (which argument goes with which step,
  and that steps under the lock belong to its owner) and `PopOK` (whoever is at a pop has a queue
  with an element).
* `StopStopsPopulate`: after `stop_populate`, one pair at most. `StopInv` counts: a stopped state
  has pushed no pair while some thread is at `populate_push`, and at most one once none is; the
  mutex makes "some thread" at most one thread.
* `OvershootIsBounded`: each call of `populate` beyond the first, and each torn read, takes the queue
  at most one pair above the largest `max`. A thread commits itself to a pair when it tests the
  size, so the invariant counts threads: those that are committed are among those inside `populate`,
  which are at most the calls made, and what is in the queue together with what is committed stays
  within the bound.
* `NoNonceReuse`, `FirstInFirstOut`, `NoValueLost`: these rest on one idea. The values a getter
  returned followed by those left in its queue form a *line*, strictly increasing in the order of
  drawing, every value below `nextExp` (`Line`); pushing extends a line, a move shifts its border, a
  pop takes away the null that the move left (`NullInv`), and emptying takes its tail to
  `discarded`. `PoolInv` is `TypeInv`, `NullInv` and `ValueInv`, the two lines kept disjoint from
  each other and from what was discarded. Lemmas `PushLine`, `MoveLine`, `PopLine` and the
  `Contents*` family state the effect of each operation once; the step proof cites them.
* `BuffersImplementPool`: every step is a step of `OneShotPool` or a stutter under `stock <-
  InStock, used <- Taken, gone <- discarded`. `StepEffect` computes the change of those three sets
  for every action.

### Contests (`ContestEncryptionProofs`)

For any list of distinct candidates shorter than `VoteLimit`, any marks, any description that is
valid, and either entry:

* `ContestInv` says that what each phase computed stays as it was computed (`Computed`; normalising
  twice changes nothing, and keeps the first mark of each candidate), that the real selections are
  encrypted first, each with its counted vote (`RealVotes`), that without an overvote
  `selectionCount` is the number of selected votes and stays within the seats, of which a
  placeholder that is not selected says that they are full (`SeatsCounted`), and that after an
  overvote no real selection counts and every placeholder does (`OvervoteCounted`).
* `ContestAlwaysSums`: the encrypted votes sum to `numberElected`. The sum is a recursive function
  over a sequence; lemmas `TotalUnique` and `TotalAppend` take it apart. The counters wrap; a
  wrapped counter is at most the true sum, and the number of seats is below `VoteLimit`, which is
  why wrapping cannot let too many votes through.
* `ContestAcceptsHonest`, `ContestKeepsIntent`, `ContestRecordsOvervote`: honest marks are never
  refused; what is encrypted for a candidate is the vote asked for; the record of an overvote has
  all it is to have.

### Ballots and the mediator (`BallotEncryptionProofs`)

For any number of threads that share the mediator, any number of contests, ballots, keys and calls:

* `CallsTyped` (`TypeInv`): what each step of a call has at hand, and which selections have been
  placed by then.
* `NoncesSeparate`: the set `uses` never has two plaintexts for one nonce. In `NonceInv`, each nonce
  used is either a value taken from the buffers or the one derived from the call's root for its
  place; the values still in the buffers are unused and distinct; and any two calls, compact ballots
  and uses with the same root agree on ballot and vote (`ClaimsAgree`), since an expansion derives
  the same nonces again, on purpose. The hash terms of two places never coincide
  (`DerivedNonceInjective`), nor with a draw (`DerivedNotRandom`).
* `VerifiedBallots`: a verified ballot is under the election's key, since a pair of a foreign key
  fails the proof it is used in (`VerifyCases`).
* `Chained`: as long as calls of the mediator do not overlap, the seed in use is the code of the
  last ballot (`SeedInv`); the reference passed down is then never dangling.
* `DerivedExpands`: if nothing was ever precomputed, an expanded ballot is the one that was
  compressed. `CompactInv` and `ExpandInv` say that both are the derived encryption of the same
  root, place by place.

### Chaum-Pedersen proofs (`ChaumPedersenProofs`)

For any primes `P`, `Q` and any generator of the subgroup of order `Q`. Primality is stated as it is
used: every number but zero has an inverse (`GroupAssumption`), and `G^Q = 1`
(`GeneratorAssumption`). Counts are below `Q`, as 64 bits are below 256 (`Assumption`).

* Exponents add up (`GPowerSum`), and since Q is prime, two exponents with the same power are equal
  mod Q (`GPowerInjective`). Every ciphertext, key and commitment of the protocol is a power of `G`,
  so each equation of a verifier becomes an equation in the exponents mod Q, with a defect `Off`
  that is zero exactly if the claim is true.
* `ProtocolInv` says, of each state, that the ciphertext encrypts `total` with the summed nonce, that
  the proof's parts satisfy the equations of a proof of `claim` with the defect of that claim, and
  that the verdict is what the equations give.
* `HonestProofsAccepted`, `WrongClaimsRejected`, `ProofsAreBound`: a proof made of a true claim is
  accepted, whichever way it was made and whatever the random values, unless a challenge or a
  response is zero; one made of a false claim is rejected; and so is one shown for another
  ciphertext or key, even if the oracle gives that statement the same challenge.
* `VotesHidden`: whatever the nonce, the published values of a proof of a zero are those of some
  proof of a one, and the other way round.
* `DecryptionIsExact`: a sum decrypts to the total.
* `ProofsAreSound`: for any commitments and a ciphertext of something else than claimed, at most one
  challenge has an accepted answer. The last point of the argument is that P minus a power of `G` is
  no residue, because Q is odd.

### Arithmetic (`ArithmeticProofs`)

For any modulus of at least half its word (`QAssumption`), and any chain of operations:

* `ElementsInRange` (`[]TypeOK`), `ArithmeticExact` (`[]ResidueExact`): `TypeOK /\ ResidueExact` is
  inductive. Lemmas `AddExact` and `SubExact` treat the cases of carry, all ones and operands equal
  to the modulus.
* `NegationOfZero`: the unreduced form of zero is left only by `sub_from_q(0)`.

### Tables (`ArithmeticProofs`)

For any base, any number of entries in a row and of rows, modulo any `P` above 2 that the Montgomery
word is prime to:

* `TableIsExact`: what `pow_mod_p` of a table computes is the power. Entry `s` of row `i` is
  `base^(s * Weight[i])` in Montgomery form (`RowEntries`, `TableEntries`), and the loop over rows
  takes the exponent apart digit by digit (`NextDigit`, `RowContribution`).
* `WarmCacheIsExact`, `WarmCacheBuiltOnce`: with a warm-up, each thread takes powers from the table
  of its own base, and no table is built twice. `CacheInv` says that until the last base is there
  only the first thread is inside a call (`OneFills`), so that no access of the map or of a cached
  text overlaps a writer (`NoRace`), and that afterwards nothing is written. Without a warm-up
  neither holds, as section 4 says.

### The C interface and the .NET binding (`ObjectProofs`)

For a program that frees what is its own (`~ByTheHeader`), with any number of handles (`Slots`,
`Extra`), in any order of calls and with an exception after any of the moves of a call:

* `OneOwnerAlways`: every object that is in no other has exactly one handle that is to free it, and
  nothing else has one; `RefsStayAlive`: what the program may still use is alive;
  `ClassesStaySound`: and of the class its functions cast it to.
* `ObjectsInv` has two halves. Of the heap (`HeapInv`): an object that is in no other has a name of
  its own (`Roots`); a part is in an object that has its contents, and goes with the same whole
  (`Inside`, `Prefixes`); what has not been handed out is not there (`OpenFree`); what a mediator
  refers to is an argument that nothing takes (`KeptAlive`); and every part fits the getter it comes
  from (`Fitting`, `ConstantsFit`). Of the handles (`RefInv`): each is of an object that is there,
  of its class, and with its contents unless the handle is spent; no object is owned twice, and
  while a mediator refers to something its handle says so. `AllOwned` adds that nothing is left
  behind.
* There is one lemma for each thing `NativeHeap` can do to a heap (free, move, adopt, lose, make,
  grow, empty), and one step for each action of the program. The tables of the facades enter by
  `TablesAssumption` only. TLC evaluates it over all 39 tables; a function added to a table keeps the
  theorems as long as the assumption still evaluates to true.

For a careful .NET program (`Careful`), with any number of objects and wrappers (`Slots`,
`MaxWrapped`), on the same heap and with the same lemmas about it:

* `NoFaultAlways`: no order of calls, exceptions, disposals and finalizations leads to a call with
  undefined behaviour, and every wrapper that may be used is of a living object of its class.
  `BallotsReclaimedAlways`: every ballot that is in no other object has a wrapper.
* `BindingInv` is `HeapInv` and two statements about wrappers. `WrapperSound`: one that is not spent
  is of an object that is there, full and of its class, and one whose `Free` reaches the library is
  never spent, and of an object that is in no other. `BallotsWrapped`: every ballot has a wrapper of
  that kind. The first is what makes `Release` harmless (`ReleaseStep`): what it frees is whole,
  nothing in use goes with it as the program keeps the wrapper, and no mediator refers to it, as
  what is kept is never a ballot (`ReliedOnStays`). For the same reason the elements a constructor
  disposes of are still there when it is called (`HeapStaysAtCall`). Neither is inductive without
  the heap's part: a wrapper stays right when objects move into others only because nothing else is
  changed (`Settled`, `LeftSound`).
* The classes of the binding enter by `BindingAssumption` only, which TLC evaluates over all of them.
  It would be false, and the proof fail, if `Free` reached the library for a class whose objects are
  parts, arguments that are moved, or elements of arrays: the binding is sound because it leaks, as
  section 4 says.

### Manifests (`ManifestProofs`)

For any manifests, with any numbers of units, parties, candidates, contests, selections and styles,
and any texts, names and dates. Two assumptions: a null pointer is none of the values
(`ManifestAssumption`, and again for ballots in `ManifestsAssumption`), and the contests of a
manifest and the selections of a contest have orders without repetition (`ManifestsAssumption`).
Orders are distinct because `std::sort` leaves equal ones in any order, and a hash then says nothing.

* `AlwaysHashSurvives`, `AlwaysLoadedIsStable`: unless the hash reads a null pointer, it is the same
  after loads exactly if the manifest was canonical, and a second load changes nothing more. There is a lemma for each
  class, which says what its JSON turns it into (`Loaded`), when that is the object itself, and that
  it is so the second time. An object's hash tells its fields apart, and the hash of a list tells
  its elements (`ManifestHash`). Sorting is ranking: the rank of an element among distinct orders is
  a bijection to positions (`RankBijection`), what is sorted is in order, and a sorted list is left
  as it is, so the order a file was written in does not matter after the first load.
* `AlwaysTwoForms` is the inductive invariant, and says why more loads change nothing: whatever
  calls are made, the manifest is one of two forms, the one the program began with and what the
  first load made of it. The context has the hash of one of them (`ContextInv`), the internal
  manifest is made from one of them, or copied through JSON (`InternalInv`), the mediator has both
  (`MediatorInv`), a ballot is one of a style of it (`BallotInv`), and what failed, failed for the
  reasons that `FailsOnlyWhen` lists (`FailureInv`).
* `AlwaysMediatorAgrees`: a mediator is refused only for a manifest that is not canonical, and one
  that is made encrypts the contests of a manifest whose hash is in the base hash of its context,
  with the votes that manifest allows in every contest that has a title, on whichever side of a load
  each was made (`CopyOf`, and the comparison of the hashes). `AlwaysValidityKept`: loading makes no valid
  manifest invalid and no invalid one valid.
* `AlwaysPlaceholdersDistinct`: a contest has as many placeholders as votes, with orders that no
  selection has, for as long as the largest order does not wrap (`LargestIsLargest`,
  `PlaceholderOrders`). `AlwaysBallotMatchesManifest`: of a canonical manifest, a ballot of a
  style whose units are distinct has one contest for each contest of these units, in order, and its
  description hash is that contest's exactly if the contest is not `Unfaithful`. The largest order and the contests of a style are recursive
  functions over sequences; they exist by `ArithmeticLemmas`, and are reasoned about by induction on
  sets.
* `AlwaysFailsOnlyWhen`: an exception or a null pointer that is read has one of the causes named
  there, all of which are in what the caller passed.

### Lemmas about data (`ArithmeticLemmas`)

Remainders of sums and products, powers mod P, and induction. The library's induction theorems take
an operator and cannot be instantiated here, so induction is stated over *sets*: every nonempty set
of naturals has a least element, a set with 0 and closed under successor has them all, and a
recursive function over the naturals exists and is unique. That is how running sums, powers and
tables could be reasoned about.

### Only model-checked

* Liveness: `CallsReturn` of the buffers and of the tables. ENABLED is out of the prover's reach.
* The three statements of section 4, which do not hold.

## 6. What is not covered

* **Cryptography.** Hashes are injective terms (`BallotEncryption`, `ManifestData`) or a random
  oracle (`ChaumPedersenProtocol`), random draws never repeat, no claim is made about the hardness
  of anything. The group is small where TLC needs it to be.
* **Hashed ElGamal's blocks, padding and truncation; `AsyncQueue`, `ThreadPool` and `wait_all`**,
  which nothing in the library uses; nonce sequences; the compact plaintext. Planned, section 7.
* **The state of submitted ballots**: a field that nothing in the library reads.
* **JSON of ballots and devices** (`serialize.hpp:840` on), and the conversion of numbers, times and
  strings: field by field copying. That of manifests and contexts is modelled because hashes depend
  on it. Dates are kept to the second in JSON and are part of a scope's id in the model. Contests
  and selections with equal orders are sorted by `std::sort`, which leaves their order open: the
  instances have none, and the theorems assume none (`ManifestsAssumption`).
* **The .NET Framework binding** (C++/CLI over the same C interface) and `PrecomputeAPI.cs`, whose
  calls hold no object.
* **HACL\***, the JSON library: third-party. **Logging**: no effect on results.
* **Exceptions from allocation**, and undefined behaviour other than what is named above. Four
  places were read and have no model: `rand_p` reads 512 bytes from the 256 that `Random::getBytes`
  returns (`group.cpp:799`; the library does not call it); `hardware_concurrency()` may be 0 and
  nobody would then pass the semaphore (`async.hpp:45`; `Count` is at least 1); `eg_precompute_init`
  converts a negative size to a queue of billions (`facades/encrypt.cpp:442`); copying an
  `ElGamalKeyPair` moves its keys out of the original (`elgamal.cpp:42`; nothing in the library
  copies one).

## 7. Plan

Written so far, in this order: buffers and their abstract pool, contest encryption, ballots and the
mediator, proofs, group arithmetic, tables; then the C interface and the .NET binding, the manifest,
the internal manifest and the context. Proved: every invariant and every safety property that the
passing runs check, and the refinement of the pool; what is left to TLC is liveness.

Left to model: `HashedElGamal`, against a reference of what must come back, composed with the record
`ContestEncryption` makes; the two-lock `AsyncQueue` as a refinement of a sequence, with the pool's
destructor; nonce sequences and hash encodings (`nonces.cpp`, `hash.cpp`).
