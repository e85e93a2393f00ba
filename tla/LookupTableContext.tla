------------------------- MODULE LookupTableContext -------------------------
(* The process-wide cache of exponentiation tables (lookup_table.hpp), as    *)
(* pow_mod_p of group.cpp uses it from several threads: the text of the base *)
(* is the key and is made on first use, the semaphore is entered and left    *)
(* before the map is touched, and the map itself has no lock.                *)
(*                                                                           *)
(* An access of the map or of the cached text has a beginning and an end.    *)
(* Two that overlap, one of them writing, are a data race; what such an      *)
(* access then does is one of the outcomes a build can show: a lookup misses *)
(* an entry that is there, an insertion is lost, a text is read half copied. *)
(* A container broken for good is left out, and would only add outcomes.     *)
EXTENDS LookupTable, FiniteSets

CONSTANTS
    Threads,
    Bases,      \* fixed bases: the generator and the public keys
    Torn,       \* a text read while it was written
    Null,       \* no table
    Count,      \* what the semaphore starts with: hardware_concurrency()
    First,      \* the thread that warms the cache up, if one does
    MaxCalls    \* bound: calls of each thread, one more after a warm-up

ASSUME Assumption == /\ First \in Threads
                     /\ Bases \subseteq 1..(P - 1)
                     /\ Torn \notin Bases /\ Null \notin Bases
                     /\ Count \in Nat \ {0}
                     /\ MaxCalls \in Nat
                     /\ \A b \in Bases : generateTable(b) # Null

VARIABLES
    at,         \* [Threads -> where the thread is]
    base,       \* [Threads -> the base of its call]
    key,        \* [Threads -> the text it looks up]
    hexRepresentation,      \* [Bases -> the text, or Null while it is empty]
    key_map,    \* [text -> table, or Null]: a partial function
    count,      \* of the semaphore
    raced,      \* [Threads -> whether its access overlapped a conflicting one]
    table,      \* [Threads -> the table it was given]
    built,      \* [Bases -> how many tables were generated]
    calls,      \* [Threads -> calls so far]
    warmUp      \* whether the callers fill the cache from First, and only then
                \* use it from the others

vars == <<at, base, key, hexRepresentation, key_map, count, raced, table, built, calls, warmUp>>

Keys == Bases \cup {Torn}

\* Where threads are when they read or write the text of their base, and the
\* map.  A thread waits on the condition variable at "asleep".
TextAccesses == {"read_hex", "write_hex"}
MapAccesses == {"find", "emplace", "index"}
----------------------------------------------------------------------------
Init ==
    /\ at = [t \in Threads |-> "idle"]
    /\ base \in [Threads -> {Null}] /\ key = base /\ table = base
    /\ hexRepresentation = [b \in Bases |-> Null]
    /\ key_map = [k \in {} |-> Null]
    /\ count = Count
    /\ raced = [t \in Threads |-> FALSE]
    /\ built = [b \in Bases |-> 0]
    /\ calls = [t \in Threads |-> 0]
    /\ warmUp \in BOOLEAN

\* Whether an access of the map at this place, for key k, may write.
Writes(place, k) == place = "emplace" \/ (place = "index" /\ k \notin DOMAIN key_map)

\* The threads whose access conflicts with one of t, for base b, at this place.
Conflicts(t, b, place) ==
    {u \in Threads \ {t} :
        \/ /\ place \in TextAccesses /\ at[u] \in TextAccesses /\ base[u] = b
           /\ "write_hex" \in {place, at[u]}
        \/ /\ place \in MapAccesses /\ at[u] \in MapAccesses
           /\ Writes(place, key[t]) \/ Writes(at[u], key[u])}

\* The race flags when t begins an access for base b at this place.
RacedFor(t, b, place) ==
    [u \in Threads |-> IF u = t THEN Conflicts(t, b, place) # {}
                       ELSE raced[u] \/ u \in Conflicts(t, b, place)]

Goto(t, place) ==
    /\ at' = [at EXCEPT ![t] = place]
    /\ raced' = RacedFor(t, base[t], place)

Filled == \A b \in Bases : b \in DOMAIN key_map

\* pow_mod_p with a fixed base and an exponent that is not zero.
call(t) ==
    /\ at[t] = "idle" /\ calls[t] < IF warmUp THEN MaxCalls + 1 ELSE MaxCalls
    /\ warmUp /\ t # First => Filled
    /\ \E b \in Bases : /\ base' = [base EXCEPT ![t] = b]
                        /\ at' = [at EXCEPT ![t] = "read_hex"]
                        /\ raced' = RacedFor(t, b, "read_hex")
    /\ calls' = [calls EXCEPT ![t] = @ + 1]
    /\ UNCHANGED <<key, hexRepresentation, key_map, count, table, built, warmUp>>

\* toHex: the text is there, or must be made; if it is being written now, it
\* may be seen either way, or half written.
read_hex(t) ==
    /\ at[t] = "read_hex"
    /\ \E text \in IF raced[t] THEN {Null, base[t], Torn} ELSE {hexRepresentation[base[t]]} :
          \/ /\ text # Null
             /\ key' = [key EXCEPT ![t] = text]
             /\ Goto(t, "lock")
          \/ /\ text = Null
             /\ Goto(t, "write_hex")
             /\ UNCHANGED key
    /\ UNCHANGED <<base, hexRepresentation, key_map, count, table, built, calls, warmUp>>

write_hex(t) ==
    /\ at[t] = "write_hex"
    /\ hexRepresentation' = [hexRepresentation EXCEPT ![base[t]] = base[t]]
    /\ \E text \in IF raced[t] THEN {base[t], Torn} ELSE {base[t]} :
          key' = [key EXCEPT ![t] = text]
    /\ Goto(t, "lock")
    /\ UNCHANGED <<base, key_map, count, table, built, calls, warmUp>>

\* AsyncSemaphore::lock: its mutex is held from the test to the decrement.
lock(t) ==
    /\ at[t] = "lock"
    /\ \/ /\ count # 0
          /\ count' = count - 1
          /\ Goto(t, "unlock")
       \/ /\ count = 0
          /\ Goto(t, "asleep")
          /\ UNCHANGED count
    /\ UNCHANGED <<base, key, hexRepresentation, key_map, table, built, calls, warmUp>>

\* Mutant: nobody is notified.
Notifiable_Nobody == {}

\* notify_one wakes one of the threads that wait, if there is one.
Notifiable == {u \in Threads : at[u] = "asleep"}

Released == count + 1

\* AsyncSemaphore::unlock, at the end of wait(): the semaphore is free again
\* before the caller goes on.
unlock(t) ==
    /\ at[t] = "unlock"
    /\ count' = Released
    /\ raced' = RacedFor(t, base[t], "find")
    /\ \/ /\ Notifiable = {}
          /\ at' = [at EXCEPT ![t] = "find"]
       \/ \E u \in Notifiable : at' = [at EXCEPT ![t] = "find", ![u] = "lock"]
    /\ UNCHANGED <<base, key, hexRepresentation, key_map, table, built, calls, warmUp>>

\* Mutant: the map is searched under another key than it is filled.
Found_Never(t) == FALSE
Found(t) == key[t] \in DOMAIN key_map

\* getBaseLookupTable: the end of find, of the generation of a table, of the
\* insertion, which keeps an entry that is there, and of key_map[key], which
\* inserts an empty entry for a key that is not.
find(t) ==
    /\ at[t] = "find"
    /\ \E found \in {Found(t)} \cup IF raced[t] THEN {FALSE} ELSE {} :
          IF found THEN Goto(t, "index") ELSE Goto(t, "generate")
    /\ UNCHANGED <<base, key, hexRepresentation, key_map, count, table, built, calls, warmUp>>

generate(t) ==
    /\ at[t] = "generate"
    /\ built' = [built EXCEPT ![base[t]] = @ + 1]
    /\ Goto(t, "emplace")
    /\ UNCHANGED <<base, key, hexRepresentation, key_map, count, table, calls, warmUp>>

With(k, entry) == [x \in DOMAIN key_map \cup {k} |->
                      IF x \in DOMAIN key_map THEN key_map[x] ELSE entry]

Generated == [b \in Bases |-> generateTable(b)]

emplace(t) ==
    /\ at[t] = "emplace"
    /\ \/ key_map' = With(key[t], Generated[base[t]])
       \/ raced[t] /\ UNCHANGED key_map
    /\ Goto(t, "index")
    /\ UNCHANGED <<base, key, hexRepresentation, count, table, built, calls, warmUp>>

index(t) ==
    /\ at[t] = "index"
    /\ \/ /\ key_map' = With(key[t], Null)
          /\ table' = [table EXCEPT ![t] = key_map'[key[t]]]
       \/ /\ raced[t]
          /\ table' = [table EXCEPT ![t] = Null]
          /\ UNCHANGED key_map
    /\ Goto(t, "pow")
    /\ UNCHANGED <<base, key, hexRepresentation, count, built, calls, warmUp>>

\* The table is used, or a null pointer is.
pow(t) ==
    /\ at[t] = "pow"
    /\ at' = [at EXCEPT ![t] = IF table[t] = Null THEN "crashed" ELSE "idle"]
    /\ base' = [base EXCEPT ![t] = Null] /\ key' = [key EXCEPT ![t] = Null]
    /\ table' = [table EXCEPT ![t] = Null] /\ raced' = [raced EXCEPT ![t] = FALSE]
    /\ UNCHANGED <<hexRepresentation, key_map, count, built, calls, warmUp>>

Step(t) ==
    \/ read_hex(t) \/ write_hex(t) \/ lock(t) \/ unlock(t)
    \/ find(t) \/ generate(t) \/ emplace(t) \/ index(t) \/ pow(t)

\* Nobody is in a call, and nobody may make another.
Quiescent == (\A t \in Threads : at[t] \in {"idle", "crashed"}) /\ UNCHANGED vars

Next == (\E t \in Threads : call(t) \/ Step(t)) \/ Quiescent

Spec == Init /\ [][Next]_vars

\* A thread that can take a step in the library is scheduled.
FairSpec == Spec /\ \A t \in Threads : WF_vars(Step(t))

----------------------------------------------------------------------------
\* Properties.

\* If the cache is warmed up, every power a thread takes through it is the one
\* the direct exponentiation of group.cpp:627 would give, for every exponent
\* that fits the rows, reduced or not, whichever of its digits are zero: the
\* thread has the table of its base, and that table is right.
\* Without the warm-up the map and the cached text are raced on.
PowerIsExact ==
    warmUp => \A t \in Threads : at[t] = "pow" =>
                  /\ table[t] # Null
                  /\ \A e \in Exponents : TablePower(table[t], e) = Power(base[t], e)

\* Then the table of a base, which costs thousands of multiplications, is also
\* made only once (getBaseLookupTable finds it from then on).
BuiltOnce == warmUp => \A b \in Bases : built[b] <= 1

\* Every call ends, in a power or a crash: no thread sleeps for good. (Calls
\* are bounded, so they all end if at some time nobody is in one any more.)
CallsReturn == <>[](\A t \in Threads : at[t] \in {"idle", "crashed"})
=============================================================================
