--------------------------- MODULE DotNetBinding ---------------------------
(* A .NET program that works with the binding in src/bindings/netstandard,
   whose wrappers live by the garbage collector, on top of the objects of the C
   interface. A run looks at one class at a time (subject), as in CInterface.

   No wrapper refers to another one: that of a contest does not keep the
   wrapper of its ballot, nor that of a mediator its manifest. So any wrapper
   can be disposed of, or collected and finalized, at any time.              *)
EXTENDS Facade, DotNetClasses, Integers

CONSTANTS MaxWrapped, \* bound: the objects made and the parts handed out
          Careful     \* TRUE: the program keeps to what is said at Keeps, Broken and AtHand

ASSUME DotNetAssumption == Careful \in BOOLEAN

VARIABLES subject,  \* the class
          objects,  \* the heap of the C interface
          wrappers, \* those that have not been disposed of or finalized
          fault    \* the first call to the C interface with undefined behaviour

dotNetVars == <<subject, objects, wrappers, fault>>

\* a wrapper: the object its Handle points to, its class, and whether it was given to a call that moved from it
Wrapper(id, as) == [id |-> id, as |-> as, spent |-> FALSE]

(***************************************************************************)
(* Entry points.                                                           *)
(***************************************************************************)
\* what fn of class c is bound to: nothing if the library has no such function
Entry(c, fn) ==
  IF <<c, fn>> = <<"CiphertextBallotContest", "selection_is_valid_encryption">>
  THEN {CastTo("CiphertextBallotSelection", op) :
          op \in {f \in Own["CiphertextBallotSelection"] : f.fn = "is_valid_encryption"}}
  ELSE LET Named(b) == {op \in Own[b] : op.fn = fn}
       IN  IF Named(c) # {} THEN Named(c) ELSE UNION {Named(b) : b \in Bases(c)}

Entries == [c \in DOMAIN DotNetClasses |-> UNION {Entry(c, fn) : fn \in Called[c]}] @@ <<>>

\* the name a member uses for the entry point
UsedAs(c, op) ==
  IF c = "CiphertextBallotContest" /\ op.cast # "" THEN "selection_is_valid_encryption" ELSE op.fn

(* The member takes the result for what it is, frees it with the function that
   belongs to its allocator, and passes the arguments that the function has.  *)
SoundlyBound(c, op) ==
  LET fn == UsedAs(c, op)
      Used(way) == fn \in Uses(c, way)
  IN  /\ op.cast \in {""} \cup Bases(c)
      /\ fn \in DOMAIN Interop[c].takes => Interop[c].takes[fn] = {t.class : t \in op.takes}
      /\ Used("wraps") => /\ op.kind \in {"new", "made", "part", "static"}
                          /\ DeclaredAs(c, fn) \in Bases(op.class)
      /\ Used("strings") => op.kind = "made" /\ op.class = "Text"
      /\ Used("buffers") => op.kind = "made" /\ op.class = "Bytes"
      /\ Used("views") => op.kind = "part" /\ op.class = "NodeText"
      /\ Used("values") => op.kind \in {"value", "drop"} \/ op.class = "Limbs"

SoundOn == [c \in DOMAIN DotNetClasses |-> {op \in Entries[c] : SoundlyBound(c, op)}] @@ <<>>

\* the members a careful program leaves alone
Broken ==
  {<<"ContactInformation", "get_email_line_at_index">>, <<"ContactInformation", "crypto_hash">>,
   <<"Candidate", "get_name">>, <<"Candidate", "crypto_hash">>,
   <<"CiphertextBallotContest", "is_valid_encryption">>, <<"Encrypt", "contest">>}

(***************************************************************************)
(* What the classes are like, for every entry point that a careful program *)
(* calls. TLC evaluates it; the proofs take nothing else from the classes. *)
(***************************************************************************)
Classes == Focuses \cap DOMAIN DotNetClasses
ProgramArguments == [c \in Classes |-> Arguments(c, Entries[c])] @@ <<>>

\* the classes whose Free calls the library
FreedNatively == {c \in DOMAIN DotNetClasses : Interop[c].guard = Freed}
Ballots == {"PlaintextBallot", "CiphertextBallot", "SubmittedBallot"}

\* the entry points called for class c, and those whose result is wrapped
Offered(c) == {op \in Entries[c] : <<c, op.fn>> \notin Broken}
Wrapping(c) == {op \in Offered(c) : op.fn \in Uses(c, "wraps")}

\* the arguments that are taken over, referred to, or disposed of while they are passed
ReliedOn(f) ==
  Keepable(f) \cup (UNION {Roles(op, {"moved", "adopted", "consumed"}) : op \in Calls(f)})
  \cup (UNION {Disposed[c] : c \in DOMAIN DotNetClasses})

ArgumentsBound(f) ==
  /\ \A a \in ProgramArguments[f] : a \in ArgumentsOf[f] /\ a.class \in DOMAIN DotNetClasses
  /\ \A a \in ArgumentsOf[f] : a.role \in ReliedOn(f) => Bases(a.class) \cap FreedNatively = {}

CallsBound(c, op) ==
  /\ op \in SoundOn[c]
  /\ op \in IF op.self THEN On[c] ELSE Tables[c]

WrapsBound(c, op) ==
  /\ op.kind \in IF op.self THEN {"made", "part"} ELSE {"new", "made", "static"}
  /\ DeclaredAs(c, op.fn) \in DOMAIN DotNetClasses
  /\ DeclaredAs(c, op.fn) \in Bases(IF op.kind = "static" THEN op.as ELSE op.class)
  /\ op.self /\ op.kind = "made" => <<c, op.fn>> \notin Mistyped
  /\ op.kind \in {"part", "static"} => DeclaredAs(c, op.fn) \notin FreedNatively

ASSUME BindingAssumption ==
  /\ DOMAIN DotNetClasses \subseteq DOMAIN Tables
  /\ \A c \in Ballots : Bases(c) \subseteq FreedNatively
  /\ \A c \in DOMAIN DotNetClasses :
       /\ Disposed[c] \cap Reserved = {}
       /\ \A op \in Offered(c) : CallsBound(c, op)
       /\ \A op \in Wrapping(c) : WrapsBound(c, op)
  /\ \A f \in Classes : ArgumentsBound(f)

(***************************************************************************)
(* The wrappers.                                                           *)
(***************************************************************************)
OnlyPassed == {<<t.role>> : t \in {a \in ProgramArguments[subject] : a.how = "read" /\ a.class # subject}}

\* the wrappers of the arguments of op
Given(op) == {w \in wrappers : \E t \in op.takes : w.id = <<t.role>>}

(* A careful program gives away what is its own only: not the nonce of a ballot,
   whose wrapper looks like that of any other number.                          *)
AtHand(op) ==
  \A t \in op.takes : \E w \in wrappers :
    /\ w.id = <<t.role>>
    /\ Careful => /\ ~w.spent
                  /\ t.how \in {"read", "copied", "kept"} \/ objects[w.id].in = Alone

FreesNatively_Always(w) == TRUE
FreesNatively_Never(w) == FALSE

\* ReleaseHandle: SafeHandle has set IsClosed, so only a Free that looks at IsFreed calls the library
FreesNatively(w) == w.as \in FreedNatively

\* a careful program keeps the wrapper of an object while it uses one of its parts
Keeps(w) ==
  \E v \in wrappers : v # w /\ ~v.spent /\ v.id \in DOMAIN objects /\ objects[v.id].whole = w.id

(* Bound: the wrappers of arguments whose release does nothing to the heap go in
   one order.                                                                 *)
IdleInOrder(w) ==
  LET idle == {v.id : v \in {u \in wrappers : ~FreesNatively(u)}}
              \cap {<<a.role>> : a \in ProgramArguments[subject]}
  IN  w.id \in idle => w.id = CHOOSE x \in idle : TRUE

(* Dispose or the finalizer. Either happens once: a second Dispose returns at
   once (disposedValue), and SafeHandle calls ReleaseHandle a single time, so
   the wrapper is gone, and IsFreed is never found set.                      *)
Release(w) ==
  /\ IdleInOrder(w)
  /\ Careful => ~Keeps(w)
  /\ wrappers' = wrappers \ {w}
  /\ IF ~FreesNatively(w) THEN UNCHANGED <<objects, fault>>
     ELSE IF w.id \notin DOMAIN objects THEN fault' = "freed twice" /\ UNCHANGED objects
     ELSE IF objects[w.id].in # Alone THEN fault' = "freed inside" /\ UNCHANGED objects
     ELSE objects' = Deleted(objects, w.id) /\ UNCHANGED fault
  /\ UNCHANGED subject

(***************************************************************************)
(* Calls.                                                                  *)
(***************************************************************************)
\* the elements of its array arguments are disposed of before the call
DisposedBy(c, op) == {w \in Given(op) : w.id[1] \in Disposed[c]}
HeapAtCall(c, op) ==
  Removed(objects, UNION {Within(objects, w.id) : w \in {v \in DisposedBy(c, op) : FreesNatively(v)}})

\* the objects a call gets are there and have their contents, and so are those they refer to
Alive(h, x) == x \in DOMAIN h /\ h[x].full /\ \A k \in h[x].kept : k \in DOMAIN h /\ h[k].full

FaultOf(c, op, handles) ==
  IF op \notin SoundOn[c] THEN "mistyped"
  ELSE IF \E w \in handles : ~Alive(HeapAtCall(c, op), w.id) THEN "dangling"
  ELSE IF \E x \in Took(op, {"adopted", "consumed"}) : HeapAtCall(c, op)[x].in # Alone THEN "freed inside"
  ELSE ""

(* What a call leaves of the wrappers: those it was given singly stay. A careful
   program gives up those it moved from, and those of the parts of what is lost. *)
Left(c, op, lost) ==
  LET given == Took(op, {"moved", "adopted", "consumed"})
      Gone(w) == w.id \in given \/ (w.id \in DOMAIN objects /\ objects[w.id].whole \in lost)
  IN  {[w EXCEPT !.spent = @ \/ Gone(w)] : w \in wrappers \ DisposedBy(c, op)}

(* Bound: the objects made and the parts handed out, which mostly stay (the
   arguments that moved into another object are not counted again), and the
   wrappers of both; one less for the classes with the most arguments.        *)
RoomToWrap ==
  LET given == {<<a.role>> : a \in ProgramArguments[subject]}
      moved == {x \in given \cap DOMAIN objects : ~objects[x].full}
      most == IF Cardinality(given) > 5 THEN MaxWrapped - 1 ELSE MaxWrapped
  IN  /\ Cardinality({x \in DOMAIN objects \ given : <<x[Len(x)]>> \notin moved}) < most
      /\ Cardinality({w \in wrappers : w.id \notin given}) < most

UnusedNames == {x \in Results : x[1] \notin {y[1] : y \in DOMAIN objects \cup {w.id : w \in wrappers}}}

WrapResult(c, op) ==
  \E n \in {CHOOSE x \in UnusedNames : TRUE} :
    /\ objects' = AfterMake(HeapAtCall(c, op), n, op)
    /\ wrappers' = Left(c, op, Took(op, {"consumed"})) \cup {Wrapper(n, DeclaredAs(c, op.fn))}

\* Bound: a constructor with more than five such arguments has moved from all of them or from none
FailMidway(c, op) ==
  /\ \E moved \in LET taken == Roles(op, {"moved"})
                  IN  IF Cardinality(taken) > 5 THEN {{}, taken} ELSE SUBSET taken :
       objects' = AfterThrow(HeapAtCall(c, op), op, moved)
  /\ wrappers' = Left(c, op, Took(op, {"moved", "adopted", "consumed"}))

WrapPart(c, op, w) ==
  \/ \E x \in Member(objects, w.id, op.role) :
       wrappers' = wrappers \cup {Wrapper(x, DeclaredAs(c, op.fn))} /\ UNCHANGED objects
  \/ /\ op.role \in objects[w.id].open
     /\ objects' = AfterHandOut(objects, w.id, op)
     /\ wrappers' = wrappers \cup {Wrapper(Append(w.id, op.role), DeclaredAs(c, op.fn))}

WrapConstant(c, op) ==
  /\ objects' = AfterConstant(objects, op)
  /\ wrappers' = wrappers \cup {Wrapper(ConstantAt(op), DeclaredAs(c, op.fn))}

\* a member of class c that calls op, on the wrapper in self if it is not a constructor or static
Invoke(c, op, self) ==
  LET wrapped == op.fn \in Uses(c, "wraps")
  IN  /\ AtHand(op)
      /\ Careful => <<c, op.fn>> \notin Broken
      /\ fault' = FaultOf(c, op, Given(op) \cup self)
      /\ IF fault' # "" \/ ~wrapped THEN UNCHANGED <<objects, wrappers>>
         ELSE /\ RoomToWrap
              /\ CASE op.kind \in {"new", "made"} -> UnusedNames # {} /\ WrapResult(c, op)
                   [] op.kind = "part" -> \E w \in self : WrapPart(c, op, w)
                   [] op.kind = "static" -> WrapConstant(c, op)
      /\ UNCHANGED subject

CallStatic(op) == ~op.self /\ Invoke(subject, op, {})

CallMember(w, op) ==
  /\ op.self /\ (Careful => ~w.spent)
  /\ subject \in Bases(w.as) \/ (op.kind = "part" /\ <<w.id[1]>> \notin OnlyPassed)
  /\ Invoke(w.as, op, {w})

CallFails(op) ==
  /\ op.fn \in Uses(subject, "wraps") /\ op.takes # {} /\ AtHand(op) /\ RoomToWrap
  /\ Careful => <<subject, op.fn>> \notin Broken
  /\ FaultOf(subject, op, Given(op)) = ""
  /\ FailMidway(subject, op)
  /\ UNCHANGED <<subject, fault>>

DotNetInit ==
  /\ subject \in Classes
  /\ objects = ArgumentHeap(ProgramArguments[subject])
  /\ wrappers = {Wrapper(<<a.role>>, a.class) : a \in ProgramArguments[subject]}
  /\ fault = ""

\* nothing is said of the program after a fault
DotNetNext ==
  /\ fault = ""
  /\ \/ \E op \in Entries[subject] : CallStatic(op)
     \/ \E w \in wrappers : \E op \in Entries[w.as] : CallMember(w, op)
     \/ \E op \in Entries[subject] : CallFails(op)
     \/ \E w \in wrappers : Release(w)

DotNetSpec == DotNetInit /\ [][DotNetNext]_dotNetVars

(***************************************************************************)
(* Properties.                                                             *)
(***************************************************************************)
(* Whatever order the wrappers are disposed of, collected and finalized in,
   the library is never asked to free an object twice, a part of another object
   or a constant, or to work on one that is gone or has been moved from: the
   getters wrap borrowed parts as owners, constructors dispose of the elements
   of their arrays before the call, and the objects that a mediator refers to
   may be collected before it. And every wrapper a careful program can still use
   is that of an object which is there, has its contents and is of its class.  *)
NoFault ==
  /\ fault = ""
  /\ \A w \in wrappers : ~w.spent => Alive(objects, w.id) /\ w.as \in Bases(objects[w.id].class)

\* the three classes that are freed: no ballot is left behind when its wrapper has gone
BallotsReclaimed ==
  \A x \in DOMAIN objects :
    objects[x].in = Alone /\ objects[x].class \in Ballots
      => \E w \in wrappers : w.id = x

(* The comment on the constructor that all handles are made with,
   ElectionguardSafeHandle.cs:11, "Objects constructed with the default
   constructor own the context": no object of its own is left behind.         *)
Reclaimed ==
  \A x \in DOMAIN objects : objects[x].in = Alone => \E w \in wrappers : w.id = x

============================================================================
