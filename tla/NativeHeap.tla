---------------------------- MODULE NativeHeap ----------------------------
(* The C++ objects behind the opaque handles of the C interface
   (src/electionguard/facades), and what a function of that interface does to
   them: it makes an object that the caller has to free, hands out a part of
   an object that stays inside it, takes the contents out of its arguments, or
   frees an object with everything in it.

   An object is known by its path: <<input>> or <<result>> for one of its own,
   the container's path and the name of the member for a part of it. The heap
   is a function on the paths of the objects that exist. A part comes into the
   model when it is first handed out; until then its member is in `open`.      *)
EXTENDS Sequences, FiniteSets

Alone == <<>>               \* `in` of an object that is part of no other
Library == <<"library">>    \* `in` of the constants, which nobody frees

\* AS_TYPE is a reinterpret_cast, and two classes of the interface derive from another
BaseOf == [ContestDescriptionWithPlaceholders |-> {"ContestDescription"},
           SubmittedBallot |-> {"CiphertextBallot"}]

Bases(c) == IF c \in DOMAIN BaseOf THEN {c} \cup BaseOf[c] ELSE {c}

(***************************************************************************)
(* A function of the interface: its name without the prefix of its class,  *)
(* what it gives, the class the implementation gives (class) and the one   *)
(* the declaration names (as), the class `handle` is cast to when it is    *)
(* not that of its own table (cast), and the arguments it takes.           *)
(***************************************************************************)
Function(fn, kind, class, takes) ==
  [fn |-> fn, kind |-> kind, class |-> class, as |-> class, role |-> "",
   cast |-> "", self |-> TRUE, takes |-> takes]

Unbound(op) == [op EXCEPT !.self = FALSE]
CastTo(c, op) == [op EXCEPT !.cast = c]
TypedAs(c, op) == [op EXCEPT !.as = c]

\* make_unique<T>(...).release(): an object with the members it was given
New(fn, c, takes) == Unbound(Function(fn, "new", c, takes))
\* the same for a result that is computed or deserialized: every member is there
Fresh(fn, c, takes) == Function(fn, "made", c, takes)
Made(fn, c, takes) == Unbound(Fresh(fn, c, takes))
Loaded(c, fns) == {Made(fn, c, {}) : fn \in fns}
\* AS_TYPE(T, reference): a member of the object, which keeps it
Part(fn, role, c) == [Function(fn, "part", c, {}) EXCEPT !.role = role]
\* a constant of the library, made at its first use and never freed
Static(fn, c) == [Unbound(Function(fn, "static", c, {})) EXCEPT !.role = fn]
Frees(fn) == Function(fn, "free", "", {})
Drops(fn) == Function(fn, "drop", "", {})

\* numbers and truth values; dynamicCopy(string), from malloc; dynamicCopy(vector), from new[]
Values(fns) == {Function(fn, "value", "", {}) : fn \in fns}
Texts(fns) == {Fresh(fn, "Text", {}) : fn \in fns}
Bytes(fns) == {Fresh(fn, "Bytes", {}) : fn \in fns}

Takes(role, c, how) == [role |-> role, class |-> c, how |-> how]
Moved(role, c) == Takes(role, c, "moved")       \* T(move(*element)): the pimpl is gone
Copied(role, c) == Takes(role, c, "copied")     \* clone() or T(*element)
Adopted(role, c) == Takes(role, c, "adopted")   \* unique_ptr<T>{argument}, moved into the result
Consumed(role, c) == Takes(role, c, "consumed") \* unique_ptr<T>{argument}, gone when the call returns
Kept(role, c) == Takes(role, c, "kept")         \* a reference outlives the call
Read(c) == Takes(c, c, "read")

Roles(op, hows) == {t.role : t \in {u \in op.takes : u.how \in hows}}

(***************************************************************************)
(* The heap.                                                               *)
(***************************************************************************)
Object(class, in, whole, open, kept) ==
  [class |-> class, in |-> in, whole |-> whole, full |-> TRUE, open |-> open, kept |-> kept]

\* an object that is there already stays as it is
Placed(heap, x, object) ==
  [y \in DOMAIN heap \cup {x} |-> IF y \in DOMAIN heap THEN heap[y] ELSE object]

Removed(heap, gone) == [x \in DOMAIN heap \ gone |-> heap[x]]

\* everything that goes with the object: its parts, their parts and so on
Within(heap, x) == {y \in DOMAIN heap : heap[y].whole = x}

\* delete AS_TYPE(T, handle)
Deleted(heap, x) == Removed(heap, Within(heap, x))

\* Mutant: the parts would still go with the shell.
MovedInto_LeavesParts(heap, n, roles) ==
  [x \in DOMAIN heap |-> IF x \in {<<r>> : r \in roles} THEN [heap[x] EXCEPT !.full = FALSE, !.open = {}]
                         ELSE heap[x]]

(* The contents of the inputs named by `roles` move into n. Each input stays
   behind as a shell that its owner still has to free; its parts keep their
   place and have a new whole.                                               *)
MovedInto(heap, n, roles) ==
  LET shells == {<<r>> : r \in roles}
      inner(s) == n \o s
      Rehomed(x) == [heap[x] EXCEPT !.whole = n,
                                    !.in = IF @ \in shells THEN inner(@) ELSE @]
  IN  [x \in DOMAIN heap \cup {inner(s) : s \in shells} |->
         IF x \in {inner(s) : s \in shells}
         THEN [heap[<<x[Len(x)]>>] EXCEPT !.in = n, !.whole = n]
         ELSE IF x \in shells THEN [heap[x] EXCEPT !.full = FALSE, !.open = {}]
         ELSE IF heap[x].whole \in shells THEN Rehomed(x)
         ELSE heap[x]]

\* unique_ptr<T>{argument}: the object itself becomes a part of n, at the address it has
AdoptedBy(heap, n, roles) ==
  LET adopted == {<<r>> : r \in roles}
  IN  [x \in DOMAIN heap |->
         IF x \in adopted THEN [heap[x] EXCEPT !.in = n, !.whole = n]
         ELSE IF heap[x].whole \in adopted THEN [heap[x] EXCEPT !.whole = n]
         ELSE heap[x]]

\* a function that throws after it has taken these: their contents are destroyed with its locals
Lost(heap, roles) ==
  [x \in {y \in DOMAIN heap : heap[y].whole \notin {<<r>> : r \in roles} \/ y = heap[y].whole} |->
     IF x \in {<<r>> : r \in roles} THEN [heap[x] EXCEPT !.full = FALSE, !.open = {}]
     ELSE heap[x]]

\* Mutant: whichever part was asked for first.
Member_AnyRole(heap, x, role) == {y \in DOMAIN heap : heap[y].in = x}

\* the part in this member, if it has been handed out before
Member(heap, x, role) == {y \in DOMAIN heap : heap[y].in = x /\ y[Len(y)] = role}

=============================================================================
