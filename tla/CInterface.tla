---------------------------- MODULE CInterface ----------------------------
(* A program in C that uses the interface the way the headers ask for and the
   tests do (test/electionguard/*.c): it frees what the headers leave to it,
   once, and nothing else; it never uses an object again that it gave to a
   constructor, except to free it; and it keeps the manifest, the context and
   the device as long as the mediator made from them.

   A run looks at one table of the interface (focus): the program starts with
   one object for every argument its functions take, and then calls them, and
   those that hand out parts of what it gets, in any order.                    *)
EXTENDS Facade, Integers

CONSTANTS Extra,         \* bound: the handles held besides the arguments
          ByTheHeader    \* TRUE: the strings in References are not freed either

ASSUME CAssumption == ByTheHeader \in BOOLEAN

VARIABLES focus,   \* the table
          heap,
          refs     \* the handles the program holds

vars == <<focus, heap, refs>>

(***************************************************************************)
(* A handle: the object, the class it is declared with, whether it is the  *)
(* program's to free, what it goes with (the object of the program's own   *)
(* that has to live), whether it was given to a constructor, and what has  *)
(* to be kept for its sake.                                                *)
(***************************************************************************)
Ref(id, as, owned, whole) ==
  [id |-> id, as |-> as, owned |-> owned, whole |-> whole, spent |-> FALSE, keeps |-> {}]

\* (what these give is looked at under their own table)
OnlyRead == {t \in ArgumentsOf[focus] : t.how = "read" /\ t.class # focus}

Held == {r \in refs : r.id[1] \notin {a.role : a \in ArgumentsOf[focus]} \/ Len(r.id) > 1}
Unused == {x \in Results : x[1] \notin {y[1] : y \in DOMAIN heap \cup {r.id : r \in refs}}}
\* the arguments that are still to be had; what is given away has to be the program's own
At(takes) ==
  \A t \in takes : \E r \in refs :
    r.id = <<t.role>> /\ ~r.spent /\ (r.owned \/ t.how \in {"read", "copied", "kept"})

(* Bound: the program frees its arguments in one order. Two of these calls
   commute, and a run over every order has 2^7 times the states for Manifest.  *)
InOrder(r) ==
  LET mine == {s.id : s \in {x \in refs : x.owned}} \cap {<<a.role>> : a \in ArgumentsOf[focus]}
  IN  r.id \in mine => r.id = CHOOSE x \in mine : TRUE

Init ==
  /\ focus \in Focuses
  /\ heap = ArgumentHeap(ArgumentsOf[focus])
  /\ refs = {Ref(<<a.role>>, a.class, TRUE, <<a.role>>) : a \in ArgumentsOf[focus]}

Owns(t, op) ==
  IF <<t, op.fn>> \in References THEN ~ByTheHeader ELSE GivesAway(t, op)

\* what the program makes of its handles when a call has taken some of its arguments into n
Rehomed(n, op) ==
  LET Then(r) ==
        IF r.id \in Took(op, {"moved"}) THEN [r EXCEPT !.spent = TRUE]
        ELSE IF r.id \in Took(op, {"adopted"}) THEN [r EXCEPT !.owned = FALSE, !.whole = n]
        ELSE IF r.whole \in Took(op, {"moved", "adopted"}) THEN [r EXCEPT !.whole = n]
        ELSE r
  IN  {Then(r) : r \in {s \in refs : s.whole \notin Took(op, {"consumed"})}}

\* a call that makes an object; Bound: as many results at a time as there are names for them
Make(t, op) ==
  /\ Unused # {}
  /\ \E n \in {CHOOSE x \in Unused : TRUE} :
       /\ heap' = AfterMake(heap, n, op)
       /\ refs' = Rehomed(n, op)
                  \cup {[Ref(n, op.as, Owns(t, op), n) EXCEPT !.keeps = Took(op, {"kept"})]}

\* the same call, with an exception after some of its arguments were taken
Throw(op) ==
  \E moved \in SUBSET Roles(op, {"moved"}) :
    LET given == Took(op, {"moved"})
        gone == Took(op, {"adopted", "consumed"})
    IN  /\ heap' = AfterThrow(heap, op, moved)
        /\ refs' = {IF r.id \in given THEN [r EXCEPT !.spent = TRUE] ELSE r :
                      r \in {s \in refs : (s.whole \in given => s.id = s.whole) /\ s.whole \notin gone}}

\* a call that hands out a member of the object behind r
HandOut(op, r) ==
  \/ \E x \in Member(heap, r.id, op.role) :
       /\ refs' = refs \cup {Ref(x, op.as, Owns(r.as, op), r.whole)}
       /\ UNCHANGED heap
  \/ /\ op.role \in heap[r.id].open
     /\ heap' = AfterHandOut(heap, r.id, op)
     /\ refs' = refs \cup {Ref(Append(r.id, op.role), op.as, Owns(r.as, op), r.whole)}

\* a constant of the library
Constant(t, op) ==
  /\ heap' = AfterConstant(heap, op)
  /\ refs' = refs \cup {Ref(ConstantAt(op), op.as, Owns(t, op), ConstantAt(op))}

Delete(r) ==
  /\ heap' = Deleted(heap, r.id)
  /\ refs' = {s \in refs : s.whole # r.id}

\* the members handed out so far go, the object stays
Drop(r) ==
  LET gone == Within(heap, r.id) \ {r.id}
  IN  /\ heap' = Removed([heap EXCEPT ![r.id].open = Members[heap[r.id].class]], gone)
      /\ refs' = {s \in refs : s.whole # r.id \/ s.id = r.id}

(***************************************************************************)
(* The actions.                                                            *)
(***************************************************************************)
\* Bound: one handle less for the tables with the most arguments, Manifest and Encrypt
Room == Cardinality(Held) < IF Cardinality(ArgumentsOf[focus]) > 5 THEN Extra - 1 ELSE Extra

\* a function that needs no handle of its own class
Call(op) ==
  /\ Room /\ ~op.self /\ At(op.takes)
  /\ IF op.kind = "static" THEN Constant(focus, op) ELSE Make(focus, op)
  /\ UNCHANGED focus

\* a function called on a handle the program holds
CallOn(r, op) ==
  /\ Room /\ ~r.spent /\ At(op.takes)
  /\ focus \in Bases(r.as) \/ (op.kind = "part" /\ r.whole \notin {<<t.role>> : t \in OnlyRead})
  /\ <<r.as, op.fn>> \notin Mistyped
  /\ CASE op.kind = "made" -> Make(r.as, op)
       [] op.kind = "part" -> HandOut(op, r)
       [] op.kind = "value" -> UNCHANGED <<heap, refs>>
       [] OTHER -> FALSE
  /\ UNCHANGED focus

CallThrows(op) ==
  /\ Room /\ op.takes # {} /\ At(op.takes)
  /\ Throw(op)
  /\ UNCHANGED focus

FreeHandle(r, op) ==
  /\ r.owned /\ op.kind = "free"
  /\ ~\E m \in refs : r.id \in m.keeps
  /\ InOrder(r)
  /\ Delete(r)
  /\ UNCHANGED focus

DropFrom(r, op) ==
  /\ op.kind = "drop" /\ ~r.spent
  /\ Drop(r)
  /\ UNCHANGED focus

Next ==
  \/ \E op \in Tables[focus] : Call(op)
  \/ \E r \in refs : \E op \in On[r.as] : CallOn(r, op)
  \/ \E op \in Tables[focus] : CallThrows(op)
  \/ \E r \in refs : \E op \in Own[r.as] : FreeHandle(r, op)
  \/ \E r \in refs : \E op \in Own[r.as] : DropFrom(r, op)

Spec == Init /\ [][Next]_vars

(***************************************************************************)
(* Properties.                                                             *)
(***************************************************************************)
(* Every object on the heap is freed by exactly one party: by the program,
   through the one handle it owns, or with the object it is a part of, which is
   there and has not been moved out of. So nothing is leaked and nothing is
   freed twice, whichever constructors take over their arguments and wherever
   they throw.                                                                *)
OneOwner ==
  /\ \A x \in DOMAIN heap :
       LET owners == Cardinality({r \in refs : r.id = x /\ r.owned}) IN
       CASE heap[x].in = Alone -> owners = 1
         [] heap[x].in = Library -> owners = 0
         [] OTHER -> /\ {heap[x].in, heap[x].whole} \subseteq DOMAIN heap
                     /\ heap[heap[x].in].full /\ heap[heap[x].whole].in \in {Alone, Library}
                     /\ owners = 0
  /\ \A r \in refs : r.owned => r.id \in DOMAIN heap

(* A handle the program may still use is that of an object that exists and has
   its contents, and so is everything a mediator refers to: what a part is
   borrowed from keeps it alive, also after it has itself become a part.       *)
RefsAlive ==
  /\ \A r \in refs : r.id \in DOMAIN heap /\ (r.spent \/ heap[r.id].full)
  /\ \A x \in DOMAIN heap : \A k \in heap[x].kept : k \in DOMAIN heap /\ heap[k].full

(* Outside the functions of Mistyped, the class a handle is declared with is
   that of its object or a base of it, and so is the class that every function
   the program can call on it casts it to.                                    *)
ClassSound ==
  \A r \in refs :
    /\ r.as \in Bases(heap[r.id].class)
    /\ \A op \in On[r.as] :
         op.cast # "" /\ <<r.as, op.fn>> \notin Mistyped => op.cast \in Bases(heap[r.id].class)

=============================================================================
