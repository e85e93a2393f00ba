--------------------------- MODULE ObjectProofs ---------------------------
(* Every object that crosses the C interface is freed by exactly one party, no
   handle that may be used is dangling, and no handle has the wrong class: for
   any tables of functions that are as TablesAssumption says, any number of
   handles and of objects at a time, and calls in any order with exceptions
   anywhere. And a careful .NET program keeps to that, with wrappers that do not
   keep each other and go in any order: for classes that bind the functions as
   BindingAssumption says.                                                     *)
EXTENDS CInterface, DotNetBinding, FiniteSetTheorems, TLAPS

-----------------------------------------------------------------------------
(***************************************************************************)
(* The inductive invariant: the heap.                                      *)
(***************************************************************************)
Path == Seq(Names)
Named == {<<c>> : c \in Names}
Under(x, m) == Append(x, m)   \* a member of x
ObjectType == [class : Types, in : Path, whole : Path, full : BOOLEAN,
               open : SUBSET Names, kept : SUBSET Path]
Outer == {Alone, Library}

HeapType(h) ==
  /\ h \in [DOMAIN h -> ObjectType]
  /\ \A x \in DOMAIN h : x \in Path /\ x # <<>>

\* An object that is in no other has a name of its own: an argument's, a result's, or a constant's.
Roots(f, h) ==
  \A x \in DOMAIN h :
    /\ h[x].in = Alone => x \in Named /\ h[x].whole = x
    /\ h[x].in = Library => x \notin Named /\ h[x].whole = x /\ h[x].full
    /\ x # Library
    /\ x \in Named \ Results =>
         \E a \in ArgumentsOf[f] : a.role = x[1] /\ h[x].class = ArgumentClass(f, x[1])
    /\ x \in Named /\ x[1] \in Keepable(f) => h[x].in = Alone

\* A part is in an object that has its contents, and goes with the same whole.
Inside(h) ==
  \A x \in DOMAIN h : h[x].in \notin Outer =>
    /\ h[x].full
    /\ h[x].in \in DOMAIN h /\ h[h[x].in].full /\ h[h[x].in].whole = h[x].whole
    /\ h[x].whole \in DOMAIN h /\ h[h[x].whole].in \in Outer

\* A path longer than a name and a member starts with the path of an object that goes with the same
\* whole, and so does a shorter one, if that object has its contents.
Prefixes(h) ==
  \A x \in Path, m \in Names : Under(x, m) \in DOMAIN h =>
    /\ x # <<>> /\ x \notin Named => x \in DOMAIN h
    /\ x \in DOMAIN h /\ h[x].full => h[x].whole = h[Under(x, m)].whole

\* What has not been handed out is not on the heap.
OpenFree(h) == \A x \in DOMAIN h : \A m \in h[x].open : Under(x, m) \notin DOMAIN h

\* A mediator is a result, and what it refers to is an argument that nothing takes.
KeptAlive(f, h) ==
  \A x \in DOMAIN h : \A k \in h[x].kept :
    /\ x \in Results /\ h[x].in = Alone
    /\ k \in DOMAIN h /\ h[k].in = Alone /\ h[k].full /\ k[1] \in Keepable(f)

\* Whatever getter gives this part, its class is one of the object's; and what can be emptied is no part.
Fitting(h) ==
  \A x \in DOMAIN h :
    /\ h[x].in \in DOMAIN h => Fits(h[h[x].in].class, x[Len(x)], h[x].class)
    /\ h[x].in # Alone => ~Droppable(h[x].class)

\* The constants of the library have the class their getters give.
ConstantsFit(f, h) ==
  \A op \in Tables[f] : op.kind = "static" /\ ~op.self /\ ConstantAt(op) \in DOMAIN h =>
    /\ op.as \in Bases(h[ConstantAt(op)].class) /\ h[ConstantAt(op)].in = Library

HeapInv(f, h) ==
  /\ HeapType(h) /\ Roots(f, h) /\ Inside(h) /\ Prefixes(h) /\ OpenFree(h)
  /\ KeptAlive(f, h) /\ Fitting(h) /\ ConstantsFit(f, h)

(***************************************************************************)
(* The inductive invariant: the handles.                                   *)
(***************************************************************************)
RefType == [id : Path, as : Types, owned : BOOLEAN, whole : Path, spent : BOOLEAN, keeps : SUBSET Path]

\* A handle is that of an object, knows what it goes with, and may be used if the object has its contents.
RefSound(h, r) ==
  /\ r \in RefType
  /\ r.id \in DOMAIN h /\ r.whole = h[r.id].whole
  /\ r.spent \/ h[r.id].full
  /\ r.owned => h[r.id].in = Alone
  /\ r.as \in Bases(h[r.id].class)

RefInv(h, rs) ==
  /\ \A r \in rs : RefSound(h, r)
  /\ \A r, s \in rs : r.owned /\ s.owned /\ r.id = s.id => r = s
  /\ \A x \in DOMAIN h : \A k \in h[x].kept : \E m \in rs : m.id = x /\ k \in m.keeps

\* Nothing is left behind.
AllOwned(h, rs) == \A x \in DOMAIN h : h[x].in = Alone => \E r \in rs : r.id = x /\ r.owned

Sound(f, h, rs) == HeapInv(f, h) /\ RefInv(h, rs) /\ (ByTheHeader \/ AllOwned(h, rs))

ObjectsInv == focus \in Focuses /\ Sound(focus, heap, refs)

-----------------------------------------------------------------------------
(***************************************************************************)
(* Paths.                                                                  *)
(***************************************************************************)
\* A path with one more member on it.
LEMMA LongerPath ==
  ASSUME NEW x \in Path, NEW m \in Names
  PROVE  /\ Under(x, m) \in Path /\ Under(x, m) # <<>> /\ Under(x, m) # x
         /\ Under(x, m)[Len(Under(x, m))] = m
         /\ x # <<>> => Under(x, m)[1] = x[1] /\ Under(x, m) \notin Named
         /\ x = <<>> => Under(x, m) = <<m>>
<1>1. Append(x, m) \in Path /\ Append(x, m) # <<>> /\ Append(x, m) # x
  BY DEF Path
<1>2. Append(x, m)[Len(Append(x, m))] = m
  BY DEF Path
<1>3. ASSUME x # <<>>
      PROVE  Append(x, m)[1] = x[1] /\ Append(x, m) \notin Named
  <2>1. PICK k \in Nat : k = Len(x)
    BY DEF Path
  <2>2. k >= 1
    BY <1>3, <2>1 DEF Path
  <2>3. Len(Append(x, m)) = k + 1 /\ Append(x, m)[1] = x[1]
    BY <2>1, <2>2 DEF Path
  <2>4. \A y \in Named : Len(y) = 1
    BY DEF Named
  <2>5. k + 1 # 1
    BY <2>2
  <2> QED
    BY <2>3, <2>4, <2>5
<1>4. Append(<<>>, m) = <<m>>
  BY DEF Path
<1> QED
  BY <1>1, <1>2, <1>3, <1>4 DEF Under

\* The path and the member can be told from it.
LEMMA PathApart ==
  ASSUME NEW x \in Path, NEW y \in Path, NEW m \in Names, NEW k \in Names, Under(x, m) = Under(y, k)
  PROVE  x = y /\ m = k
<1>1. Append(x, m) = Append(y, k)
  BY DEF Under
<1>2. Len(x) = Len(y)
  BY <1>1 DEF Path
<1>3. \A z \in Path, c \in Names : Append(z, c)[Len(z) + 1] = c /\ \A i \in 1..Len(z) : Append(z, c)[i] = z[i]
  BY DEF Path
<1>4. m = k
  BY <1>1, <1>2, <1>3
<1>5. \A i \in 1..Len(x) : x[i] = y[i]
  BY <1>1, <1>2, <1>3
<1> QED
  BY <1>2, <1>4, <1>5 DEF Path

\* A name.
LEMMA NamePath ==
  ASSUME NEW r \in Names
  PROVE  <<r>> \in Path /\ <<r>> \in Named /\ <<r>> # <<>> /\ <<r>>[1] = r
         /\ <<r>>[Len(<<r>>)] = r
BY DEF Path, Named

\* What is neither empty nor a name has a last member.
LEMMA PathSplit ==
  ASSUME NEW x \in Path, x # <<>>, x \notin Named
  PROVE  \E y \in Path, m \in Names : x = Under(y, m) /\ y # <<>> /\ m = x[Len(x)]
<1>1. PICK k \in Nat : k = Len(x)
  BY DEF Path
<1>2. k # 0
  BY <1>1 DEF Path
<1>3. k # 1
  <2> SUFFICES ASSUME k = 1
               PROVE  FALSE
    OBVIOUS
  <2>1. x[1] \in Names /\ x = <<x[1]>>
    BY <1>1 DEF Path
  <2> QED
    BY <2>1 DEF Named
<1> DEFINE y == [i \in 1..(k - 1) |-> x[i]]
<1>4. y \in Path /\ Len(y) = k - 1 /\ x[k] \in Names
  BY <1>1, <1>2 DEF Path
<1>5. x = Under(y, x[k])
  BY <1>1, <1>2, <1>4 DEF Path, Under
<1>6. y # <<>>
  BY <1>2, <1>3, <1>4
<1> QED
  BY <1>1, <1>4, <1>5, <1>6

LEMMA ReservedNames ==
  /\ Reserved = Slots \cup {"library"} /\ "library" \notin Slots
  /\ Reserved \subseteq Names
BY SlotsAssumption DEF Reserved, Names, Library

LEMMA ResultPath ==
  ASSUME NEW n \in Results
  PROVE  /\ n \in Path /\ n \in Named /\ n # <<>> /\ n[1] \in Reserved /\ n[1] # Library[1]
         /\ \A r \in Names : n \o <<r>> = Under(n, r)
<1>1. PICK c \in Slots : n = <<c>>
  BY DEF Results
<1>2. c \in Names /\ c \in Reserved /\ c # "library"
  BY ReservedNames
<1>3. n \in Path /\ n \in Named /\ n # <<>> /\ n[1] = c
  BY <1>1, <1>2, NamePath
<1>4. \A r \in Names : n \o <<r>> = Under(n, r)
  BY <1>3 DEF Path, Under
<1> QED
  BY <1>2, <1>3, <1>4 DEF Library

LEMMA LibraryPath ==
  /\ Library \in Path /\ Library \in Named /\ Library # <<>> /\ Library[1] = "library"
  /\ Alone \in Path /\ Alone = <<>> /\ Alone # Library
<1>1. "library" \in Names
  BY ReservedNames
<1>2. <<"library">> \in Path /\ <<"library">> \in Named /\ <<"library">> # <<>> /\ <<"library">>[1] = "library"
  BY <1>1, NamePath
<1>3. Alone \in Path /\ Alone = <<>>
  BY DEF Alone, Path
<1> QED
  BY <1>1, <1>2, <1>3 DEF Library

\* The base of a base is a base.
LEMMA BasesTransitive ==
  ASSUME NEW a, NEW b, NEW c, a \in Bases(b), b \in Bases(c)
  PROVE  a \in Bases(c)
BY DEF Bases, BaseOf

\* The name of a result is a reserved one.
LEMMA NotReserved ==
  ASSUME NEW x, x \in Results
  PROVE  x[1] \in Reserved
BY ReservedNames DEF Results

-----------------------------------------------------------------------------
(***************************************************************************)
(* The heap without the objects that go with any of `gone`.                *)
(***************************************************************************)
Without(h, gone) == [x \in {y \in DOMAIN h : h[y].whole \notin gone} |-> h[x]]

\* What UNION of Within says.
LEMMA RemovedIsWithout ==
  ASSUME NEW h, NEW gone
  PROVE  Removed(h, UNION {Within(h, x) : x \in gone}) = Without(h, gone)
<1>1. DOMAIN h \ UNION {Within(h, x) : x \in gone} = {y \in DOMAIN h : h[y].whole \notin gone}
  BY DEF Within
<1> QED
  BY <1>1 DEF Removed, Without

LEMMA DeletedIsWithout ==
  ASSUME NEW h, NEW x
  PROVE  Deleted(h, x) = Without(h, {x})
<1>1. Within(h, x) = UNION {Within(h, y) : y \in {x}}
  OBVIOUS
<1> QED
  BY <1>1, RemovedIsWithout DEF Deleted

\* What is on the heap has contents, unless it is in no other.
LEMMA LongIsFull ==
  ASSUME NEW f, NEW h, HeapInv(f, h), NEW x \in DOMAIN h, x \notin Named
  PROVE  h[x].full
BY DEF HeapInv, Roots, Inside, Outer

\* Freeing an object with all that is in it keeps the heap sound, if nobody else refers to it.
LEMMA WithoutSound ==
  ASSUME NEW f, NEW h, NEW gone, HeapInv(f, h),
         \A x \in DOMAIN h : \A k \in h[x].kept : h[k].whole \in gone => h[x].whole \in gone
  PROVE  HeapInv(f, Without(h, gone))
<1> DEFINE g == Without(h, gone)
<1>1. DOMAIN g = {x \in DOMAIN h : h[x].whole \notin gone} /\ \A x \in DOMAIN g : g[x] = h[x]
  BY DEF Without
<1>2. HeapType(g)
  BY <1>1 DEF Without, HeapInv, HeapType
<1> HIDE DEF g
<1>3. Roots(f, g)
  BY <1>1 DEF HeapInv, Roots
<1>4. Inside(g)
  <2> SUFFICES ASSUME NEW x \in DOMAIN g, g[x].in \notin Outer
               PROVE  /\ g[x].full
                      /\ g[x].in \in DOMAIN g /\ g[g[x].in].full /\ g[g[x].in].whole = g[x].whole
                      /\ g[x].whole \in DOMAIN g /\ g[g[x].whole].in \in Outer
    BY DEF Inside
  <2>1. x \in DOMAIN h /\ g[x] = h[x] /\ h[x].whole \notin gone
    BY <1>1
  <2>2. /\ h[x].full
        /\ h[x].in \in DOMAIN h /\ h[h[x].in].full /\ h[h[x].in].whole = h[x].whole
        /\ h[x].whole \in DOMAIN h /\ h[h[x].whole].in \in Outer
    BY <2>1 DEF HeapInv, Inside
  <2>3. h[h[x].whole].whole = h[x].whole
    BY <2>2 DEF HeapInv, Roots, Outer
  <2>4. h[x].in \in DOMAIN g /\ h[x].whole \in DOMAIN g
    BY <1>1, <2>1, <2>2, <2>3
  <2> QED
    BY <1>1, <2>1, <2>2, <2>4
<1>5. Prefixes(g)
  <2> SUFFICES ASSUME NEW x \in Path, NEW m \in Names, Under(x, m) \in DOMAIN g
               PROVE  /\ x # <<>> /\ x \notin Named => x \in DOMAIN g
                      /\ x \in DOMAIN g /\ g[x].full => g[x].whole = g[Under(x, m)].whole
    BY DEF Prefixes
  <2>1. /\ x # <<>> /\ x \notin Named => x \in DOMAIN h
        /\ x \in DOMAIN h /\ h[x].full => h[x].whole = h[Under(x, m)].whole
    BY <1>1 DEF HeapInv, Prefixes
  <2>2. x # <<>> /\ x \notin Named => h[x].full
    BY <2>1, LongIsFull
  <2> QED
    BY <1>1, <2>1, <2>2
<1>6. OpenFree(g)
  BY <1>1 DEF HeapInv, OpenFree
<1>7. KeptAlive(f, g)
  <2> SUFFICES ASSUME NEW x \in DOMAIN g, NEW k \in g[x].kept
               PROVE  /\ x \in Results /\ g[x].in = Alone
                      /\ k \in DOMAIN g /\ g[k].in = Alone /\ g[k].full /\ k[1] \in Keepable(f)
    BY DEF KeptAlive
  <2>1. /\ x \in Results /\ h[x].in = Alone
        /\ k \in DOMAIN h /\ h[k].in = Alone /\ h[k].full /\ k[1] \in Keepable(f)
    BY <1>1 DEF HeapInv, KeptAlive
  <2>2. k \in DOMAIN g
    BY <1>1, <2>1
  <2> QED
    BY <1>1, <2>1, <2>2
<1>8. Fitting(g)
  BY <1>1 DEF HeapInv, Fitting
<1>9. ConstantsFit(f, g)
  BY <1>1 DEF HeapInv, ConstantsFit
<1> QED
  BY <1>2, <1>3, <1>4, <1>5, <1>6, <1>7, <1>8, <1>9 DEF HeapInv, g

-----------------------------------------------------------------------------
(***************************************************************************)
(* Moving the contents of arguments into a new object.                     *)
(***************************************************************************)
\* The paths of these arguments, and no path on the heap that starts like n but n.
Shells(roles) == {<<r>> : r \in roles}
Lonely(h, n) == \A x \in DOMAIN h : x[1] = n[1] => x = n

\* The heap after it, object by object.
MovedAs(g, h, n, roles) ==
  /\ DOMAIN g = DOMAIN h \cup {Under(n, r) : r \in roles}
  /\ n \notin Shells(roles)
  /\ \A r \in roles :
       /\ Under(n, r) \notin DOMAIN h
       /\ g[Under(n, r)] = [h[<<r>>] EXCEPT !.in = n, !.whole = n]
       /\ g[<<r>>] = [h[<<r>>] EXCEPT !.full = FALSE, !.open = {}]
  /\ \A x \in DOMAIN h \ Shells(roles) :
       IF h[x].whole \in Shells(roles)
       THEN g[x] = [h[x] EXCEPT !.whole = n,
                                !.in = IF @ \in Shells(roles) THEN n \o @ ELSE @]
       ELSE g[x] = h[x]

LEMMA MovedObjects ==
  ASSUME NEW h, NEW n \in Results, NEW roles \in SUBSET (Names \ Reserved), HeapType(h),
         n \in DOMAIN h, Lonely(h, n), Shells(roles) \subseteq DOMAIN h
  PROVE  MovedAs(MovedInto(h, n, roles), h, n, roles)
<1> DEFINE g == MovedInto(h, n, roles)
           inner == {n \o s : s \in Shells(roles)}
<1>1. \A r \in roles : r \in Names /\ r \notin Reserved /\ <<r>> \in Path /\ <<r>>[1] = r /\ n \o <<r>> = Under(n, r)
  BY NamePath, ResultPath
<1>2. inner = {Under(n, r) : r \in roles}
  BY <1>1 DEF Shells
<1>3. n \notin Shells(roles)
  BY <1>1, ResultPath DEF Shells
<1>4. ASSUME NEW r \in roles
      PROVE  /\ Under(n, r)[Len(Under(n, r))] = r
             /\ Under(n, r)[1] = n[1] /\ Under(n, r) # n /\ Under(n, r) \notin DOMAIN h
  <2>1. r \in Names
    BY <1>1
  <2>2. n \in Path /\ n # <<>>
    BY ResultPath
  <2> QED
    BY <2>1, <2>2, LongerPath DEF Lonely
<1>6. g = [x \in DOMAIN h \cup inner |->
             IF x \in inner
             THEN [h[<<x[Len(x)]>>] EXCEPT !.in = n, !.whole = n]
             ELSE IF x \in Shells(roles) THEN [h[x] EXCEPT !.full = FALSE, !.open = {}]
             ELSE IF h[x].whole \in Shells(roles)
             THEN [h[x] EXCEPT !.whole = n, !.in = IF @ \in Shells(roles) THEN n \o @ ELSE @]
             ELSE h[x]]
  BY DEF MovedInto, Shells
<1> HIDE DEF g, inner
<1>7. DOMAIN g = DOMAIN h \cup {Under(n, r) : r \in roles}
  BY <1>2, <1>6
<1>8. \A x \in DOMAIN h : x \notin inner
  BY <1>2, <1>4
<1>9. ASSUME NEW r \in roles
      PROVE  /\ Under(n, r) \notin DOMAIN h
             /\ g[Under(n, r)] = [h[<<r>>] EXCEPT !.in = n, !.whole = n]
             /\ g[<<r>>] = [h[<<r>>] EXCEPT !.full = FALSE, !.open = {}]
  <2>1. Under(n, r) \in inner /\ Under(n, r)[Len(Under(n, r))] = r
    BY <1>2, <1>4
  <2>2. g[Under(n, r)] = [h[<<r>>] EXCEPT !.in = n, !.whole = n]
    BY <1>6, <2>1
  <2>3. <<r>> \in DOMAIN h /\ <<r>> \in Shells(roles)
    BY DEF Shells
  <2>4. g[<<r>>] = [h[<<r>>] EXCEPT !.full = FALSE, !.open = {}]
    BY <1>6, <1>8, <2>3
  <2> QED
    BY <1>4, <2>2, <2>4
<1>10. ASSUME NEW x \in DOMAIN h \ Shells(roles)
       PROVE  IF h[x].whole \in Shells(roles)
              THEN g[x] = [h[x] EXCEPT !.whole = n,
                                       !.in = IF @ \in Shells(roles) THEN n \o @ ELSE @]
              ELSE g[x] = h[x]
  BY <1>6, <1>8
<1> QED
  BY <1>3, <1>7, <1>9, <1>10 DEF g, MovedAs

\* A constant's path: longer than a name, and like no other.
LEMMA ConstantPath ==
  ASSUME NEW f \in Focuses, NEW op \in Tables[f], op.kind = "static", ~op.self
  PROVE  /\ op.role \in Names /\ ConstantAt(op) = Under(Library, op.role)
         /\ ConstantAt(op) \in Path /\ ConstantAt(op) # <<>> /\ ConstantAt(op) \notin Named
         /\ ConstantAt(op)[1] = "library"
<1>1. op.role \in Names
  BY TablesAssumption DEF ConstantsSound
<1>2. Library \in Path /\ Library # <<>> /\ Library[1] = "library"
  BY LibraryPath
<1> QED
  BY <1>1, <1>2, LongerPath DEF ConstantAt, Under

\* The same, member by member.
MovedMembersAs(g, h, n, roles) ==
  /\ DOMAIN g = DOMAIN h \cup {Under(n, r) : r \in roles}
  /\ n \notin Shells(roles)
  /\ \A r \in roles :
       LET in == g[Under(n, r)]
           shell == g[<<r>>] IN
       /\ Under(n, r) \notin DOMAIN h /\ <<r>> \in DOMAIN h /\ h[<<r>>].whole = <<r>>
       /\ in \in ObjectType /\ in.class = h[<<r>>].class /\ in.in = n /\ in.whole = n /\ in.full
       /\ in.open = h[<<r>>].open /\ in.kept = {}
       /\ shell \in ObjectType /\ shell.class = h[<<r>>].class /\ shell.in = Alone
       /\ shell.whole = <<r>> /\ ~shell.full /\ shell.open = {} /\ shell.kept = {}
  /\ \A x \in DOMAIN h \ Shells(roles) :
       /\ g[x].class = h[x].class /\ g[x].full = h[x].full
       /\ g[x].open = h[x].open /\ g[x].kept = h[x].kept
       /\ g[x].whole = IF h[x].whole \in Shells(roles) THEN n ELSE h[x].whole
       /\ g[x].in = IF h[x].in \in Shells(roles) THEN n \o h[x].in ELSE h[x].in
       /\ g[x] \in ObjectType
  /\ \A s \in Shells(roles) : s \notin Outer

LEMMA MovedMembers ==
  ASSUME NEW f, NEW h, NEW n \in Results, NEW roles \in SUBSET (Names \ Reserved), HeapInv(f, h),
         n \in DOMAIN h, Lonely(h, n), Shells(roles) \subseteq DOMAIN h,
         \A r \in roles : h[<<r>>].in = Alone /\ h[<<r>>].full
  PROVE  MovedMembersAs(MovedInto(h, n, roles), h, n, roles)
<1> DEFINE g == MovedInto(h, n, roles)
           S == Shells(roles)
<1>1. MovedAs(g, h, n, roles)
  <2>1. HeapType(h)
    BY DEF HeapInv
  <2> QED
    BY <2>1, MovedObjects
<1> HIDE DEF g
<1>2. \A x \in DOMAIN h : h[x] \in ObjectType
  BY DEF HeapInv, HeapType
<1>3. ASSUME NEW r \in roles
      PROVE  /\ h[<<r>>].kept = {} /\ h[<<r>>].whole = <<r>>
             /\ <<r>> \in DOMAIN h /\ <<r>> \in S
  <2>1. <<r>> \in DOMAIN h /\ <<r>> \in S
    BY DEF Shells
  <2>2. r \in Names /\ r \notin Reserved /\ <<r>>[1] = r
    BY NamePath
  <2>3. <<r>> \notin Results
    BY <2>2, NotReserved
  <2>4. h[<<r>>].kept = {}
    <3> SUFFICES ASSUME NEW k \in h[<<r>>].kept
                 PROVE  FALSE
      OBVIOUS
    <3> QED
      BY <2>1, <2>3 DEF HeapInv, KeptAlive
  <2> QED
    BY <2>1, <2>4 DEF HeapInv, Roots
<1>4. ASSUME NEW r \in roles
      PROVE  LET in == g[Under(n, r)]
                 shell == g[<<r>>] IN
             /\ Under(n, r) \notin DOMAIN h /\ <<r>> \in DOMAIN h /\ h[<<r>>].whole = <<r>>
             /\ in \in ObjectType /\ in.class = h[<<r>>].class /\ in.in = n /\ in.whole = n /\ in.full
             /\ in.open = h[<<r>>].open /\ in.kept = {}
             /\ shell \in ObjectType /\ shell.class = h[<<r>>].class /\ shell.in = Alone
             /\ shell.whole = <<r>> /\ ~shell.full /\ shell.open = {} /\ shell.kept = {}
  <2>1. /\ h[<<r>>] \in ObjectType /\ h[<<r>>].kept = {} /\ h[<<r>>].whole = <<r>>
        /\ h[<<r>>].in = Alone /\ h[<<r>>].full = TRUE /\ n \in Path
    BY <1>2, <1>3, ResultPath DEF ObjectType
  <2>2. /\ g[Under(n, r)] = [h[<<r>>] EXCEPT !.in = n, !.whole = n]
        /\ g[<<r>>] = [h[<<r>>] EXCEPT !.full = FALSE, !.open = {}]
        /\ Under(n, r) \notin DOMAIN h
    BY <1>1 DEF MovedAs
  <2> DEFINE o == h[<<r>>]
             in == g[Under(n, r)]
             shell == g[<<r>>]
  <2> HIDE DEF o, in, shell
  <2>3. /\ in \in ObjectType /\ in.class = o.class /\ in.in = n /\ in.whole = n /\ in.full
        /\ in.open = o.open /\ in.kept = {}
    <3>1. in = [o EXCEPT !.in = n, !.whole = n] /\ o \in ObjectType /\ o.kept = {} /\ o.full = TRUE
      BY <2>1, <2>2 DEF o, in
    <3> QED
      BY <2>1, <3>1 DEF ObjectType
  <2>4. /\ shell \in ObjectType /\ shell.class = o.class /\ shell.in = Alone
        /\ shell.whole = <<r>> /\ ~shell.full /\ shell.open = {} /\ shell.kept = {}
    <3>1. /\ shell = [o EXCEPT !.full = FALSE, !.open = {}] /\ o \in ObjectType
          /\ o.kept = {} /\ o.whole = <<r>> /\ o.in = Alone
      BY <2>1, <2>2 DEF o, shell
    <3> QED
      BY <3>1 DEF ObjectType
  <2> QED
    BY <1>3, <2>1, <2>2, <2>3, <2>4 DEF o, in, shell
<1>5. \A s \in S : s \in DOMAIN h /\ s \notin Outer /\ h[s].whole = s
  <2>1. \A r \in roles : r \in Names /\ r \notin Reserved /\ <<r>>[1] = r /\ <<r>> # <<>>
    BY NamePath
  <2>2. "library" \in Reserved
    BY ReservedNames
  <2> QED
    BY <1>3, <2>1, <2>2, LibraryPath DEF Shells, Outer
<1>6. ASSUME NEW s \in S
      PROVE  n \o s \in Path
  <2>1. PICK r \in roles : s = <<r>>
    BY DEF Shells
  <2>2. r \in Names /\ n \o <<r>> = Under(n, r) /\ n \in Path
    BY ResultPath
  <2>3. Under(n, r) \in Path
    BY <2>2, LongerPath
  <2> QED
    BY <2>1, <2>2, <2>3, Zenon
<1>7. ASSUME NEW x \in DOMAIN h \ S
      PROVE  /\ g[x].class = h[x].class /\ g[x].full = h[x].full
             /\ g[x].open = h[x].open /\ g[x].kept = h[x].kept
             /\ g[x].whole = IF h[x].whole \in S THEN n ELSE h[x].whole
             /\ g[x].in = IF h[x].in \in S THEN n \o h[x].in ELSE h[x].in
             /\ g[x] \in ObjectType
  <2>1. h[x] \in ObjectType /\ n \in Path
    BY <1>2, ResultPath
  <2>2. h[x].in \in S => h[x].whole \in S /\ h[x].whole = h[x].in
    BY <1>5 DEF HeapInv, Inside
  <2>3. CASE h[x].whole \in S
    <3>1. g[x] = [h[x] EXCEPT !.whole = n, !.in = IF @ \in S THEN n \o @ ELSE @]
      BY <1>1, <2>3 DEF MovedAs
    <3> HIDE DEF S
    <3> QED
      BY <1>6, <2>1, <2>3, <3>1 DEF ObjectType
  <2>4. CASE h[x].whole \notin S
    <3>1. g[x] = h[x]
      BY <1>1, <2>4 DEF MovedAs
    <3> HIDE DEF S
    <3> QED
      BY <2>1, <2>2, <2>4, <3>1
  <2> QED
    BY <2>3, <2>4
<1> QED
  BY <1>1, <1>4, <1>5, <1>7 DEF g, MovedAs, MovedMembersAs

\* Moving arguments into a new object keeps the heap sound, if they are the caller's, have their
\* contents, fit the members they become, and nobody refers to them.
Movable(f, h, n, roles) ==
  /\ n \in DOMAIN h /\ Lonely(h, n) /\ Shells(roles) \subseteq DOMAIN h
  /\ h[n].in = Alone /\ h[n].full
  /\ \A r \in roles :
       /\ h[<<r>>].in = Alone /\ h[<<r>>].full /\ r \notin h[n].open /\ r \notin Keepable(f)
       /\ Fits(h[n].class, r, h[<<r>>].class) /\ ~Droppable(h[<<r>>].class)

LEMMA MoveSound ==
  ASSUME NEW f \in Focuses, NEW h, NEW n \in Results, NEW roles \in SUBSET (Names \ Reserved),
         HeapInv(f, h), Movable(f, h, n, roles)
  PROVE  HeapInv(f, MovedInto(h, n, roles))
<1> DEFINE g == MovedInto(h, n, roles)
           S == Shells(roles)
<1>1. MovedMembersAs(g, h, n, roles)
  BY MovedMembers DEF Movable
<1> HIDE DEF g
<1>2. /\ DOMAIN g = DOMAIN h \cup {Under(n, r) : r \in roles}
      /\ n \notin S /\ n \in DOMAIN h
      /\ \A s \in S : s \notin Outer
  BY <1>1 DEF MovedMembersAs, Movable
<1>3. ASSUME NEW r \in roles
      PROVE  /\ r \in Names /\ r \notin Reserved /\ n \o <<r>> = Under(n, r)
             /\ Under(n, r) \in Path /\ Under(n, r) # <<>> /\ Under(n, r) \notin Named
             /\ Under(n, r)[1] = n[1] /\ Under(n, r)[Len(Under(n, r))] = r
             /\ <<r>> \in S /\ <<r>> \in Named /\ <<r>>[1] = r /\ <<r>> \notin Results
  <2>1. r \in Names /\ r \notin Reserved
    OBVIOUS
  <2>2. n \in Path /\ n # <<>> /\ n \o <<r>> = Under(n, r)
    BY <2>1, ResultPath
  <2>3. /\ Under(n, r) \in Path /\ Under(n, r) # <<>> /\ Under(n, r) \notin Named
        /\ Under(n, r)[1] = n[1] /\ Under(n, r)[Len(Under(n, r))] = r
    BY <2>1, <2>2, LongerPath
  <2>4. <<r>> \in S /\ <<r>> \in Named /\ <<r>>[1] = r
    BY <2>1, NamePath DEF Shells
  <2>5. <<r>> \notin Results
    BY <2>1, <2>4, NotReserved
  <2> QED
    BY <2>1, <2>2, <2>3, <2>4, <2>5, Zenon
<1>u. \A r \in roles : Under(n, r)[1] = n[1] /\ Under(n, r) \notin Named
  BY <1>3
<1>m. /\ \A r \in roles :
           /\ <<r>> \in DOMAIN h /\ h[<<r>>].whole = <<r>> /\ Under(n, r) \in DOMAIN g
           /\ g[Under(n, r)].class = h[<<r>>].class /\ g[Under(n, r)].in = n
           /\ g[Under(n, r)].whole = n /\ g[Under(n, r)].full
           /\ g[<<r>>].class = h[<<r>>].class
      /\ \A x \in DOMAIN h \ S :
           /\ \A r \in roles : h[x].in = <<r>> => g[x].in = Under(n, r)
           /\ h[x].in \notin S => g[x].in = h[x].in
           /\ g[x].class = h[x].class
  <2>1. \A r \in roles : <<r>> \in S
    BY DEF Shells
  <2>2. ASSUME NEW x \in DOMAIN h \ S, NEW r \in roles, h[x].in = <<r>>
        PROVE  g[x].in = Under(n, r)
    <3>1. g[x].in = n \o <<r>>
      BY <1>1, <2>1, <2>2 DEF MovedMembersAs
    <3>2. n \o <<r>> = Under(n, r)
      BY <1>3
    <3> QED
      BY <3>1, <3>2, Zenon
  <2>3. \A x \in DOMAIN h \ S : g[x].class = h[x].class /\ (h[x].in \notin S => g[x].in = h[x].in)
    BY <1>1 DEF MovedMembersAs
  <2>4. \A r \in roles :
          /\ <<r>> \in DOMAIN h /\ h[<<r>>].whole = <<r>> /\ Under(n, r) \in DOMAIN g
          /\ g[Under(n, r)].class = h[<<r>>].class /\ g[Under(n, r)].in = n
          /\ g[Under(n, r)].whole = n /\ g[Under(n, r)].full
          /\ g[<<r>>].class = h[<<r>>].class
    BY <1>1, <1>2, Zenon DEF MovedMembersAs
  <2> QED
    BY <2>2, <2>3, <2>4
<1>4. ASSUME NEW x \in DOMAIN g
      PROVE  \/ x \in DOMAIN h \ S
             \/ \E r \in roles : x = <<r>>
             \/ \E r \in roles : x = Under(n, r)
  BY <1>2 DEF Shells
<1>5. HeapType(g)
  <2>1. g = [x \in DOMAIN g |-> g[x]]
    BY DEF g, MovedInto
  <2>2. ASSUME NEW x \in DOMAIN g
        PROVE  g[x] \in ObjectType /\ x \in Path /\ x # <<>>
    <3>1. CASE x \in DOMAIN h \ S
      BY <1>1, <3>1 DEF MovedMembersAs, HeapInv, HeapType
    <3>2. CASE \E r \in roles : x = <<r>>
      BY <1>1, <3>2 DEF MovedMembersAs, HeapInv, HeapType
    <3>3. CASE \E r \in roles : x = Under(n, r)
      <4>1. PICK r \in roles : x = Under(n, r)
        BY <3>3
      <4>2. g[x] \in ObjectType
        BY <1>1, <4>1 DEF MovedMembersAs
      <4> QED
        BY <1>3, <4>1, <4>2
    <3> QED
      BY <1>4, <3>1, <3>2, <3>3
  <2> QED
    BY <2>1, <2>2 DEF HeapType
<1>6. <<>> \notin DOMAIN g /\ <<>> \notin DOMAIN h
  BY <1>5 DEF HeapType, HeapInv
<1>7. Roots(f, g)
  <2> SUFFICES ASSUME NEW x \in DOMAIN g
               PROVE  /\ g[x].in = Alone => x \in Named /\ g[x].whole = x
                      /\ g[x].in = Library => x \notin Named /\ g[x].whole = x /\ g[x].full
                      /\ x # Library
                      /\ x \in Named \ Results =>
                           \E a \in ArgumentsOf[f] : a.role = x[1] /\ g[x].class = ArgumentClass(f, x[1])
                      /\ x \in Named /\ x[1] \in Keepable(f) => g[x].in = Alone
    BY DEF Roots
  <2>1. CASE x \in DOMAIN h \ S
    <3>1. h[x].in \in S => n \o h[x].in \notin Outer
      <4> SUFFICES ASSUME NEW r \in roles, h[x].in = <<r>>
                   PROVE  n \o h[x].in \notin Outer
        BY DEF Shells
      <4>1. n \o <<r>> = Under(n, r) /\ Under(n, r) # <<>> /\ Under(n, r) \notin Named
        BY <1>3
      <4>2. Under(n, r) \notin Outer
        BY <4>1, LibraryPath DEF Outer
      <4> QED
        BY <4>1, <4>2, Zenon
    <3>2. g[x].in \in Outer => g[x].in = h[x].in
      BY <1>1, <2>1, <3>1 DEF MovedMembersAs
    <3>3. h[x].in \in Outer => h[x].whole = x
      BY <2>1 DEF HeapInv, Roots, Outer
    <3>4. g[x].in \in Outer => g[x].whole = h[x].whole
      BY <1>1, <2>1, <3>2, <3>3 DEF MovedMembersAs
    <3>5. h[x].in \in Outer => g[x].in = h[x].in
      BY <1>1, <1>2, <2>1 DEF MovedMembersAs
    <3>6. g[x].full = h[x].full /\ g[x].class = h[x].class
      BY <1>1, <2>1 DEF MovedMembersAs
    <3> QED
      BY <2>1, <3>2, <3>4, <3>5, <3>6 DEF HeapInv, Roots, Outer
  <2>2. CASE \E r \in roles : x = <<r>>
    <3>1. PICK r \in roles : x = <<r>>
      BY <2>2
    <3>2. x \in DOMAIN h /\ x \in Named /\ g[x].class = h[x].class /\ g[x].in = Alone /\ g[x].whole = x
      BY <1>1, <1>3, <3>1 DEF MovedMembersAs
    <3> QED
      BY <3>2, LibraryPath DEF HeapInv, Roots
  <2>3. CASE \E r \in roles : x = Under(n, r)
    <3>1. PICK r \in roles : x = Under(n, r)
      BY <2>3
    <3>2. g[x].in = n /\ x \notin Named
      BY <1>1, <1>3, <3>1 DEF MovedMembersAs
    <3>3. n # Alone /\ n # Library
      BY ResultPath, LibraryPath
    <3> QED
      BY <3>2, <3>3, LibraryPath
  <2> QED
    BY <1>4, <2>1, <2>2, <2>3
<1>8. Inside(g)
  <2> SUFFICES ASSUME NEW x \in DOMAIN g, g[x].in \notin Outer
               PROVE  /\ g[x].full
                      /\ g[x].in \in DOMAIN g /\ g[g[x].in].full /\ g[g[x].in].whole = g[x].whole
                      /\ g[x].whole \in DOMAIN g /\ g[g[x].whole].in \in Outer
    BY DEF Inside
  <2>1. n \in DOMAIN g /\ g[n].full /\ g[n].whole = n /\ g[n].in = Alone
    <3>1. h[n].whole = n /\ h[n].in = Alone /\ h[n].full
      BY <1>2 DEF HeapInv, Roots, Movable
    <3>2. Alone \notin S
      BY <1>2 DEF Outer
    <3> QED
      BY <1>1, <1>2, <3>1, <3>2 DEF MovedMembersAs
  <2>2. CASE x \in DOMAIN h \ S
    <3>1. h[x].in \notin Outer
      BY <1>1, <1>2, <2>2 DEF MovedMembersAs
    <3>2. /\ h[x].full
          /\ h[x].in \in DOMAIN h /\ h[h[x].in].full /\ h[h[x].in].whole = h[x].whole
          /\ h[x].whole \in DOMAIN h /\ h[h[x].whole].in \in Outer
      BY <2>2, <3>1 DEF HeapInv, Inside
    <3>3. g[x].full
      BY <1>1, <2>2, <3>2 DEF MovedMembersAs
    <3>4. g[x].whole \in DOMAIN g /\ g[g[x].whole].in \in Outer
      <4>1. CASE h[x].whole \in S
        <5>1. g[x].whole = n
          BY <1>1, <2>2, <4>1 DEF MovedMembersAs
        <5> QED
          BY <2>1, <5>1 DEF Outer
      <4>2. CASE h[x].whole \notin S
        <5>1. g[x].whole = h[x].whole /\ h[x].whole \in DOMAIN h \ S
          BY <1>1, <2>2, <3>2, <4>2 DEF MovedMembersAs
        <5>2. h[h[x].whole].in \notin S
          BY <1>2, <3>2
        <5>3. g[h[x].whole].in = h[h[x].whole].in
          BY <1>1, <5>1, <5>2 DEF MovedMembersAs
        <5> QED
          BY <1>2, <3>2, <5>1, <5>3
      <4> QED
        BY <4>1, <4>2
    <3>5. g[x].in \in DOMAIN g /\ g[g[x].in].full /\ g[g[x].in].whole = g[x].whole
      <4>1. CASE h[x].in \in S
        <5>1. PICK r \in roles : h[x].in = <<r>>
          BY <4>1 DEF Shells
        <5>2. h[x].whole = <<r>> /\ <<r>> \in S
          BY <1>m, <1>3, <3>2, <5>1
        <5>3. g[x].whole = n
          BY <1>1, <2>2, <5>2 DEF MovedMembersAs
        <5>4. g[x].in = Under(n, r)
          BY <1>m, <2>2, <5>1
        <5> QED
          BY <1>m, <5>3, <5>4
      <4>2. CASE h[x].in \notin S
        <5>1. g[x].in = h[x].in /\ h[x].in \in DOMAIN h \ S
          BY <1>1, <2>2, <3>2, <4>2 DEF MovedMembersAs
        <5>2. g[h[x].in].full /\ g[h[x].in].whole = g[x].whole
          BY <1>1, <2>2, <3>2, <5>1 DEF MovedMembersAs
        <5> QED
          BY <1>2, <5>1, <5>2
      <4> QED
        BY <4>1, <4>2
    <3> QED
      BY <3>3, <3>4, <3>5
  <2>3. CASE \E r \in roles : x = <<r>>
    BY <1>1, <2>3 DEF MovedMembersAs, Outer
  <2>4. CASE \E r \in roles : x = Under(n, r)
    <3>1. g[x].full /\ g[x].in = n /\ g[x].whole = n
      BY <1>m, <2>4, Zenon
    <3> QED
      BY <2>1, <3>1 DEF Outer
  <2> QED
    BY <1>4, <2>2, <2>3, <2>4

<1>9. ASSUME NEW x \in Path, NEW m \in Names, Under(x, m) \in DOMAIN h
      PROVE  x # <<>> => Under(x, m) \in DOMAIN h \ S /\ Under(x, m)[1] # n[1] /\ x[1] # n[1]
  <2> SUFFICES ASSUME x # <<>>
               PROVE  Under(x, m) \in DOMAIN h \ S /\ Under(x, m)[1] # n[1] /\ x[1] # n[1]
    OBVIOUS
  <2>1. Under(x, m) \notin Named /\ Under(x, m)[1] = x[1]
    BY LongerPath
  <2>2. Under(x, m) \notin S
    BY <1>3, <2>1 DEF Shells
  <2>3. n \in Named
    BY ResultPath
  <2>4. \A y \in DOMAIN h : y[1] = n[1] => y = n
    BY DEF Movable, Lonely
  <2> QED
    BY <1>9, <2>1, <2>2, <2>3, <2>4
<1>10. ASSUME NEW x \in Path, NEW m \in Names, Under(x, m) \in DOMAIN g, x # n
       PROVE  Under(x, m) \in DOMAIN h
  <2> SUFFICES ASSUME NEW r \in roles, Under(x, m) = Under(n, r)
               PROVE  FALSE
    BY <1>2, <1>10
  <2>1. n \in Path /\ r \in Names
    BY ResultPath
  <2>2. x = n
    BY <2>1, PathApart
  <2> QED
    BY <1>10, <2>2
<1>11. Prefixes(g)
  <2> SUFFICES ASSUME NEW x \in Path, NEW m \in Names, Under(x, m) \in DOMAIN g
               PROVE  /\ x # <<>> /\ x \notin Named => x \in DOMAIN g
                      /\ x \in DOMAIN g /\ g[x].full => g[x].whole = g[Under(x, m)].whole
    BY DEF Prefixes
  <2>1. CASE x = n
    <3>1. n \in Named /\ n \in DOMAIN g
      BY <1>2, ResultPath
    <3>2. Under(n, m) \notin DOMAIN h
      BY <1>9, ResultPath, <2>1
    <3>3. PICK r \in roles : Under(x, m) = Under(n, r)
      BY <1>2, <2>1, <3>2
    <3>4. g[Under(x, m)].whole = n
      BY <1>1, <3>3 DEF MovedMembersAs
    <3>5. h[n].whole = n
      BY <1>2 DEF HeapInv, Roots, Movable
    <3>6. g[n].whole = n
      BY <1>1, <1>2, <3>5 DEF MovedMembersAs
    <3> QED
      BY <2>1, <3>1, <3>4, <3>6
  <2>2. CASE x # n
    <3>1. Under(x, m) \in DOMAIN h
      BY <1>10, <2>2
    <3>2. /\ x # <<>> /\ x \notin Named => x \in DOMAIN h
          /\ x \in DOMAIN h /\ h[x].full => h[x].whole = h[Under(x, m)].whole
      BY <3>1 DEF HeapInv, Prefixes
    <3>3. ASSUME x \in DOMAIN g, g[x].full
          PROVE  g[x].whole = g[Under(x, m)].whole
      <4>1. x # <<>>
        BY <1>6, <3>3
      <4>2. Under(x, m) \in DOMAIN h \ S /\ x[1] # n[1]
        BY <1>9, <3>1, <4>1
      <4>3. x \in DOMAIN h \ S
        <5>1. ~\E r \in roles : x = <<r>>
          BY <1>1, <3>3 DEF MovedMembersAs
        <5>2. ~\E r \in roles : x = Under(n, r)
          BY <1>u, <4>2
        <5> QED
          BY <1>4, <3>3, <5>1, <5>2
      <4>4. h[x].full
        BY <1>1, <3>3, <4>3 DEF MovedMembersAs
      <4> QED
        BY <1>1, <3>2, <4>2, <4>3, <4>4 DEF MovedMembersAs
    <3> QED
      BY <1>2, <3>2, <3>3
  <2> QED
    BY <2>1, <2>2
<1>12. OpenFree(g)
  <2> SUFFICES ASSUME NEW x \in DOMAIN g, NEW m \in g[x].open, Under(x, m) \in DOMAIN g
               PROVE  FALSE
    BY DEF OpenFree
  <2>1. x \in Path /\ x # <<>> /\ m \in Names
    BY <1>5 DEF HeapType, ObjectType
  <2>2. CASE x \in DOMAIN h \ S
    <3>1. m \in h[x].open
      BY <1>1, <2>2 DEF MovedMembersAs
    <3>2. Under(x, m) \notin DOMAIN h
      BY <2>2, <3>1 DEF HeapInv, OpenFree
    <3>3. x = n
      BY <1>10, <2>1, <3>2
    <3>4. PICK r \in roles : Under(x, m) = Under(n, r)
      BY <1>2, <3>2
    <3>5. m = r
      BY <1>3, <2>1, <3>3, <3>4, PathApart
    <3> QED
      BY <3>1, <3>3, <3>5 DEF Movable
  <2>3. CASE \E r \in roles : x = <<r>>
    BY <1>1, <2>3 DEF MovedMembersAs
  <2>4. CASE \E r \in roles : x = Under(n, r)
    <3>1. x \notin Named /\ x[1] = n[1]
      BY <1>u, <2>4
    <3>2. n \in Named
      BY ResultPath
    <3>3. Under(x, m) \in DOMAIN h
      BY <1>10, <2>1, <3>1, <3>2
    <3> QED
      BY <1>9, <2>1, <3>1, <3>3
  <2> QED
    BY <1>4, <2>2, <2>3, <2>4
<1>13. KeptAlive(f, g)
  <2> SUFFICES ASSUME NEW x \in DOMAIN g, NEW k \in g[x].kept
               PROVE  /\ x \in Results /\ g[x].in = Alone
                      /\ k \in DOMAIN g /\ g[k].in = Alone /\ g[k].full /\ k[1] \in Keepable(f)
    BY DEF KeptAlive
  <2>1. x \in DOMAIN h \ S /\ k \in h[x].kept
    BY <1>1, <1>4 DEF MovedMembersAs
  <2>2. /\ x \in Results /\ h[x].in = Alone
        /\ k \in DOMAIN h /\ h[k].in = Alone /\ h[k].full /\ k[1] \in Keepable(f)
    BY <2>1 DEF HeapInv, KeptAlive
  <2>3. k \notin S
    BY <1>3, <2>2 DEF Shells, Movable
  <2>4. Alone \notin S
    BY <1>2 DEF Outer
  <2>5. g[k].in = Alone /\ g[k].full
    BY <1>1, <2>2, <2>3, <2>4 DEF MovedMembersAs
  <2>6. g[x].in = Alone
    BY <1>1, <2>1, <2>2, <2>4 DEF MovedMembersAs
  <2> QED
    BY <1>2, <2>2, <2>5, <2>6
<1>14. ASSUME NEW x \in DOMAIN h
       PROVE  g[x].class = h[x].class
  <2>1. CASE x \in S
    BY <1>m, <2>1 DEF Shells
  <2>2. CASE x \notin S
    BY <1>m, <2>2
  <2> QED
    BY <2>1, <2>2
<1>15. Fitting(g)
  <2> SUFFICES ASSUME NEW x \in DOMAIN g
               PROVE  /\ g[x].in \in DOMAIN g => Fits(g[g[x].in].class, x[Len(x)], g[x].class)
                      /\ g[x].in # Alone => ~Droppable(g[x].class)
    BY DEF Fitting
  <2>0. Alone \notin DOMAIN g
    BY <1>6, LibraryPath
  <2>1. CASE x \in DOMAIN h \ S
    <3>1. g[x].in # Alone => h[x].in # Alone
      BY <1>1, <1>2, <2>1 DEF MovedMembersAs, Outer
    <3>2. ASSUME g[x].in \in DOMAIN g
          PROVE  Fits(g[g[x].in].class, x[Len(x)], g[x].class)
      <4>1. CASE h[x].in \in S
        <5>1. PICK r \in roles : h[x].in = <<r>>
          BY <4>1 DEF Shells
        <5>2. g[x].in = Under(n, r)
          BY <1>m, <2>1, <5>1
        <5>3. g[g[x].in].class = h[h[x].in].class /\ h[x].in \in DOMAIN h
          BY <1>m, <5>1, <5>2
        <5> QED
          BY <1>14, <2>1, <5>3 DEF HeapInv, Fitting
      <4>2. CASE h[x].in \notin S
        <5>1. g[x].in = h[x].in
          BY <1>1, <2>1, <4>2 DEF MovedMembersAs
        <5>2. h[x].in \in DOMAIN h
          <6>1. h[x].in \in Outer => h[x].in = Alone \/ h[x].in = Library
            BY DEF Outer
          <6>2. Library \notin DOMAIN g
            BY <1>7 DEF Roots
          <6> QED
            BY <2>0, <2>1, <3>2, <5>1, <6>1, <6>2 DEF HeapInv, Inside
        <5> QED
          BY <1>14, <2>1, <5>1, <5>2 DEF HeapInv, Fitting
      <4> QED
        BY <4>1, <4>2
    <3> QED
      BY <1>14, <2>1, <3>1, <3>2 DEF HeapInv, Fitting
  <2>2. CASE \E r \in roles : x = <<r>>
    BY <1>1, <2>0, <2>2 DEF MovedMembersAs
  <2>3. CASE \E r \in roles : x = Under(n, r)
    <3>1. PICK r \in roles : x = Under(n, r)
      BY <2>3
    <3>2. g[x].in = n /\ g[x].class = h[<<r>>].class /\ x[Len(x)] = r
      BY <1>1, <1>3, <3>1 DEF MovedMembersAs
    <3>3. g[n].class = h[n].class
      BY <1>2, <1>14
    <3> QED
      BY <3>2, <3>3 DEF Movable
  <2> QED
    BY <1>4, <2>1, <2>2, <2>3
<1>16. ConstantsFit(f, g)
  <2> SUFFICES ASSUME NEW op \in Tables[f], op.kind = "static", ~op.self, ConstantAt(op) \in DOMAIN g
               PROVE  op.as \in Bases(g[ConstantAt(op)].class) /\ g[ConstantAt(op)].in = Library
    BY DEF ConstantsFit
  <2>1. ConstantAt(op) \notin Named /\ ConstantAt(op)[1] = "library"
    BY ConstantPath
  <2>2. n[1] # "library"
    BY ResultPath, LibraryPath
  <2>3. ConstantAt(op) \in DOMAIN h \ S
    BY <1>3, <1>4, <2>1, <2>2
  <2>4. op.as \in Bases(h[ConstantAt(op)].class) /\ h[ConstantAt(op)].in = Library
    BY <2>3 DEF HeapInv, ConstantsFit
  <2>5. Library \notin S
    BY <1>2 DEF Outer
  <2> QED
    BY <1>1, <2>3, <2>4, <2>5 DEF MovedMembersAs
<1> QED
  BY <1>5, <1>7, <1>8, <1>11, <1>12, <1>13, <1>15, <1>16 DEF HeapInv, g

-----------------------------------------------------------------------------
(***************************************************************************)
(* Making arguments parts of a new object.                                 *)
(***************************************************************************)
Adoptable(f, h, n, roles) ==
  /\ n \in DOMAIN h /\ Shells(roles) \subseteq DOMAIN h
  /\ h[n].in = Alone /\ h[n].full
  /\ \A r \in roles :
       /\ h[<<r>>].in = Alone /\ h[<<r>>].full /\ r \notin Keepable(f)
       /\ Fits(h[n].class, r, h[<<r>>].class) /\ ~Droppable(h[<<r>>].class)

\* The heap after it, member by member.
AdoptedAs(g, h, n, roles) ==
  /\ DOMAIN g = DOMAIN h
  /\ \A x \in DOMAIN h :
       /\ g[x] \in ObjectType
       /\ g[x].class = h[x].class /\ g[x].full = h[x].full
       /\ g[x].open = h[x].open /\ g[x].kept = h[x].kept
       /\ g[x].whole = IF h[x].whole \in Shells(roles) THEN n ELSE h[x].whole
       /\ g[x].in = IF x \in Shells(roles) THEN n ELSE h[x].in

LEMMA AdoptedMembers ==
  ASSUME NEW f, NEW h, NEW n \in Results, NEW roles \in SUBSET (Names \ Reserved),
         HeapInv(f, h), Adoptable(f, h, n, roles)
  PROVE  AdoptedAs(AdoptedBy(h, n, roles), h, n, roles)
<1> DEFINE g == AdoptedBy(h, n, roles)
           S == Shells(roles)
<1>1. g = [x \in DOMAIN h |->
             IF x \in S THEN [h[x] EXCEPT !.in = n, !.whole = n]
             ELSE IF h[x].whole \in S THEN [h[x] EXCEPT !.whole = n]
             ELSE h[x]]
  BY DEF AdoptedBy, Shells
<1>2. \A x \in S : h[x].whole = x
  BY DEF Adoptable, Shells, HeapInv, Roots
<1> HIDE DEF g, S
<1>3. ASSUME NEW x \in DOMAIN h
      PROVE  /\ g[x] \in ObjectType
             /\ g[x].class = h[x].class /\ g[x].full = h[x].full
             /\ g[x].open = h[x].open /\ g[x].kept = h[x].kept
             /\ g[x].whole = IF h[x].whole \in S THEN n ELSE h[x].whole
             /\ g[x].in = IF x \in S THEN n ELSE h[x].in
  <2>1. h[x] \in ObjectType /\ n \in Path
    BY ResultPath DEF HeapInv, HeapType
  <2>2. CASE x \in S
    <3>1. g[x] = [h[x] EXCEPT !.in = n, !.whole = n] /\ h[x].whole \in S
      BY <1>1, <1>2, <2>2
    <3> QED
      BY <2>1, <2>2, <3>1 DEF ObjectType
  <2>3. CASE x \notin S /\ h[x].whole \in S
    <3>1. g[x] = [h[x] EXCEPT !.whole = n]
      BY <1>1, <2>3
    <3> QED
      BY <2>1, <2>3, <3>1 DEF ObjectType
  <2>4. CASE x \notin S /\ h[x].whole \notin S
    <3>1. g[x] = h[x]
      BY <1>1, <2>4
    <3> QED
      BY <2>1, <2>4, <3>1
  <2> QED
    BY <2>2, <2>3, <2>4
<1> QED
  BY <1>1, <1>3 DEF AdoptedAs, g, S

LEMMA AdoptSound ==
  ASSUME NEW f \in Focuses, NEW h, NEW n \in Results, NEW roles \in SUBSET (Names \ Reserved),
         HeapInv(f, h), Adoptable(f, h, n, roles)
  PROVE  HeapInv(f, AdoptedBy(h, n, roles))
<1> DEFINE g == AdoptedBy(h, n, roles)
           S == Shells(roles)
<1>1. AdoptedAs(g, h, n, roles)
  BY AdoptedMembers
<1>2. g = [x \in DOMAIN g |-> g[x]]
  BY DEF AdoptedBy
<1> HIDE DEF g
<1>3. \A r \in roles : <<r>> \in Named /\ <<r>>[1] = r /\ <<r>>[Len(<<r>>)] = r /\ r \notin Reserved
  BY NamePath
<1>4. ASSUME NEW x \in S
      PROVE  /\ x \in DOMAIN h /\ h[x].in = Alone /\ h[x].full /\ h[x].whole = x
             /\ x \in Named /\ x \notin Results /\ x[1] \notin Keepable(f)
             /\ Fits(h[n].class, x[Len(x)], h[x].class) /\ ~Droppable(h[x].class)
  <2>1. PICK r \in roles : x = <<r>>
    BY DEF Shells
  <2>2. x \in Named /\ x[1] = r /\ x[Len(x)] = r /\ r \notin Reserved
    BY <1>3, <2>1
  <2>3. x \in DOMAIN h
    BY DEF Adoptable
  <2>4. /\ h[x].in = Alone /\ h[x].full /\ r \notin Keepable(f)
        /\ Fits(h[n].class, r, h[x].class) /\ ~Droppable(h[x].class)
    BY <2>1 DEF Adoptable
  <2>5. h[x].whole = x
    BY <2>3, <2>4 DEF HeapInv, Roots
  <2> QED
    BY <2>2, <2>3, <2>4, <2>5, NotReserved
<1>5. /\ n \notin S /\ n \in DOMAIN h /\ h[n].in = Alone /\ h[n].full /\ h[n].whole = n
      /\ n # Alone /\ n # Library
  <2>1. n \in DOMAIN h /\ h[n].in = Alone /\ h[n].full
    BY DEF Adoptable
  <2>2. h[n].whole = n
    BY <2>1 DEF HeapInv, Roots
  <2> QED
    BY <1>4, <2>1, <2>2, ResultPath, LibraryPath
<1> HIDE DEF S
<1>6. /\ DOMAIN g = DOMAIN h
      /\ \A x \in DOMAIN h :
           /\ g[x] \in ObjectType
           /\ g[x].class = h[x].class /\ g[x].full = h[x].full
           /\ g[x].open = h[x].open /\ g[x].kept = h[x].kept
           /\ g[x].whole = IF h[x].whole \in S THEN n ELSE h[x].whole
           /\ g[x].in = IF x \in S THEN n ELSE h[x].in
  BY <1>1 DEF AdoptedAs, S
<1>7. HeapType(g)
  BY <1>2, <1>6 DEF HeapInv, HeapType
<1>8. Roots(f, g)
  <2> SUFFICES ASSUME NEW x \in DOMAIN h
               PROVE  /\ g[x].in = Alone => x \in Named /\ g[x].whole = x
                      /\ g[x].in = Library => x \notin Named /\ g[x].whole = x /\ g[x].full
                      /\ x # Library
                      /\ x \in Named \ Results =>
                           \E a \in ArgumentsOf[f] : a.role = x[1] /\ g[x].class = ArgumentClass(f, x[1])
                      /\ x \in Named /\ x[1] \in Keepable(f) => g[x].in = Alone
    BY <1>6 DEF Roots
  <2>1. /\ h[x].in = Alone => x \in Named /\ h[x].whole = x
        /\ h[x].in = Library => x \notin Named /\ h[x].whole = x /\ h[x].full
        /\ x # Library
        /\ x \in Named \ Results =>
             \E a \in ArgumentsOf[f] : a.role = x[1] /\ h[x].class = ArgumentClass(f, x[1])
        /\ x \in Named /\ x[1] \in Keepable(f) => h[x].in = Alone
    BY DEF HeapInv, Roots
  <2>2. CASE x \in S
    BY <1>4, <1>5, <1>6, <2>1, <2>2
  <2>3. CASE x \notin S
    BY <1>6, <2>1, <2>3
  <2> QED
    BY <2>2, <2>3
<1>9. Inside(g)
  <2> SUFFICES ASSUME NEW x \in DOMAIN h, g[x].in \notin Outer
               PROVE  /\ g[x].full
                      /\ g[x].in \in DOMAIN h /\ g[g[x].in].full /\ g[g[x].in].whole = g[x].whole
                      /\ g[x].whole \in DOMAIN h /\ g[g[x].whole].in \in Outer
    BY <1>6 DEF Inside
  <2>1. g[n].full /\ g[n].whole = n /\ g[n].in = Alone
    BY <1>4, <1>5, <1>6
  <2>2. CASE x \in S
    BY <1>4, <1>5, <1>6, <2>1, <2>2 DEF Outer
  <2>3. CASE x \notin S
    <3>1. g[x].in = h[x].in
      BY <1>6, <2>3
    <3>2. /\ h[x].full
          /\ h[x].in \in DOMAIN h /\ h[h[x].in].full /\ h[h[x].in].whole = h[x].whole
          /\ h[x].whole \in DOMAIN h /\ h[h[x].whole].in \in Outer
      BY <3>1 DEF HeapInv, Inside
    <3>3. g[g[x].in].full /\ g[g[x].in].whole = g[x].whole
      BY <1>6, <3>1, <3>2
    <3>4. CASE h[x].whole \in S
      BY <1>5, <1>6, <2>1, <3>1, <3>2, <3>3, <3>4 DEF Outer
    <3>5. CASE h[x].whole \notin S
      BY <1>6, <3>1, <3>2, <3>3, <3>5
    <3> QED
      BY <3>4, <3>5
  <2> QED
    BY <2>2, <2>3
<1>10. Prefixes(g)
  BY <1>6 DEF HeapInv, Prefixes
<1>11. OpenFree(g)
  BY <1>6 DEF HeapInv, OpenFree
<1>12. KeptAlive(f, g)
  <2> SUFFICES ASSUME NEW x \in DOMAIN h, NEW k \in h[x].kept
               PROVE  /\ x \in Results /\ g[x].in = Alone
                      /\ k \in DOMAIN h /\ g[k].in = Alone /\ g[k].full /\ k[1] \in Keepable(f)
    BY <1>6 DEF KeptAlive
  <2>1. /\ x \in Results /\ h[x].in = Alone
        /\ k \in DOMAIN h /\ h[k].in = Alone /\ h[k].full /\ k[1] \in Keepable(f)
    BY DEF HeapInv, KeptAlive
  <2> QED
    BY <1>4, <1>6, <2>1
<1>13. Fitting(g)
  <2> SUFFICES ASSUME NEW x \in DOMAIN h
               PROVE  /\ g[x].in \in DOMAIN h => Fits(g[g[x].in].class, x[Len(x)], g[x].class)
                      /\ g[x].in # Alone => ~Droppable(g[x].class)
    BY <1>6 DEF Fitting
  <2>1. CASE x \in S
    BY <1>4, <1>5, <1>6, <2>1
  <2>2. CASE x \notin S
    BY <1>6, <2>2 DEF HeapInv, Fitting
  <2> QED
    BY <2>1, <2>2
<1>14. ConstantsFit(f, g)
  <2> SUFFICES ASSUME NEW op \in Tables[f], op.kind = "static", ~op.self, ConstantAt(op) \in DOMAIN h
               PROVE  op.as \in Bases(g[ConstantAt(op)].class) /\ g[ConstantAt(op)].in = Library
    BY <1>6 DEF ConstantsFit
  <2>1. ConstantAt(op) \notin S
    BY <1>4, ConstantPath
  <2>2. op.as \in Bases(h[ConstantAt(op)].class) /\ h[ConstantAt(op)].in = Library
    BY DEF HeapInv, ConstantsFit
  <2> QED
    BY <1>6, <2>1, <2>2
<1> QED
  BY <1>7, <1>8, <1>9, <1>10, <1>11, <1>12, <1>13, <1>14 DEF HeapInv, g

-----------------------------------------------------------------------------
(***************************************************************************)
(* Losing the contents of arguments to an exception.                       *)
(***************************************************************************)
LEMMA LoseSound ==
  ASSUME NEW f \in Focuses, NEW h, NEW roles \in SUBSET (Names \ Reserved), HeapInv(f, h),
         Shells(roles) \subseteq DOMAIN h,
         \A r \in roles : h[<<r>>].in = Alone /\ r \notin Keepable(f)
  PROVE  HeapInv(f, Lost(h, roles))
<1> DEFINE g == Lost(h, roles)
           S == Shells(roles)
<1>1. g = [x \in {y \in DOMAIN h : h[y].whole \notin S \/ y = h[y].whole} |->
             IF x \in S THEN [h[x] EXCEPT !.full = FALSE, !.open = {}] ELSE h[x]]
  BY DEF Lost, Shells
<1>2. ASSUME NEW x \in S
      PROVE  /\ x \in DOMAIN h /\ h[x].in = Alone /\ h[x].whole = x
             /\ x \in Named /\ x \notin Results /\ x[1] \notin Keepable(f)
  <2>1. PICK r \in roles : x = <<r>>
    BY DEF Shells
  <2>2. x \in Named /\ x[1] = r /\ r \notin Reserved
    BY <2>1, NamePath
  <2>3. x \in DOMAIN h /\ h[x].in = Alone /\ r \notin Keepable(f)
    BY <2>1
  <2>4. h[x].whole = x
    BY <2>3 DEF HeapInv, Roots
  <2> QED
    BY <2>2, <2>3, <2>4, NotReserved
<1> HIDE DEF g, S
<1>3. /\ DOMAIN g = {y \in DOMAIN h : h[y].whole \notin S \/ y = h[y].whole}
      /\ S \subseteq DOMAIN g
      /\ \A x \in DOMAIN g \ S : g[x] = h[x] /\ h[x].whole \notin S
      /\ \A x \in S : g[x] = [h[x] EXCEPT !.full = FALSE, !.open = {}]
  BY <1>1, <1>2
<1>4. ASSUME NEW x \in S
      PROVE  /\ g[x] \in ObjectType /\ g[x].class = h[x].class /\ g[x].in = Alone /\ g[x].whole = x
             /\ ~g[x].full /\ g[x].open = {} /\ g[x].kept = {}
  <2>1. h[x] \in ObjectType
    BY <1>2 DEF HeapInv, HeapType
  <2>2. h[x].kept = {}
    <3> SUFFICES ASSUME NEW k \in h[x].kept
                 PROVE  FALSE
      OBVIOUS
    <3> QED
      BY <1>2 DEF HeapInv, KeptAlive
  <2> DEFINE o == h[x]
             p == g[x]
  <2>3. p = [o EXCEPT !.full = FALSE, !.open = {}] /\ o \in ObjectType
    BY <1>3, <2>1
  <2> HIDE DEF o, p
  <2>4. /\ p \in ObjectType /\ p.class = o.class /\ p.in = o.in /\ p.whole = o.whole
        /\ ~p.full /\ p.open = {} /\ p.kept = o.kept
    BY <2>3 DEF ObjectType
  <2> QED
    BY <1>2, <2>2, <2>4 DEF o, p
<1>5. HeapType(g)
  <2>1. g = [x \in DOMAIN g |-> g[x]]
    BY <1>1, <1>3
  <2>2. ASSUME NEW x \in DOMAIN g
        PROVE  g[x] \in ObjectType /\ x \in Path /\ x # <<>>
    <3>1. x \in DOMAIN h
      BY <1>3
    <3>2. h[x] \in ObjectType /\ x \in Path /\ x # <<>>
      BY <3>1 DEF HeapInv, HeapType
    <3>3. CASE x \in S
      BY <1>4, <3>2, <3>3
    <3>4. CASE x \notin S
      BY <1>3, <3>2, <3>4
    <3> QED
      BY <3>3, <3>4
  <2> QED
    BY <2>1, <2>2 DEF HeapType
<1>6. Roots(f, g)
  <2> SUFFICES ASSUME NEW x \in DOMAIN g
               PROVE  /\ g[x].in = Alone => x \in Named /\ g[x].whole = x
                      /\ g[x].in = Library => x \notin Named /\ g[x].whole = x /\ g[x].full
                      /\ x # Library
                      /\ x \in Named \ Results =>
                           \E a \in ArgumentsOf[f] : a.role = x[1] /\ g[x].class = ArgumentClass(f, x[1])
                      /\ x \in Named /\ x[1] \in Keepable(f) => g[x].in = Alone
    BY DEF Roots
  <2>1. CASE x \in S
    BY <1>2, <1>4, <2>1, LibraryPath DEF HeapInv, Roots
  <2>2. CASE x \notin S
    <3>1. x \in DOMAIN h /\ g[x] = h[x]
      BY <1>3, <2>2
    <3> QED
      BY <3>1 DEF HeapInv, Roots
  <2> QED
    BY <2>1, <2>2
<1>7. Inside(g)
  <2> SUFFICES ASSUME NEW x \in DOMAIN g, g[x].in \notin Outer
               PROVE  /\ g[x].full
                      /\ g[x].in \in DOMAIN g /\ g[g[x].in].full /\ g[g[x].in].whole = g[x].whole
                      /\ g[x].whole \in DOMAIN g /\ g[g[x].whole].in \in Outer
    BY DEF Inside
  <2>1. x \notin S
    BY <1>4 DEF Outer
  <2>2. g[x] = h[x] /\ x \in DOMAIN h /\ h[x].whole \notin S
    BY <1>3, <2>1
  <2>3. /\ h[x].full
        /\ h[x].in \in DOMAIN h /\ h[h[x].in].full /\ h[h[x].in].whole = h[x].whole
        /\ h[x].whole \in DOMAIN h /\ h[h[x].whole].in \in Outer
    BY <2>2 DEF HeapInv, Inside
  <2>4. h[x].in \in DOMAIN g \ S
    BY <1>2, <1>3, <2>2, <2>3
  <2>5. h[h[x].whole].whole = h[x].whole
    BY <2>3 DEF HeapInv, Roots, Outer
  <2>6. h[x].whole \in DOMAIN g \ S
    BY <1>3, <2>2, <2>3, <2>5
  <2> QED
    BY <1>3, <2>2, <2>3, <2>4, <2>6
<1>8. Prefixes(g)
  <2> SUFFICES ASSUME NEW x \in Path, NEW m \in Names, Under(x, m) \in DOMAIN g
               PROVE  /\ x # <<>> /\ x \notin Named => x \in DOMAIN g
                      /\ x \in DOMAIN g /\ g[x].full => g[x].whole = g[Under(x, m)].whole
    BY DEF Prefixes
  <2>0. <<>> \notin DOMAIN g
    BY <1>5 DEF HeapType
  <2>1. CASE x = <<>>
    BY <2>0, <2>1
  <2>2. CASE x # <<>>
    <3>1. Under(x, m) \notin S
      BY <1>2, <2>2, LongerPath
    <3>2. g[Under(x, m)] = h[Under(x, m)] /\ Under(x, m) \in DOMAIN h /\ h[Under(x, m)].whole \notin S
      BY <1>3, <3>1
    <3>3. /\ x \notin Named => x \in DOMAIN h
          /\ x \in DOMAIN h /\ h[x].full => h[x].whole = h[Under(x, m)].whole
      BY <2>2, <3>2 DEF HeapInv, Prefixes
    <3>4. x \notin Named => h[x].full
      BY <3>3, LongIsFull
    <3>5. x \notin Named => x \in DOMAIN g
      BY <1>3, <3>2, <3>3, <3>4
    <3>6. ASSUME x \in DOMAIN g, g[x].full
          PROVE  g[x].whole = g[Under(x, m)].whole
      <4>1. x \notin S
        BY <1>4, <3>6
      <4>2. g[x] = h[x] /\ x \in DOMAIN h
        BY <1>3, <3>6, <4>1
      <4> QED
        BY <3>2, <3>3, <3>6, <4>2
    <3> QED
      BY <3>5, <3>6
  <2> QED
    BY <2>1, <2>2
<1>9. OpenFree(g)
  BY <1>3, <1>4 DEF HeapInv, OpenFree
<1>10. KeptAlive(f, g)
  <2> SUFFICES ASSUME NEW x \in DOMAIN g, NEW k \in g[x].kept
               PROVE  /\ x \in Results /\ g[x].in = Alone
                      /\ k \in DOMAIN g /\ g[k].in = Alone /\ g[k].full /\ k[1] \in Keepable(f)
    BY DEF KeptAlive
  <2>1. x \notin S /\ g[x] = h[x] /\ x \in DOMAIN h
    BY <1>3, <1>4
  <2>2. /\ x \in Results /\ h[x].in = Alone
        /\ k \in DOMAIN h /\ h[k].in = Alone /\ h[k].full /\ k[1] \in Keepable(f)
    BY <2>1 DEF HeapInv, KeptAlive
  <2>3. k \notin S
    BY <1>2, <2>2
  <2>4. h[k].whole = k
    BY <2>2 DEF HeapInv, Roots
  <2> QED
    BY <1>3, <2>1, <2>2, <2>3, <2>4
<1>11. Fitting(g)
  <2>1. \A x \in DOMAIN g : g[x].class = h[x].class /\ g[x].in = h[x].in /\ x \in DOMAIN h
    BY <1>2, <1>3, <1>4
  <2> QED
    BY <2>1 DEF HeapInv, Fitting
<1>12. ConstantsFit(f, g)
  <2>1. \A x \in DOMAIN g : g[x].class = h[x].class /\ g[x].in = h[x].in /\ x \in DOMAIN h
    BY <1>2, <1>3, <1>4
  <2> QED
    BY <2>1 DEF HeapInv, ConstantsFit
<1> QED
  BY <1>5, <1>6, <1>7, <1>8, <1>9, <1>10, <1>11, <1>12 DEF HeapInv, g

-----------------------------------------------------------------------------
(***************************************************************************)
(* A new object on the heap.                                               *)
(***************************************************************************)
PlacedAs(g, h, x, o) ==
  /\ DOMAIN g = DOMAIN h \cup {x} /\ g[x] = o
  /\ \A y \in DOMAIN h : g[y] = h[y]
  /\ g = [y \in DOMAIN h \cup {x} |-> g[y]]

LEMMA PlacedObjects ==
  ASSUME NEW h, NEW x, NEW o, x \notin DOMAIN h
  PROVE  PlacedAs(Placed(h, x, o), h, x, o)
BY DEF Placed, PlacedAs

\* A result of its own.
LEMMA ResultSound ==
  ASSUME NEW f \in Focuses, NEW h, NEW n \in Results, NEW c \in Types, NEW open \in SUBSET Names, NEW kept,
         HeapInv(f, h), \A x \in DOMAIN h : x[1] # n[1],
         \A k \in kept : k \in DOMAIN h /\ h[k].in = Alone /\ h[k].full /\ k[1] \in Keepable(f)
  PROVE  /\ HeapInv(f, Placed(h, n, Object(c, Alone, n, open, kept)))
         /\ n \notin DOMAIN h
<1> DEFINE o == Object(c, Alone, n, open, kept)
           g == Placed(h, n, o)
<1>1. n \notin DOMAIN h
  OBVIOUS
<1>2. PlacedAs(g, h, n, o)
  BY <1>1, PlacedObjects
<1>3. /\ o.class = c /\ o.in = Alone /\ o.whole = n /\ o.full /\ o.open = open /\ o.kept = kept
      /\ o \in ObjectType
  <2>1. kept \in SUBSET Path
    BY DEF HeapInv, HeapType
  <2> QED
    BY <2>1, ResultPath, LibraryPath DEF Object, ObjectType
<1> HIDE DEF g, o
<1> USE DEF PlacedAs
<1>4. n \in Path /\ n \in Named /\ n # <<>> /\ n # Library /\ n # Alone
  BY ResultPath, LibraryPath
<1>5. HeapType(g)
  BY <1>2, <1>3, <1>4 DEF HeapInv, HeapType
<1>6. Roots(f, g)
  <2> SUFFICES ASSUME NEW x \in DOMAIN g
               PROVE  /\ g[x].in = Alone => x \in Named /\ g[x].whole = x
                      /\ g[x].in = Library => x \notin Named /\ g[x].whole = x /\ g[x].full
                      /\ x # Library
                      /\ x \in Named \ Results =>
                           \E a \in ArgumentsOf[f] : a.role = x[1] /\ g[x].class = ArgumentClass(f, x[1])
                      /\ x \in Named /\ x[1] \in Keepable(f) => g[x].in = Alone
    BY DEF Roots
  <2>1. CASE x = n
    BY <1>2, <1>3, <1>4, <2>1, LibraryPath
  <2>2. CASE x \in DOMAIN h
    BY <1>2, <2>2 DEF HeapInv, Roots
  <2> QED
    BY <1>2, <2>1, <2>2
<1>7. Inside(g)
  <2> SUFFICES ASSUME NEW x \in DOMAIN h, h[x].in \notin Outer
               PROVE  /\ g[x].full
                      /\ g[x].in \in DOMAIN g /\ g[g[x].in].full /\ g[g[x].in].whole = g[x].whole
                      /\ g[x].whole \in DOMAIN g /\ g[g[x].whole].in \in Outer
    BY <1>2, <1>3 DEF Inside, Outer
  <2> QED
    BY <1>2 DEF HeapInv, Inside
<1>8. \A x \in Path, m \in Names : x # <<>> => Under(x, m) # n
  BY <1>4, LongerPath
<1>9. Prefixes(g)
  <2> SUFFICES ASSUME NEW x \in Path, NEW m \in Names, Under(x, m) \in DOMAIN g
               PROVE  /\ x # <<>> /\ x \notin Named => x \in DOMAIN g
                      /\ x \in DOMAIN g /\ g[x].full => g[x].whole = g[Under(x, m)].whole
    BY DEF Prefixes
  <2>1. CASE x = <<>>
    BY <1>5, <2>1 DEF HeapType
  <2>2. CASE x # <<>>
    <3>1. Under(x, m) \in DOMAIN h /\ g[Under(x, m)] = h[Under(x, m)]
      BY <1>2, <1>8, <2>2
    <3>2. x # n
      BY <2>2, <3>1, LongerPath
    <3>3. /\ x \notin Named => x \in DOMAIN h
          /\ x \in DOMAIN h /\ h[x].full => h[x].whole = h[Under(x, m)].whole
      BY <2>2, <3>1 DEF HeapInv, Prefixes
    <3> QED
      BY <1>2, <3>1, <3>2, <3>3
  <2> QED
    BY <2>1, <2>2
<1>10. OpenFree(g)
  <2> SUFFICES ASSUME NEW x \in DOMAIN g, NEW m \in g[x].open, Under(x, m) \in DOMAIN g
               PROVE  FALSE
    BY DEF OpenFree
  <2>1. x \in Path /\ x # <<>> /\ m \in Names
    BY <1>5 DEF HeapType, ObjectType
  <2>2. Under(x, m) \in DOMAIN h
    BY <1>2, <1>8, <2>1
  <2>3. CASE x = n
    BY <2>1, <2>2, <2>3, LongerPath
  <2>4. CASE x \in DOMAIN h
    BY <1>2, <2>2, <2>4 DEF HeapInv, OpenFree
  <2> QED
    BY <1>2, <2>3, <2>4
<1>11. KeptAlive(f, g)
  BY <1>2, <1>3 DEF HeapInv, KeptAlive
<1>12. Fitting(g)
  <2> SUFFICES ASSUME NEW x \in DOMAIN g
               PROVE  /\ g[x].in \in DOMAIN g => Fits(g[g[x].in].class, x[Len(x)], g[x].class)
                      /\ g[x].in # Alone => ~Droppable(g[x].class)
    BY DEF Fitting
  <2>0. Alone \notin DOMAIN g /\ Library \notin DOMAIN g
    BY <1>5, <1>6, LibraryPath DEF HeapType, Roots
  <2>1. CASE x = n
    BY <1>2, <1>3, <2>0, <2>1
  <2>2. CASE x \in DOMAIN h
    <3>1. g[x].in \in DOMAIN g => h[x].in \in DOMAIN h
      BY <1>2, <2>0, <2>2 DEF HeapInv, Inside, Outer
    <3> QED
      BY <1>2, <2>2, <3>1 DEF HeapInv, Fitting
  <2> QED
    BY <1>2, <2>1, <2>2
<1>13. ConstantsFit(f, g)
  <2>1. \A op \in Tables[f] : op.kind = "static" /\ ~op.self => ConstantAt(op) # n
    BY <1>4, ConstantPath
  <2> QED
    BY <1>2, <2>1 DEF HeapInv, ConstantsFit
<1> QED
  BY <1>1, <1>5, <1>6, <1>7, <1>9, <1>10, <1>11, <1>12, <1>13 DEF HeapInv, g, o

-----------------------------------------------------------------------------
(***************************************************************************)
(* A new part of an object, or a new constant of the library.              *)
(***************************************************************************)
\* The member m of x is an object of class c; nothing else changes but that m has been handed out.
GrownAs(g, h, x, m, c, whole) ==
  LET p == Under(x, m) IN
  /\ g = [y \in DOMAIN h \cup {p} |-> g[y]]
  /\ g[p] \in ObjectType /\ g[p].class = c /\ g[p].in = x /\ g[p].whole = whole /\ g[p].full /\ g[p].kept = {}
  /\ \A y \in DOMAIN h :
       /\ g[y] \in ObjectType
       /\ g[y].class = h[y].class /\ g[y].in = h[y].in /\ g[y].whole = h[y].whole
       /\ g[y].full = h[y].full /\ g[y].kept = h[y].kept
       /\ g[y].open \subseteq h[y].open
       /\ y = x => m \notin g[y].open

Growable(f, h, x, m, c, whole) ==
  /\ Under(x, m) \notin DOMAIN h /\ ~Droppable(c)
  /\ \/ x \in DOMAIN h /\ h[x].full /\ whole = h[x].whole /\ Fits(h[x].class, m, c)
     \/ /\ x = Library /\ whole = Under(x, m)
        /\ \A op \in Tables[f] : op.kind = "static" /\ ~op.self /\ op.role = m => op.as \in Bases(c)

LEMMA GrowSound ==
  ASSUME NEW f \in Focuses, NEW h, NEW g, NEW x \in Path, NEW m \in Names, NEW c \in Types, NEW whole,
         HeapInv(f, h), Growable(f, h, x, m, c, whole), GrownAs(g, h, x, m, c, whole)
  PROVE  HeapInv(f, g)
<1> DEFINE p == Under(x, m)
<1>1. /\ DOMAIN g = DOMAIN h \cup {p} /\ p \notin DOMAIN h /\ ~Droppable(c)
      /\ g = [y \in DOMAIN g |-> g[y]]
  BY DEF GrownAs, Growable
<1>2. /\ g[p] \in ObjectType /\ g[p].class = c /\ g[p].in = x /\ g[p].whole = whole /\ g[p].full
      /\ g[p].kept = {} /\ g[p].open \in SUBSET Names
  BY DEF GrownAs, ObjectType
<1>3. \A y \in DOMAIN h :
           /\ g[y] \in ObjectType
           /\ g[y].class = h[y].class /\ g[y].in = h[y].in /\ g[y].whole = h[y].whole
           /\ g[y].full = h[y].full /\ g[y].kept = h[y].kept
           /\ g[y].open \subseteq h[y].open
           /\ y = x => m \notin g[y].open
  BY DEF GrownAs
<1>4. \/ x \in DOMAIN h /\ h[x].full /\ whole = h[x].whole /\ Fits(h[x].class, m, c) /\ x # Library
      \/ /\ x = Library /\ whole = p
         /\ \A op \in Tables[f] : op.kind = "static" /\ ~op.self /\ op.role = m => op.as \in Bases(c)
  BY DEF Growable, HeapInv, Roots
<1>5. x # <<>>
  BY <1>4, LibraryPath DEF HeapInv, HeapType
<1>6. /\ p \in Path /\ p # <<>> /\ p # x /\ p \notin Named /\ p[Len(p)] = m
      /\ p # Library /\ p # Alone /\ x # Alone
  BY <1>5, LongerPath, LibraryPath
<1>7. \A k \in Names : Under(p, k) \notin DOMAIN h
  BY <1>1, <1>6 DEF HeapInv, Prefixes
<1>8. \A y \in Path, k \in Names : Under(y, k) = p => y = x /\ k = m
  BY PathApart
<1> HIDE DEF p
<1>9. HeapType(g)
  BY <1>1, <1>2, <1>3, <1>6 DEF HeapInv, HeapType
<1>10. Roots(f, g)
  <2> SUFFICES ASSUME NEW y \in DOMAIN g
               PROVE  /\ g[y].in = Alone => y \in Named /\ g[y].whole = y
                      /\ g[y].in = Library => y \notin Named /\ g[y].whole = y /\ g[y].full
                      /\ y # Library
                      /\ y \in Named \ Results =>
                           \E a \in ArgumentsOf[f] : a.role = y[1] /\ g[y].class = ArgumentClass(f, y[1])
                      /\ y \in Named /\ y[1] \in Keepable(f) => g[y].in = Alone
    BY DEF Roots
  <2>1. CASE y = p
    BY <1>2, <1>4, <1>6, <2>1
  <2>2. CASE y \in DOMAIN h
    BY <1>3, <2>2 DEF HeapInv, Roots
  <2> QED
    BY <1>1, <2>1, <2>2
<1>11. Inside(g)
  <2> SUFFICES ASSUME NEW y \in DOMAIN g, g[y].in \notin Outer
               PROVE  /\ g[y].full
                      /\ g[y].in \in DOMAIN g /\ g[g[y].in].full /\ g[g[y].in].whole = g[y].whole
                      /\ g[y].whole \in DOMAIN g /\ g[g[y].whole].in \in Outer
    BY DEF Inside
  <2>1. CASE y = p
    <3>1. x \in DOMAIN h /\ h[x].full /\ whole = h[x].whole
      BY <1>2, <1>4, <2>1 DEF Outer
    <3>2. whole \in DOMAIN h /\ h[whole].in \in Outer
      BY <3>1 DEF HeapInv, Inside, Roots, Outer
    <3> QED
      BY <1>1, <1>2, <1>3, <2>1, <3>1, <3>2
  <2>2. CASE y \in DOMAIN h
    <3>1. /\ h[y].full
          /\ h[y].in \in DOMAIN h /\ h[h[y].in].full /\ h[h[y].in].whole = h[y].whole
          /\ h[y].whole \in DOMAIN h /\ h[h[y].whole].in \in Outer
      BY <1>3, <2>2 DEF HeapInv, Inside
    <3> QED
      BY <1>1, <1>3, <2>2, <3>1
  <2> QED
    BY <1>1, <2>1, <2>2
<1>12. Prefixes(g)
  <2> SUFFICES ASSUME NEW y \in Path, NEW k \in Names, Under(y, k) \in DOMAIN g
               PROVE  /\ y # <<>> /\ y \notin Named => y \in DOMAIN g
                      /\ y \in DOMAIN g /\ g[y].full => g[y].whole = g[Under(y, k)].whole
    BY DEF Prefixes
  <2>1. CASE Under(y, k) = p
    <3>1. y = x
      BY <1>8, <2>1
    <3>2. x \in DOMAIN g => x \in DOMAIN h /\ whole = h[x].whole
      BY <1>1, <1>4, <1>6 DEF HeapInv, Roots
    <3>3. x \notin Named => x \in DOMAIN g
      BY <1>1, <1>4, LibraryPath
    <3> QED
      BY <1>2, <1>3, <2>1, <3>1, <3>2, <3>3
  <2>2. CASE Under(y, k) \in DOMAIN h
    <3>1. y # p
      BY <1>7, <2>2
    <3>2. /\ y # <<>> /\ y \notin Named => y \in DOMAIN h
          /\ y \in DOMAIN h /\ h[y].full => h[y].whole = h[Under(y, k)].whole
      BY <2>2 DEF HeapInv, Prefixes
    <3> QED
      BY <1>1, <1>3, <2>2, <3>1, <3>2
  <2> QED
    BY <1>1, <2>1, <2>2
<1>13. OpenFree(g)
  <2> SUFFICES ASSUME NEW y \in DOMAIN g, NEW k \in g[y].open, Under(y, k) \in DOMAIN g
               PROVE  FALSE
    BY DEF OpenFree
  <2>1. y \in Path /\ k \in Names
    BY <1>9 DEF HeapType, ObjectType
  <2>2. CASE Under(y, k) = p
    <3>1. y = x /\ k = m
      BY <1>8, <2>1, <2>2
    <3> QED
      BY <1>1, <1>3, <1>6, <3>1
  <2>3. CASE Under(y, k) \in DOMAIN h /\ y = p
    BY <1>7, <2>1, <2>3
  <2>4. CASE Under(y, k) \in DOMAIN h /\ y \in DOMAIN h
    BY <1>3, <2>4 DEF HeapInv, OpenFree
  <2> QED
    BY <1>1, <2>2, <2>3, <2>4
<1>14. KeptAlive(f, g)
  BY <1>1, <1>2, <1>3 DEF HeapInv, KeptAlive
<1>15. Fitting(g)
  <2> SUFFICES ASSUME NEW y \in DOMAIN g
               PROVE  /\ g[y].in \in DOMAIN g => Fits(g[g[y].in].class, y[Len(y)], g[y].class)
                      /\ g[y].in # Alone => ~Droppable(g[y].class)
    BY DEF Fitting
  <2>1. CASE y = p
    <3>1. x \in DOMAIN g => x \in DOMAIN h /\ Fits(h[x].class, m, c)
      BY <1>1, <1>4, <1>6 DEF HeapInv, Roots
    <3> QED
      BY <1>1, <1>2, <1>3, <1>6, <2>1, <3>1
  <2>2. CASE y \in DOMAIN h
    <3>1. g[y].in \in DOMAIN g => h[y].in \in DOMAIN h /\ g[y].in = h[y].in
      BY <1>1, <1>3, <1>6, <2>2 DEF HeapInv, Inside, Outer
    <3> QED
      BY <1>3, <2>2, <3>1 DEF HeapInv, Fitting
  <2> QED
    BY <1>1, <2>1, <2>2
<1>16. ConstantsFit(f, g)
  <2> SUFFICES ASSUME NEW op \in Tables[f], op.kind = "static", ~op.self, ConstantAt(op) \in DOMAIN g
               PROVE  op.as \in Bases(g[ConstantAt(op)].class) /\ g[ConstantAt(op)].in = Library
    BY DEF ConstantsFit
  <2>1. op.role \in Names /\ ConstantAt(op) = Under(Library, op.role) /\ Library \in Path
    BY ConstantPath, LibraryPath
  <2>2. CASE ConstantAt(op) = p
    <3>1. x = Library /\ m = op.role
      BY <1>8, <2>1, <2>2
    <3> QED
      BY <1>2, <1>4, <2>2, <3>1
  <2>3. CASE ConstantAt(op) \in DOMAIN h
    BY <1>3, <2>3 DEF HeapInv, ConstantsFit
  <2> QED
    BY <1>1, <2>2, <2>3
<1> QED
  BY <1>9, <1>10, <1>11, <1>12, <1>13, <1>14, <1>15, <1>16 DEF HeapInv

\* Handing out a member that is there.
LEMMA AfterHandOutGrows ==
  ASSUME NEW f \in Focuses, NEW h, NEW x \in DOMAIN h, NEW op, HeapInv(f, h),
         op.role \in Names, op.class \in Types, Under(x, op.role) \notin DOMAIN h
  PROVE  GrownAs(AfterHandOut(h, x, op), h, x, op.role, op.class, h[x].whole)
<1> DEFINE m == op.role
           p == Under(x, m)
           o == Object(op.class, x, h[x].whole, Members[op.class], {})
           e == [h EXCEPT ![x].open = @ \ {m}]
           g == AfterHandOut(h, x, op)
<1>1. g = Placed(e, p, o)
  BY DEF AfterHandOut, Under
<1>2. h = [y \in DOMAIN h |-> h[y]] /\ \A y \in DOMAIN h : h[y] \in ObjectType /\ y \in Path /\ y # <<>>
  BY DEF HeapInv, HeapType
<1>3. o \in ObjectType /\ o.class = op.class /\ o.in = x /\ o.whole = h[x].whole /\ o.full /\ o.kept = {}
  <2>1. Members[op.class] \subseteq Names
    BY TablesAssumption DEF ClassesSound
  <2> QED
    BY <1>2, <2>1 DEF Object, ObjectType
<1>4. ASSUME NEW y \in DOMAIN h
      PROVE  /\ e[y] \in ObjectType
             /\ e[y].class = h[y].class /\ e[y].in = h[y].in /\ e[y].whole = h[y].whole
             /\ e[y].full = h[y].full /\ e[y].kept = h[y].kept
             /\ e[y].open \subseteq h[y].open
             /\ y = x => m \notin e[y].open
  BY <1>2 DEF ObjectType
<1>5. DOMAIN e = DOMAIN h
  OBVIOUS
<1> HIDE DEF o, e
<1>6. g = [y \in DOMAIN h \cup {p} |-> IF y \in DOMAIN h THEN e[y] ELSE o]
  BY <1>1, <1>5 DEF Placed
<1> HIDE DEF g, p
<1>7. p \notin DOMAIN h
  BY DEF p
<1>8. g[p] = o /\ \A y \in DOMAIN h : g[y] = e[y]
  BY <1>6, <1>7
<1>9. g = [y \in DOMAIN h \cup {p} |-> g[y]]
  BY <1>6
<1> QED
  BY <1>3, <1>4, <1>8, <1>9 DEF GrownAs, p, g

\* Giving a constant that has not been given before.
LEMMA AfterConstantGrows ==
  ASSUME NEW f \in Focuses, NEW h, NEW op \in Tables[f], op.kind = "static", ~op.self, HeapInv(f, h),
         ConstantAt(op) \notin DOMAIN h
  PROVE  /\ GrownAs(AfterConstant(h, op), h, Library, op.role, op.class, ConstantAt(op))
         /\ Growable(f, h, Library, op.role, op.class, ConstantAt(op))
<1> DEFINE p == ConstantAt(op)
           o == Object(op.class, Library, p, Members[op.class], {})
           g == AfterConstant(h, op)
<1>1. g = Placed(h, p, o)
  BY DEF AfterConstant
<1>2. \A y \in DOMAIN h : h[y] \in ObjectType
  BY DEF HeapInv, HeapType
<1>3. p = Under(Library, op.role) /\ p \in Path /\ Library \in Path
  BY ConstantPath, LibraryPath
<1>4. op.class \in Types /\ Members[op.class] \subseteq Names
  BY TablesAssumption DEF ConstantsSound, ClassesSound
<1>5. o \in ObjectType /\ o.class = op.class /\ o.in = Library /\ o.whole = p /\ o.full /\ o.kept = {}
  BY <1>3, <1>4 DEF Object, ObjectType
<1>6. PlacedAs(g, h, p, o)
  BY <1>1, PlacedObjects
<1>7. Library \notin DOMAIN h
  BY DEF HeapInv, Roots
<1> HIDE DEF o, g
<1>8. ~Droppable(op.class)
  BY TablesAssumption DEF ConstantsSound
<1>9. \A other \in Tables[f] :
         other.kind = "static" /\ ~other.self /\ other.role = op.role => other.as \in Bases(op.class)
  BY TablesAssumption DEF ConstantsSound
<1>10. Growable(f, h, Library, op.role, op.class, p)
  BY <1>3, <1>8, <1>9 DEF Growable
<1> HIDE DEF p
<1>11. GrownAs(g, h, Library, op.role, op.class, p)
  BY <1>2, <1>3, <1>5, <1>6, <1>7 DEF GrownAs, PlacedAs
<1> QED
  BY <1>10, <1>11 DEF g, p

-----------------------------------------------------------------------------
(***************************************************************************)
(* Emptying an object.                                                     *)
(***************************************************************************)
Emptied(h, x) == Removed([h EXCEPT ![x].open = Members[h[x].class]], Within(h, x) \ {x})

\* The heap after it, object by object.
EmptiedAs(g, h, x) ==
  /\ DOMAIN g = {y \in DOMAIN h : h[y].whole # x \/ y = x}
  /\ g = [y \in DOMAIN g |-> g[y]]
  /\ \A y \in DOMAIN g :
       /\ g[y] \in ObjectType
       /\ g[y].class = h[y].class /\ g[y].in = h[y].in /\ g[y].whole = h[y].whole
       /\ g[y].full = h[y].full /\ g[y].kept = h[y].kept
       /\ y # x => g[y].open = h[y].open

LEMMA EmptiedObjects ==
  ASSUME NEW f, NEW h, NEW x \in DOMAIN h, HeapInv(f, h)
  PROVE  EmptiedAs(Emptied(h, x), h, x)
<1> DEFINE e == [h EXCEPT ![x].open = Members[h[x].class]]
           g == Emptied(h, x)
           kept == {y \in DOMAIN h : h[y].whole # x \/ y = x}
<1>1. h = [y \in DOMAIN h |-> h[y]] /\ \A y \in DOMAIN h : h[y] \in ObjectType
  BY DEF HeapInv, HeapType
<1>2. Members[h[x].class] \subseteq Names
  BY <1>1, TablesAssumption DEF ClassesSound, ObjectType
<1>3. ASSUME NEW y \in DOMAIN h
      PROVE  /\ e[y] \in ObjectType
             /\ e[y].class = h[y].class /\ e[y].in = h[y].in /\ e[y].whole = h[y].whole
             /\ e[y].full = h[y].full /\ e[y].kept = h[y].kept
             /\ y # x => e[y].open = h[y].open
  BY <1>1, <1>2 DEF ObjectType
<1>4. DOMAIN e \ (Within(h, x) \ {x}) = kept
  BY DEF Within
<1> HIDE DEF e
<1>5. g = [y \in kept |-> e[y]]
  BY <1>4 DEF Emptied, Removed, e
<1> HIDE DEF g
<1> QED
  BY <1>3, <1>5 DEF EmptiedAs, g

LEMMA EmptySound ==
  ASSUME NEW f \in Focuses, NEW h, NEW x \in DOMAIN h, HeapInv(f, h), h[x].in = Alone, h[x].full
  PROVE  HeapInv(f, Emptied(h, x))
<1> DEFINE g == Emptied(h, x)
<1>1. EmptiedAs(g, h, x)
  BY EmptiedObjects
<1> HIDE DEF g
<1>2. x \in Named /\ h[x].whole = x /\ x \in DOMAIN g
  BY <1>1 DEF HeapInv, Roots, EmptiedAs
<1>3. /\ DOMAIN g = {y \in DOMAIN h : h[y].whole # x \/ y = x}
      /\ \A y \in DOMAIN g :
           /\ g[y].class = h[y].class /\ g[y].in = h[y].in /\ g[y].whole = h[y].whole
           /\ g[y].full = h[y].full /\ g[y].kept = h[y].kept
           /\ y # x => g[y].open = h[y].open
  BY <1>1 DEF EmptiedAs
<1>4. HeapType(g)
  BY <1>1 DEF EmptiedAs, HeapInv, HeapType
<1>5. Roots(f, g)
  BY <1>3 DEF HeapInv, Roots
<1>6. Inside(g)
  <2> SUFFICES ASSUME NEW y \in DOMAIN g, g[y].in \notin Outer
               PROVE  /\ g[y].full
                      /\ g[y].in \in DOMAIN g /\ g[g[y].in].full /\ g[g[y].in].whole = g[y].whole
                      /\ g[y].whole \in DOMAIN g /\ g[g[y].whole].in \in Outer
    BY DEF Inside
  <2>1. /\ h[y].full
        /\ h[y].in \in DOMAIN h /\ h[h[y].in].full /\ h[h[y].in].whole = h[y].whole
        /\ h[y].whole \in DOMAIN h /\ h[h[y].whole].in \in Outer
    BY <1>3 DEF HeapInv, Inside
  <2>2. y # x
    BY <1>3 DEF Outer
  <2>3. h[y].whole # x
    BY <1>3, <2>2
  <2>4. h[h[y].whole].whole = h[y].whole
    BY <2>1 DEF HeapInv, Roots, Outer
  <2>5. h[y].in \in DOMAIN g /\ h[y].whole \in DOMAIN g
    BY <1>3, <2>1, <2>3, <2>4
  <2> QED
    BY <1>3, <2>1, <2>5
<1>7. Prefixes(g)
  <2> SUFFICES ASSUME NEW y \in Path, NEW k \in Names, Under(y, k) \in DOMAIN g
               PROVE  /\ y # <<>> /\ y \notin Named => y \in DOMAIN g
                      /\ y \in DOMAIN g /\ g[y].full => g[y].whole = g[Under(y, k)].whole
    BY DEF Prefixes
  <2>1. /\ y # <<>> /\ y \notin Named => y \in DOMAIN h
        /\ y \in DOMAIN h /\ h[y].full => h[y].whole = h[Under(y, k)].whole
    BY <1>3 DEF HeapInv, Prefixes
  <2>2. y # <<>> => Under(y, k) # x
    BY <1>2, LongerPath
  <2>3. y # <<>> => h[Under(y, k)].whole # x
    BY <1>3, <2>2
  <2>4. y # <<>> /\ y \notin Named => h[y].full
    BY <2>1, LongIsFull
  <2>5. y # <<>> /\ y \notin Named => y \in DOMAIN g
    BY <1>3, <2>1, <2>3, <2>4
  <2>6. y \in DOMAIN g /\ g[y].full => g[y].whole = g[Under(y, k)].whole
    BY <1>3, <2>1
  <2> QED
    BY <2>5, <2>6
<1>8. OpenFree(g)
  <2> SUFFICES ASSUME NEW y \in DOMAIN g, NEW k \in g[y].open, Under(y, k) \in DOMAIN g
               PROVE  FALSE
    BY DEF OpenFree
  <2>1. y \in Path /\ y # <<>> /\ k \in Names
    BY <1>4 DEF HeapType, ObjectType
  <2>2. y = x
    BY <1>3 DEF HeapInv, OpenFree
  <2>3. h[Under(x, k)].whole = x
    BY <1>2, <1>3, <2>1, <2>2 DEF HeapInv, Prefixes
  <2>4. Under(x, k) # x
    BY <2>1, <2>2, LongerPath
  <2> QED
    BY <1>3, <2>2, <2>3, <2>4
<1>9. KeptAlive(f, g)
  <2> SUFFICES ASSUME NEW y \in DOMAIN g, NEW k \in g[y].kept
               PROVE  /\ y \in Results /\ g[y].in = Alone
                      /\ k \in DOMAIN g /\ g[k].in = Alone /\ g[k].full /\ k[1] \in Keepable(f)
    BY DEF KeptAlive
  <2>1. /\ y \in Results /\ h[y].in = Alone
        /\ k \in DOMAIN h /\ h[k].in = Alone /\ h[k].full /\ k[1] \in Keepable(f)
    BY <1>3 DEF HeapInv, KeptAlive
  <2>2. h[k].whole = k
    BY <2>1 DEF HeapInv, Roots
  <2>3. k \in DOMAIN g
    BY <1>3, <2>1, <2>2
  <2> QED
    BY <1>3, <2>1, <2>3
<1>10. Fitting(g)
  BY <1>3 DEF HeapInv, Fitting
<1>11. ConstantsFit(f, g)
  BY <1>3 DEF HeapInv, ConstantsFit
<1> QED
  BY <1>4, <1>5, <1>6, <1>7, <1>8, <1>9, <1>10, <1>11 DEF HeapInv, g

-----------------------------------------------------------------------------
(***************************************************************************)
(* The handles.                                                            *)
(***************************************************************************)
\* The objects that stay are as they were, and those that come are parts or constants.
Steady(g, h) ==
  \A y \in DOMAIN g :
    \/ /\ y \in DOMAIN h
       /\ g[y].class = h[y].class /\ g[y].in = h[y].in /\ g[y].whole = h[y].whole
       /\ g[y].full = h[y].full /\ g[y].kept = h[y].kept
    \/ g[y].in # Alone /\ g[y].kept = {} /\ y \notin DOMAIN h

\* The handles of the objects that stay.
LEMMA SteadyRefs ==
  ASSUME NEW g, NEW h, NEW rs, NEW qs \in SUBSET rs, RefInv(h, rs), Steady(g, h),
         \A r \in rs : r \in qs <=> r.id \in DOMAIN g
  PROVE  /\ RefInv(g, qs)
         /\ AllOwned(h, rs) => AllOwned(g, qs)
<1>1. \A r \in qs : RefSound(g, r)
  BY DEF RefInv, RefSound, Steady
<1>2. \A r, s \in qs : r.owned /\ s.owned /\ r.id = s.id => r = s
  BY DEF RefInv
<1>3. \A x \in DOMAIN g : \A k \in g[x].kept : \E m \in qs : m.id = x /\ k \in m.keeps
  BY DEF RefInv, Steady
<1>4. AllOwned(h, rs) => AllOwned(g, qs)
  BY DEF AllOwned, Steady
<1> QED
  BY <1>1, <1>2, <1>3, <1>4 DEF RefInv

\* One more handle, that is not the program's to free.
LEMMA BorrowedRef ==
  ASSUME NEW h, NEW rs, NEW r, RefInv(h, rs), RefSound(h, r), ~r.owned
  PROVE  /\ RefInv(h, rs \cup {r})
         /\ AllOwned(h, rs) => AllOwned(h, rs \cup {r})
BY DEF RefInv, AllOwned

-----------------------------------------------------------------------------
(***************************************************************************)
(* The actions that take nothing over.                                     *)
(***************************************************************************)
LEMMA GrownRefs ==
  ASSUME NEW h, NEW g, NEW x, NEW m, NEW c, NEW whole, NEW rs, RefInv(h, rs),
         GrownAs(g, h, x, m, c, whole), Under(x, m) \notin DOMAIN h, x # Alone
  PROVE  /\ RefInv(g, rs)
         /\ AllOwned(h, rs) => AllOwned(g, rs)
<1>1. DOMAIN g = DOMAIN h \cup {Under(x, m)}
  BY DEF GrownAs
<1>2. Steady(g, h)
  BY <1>1 DEF Steady, GrownAs
<1>3. \A r \in rs : r.id \in DOMAIN g
  BY <1>1 DEF RefInv, RefSound
<1> QED
  BY <1>2, <1>3, SteadyRefs

\* A handle of a part or of a constant.
LEMMA PartRef ==
  ASSUME NEW h, NEW x \in DOMAIN h, NEW as \in Types, h \in [DOMAIN h -> ObjectType], x \in Path, h[x].full,
         as \in Bases(h[x].class)
  PROVE  LET r == Ref(x, as, FALSE, h[x].whole) IN RefSound(h, r) /\ ~r.owned
<1>1. h[x].whole \in Path
  BY DEF ObjectType
<1> QED
  BY <1>1 DEF Ref, RefSound, RefType

LEMMA HandOutStep ==
  ASSUME ObjectsInv, NEW r \in refs, NEW op \in On[r.as], op.kind = "part", ~r.spent,
         <<r.as, op.fn>> \notin Mistyped, HandOut(op, r), UNCHANGED focus
  PROVE  ObjectsInv'
<1>1. /\ HeapInv(focus, heap) /\ RefInv(heap, refs) /\ focus \in Focuses
      /\ ByTheHeader \/ AllOwned(heap, refs)
  BY DEF ObjectsInv, Sound
<1>2. /\ r.as \in Types /\ r.id \in DOMAIN heap /\ r.whole = heap[r.id].whole /\ heap[r.id].full
      /\ r.as \in Bases(heap[r.id].class) /\ r.id \in Path /\ r.id # <<>>
      /\ heap[r.id].class \in Types
  BY <1>1 DEF RefInv, RefSound, RefType, HeapInv, HeapType, ObjectType
<1>3. HandsOutSound(r.as, op)
  BY <1>2, TablesAssumption
<1>4. ~Owns(r.as, op)
  BY <1>3 DEF HandsOutSound, HeaderGives, Owns
<1>5. op.as \in Types /\ op.as \in Bases(op.class) /\ op.class \in Types /\ op.role \in Names
  BY <1>3, TablesAssumption DEF HandsOutSound, ClassesSound
<1>6. CASE \E x \in Member(heap, r.id, op.role) :
             /\ refs' = refs \cup {Ref(x, op.as, Owns(r.as, op), r.whole)}
             /\ UNCHANGED heap
  <2>1. PICK x \in Member(heap, r.id, op.role) :
             /\ refs' = refs \cup {Ref(x, op.as, Owns(r.as, op), r.whole)}
             /\ UNCHANGED heap
    BY <1>6
  <2>2. x \in DOMAIN heap /\ heap[x].in = r.id /\ x[Len(x)] = op.role
    BY DEF Member
  <2>3. r.id \notin Outer
    BY <1>1, <1>2, LibraryPath DEF HeapInv, Roots, Outer
  <2>4. heap[x].full /\ heap[x].whole = r.whole
    BY <1>1, <1>2, <2>2, <2>3 DEF HeapInv, Inside
  <2>5. Fits(heap[r.id].class, op.role, heap[x].class)
    BY <1>1, <1>2, <2>2 DEF HeapInv, Fitting
  <2>6. op.as \in Bases(heap[x].class)
    BY <1>2, <1>5, <2>5, BasesTransitive DEF Fits
  <2>7. heap \in [DOMAIN heap -> ObjectType] /\ x \in Path
    BY <1>1, <2>2 DEF HeapInv, HeapType
  <2>8. LET q == Ref(x, op.as, FALSE, heap[x].whole) IN RefSound(heap, q) /\ ~q.owned
    BY <1>5, <2>2, <2>4, <2>6, <2>7, PartRef
  <2>9. refs' = refs \cup {Ref(x, op.as, FALSE, heap[x].whole)}
    BY <1>4, <2>1, <2>4 DEF Owns, GivesAway
  <2>10. RefInv(heap, refs') /\ (AllOwned(heap, refs) => AllOwned(heap, refs'))
    BY <1>1, <2>8, <2>9, BorrowedRef
  <2>11. heap' = heap /\ focus' = focus
    BY <2>1
  <2> QED
    BY <1>1, <2>10, <2>11 DEF ObjectsInv, Sound
<1>7. CASE /\ op.role \in heap[r.id].open
           /\ heap' = AfterHandOut(heap, r.id, op)
           /\ refs' = refs \cup {Ref(Append(r.id, op.role), op.as, Owns(r.as, op), r.whole)}
  <2> DEFINE x == Under(r.id, op.role)
  <2>1. x \notin DOMAIN heap
    BY <1>1, <1>2, <1>7 DEF HeapInv, OpenFree
  <2>2. GrownAs(heap', heap, r.id, op.role, op.class, r.whole)
    BY <1>1, <1>2, <1>5, <1>7, <2>1, AfterHandOutGrows
  <2>3. Growable(focus, heap, r.id, op.role, op.class, r.whole)
    BY <1>2, <1>3, <2>1 DEF HandsOutSound, Growable
  <2>4. HeapInv(focus, heap')
    BY <1>1, <1>2, <1>5, <2>2, <2>3, GrowSound
  <2>5. RefInv(heap', refs) /\ (AllOwned(heap, refs) => AllOwned(heap', refs))
    BY <1>1, <1>2, <2>1, <2>2, GrownRefs, LibraryPath
  <2>6. /\ x \in DOMAIN heap' /\ heap'[x].full /\ heap'[x].class = op.class /\ heap'[x].whole = r.whole
        /\ heap' \in [DOMAIN heap' -> ObjectType] /\ x \in Path
    BY <2>2, <2>4 DEF GrownAs, HeapInv, HeapType
  <2>7. refs' = refs \cup {Ref(x, op.as, FALSE, heap'[x].whole)}
    BY <1>4, <1>7, <2>6 DEF Owns, GivesAway, Under
  <2> HIDE DEF x
  <2>8. LET q == Ref(x, op.as, FALSE, heap'[x].whole) IN RefSound(heap', q) /\ ~q.owned
    BY <1>5, <2>6, PartRef
  <2> QED
    BY <1>1, <2>4, <2>5, <2>7, <2>8, BorrowedRef DEF ObjectsInv, Sound
<1> QED
  BY <1>6, <1>7 DEF HandOut

\* The functions that give a constant.
LEMMA ConstantStep ==
  ASSUME ObjectsInv, NEW op \in Tables[focus], op.kind = "static", ~op.self, Constant(focus, op), UNCHANGED focus
  PROVE  ObjectsInv'
<1> DEFINE x == ConstantAt(op)
<1>1. /\ HeapInv(focus, heap) /\ RefInv(heap, refs) /\ focus \in Focuses
      /\ ByTheHeader \/ AllOwned(heap, refs)
  BY DEF ObjectsInv, Sound
<1>2. x \in Path /\ x = Under(Library, op.role) /\ op.role \in Names /\ Library \in Path /\ Library # Alone
  BY <1>1, ConstantPath, LibraryPath
<1>3. op.class \in Types /\ ~HeaderGives(focus, op) /\ op.as \in Bases(op.class)
  BY <1>1, TablesAssumption DEF ConstantsSound
<1>4. op.as \in Types /\ Owns(focus, op) = FALSE
  BY <1>3, TablesAssumption DEF ClassesSound, HeaderGives, Owns, GivesAway
<1>5. heap' = AfterConstant(heap, op) /\ refs' = refs \cup {Ref(x, op.as, FALSE, x)}
  BY <1>4 DEF Constant
<1>6. /\ HeapInv(focus, heap') /\ RefInv(heap', refs)
      /\ AllOwned(heap, refs) => AllOwned(heap', refs)
      /\ x \in DOMAIN heap' /\ heap'[x].full /\ heap'[x].whole = x /\ op.as \in Bases(heap'[x].class)
  <2>1. CASE x \in DOMAIN heap
    <3>1. DOMAIN heap \cup {x} = DOMAIN heap
      BY <2>1
    <3>2. heap = [y \in DOMAIN heap |-> heap[y]]
      BY <1>1 DEF HeapInv, HeapType
    <3>3. heap' = heap
      BY <1>5, <3>1, <3>2 DEF AfterConstant, Placed
    <3>4. heap[x].in = Library /\ op.as \in Bases(heap[x].class)
      BY <1>1, <2>1 DEF HeapInv, ConstantsFit
    <3>5. heap[x].full /\ heap[x].whole = x
      BY <1>1, <2>1, <3>4 DEF HeapInv, Roots
    <3> QED
      BY <1>1, <2>1, <3>3, <3>4, <3>5
  <2>2. CASE x \notin DOMAIN heap
    <3>1. /\ GrownAs(heap', heap, Library, op.role, op.class, x)
          /\ Growable(focus, heap, Library, op.role, op.class, x)
      BY <1>1, <1>5, <2>2, AfterConstantGrows
    <3>2. HeapInv(focus, heap')
      BY <1>1, <1>2, <1>3, <3>1, GrowSound
    <3>3. RefInv(heap', refs) /\ (AllOwned(heap, refs) => AllOwned(heap', refs))
      BY <1>1, <1>2, <2>2, <3>1, GrownRefs
    <3>4. x \in DOMAIN heap' /\ heap'[x].full /\ heap'[x].whole = x /\ heap'[x].class = op.class
      BY <1>2, <3>1 DEF GrownAs
    <3> QED
      BY <1>3, <3>2, <3>3, <3>4
  <2> QED
    BY <2>1, <2>2
<1> HIDE DEF x
<1>7. heap' \in [DOMAIN heap' -> ObjectType]
  BY <1>6 DEF HeapInv, HeapType
<1>8. LET q == Ref(x, op.as, FALSE, heap'[x].whole) IN RefSound(heap', q) /\ ~q.owned
  BY <1>2, <1>4, <1>6, <1>7, PartRef
<1>9. RefInv(heap', refs') /\ (AllOwned(heap', refs) => AllOwned(heap', refs'))
  BY <1>5, <1>6, <1>8, BorrowedRef
<1> QED
  BY <1>1, <1>6, <1>9 DEF ObjectsInv, Sound

\* Freeing.
LEMMA DeleteStep ==
  ASSUME ObjectsInv, NEW r \in refs, r.owned, ~\E m \in refs : r.id \in m.keeps, Delete(r), UNCHANGED focus
  PROVE  ObjectsInv'
<1>1. /\ HeapInv(focus, heap) /\ RefInv(heap, refs) /\ focus \in Focuses
      /\ ByTheHeader \/ AllOwned(heap, refs)
  BY DEF ObjectsInv, Sound
<1>2. r.id \in DOMAIN heap /\ heap[r.id].in = Alone
  BY <1>1 DEF RefInv, RefSound
<1>3. heap' = Without(heap, {r.id}) /\ refs' = {s \in refs : s.whole # r.id}
  BY DeletedIsWithout DEF Delete
<1>4. ASSUME NEW x \in DOMAIN heap, NEW k \in heap[x].kept
      PROVE  heap[k].whole # r.id
  <2>1. k \in DOMAIN heap /\ heap[k].in = Alone
    BY <1>1 DEF HeapInv, KeptAlive
  <2>2. heap[k].whole = k
    BY <1>1, <2>1 DEF HeapInv, Roots
  <2>3. \E m \in refs : k \in m.keeps
    BY <1>1 DEF RefInv
  <2> QED
    BY <2>2, <2>3
<1>5. HeapInv(focus, heap')
  BY <1>1, <1>3, <1>4, WithoutSound
<1>6. DOMAIN heap' = {y \in DOMAIN heap : heap[y].whole # r.id} /\ \A y \in DOMAIN heap' : heap'[y] = heap[y]
  BY <1>3 DEF Without
<1>7. Steady(heap', heap)
  BY <1>6 DEF Steady
<1>8. \A s \in refs : s \in refs' <=> s.id \in DOMAIN heap'
  BY <1>1, <1>3, <1>6 DEF RefInv, RefSound
<1>9. refs' \in SUBSET refs
  BY <1>3
<1>10. RefInv(heap', refs') /\ (AllOwned(heap, refs) => AllOwned(heap', refs'))
  BY <1>1, <1>7, <1>8, <1>9, SteadyRefs
<1> QED
  BY <1>1, <1>5, <1>10 DEF ObjectsInv, Sound

\* Emptying.
LEMMA DropStep ==
  ASSUME ObjectsInv, NEW r \in refs, ~r.spent, Droppable(r.as), Drop(r), UNCHANGED focus
  PROVE  ObjectsInv'
<1>1. /\ HeapInv(focus, heap) /\ RefInv(heap, refs) /\ focus \in Focuses
      /\ ByTheHeader \/ AllOwned(heap, refs)
  BY DEF ObjectsInv, Sound
<1>2. /\ r.id \in DOMAIN heap /\ heap[r.id].full /\ r.as \in Bases(heap[r.id].class)
      /\ heap[r.id].class \in Types
  BY <1>1 DEF RefInv, RefSound, HeapInv, HeapType, ObjectType
<1>3. Droppable(heap[r.id].class)
  BY <1>2, TablesAssumption DEF ClassesSound
<1>4. heap[r.id].in = Alone
  BY <1>1, <1>2, <1>3 DEF HeapInv, Fitting
<1>5. heap' = Emptied(heap, r.id) /\ refs' = {s \in refs : s.whole # r.id \/ s.id = r.id}
  BY DEF Drop, Emptied
<1>6. HeapInv(focus, heap')
  BY <1>1, <1>2, <1>4, <1>5, EmptySound
<1>7. EmptiedAs(heap', heap, r.id)
  BY <1>1, <1>2, <1>5, EmptiedObjects
<1>8. Steady(heap', heap)
  BY <1>7 DEF Steady, EmptiedAs
<1>9. \A s \in refs : s \in refs' <=> s.id \in DOMAIN heap'
  BY <1>1, <1>5, <1>7 DEF RefInv, RefSound, EmptiedAs
<1>10. refs' \in SUBSET refs
  BY <1>5
<1>11. RefInv(heap', refs') /\ (AllOwned(heap, refs) => AllOwned(heap', refs'))
  BY <1>1, <1>8, <1>9, <1>10, SteadyRefs
<1> QED
  BY <1>1, <1>6, <1>11 DEF ObjectsInv, Sound

-----------------------------------------------------------------------------
(***************************************************************************)
(* What a call is given.                                                   *)
(***************************************************************************)
TakenRoles(op) == Roles(op, {"moved", "adopted", "consumed"})

GivenArgs(f, h, op) ==
  /\ TakenRoles(op) \subseteq Names \ Reserved
  /\ \A r \in TakenRoles(op) :
       /\ <<r>> \in DOMAIN h /\ h[<<r>>].in = Alone /\ h[<<r>>].whole = <<r>> /\ h[<<r>>].full
       /\ r \notin Keepable(f) /\ <<r>> \notin Results /\ h[<<r>>].class = ArgumentClass(f, r)
  /\ \A k \in Took(op, {"kept"}) : k \in DOMAIN h /\ h[k].in = Alone /\ h[k].full /\ k[1] \in Keepable(f)

\* The arguments to be had are there, with their contents; what is given away is in no other object.
LEMMA ArgsGiven ==
  ASSUME NEW f \in Focuses, NEW h, NEW op \in Calls(f), HeapInv(f, h),
         \A t \in op.takes :
           /\ <<t.role>> \in DOMAIN h /\ h[<<t.role>>].full
           /\ t.how \in {"read", "copied", "kept"} \/ h[<<t.role>>].in = Alone
  PROVE  GivenArgs(f, h, op)
<1>1. TakesSound(f, op)
  BY TablesAssumption
<1>2. ASSUME NEW t \in op.takes
      PROVE  /\ t.role \in Names /\ t.role \notin Reserved /\ <<t.role>> \in Named /\ <<t.role>>[1] = t.role
             /\ <<t.role>> \in DOMAIN h /\ h[<<t.role>>].full
             /\ t.how \notin {"read", "copied", "kept"} => h[<<t.role>>].in = Alone
  <2>1. t.role \in Names /\ t.role \notin Reserved
    BY <1>1 DEF TakesSound
  <2> QED
    BY <2>1, NamePath
<1>3. ASSUME NEW r \in TakenRoles(op)
      PROVE  /\ r \in Names /\ r \notin Reserved
             /\ <<r>> \in DOMAIN h /\ h[<<r>>].in = Alone /\ h[<<r>>].whole = <<r>> /\ h[<<r>>].full
             /\ r \notin Keepable(f) /\ <<r>> \notin Results /\ h[<<r>>].class = ArgumentClass(f, r)
  <2>1. PICK t \in op.takes : t.role = r /\ t.how \in {"moved", "adopted", "consumed"}
    BY DEF TakenRoles, Roles
  <2>2. r \notin Keepable(f)
    BY <1>1, <2>1 DEF TakesSound
  <2>3. /\ r \in Names /\ r \notin Reserved /\ <<r>> \in Named /\ <<r>>[1] = r
        /\ <<r>> \in DOMAIN h /\ h[<<r>>].full /\ h[<<r>>].in = Alone
    BY <1>2, <2>1
  <2>4. <<r>> \notin Results
    BY <2>3, NotReserved
  <2>5. h[<<r>>].whole = <<r>> /\ h[<<r>>].class = ArgumentClass(f, r)
    BY <2>3, <2>4 DEF HeapInv, Roots
  <2> QED
    BY <2>2, <2>3, <2>4, <2>5
<1>4. ASSUME NEW k \in Took(op, {"kept"})
      PROVE  k \in DOMAIN h /\ h[k].in = Alone /\ h[k].full /\ k[1] \in Keepable(f)
  <2>1. PICK t \in op.takes : k = <<t.role>> /\ t.how = "kept"
    BY DEF Took, Roles
  <2>2. t.role \in Roles(op, {"kept"})
    BY <2>1 DEF Roles
  <2>3. t.role \in Keepable(f)
    BY <2>2 DEF Keepable
  <2>4. k \in DOMAIN h /\ h[k].full /\ k \in Named /\ k[1] = t.role
    BY <1>2, <2>1
  <2> QED
    BY <2>3, <2>4 DEF HeapInv, Roots
<1> QED
  BY <1>3, <1>4 DEF GivenArgs

\* The same, from the handles of the program.
LEMMA HandlesGiven ==
  ASSUME focus \in Focuses, HeapInv(focus, heap), RefInv(heap, refs), NEW op \in Calls(focus), At(op.takes)
  PROVE  GivenArgs(focus, heap, op)
<1>1. ASSUME NEW t \in op.takes
      PROVE  /\ <<t.role>> \in DOMAIN heap /\ heap[<<t.role>>].full
             /\ t.how \in {"read", "copied", "kept"} \/ heap[<<t.role>>].in = Alone
  <2>1. PICK r \in refs : r.id = <<t.role>> /\ ~r.spent /\ (r.owned \/ t.how \in {"read", "copied", "kept"})
    BY DEF At
  <2> QED
    BY <2>1 DEF RefInv, RefSound
<1> QED
  BY <1>1, ArgsGiven

\* Sets of roles, and the paths that Took gives for them.
LEMMA TookRoles ==
  ASSUME NEW op
  PROVE  /\ \A hows : Took(op, hows) = Shells(Roles(op, hows))
         /\ Roles(op, {"moved", "adopted"}) = Roles(op, {"moved"}) \cup Roles(op, {"adopted"})
         /\ Roles(op, {"adopted", "consumed"}) = Roles(op, {"adopted"}) \cup Roles(op, {"consumed"})
         /\ TakenRoles(op) = Roles(op, {"moved"}) \cup Roles(op, {"adopted"}) \cup Roles(op, {"consumed"})
BY DEF Took, Shells, Roles, TakenRoles

-----------------------------------------------------------------------------
(***************************************************************************)
(* A call that throws.                                                     *)
(***************************************************************************)
\* The heap after it, object by object.
ThrownAs(g, h, op, moved) ==
  /\ DOMAIN g = {y \in DOMAIN h : /\ h[y].whole \notin Shells(moved) \/ y = h[y].whole
                                  /\ h[y].whole \notin Took(op, {"adopted", "consumed"})}
  /\ \A y \in DOMAIN g :
       /\ g[y].class = h[y].class /\ g[y].in = h[y].in /\ g[y].whole = h[y].whole /\ g[y].kept = h[y].kept
       /\ y \notin Shells(moved) => g[y].full = h[y].full

LEMMA ThrowSound ==
  ASSUME NEW f \in Focuses, NEW h, NEW op, NEW moved \in SUBSET Roles(op, {"moved"}),
         HeapInv(f, h), GivenArgs(f, h, op)
  PROVE  /\ HeapInv(f, AfterThrow(h, op, moved))
         /\ ThrownAs(AfterThrow(h, op, moved), h, op, moved)
<1> DEFINE lost == Lost(h, moved)
           S == Shells(moved)
           gone == Took(op, {"adopted", "consumed"})
           g == AfterThrow(h, op, moved)
<1>1. /\ moved \subseteq TakenRoles(op) /\ moved \in SUBSET (Names \ Reserved)
      /\ S \subseteq DOMAIN h /\ \A r \in moved : h[<<r>>].in = Alone /\ r \notin Keepable(f)
  BY TookRoles DEF GivenArgs, Shells
<1>2. HeapInv(f, lost)
  BY <1>1, LoseSound
<1>3. lost = [x \in {y \in DOMAIN h : h[y].whole \notin S \/ y = h[y].whole} |->
                IF x \in S THEN [h[x] EXCEPT !.full = FALSE, !.open = {}] ELSE h[x]]
  BY DEF Lost, Shells
<1>4. \A y \in DOMAIN h : h[y] \in ObjectType
  BY DEF HeapInv, HeapType
<1> HIDE DEF lost, S, gone
<1>5. DOMAIN lost = {y \in DOMAIN h : h[y].whole \notin S \/ y = h[y].whole}
  BY <1>3
<1>6. ASSUME NEW y \in DOMAIN lost
      PROVE  /\ lost[y].class = h[y].class /\ lost[y].in = h[y].in /\ lost[y].whole = h[y].whole
             /\ lost[y].kept = h[y].kept
             /\ y \notin S => lost[y].full = h[y].full
  <2>1. CASE y \in S
    <3> DEFINE o == h[y]
               p == lost[y]
    <3>1. o \in ObjectType /\ p = [o EXCEPT !.full = FALSE, !.open = {}]
      BY <1>3, <1>4, <1>5, <2>1
    <3> HIDE DEF o, p
    <3>2. p.class = o.class /\ p.in = o.in /\ p.whole = o.whole /\ p.kept = o.kept
      BY <3>1 DEF ObjectType
    <3> QED
      BY <2>1, <3>2 DEF o, p
  <2>2. CASE y \notin S
    BY <1>3, <1>5, <2>2
  <2> QED
    BY <2>1, <2>2
<1>7. g = Removed(lost, UNION {Within(h, x) : x \in gone})
  BY DEF AfterThrow, lost, gone
<1>8. DOMAIN lost \ UNION {Within(h, x) : x \in gone} = {y \in DOMAIN lost : lost[y].whole \notin gone}
  BY <1>5, <1>6 DEF Within
<1>9. g = Without(lost, gone)
  BY <1>7, <1>8 DEF Removed, Without
<1>10. ASSUME NEW x \in DOMAIN lost, NEW k \in lost[x].kept
       PROVE  lost[k].whole \notin gone
  <2>1. k \in DOMAIN lost /\ lost[k].in = Alone /\ k[1] \in Keepable(f)
    BY <1>2 DEF HeapInv, KeptAlive
  <2>2. lost[k].whole = k
    BY <1>2, <2>1 DEF HeapInv, Roots
  <2>3. ASSUME k \in gone
        PROVE  FALSE
    <3>1. PICK r \in TakenRoles(op) : k = <<r>>
      BY <2>3, TookRoles DEF gone, Shells
    <3>2. r \in Names /\ r \notin Keepable(f)
      BY DEF GivenArgs
    <3> QED
      BY <2>1, <3>1, <3>2, NamePath
  <2> QED
    BY <2>2, <2>3
<1>11. HeapInv(f, g)
  BY <1>2, <1>9, <1>10, WithoutSound
<1>12. DOMAIN g = {y \in DOMAIN lost : lost[y].whole \notin gone} /\ \A y \in DOMAIN g : g[y] = lost[y]
  BY <1>9 DEF Without
<1> HIDE DEF g
<1>13. ThrownAs(g, h, op, moved)
  BY <1>5, <1>6, <1>12 DEF ThrownAs, S, gone
<1> QED
  BY <1>11, <1>13 DEF g

LEMMA ThrowStep ==
  ASSUME ObjectsInv, NEW op \in Calls(focus), At(op.takes), Throw(op), UNCHANGED focus
  PROVE  ObjectsInv'
<1>1. /\ HeapInv(focus, heap) /\ RefInv(heap, refs) /\ focus \in Focuses
      /\ ByTheHeader \/ AllOwned(heap, refs)
  BY DEF ObjectsInv, Sound
<1>2. GivenArgs(focus, heap, op)
  BY <1>1, HandlesGiven
<1> DEFINE given == Took(op, {"moved"})
           gone == Took(op, {"adopted", "consumed"})
           stay == {s \in refs : (s.whole \in given => s.id = s.whole) /\ s.whole \notin gone}
<1>3. PICK moved \in SUBSET Roles(op, {"moved"}) :
        /\ heap' = AfterThrow(heap, op, moved)
        /\ refs' = {IF r.id \in given THEN [r EXCEPT !.spent = TRUE] ELSE r : r \in stay}
  BY DEF Throw
<1>4. HeapInv(focus, heap') /\ ThrownAs(heap', heap, op, moved)
  BY <1>1, <1>2, <1>3, ThrowSound
<1>5. Shells(moved) \subseteq given
  BY TookRoles DEF Shells
<1>6. \A x \in given : x \notin Results
  BY <1>2, TookRoles DEF GivenArgs, Shells
<1> HIDE DEF given, gone
<1>7. /\ DOMAIN heap' = {y \in DOMAIN heap : /\ heap[y].whole \notin Shells(moved) \/ y = heap[y].whole
                                             /\ heap[y].whole \notin gone}
      /\ \A y \in DOMAIN heap' :
           /\ heap'[y].class = heap[y].class /\ heap'[y].in = heap[y].in
           /\ heap'[y].whole = heap[y].whole /\ heap'[y].kept = heap[y].kept
           /\ y \notin Shells(moved) => heap'[y].full = heap[y].full
  BY <1>4 DEF ThrownAs, gone
<1>8. ASSUME NEW r \in stay
      PROVE  LET q == IF r.id \in given THEN [r EXCEPT !.spent = TRUE] ELSE r IN
             /\ q \in RefType /\ q.id = r.id /\ q.as = r.as /\ q.owned = r.owned /\ q.whole = r.whole
             /\ q.keeps = r.keeps /\ (r.spent => q.spent) /\ (r.id \in given => q.spent)
  BY <1>1 DEF RefInv, RefSound, RefType
<1>9. \A q \in refs' : \E r \in stay :
        /\ q \in RefType /\ q.id = r.id /\ q.as = r.as /\ q.owned = r.owned /\ q.whole = r.whole
        /\ q.keeps = r.keeps /\ (r.spent => q.spent) /\ (r.id \in given => q.spent)
        /\ q = IF r.id \in given THEN [r EXCEPT !.spent = TRUE] ELSE r
  BY <1>3, <1>8
<1>10. \A r \in stay : \E q \in refs' : q.id = r.id /\ q.owned = r.owned /\ q.keeps = r.keeps
  BY <1>3, <1>8
<1>11. ASSUME NEW q \in refs'
       PROVE  RefSound(heap', q)
  <2>1. PICK r \in stay :
        /\ q \in RefType /\ q.id = r.id /\ q.as = r.as /\ q.owned = r.owned /\ q.whole = r.whole
        /\ (r.spent => q.spent) /\ (r.id \in given => q.spent)
    BY <1>9
  <2>2. RefSound(heap, r) /\ (r.whole \in given => r.id = r.whole) /\ r.whole \notin gone
    BY <1>1 DEF RefInv
  <2>3. r.id \in DOMAIN heap'
    BY <1>5, <1>7, <2>2 DEF RefSound
  <2>4. q.spent \/ heap'[q.id].full
    BY <1>5, <1>7, <2>1, <2>2, <2>3 DEF RefSound
  <2> QED
    BY <1>7, <2>1, <2>2, <2>3, <2>4 DEF RefSound
<1>12. \A q, s \in refs' : q.owned /\ s.owned /\ q.id = s.id => q = s
  <2> SUFFICES ASSUME NEW q \in refs', NEW s \in refs', q.owned, s.owned, q.id = s.id
               PROVE  q = s
    OBVIOUS
  <2>1. PICK r \in stay : q.id = r.id /\ q.owned = r.owned
                          /\ q = IF r.id \in given THEN [r EXCEPT !.spent = TRUE] ELSE r
    BY <1>9
  <2>2. PICK t \in stay : s.id = t.id /\ s.owned = t.owned
                          /\ s = IF t.id \in given THEN [t EXCEPT !.spent = TRUE] ELSE t
    BY <1>9
  <2>3. r = t
    BY <1>1, <2>1, <2>2 DEF RefInv
  <2> QED
    BY <2>1, <2>2, <2>3
<1>13. ASSUME NEW y \in DOMAIN heap', NEW k \in heap'[y].kept
       PROVE  \E q \in refs' : q.id = y /\ k \in q.keeps
  <2>1. y \in DOMAIN heap /\ k \in heap[y].kept
    BY <1>7
  <2>2. PICK r \in refs : r.id = y /\ k \in r.keeps
    BY <1>1, <2>1 DEF RefInv
  <2>3. y \in Results /\ heap[y].in = Alone
    BY <1>1, <2>1 DEF HeapInv, KeptAlive
  <2>4. r.whole = y
    BY <1>1, <2>1, <2>2, <2>3 DEF RefInv, RefSound, HeapInv, Roots
  <2>5. r \in stay
    BY <1>1, <1>7, <2>2, <2>4 DEF RefInv, RefSound
  <2> QED
    BY <1>10, <2>2, <2>5
<1>14. ASSUME AllOwned(heap, refs)
       PROVE  AllOwned(heap', refs')
  <2> SUFFICES ASSUME NEW y \in DOMAIN heap', heap'[y].in = Alone
               PROVE  \E q \in refs' : q.id = y /\ q.owned
    BY DEF AllOwned
  <2>1. y \in DOMAIN heap /\ heap[y].in = Alone
    BY <1>7
  <2>2. PICK r \in refs : r.id = y /\ r.owned
    BY <1>14, <2>1 DEF AllOwned
  <2>3. r.whole = y
    BY <1>1, <2>1, <2>2 DEF RefInv, RefSound, HeapInv, Roots
  <2>4. r \in stay
    BY <1>1, <1>7, <2>2, <2>3 DEF RefInv, RefSound
  <2> QED
    BY <1>10, <2>2, <2>4
<1> QED
  BY <1>1, <1>4, <1>11, <1>12, <1>13, <1>14 DEF ObjectsInv, Sound, RefInv

-----------------------------------------------------------------------------
(***************************************************************************)
(* A call that makes an object.                                            *)
(***************************************************************************)
\* The heap after it, object by object.
MadeAs(g, h, n, op) ==
  LET moved == Took(op, {"moved"})
      adopted == Took(op, {"adopted"}) IN
  /\ n \notin DOMAIN h /\ n \in DOMAIN g
  /\ g[n].class = op.class /\ g[n].in = Alone /\ g[n].whole = n /\ g[n].full
  /\ g[n].kept = Took(op, {"kept"})
  /\ \A y \in DOMAIN h : y \in DOMAIN g <=> h[y].whole \notin Took(op, {"consumed"})
  /\ \A y \in DOMAIN g \ {n} :
       \/ y \notin DOMAIN h /\ g[y].in # Alone /\ g[y].kept = {}
       \/ /\ y \in DOMAIN h /\ g[y].class = h[y].class /\ g[y].kept \subseteq h[y].kept
          /\ y \in moved => g[y].whole = y
          /\ y \notin moved => /\ g[y].whole = IF h[y].whole \in moved \cup adopted THEN n ELSE h[y].whole
                               /\ g[y].full = h[y].full
          /\ g[y].in = Alone <=> h[y].in = Alone /\ y \notin adopted

\* An argument is taken in one way.
LEMMA TakenOnce ==
  ASSUME NEW f, NEW op, TakesSound(f, op)
  PROVE  /\ Shells(Roles(op, {"moved"})) \cap Shells(Roles(op, {"adopted"})) = {}
         /\ Shells(Roles(op, {"moved"})) \cap Shells(Roles(op, {"consumed"})) = {}
         /\ Shells(Roles(op, {"adopted"})) \cap Shells(Roles(op, {"consumed"})) = {}
<1>1. \A a, b \in op.takes : a.role = b.role => a.how = b.how
  BY DEF TakesSound
<1>2. \A p, q : <<p>> = <<q>> => p = q
  OBVIOUS
<1> QED
  BY <1>1, <1>2 DEF Shells, Roles

LEMMA MakeSound ==
  ASSUME NEW f \in Focuses, NEW h, NEW n \in Results, NEW op \in Calls(f), NEW t,
         HeapInv(f, h), GivenArgs(f, h, op), MakesSound(f, t, op), \A x \in DOMAIN h : x[1] # n[1]
  PROVE  /\ HeapInv(f, AfterMake(h, n, op))
         /\ MadeAs(AfterMake(h, n, op), h, n, op)
<1> DEFINE movedR == Roles(op, {"moved"})
           adoptedR == Roles(op, {"adopted"})
           moved == Shells(movedR)
           adopted == Shells(adoptedR)
           consumed == Took(op, {"consumed"})
           kept == Took(op, {"kept"})
           o == Object(op.class, Alone, n, OpenAfter(op), kept)
           h1 == Placed(h, n, o)
           h2 == MovedInto(h1, n, movedR)
           h3 == AdoptedBy(h2, n, adoptedR)
           g == AfterMake(h, n, op)
<1>1. /\ movedR \in SUBSET (Names \ Reserved) /\ adoptedR \in SUBSET (Names \ Reserved)
      /\ movedR \subseteq TakenRoles(op) /\ adoptedR \subseteq TakenRoles(op)
      /\ consumed = Shells(Roles(op, {"consumed"})) /\ moved = Took(op, {"moved"})
      /\ adopted = Took(op, {"adopted"})
  BY TookRoles DEF GivenArgs
<1>2. g = Removed(h3, UNION {Within(h, x) : x \in consumed})
  BY DEF AfterMake
<1>3. moved \cap adopted = {} /\ moved \cap consumed = {} /\ adopted \cap consumed = {}
  <2>1. TakesSound(f, op)
    BY TablesAssumption
  <2> QED
    BY <1>1, <2>1, TakenOnce
<1>4. /\ \A x \in moved \cup adopted \cup consumed :
           /\ x \in DOMAIN h /\ h[x].in = Alone /\ h[x].whole = x /\ h[x].full /\ x \notin Results
           /\ x # Alone /\ x \in Path
      /\ \A x \in consumed : x[1] \notin Keepable(f)
  <2>1. ASSUME NEW x \in moved \cup adopted \cup consumed
        PROVE  /\ x \in DOMAIN h /\ h[x].in = Alone /\ h[x].whole = x /\ h[x].full /\ x \notin Results
               /\ x # Alone /\ x \in Path /\ x[1] \notin Keepable(f)
    <3>1. PICK r \in TakenRoles(op) : x = <<r>>
      BY <1>1, TookRoles DEF Shells
    <3>2. r \in Names /\ r \notin Keepable(f)
      BY DEF GivenArgs
    <3>3. x[1] = r /\ x # Alone /\ x \in Path
      BY <3>1, <3>2, NamePath, LibraryPath
    <3> QED
      BY <3>1, <3>2, <3>3 DEF GivenArgs
  <2> QED
    BY <2>1
<1> HIDE DEF movedR, adoptedR, moved, adopted, consumed, kept
<1>5. n \in Named /\ n \in Path /\ n # <<>> /\ n # Alone
  BY ResultPath, LibraryPath
<1>6. /\ HeapInv(f, h1) /\ n \notin DOMAIN h /\ PlacedAs(h1, h, n, o)
  <2>1. op.class \in Types /\ OpenAfter(op) \in SUBSET Names
    BY DEF MakesSound
  <2>2. \A k \in kept : k \in DOMAIN h /\ h[k].in = Alone /\ h[k].full /\ k[1] \in Keepable(f)
    BY DEF GivenArgs, kept
  <2>3. HeapInv(f, h1) /\ n \notin DOMAIN h
    BY <2>1, <2>2, ResultSound
  <2> QED
    BY <2>3, PlacedObjects
<1>7. o.class = op.class /\ o.in = Alone /\ o.whole = n /\ o.full /\ o.open = OpenAfter(op) /\ o.kept = kept
  BY DEF Object
<1> HIDE DEF o, h1
<1>8. /\ DOMAIN h1 = DOMAIN h \cup {n} /\ h1[n] = o
      /\ \A y \in DOMAIN h : h1[y] = h[y]
  BY <1>6 DEF PlacedAs
<1>9. \A r \in movedR \cup adoptedR :
           /\ <<r>> \in DOMAIN h /\ h[<<r>>].in = Alone /\ h[<<r>>].full /\ r \notin Keepable(f)
           /\ Fits(op.class, r, h[<<r>>].class) /\ ~Droppable(h[<<r>>].class)
  <2> SUFFICES ASSUME NEW r \in movedR \cup adoptedR
               PROVE  /\ <<r>> \in DOMAIN h /\ h[<<r>>].in = Alone /\ h[<<r>>].full /\ r \notin Keepable(f)
                      /\ Fits(op.class, r, h[<<r>>].class) /\ ~Droppable(h[<<r>>].class)
    OBVIOUS
  <2>1. PICK a \in op.takes : a.role = r /\ a.how \in {"moved", "adopted"}
    BY DEF movedR, adoptedR, Roles
  <2>2. Fits(op.class, r, ArgumentClass(f, r)) /\ ~Droppable(ArgumentClass(f, r))
    BY <2>1 DEF MakesSound
  <2> QED
    BY <1>1, <2>2 DEF GivenArgs
<1>10. Movable(f, h1, n, movedR)
  <2>1. Lonely(h1, n)
    BY <1>8 DEF Lonely
  <2>2. Shells(movedR) \subseteq DOMAIN h1
    BY <1>8, <1>9 DEF Shells
  <2>3. \A r \in movedR : r \notin h1[n].open
    BY <1>7, <1>8 DEF MakesSound, movedR
  <2>4. \A r \in movedR : h1[<<r>>] = h[<<r>>]
    BY <1>8, <1>9
  <2> QED
    BY <1>7, <1>8, <1>9, <2>1, <2>2, <2>3, <2>4 DEF Movable
<1>11. HeapInv(f, h2)
  BY <1>1, <1>6, <1>10, MoveSound
<1>12. MovedMembersAs(h2, h1, n, movedR)
  BY <1>1, <1>6, <1>10, MovedMembers DEF Movable
<1> HIDE DEF h2
<1>13. /\ DOMAIN h2 = DOMAIN h1 \cup {Under(n, r) : r \in movedR}
       /\ \A r \in movedR : /\ Under(n, r) \notin DOMAIN h1 /\ h2[Under(n, r)].in = n
                            /\ h2[Under(n, r)].whole = n /\ h2[Under(n, r)].kept = {}
       /\ \A x \in moved : /\ h2[x].class = h1[x].class /\ h2[x].in = Alone /\ h2[x].whole = x
                           /\ h2[x].kept = {}
       /\ \A x \in DOMAIN h1 \ moved :
            /\ h2[x].class = h1[x].class /\ h2[x].full = h1[x].full /\ h2[x].kept = h1[x].kept
            /\ h2[x].whole = IF h1[x].whole \in moved THEN n ELSE h1[x].whole
            /\ h2[x].in = IF h1[x].in \in moved THEN n \o h1[x].in ELSE h1[x].in
  <2>1. DOMAIN h2 = DOMAIN h1 \cup {Under(n, r) : r \in movedR}
    BY <1>12 DEF MovedMembersAs
  <2>2. \A r \in movedR :
           /\ Under(n, r) \notin DOMAIN h1 /\ h2[Under(n, r)].in = n
           /\ h2[Under(n, r)].whole = n /\ h2[Under(n, r)].kept = {}
           /\ h2[<<r>>].class = h1[<<r>>].class /\ h2[<<r>>].in = Alone /\ h2[<<r>>].whole = <<r>>
           /\ h2[<<r>>].kept = {}
    BY <1>12 DEF MovedMembersAs
  <2>3. ASSUME NEW x \in moved
        PROVE  h2[x].class = h1[x].class /\ h2[x].in = Alone /\ h2[x].whole = x /\ h2[x].kept = {}
    <3>1. PICK r \in movedR : x = <<r>>
      BY DEF moved, Shells
    <3> QED
      BY <2>2, <3>1
  <2>4. ASSUME NEW x \in DOMAIN h1 \ moved
        PROVE  /\ h2[x].class = h1[x].class /\ h2[x].full = h1[x].full /\ h2[x].kept = h1[x].kept
               /\ h2[x].whole = IF h1[x].whole \in moved THEN n ELSE h1[x].whole
               /\ h2[x].in = IF h1[x].in \in moved THEN n \o h1[x].in ELSE h1[x].in
    BY <1>12 DEF MovedMembersAs, moved
  <2> QED
    BY <2>1, <2>2, <2>3, <2>4
<1>14. \A x \in moved : n \o x # Alone
  BY <1>4, <1>5, LibraryPath DEF Path
<1>15. /\ n \in DOMAIN h2 /\ n \notin moved \cup adopted \cup consumed
       /\ h2[n].class = op.class /\ h2[n].in = Alone /\ h2[n].whole = n /\ h2[n].full /\ h2[n].kept = kept
  <2>1. n \notin moved \cup adopted \cup consumed /\ Alone \notin moved
    BY <1>4
  <2> QED
    BY <1>7, <1>8, <1>13, <2>1
<1>16. Adoptable(f, h2, n, adoptedR)
  <2>1. ASSUME NEW r \in adoptedR
        PROVE  /\ <<r>> \in DOMAIN h2 /\ h2[<<r>>].in = Alone /\ h2[<<r>>].full
               /\ h2[<<r>>].class = h[<<r>>].class
    <3>1. <<r>> \in adopted
      BY DEF adopted, Shells
    <3>2. <<r>> \notin moved /\ <<r>> \in DOMAIN h /\ Alone \notin moved
      BY <1>3, <1>4, <3>1
    <3> QED
      BY <1>4, <1>8, <1>13, <3>1, <3>2
  <2>2. Shells(adoptedR) \subseteq DOMAIN h2
    BY <2>1 DEF Shells
  <2> QED
    BY <1>9, <1>15, <2>1, <2>2 DEF Adoptable
<1>17. HeapInv(f, h3) /\ AdoptedAs(h3, h2, n, adoptedR)
  BY <1>1, <1>11, <1>16, AdoptSound, AdoptedMembers
<1> HIDE DEF h3
<1>18. /\ DOMAIN h3 = DOMAIN h2
       /\ \A x \in DOMAIN h2 :
            /\ h3[x].class = h2[x].class /\ h3[x].full = h2[x].full /\ h3[x].kept = h2[x].kept
            /\ h3[x].whole = IF h2[x].whole \in adopted THEN n ELSE h2[x].whole
            /\ h3[x].in = IF x \in adopted THEN n ELSE h2[x].in
  BY <1>17 DEF AdoptedAs, adopted
<1>19. ASSUME NEW y \in DOMAIN h
       PROVE  /\ y \in DOMAIN h3 /\ h3[y].class = h[y].class /\ h3[y].kept \subseteq h[y].kept
              /\ y \in moved => h3[y].whole = y
              /\ y \notin moved => /\ h3[y].whole = IF h[y].whole \in moved \cup adopted THEN n ELSE h[y].whole
                                   /\ h3[y].full = h[y].full
              /\ h3[y].in = Alone <=> h[y].in = Alone /\ y \notin adopted
  <2>1. y \in DOMAIN h1 /\ h1[y] = h[y] /\ y \in DOMAIN h2 /\ y \in DOMAIN h3
    BY <1>8, <1>13, <1>18
  <2>2. CASE y \in moved
    BY <1>3, <1>4, <1>13, <1>18, <2>1, <2>2
  <2>3. CASE y \notin moved
    <3>1. h3[y].whole = IF h[y].whole \in moved \cup adopted THEN n ELSE h[y].whole
      BY <1>13, <1>15, <1>18, <2>1, <2>3
    <3>2. h2[y].in = Alone <=> h[y].in = Alone
      <4>1. h2[y].in = IF h[y].in \in moved THEN n \o h[y].in ELSE h[y].in
        BY <1>13, <2>1, <2>3
      <4>2. CASE h[y].in \in moved
        BY <1>4, <1>14, <4>1, <4>2
      <4>3. CASE h[y].in \notin moved
        BY <4>1, <4>3
      <4> QED
        BY <4>2, <4>3
    <3>3. h3[y].in = Alone <=> h[y].in = Alone /\ y \notin adopted
      BY <1>5, <1>18, <2>1, <3>2
    <3> QED
      BY <1>13, <1>18, <2>1, <2>3, <3>1, <3>3
  <2> QED
    BY <2>2, <2>3
<1>20. /\ n \in DOMAIN h3 /\ h3[n].class = op.class /\ h3[n].in = Alone /\ h3[n].whole = n
       /\ h3[n].full /\ h3[n].kept = kept
  BY <1>15, <1>18
<1>21. ASSUME NEW y \in DOMAIN h3, y \notin DOMAIN h, y # n
       PROVE  h3[y].in # Alone /\ h3[y].whole = n /\ h3[y].kept = {}
  <2>1. PICK r \in movedR : y = Under(n, r)
    BY <1>8, <1>13, <1>18, <1>21
  <2>2. h2[y].in = n /\ h2[y].whole = n /\ h2[y].kept = {} /\ y \in DOMAIN h2
    BY <1>13, <2>1
  <2> QED
    BY <1>5, <1>15, <1>18, <2>2
<1>22. DOMAIN h3 \ UNION {Within(h, x) : x \in consumed} = {y \in DOMAIN h3 : h3[y].whole \notin consumed}
  <2>1. ASSUME NEW y \in DOMAIN h3
        PROVE  y \in UNION {Within(h, x) : x \in consumed} <=> h3[y].whole \in consumed
    <3>1. CASE y \in DOMAIN h /\ y \in moved
      BY <1>4, <1>19, <3>1 DEF Within
    <3>2. CASE y \in DOMAIN h /\ y \notin moved
      BY <1>3, <1>15, <1>19, <3>2 DEF Within
    <3>3. CASE y \notin DOMAIN h
      BY <1>15, <1>20, <1>21, <3>3 DEF Within
    <3> QED
      BY <3>1, <3>2, <3>3
  <2> QED
    BY <2>1
<1>23. g = Without(h3, consumed)
  BY <1>2, <1>22 DEF Removed, Without
<1>24. ASSUME NEW x \in DOMAIN h3, NEW k \in h3[x].kept
       PROVE  h3[k].whole \notin consumed
  <2>1. k \in DOMAIN h3 /\ h3[k].in = Alone /\ k[1] \in Keepable(f)
    BY <1>17 DEF HeapInv, KeptAlive
  <2>2. h3[k].whole = k
    BY <1>17, <2>1 DEF HeapInv, Roots
  <2> QED
    BY <1>4, <2>1, <2>2
<1>25. HeapInv(f, g)
  BY <1>17, <1>23, <1>24, WithoutSound
<1>26. DOMAIN g = {y \in DOMAIN h3 : h3[y].whole \notin consumed} /\ \A y \in DOMAIN g : g[y] = h3[y]
  BY <1>23 DEF Without
<1> HIDE DEF g
<1>27. n \in DOMAIN g /\ g[n] = h3[n]
  BY <1>15, <1>20, <1>26
<1>28. \A y \in DOMAIN h : y \in DOMAIN g <=> h[y].whole \notin consumed
  BY <1>3, <1>4, <1>15, <1>19, <1>26
<1>29. ASSUME NEW y \in DOMAIN g \ {n}
       PROVE  \/ y \notin DOMAIN h /\ g[y].in # Alone /\ g[y].kept = {}
              \/ /\ y \in DOMAIN h /\ g[y].class = h[y].class /\ g[y].kept \subseteq h[y].kept
                 /\ y \in moved => g[y].whole = y
                 /\ y \notin moved => /\ g[y].whole = IF h[y].whole \in moved \cup adopted THEN n ELSE h[y].whole
                                      /\ g[y].full = h[y].full
                 /\ g[y].in = Alone <=> h[y].in = Alone /\ y \notin adopted
  BY <1>19, <1>21, <1>26
<1>30. MadeAs(g, h, n, op)
  BY <1>1, <1>6, <1>20, <1>27, <1>28, <1>29 DEF MadeAs, consumed, kept
<1> QED
  BY <1>25, <1>30 DEF g

\* What the program makes of a handle when arguments have gone into n.
RehomedAs(q, r, n, op) ==
  LET moved == Took(op, {"moved"})
      adopted == Took(op, {"adopted"}) IN
  /\ q \in RefType /\ q.id = r.id /\ q.as = r.as /\ q.keeps = r.keeps
  /\ q.owned <=> r.owned /\ r.id \notin adopted
  /\ q.spent <=> r.spent \/ r.id \in moved
  /\ q.whole = IF r.id \notin moved /\ (r.id \in adopted \/ r.whole \in moved \cup adopted) THEN n ELSE r.whole

LEMMA RehomedRefs ==
  ASSUME NEW n \in Path, NEW op, \A r \in refs : r \in RefType,
         Took(op, {"moved"}) \cap Took(op, {"adopted"}) = {}
  PROVE  LET stay == {s \in refs : s.whole \notin Took(op, {"consumed"})} IN
         /\ \A q \in Rehomed(n, op) : \E r \in stay : RehomedAs(q, r, n, op)
         /\ \A r \in stay : \E q \in Rehomed(n, op) : RehomedAs(q, r, n, op)
         /\ \A q, p \in Rehomed(n, op) : q.owned /\ p.owned /\ q.id = p.id =>
              \E r, s \in stay : /\ r.id = q.id /\ r.owned /\ s.id = p.id /\ s.owned
                                 /\ (r = s => q = p)
<1> DEFINE moved == Took(op, {"moved"})
           adopted == Took(op, {"adopted"})
           stay == {s \in refs : s.whole \notin Took(op, {"consumed"})}
           Then(r) == IF r.id \in Took(op, {"moved"}) THEN [r EXCEPT !.spent = TRUE]
                      ELSE IF r.id \in Took(op, {"adopted"}) THEN [r EXCEPT !.owned = FALSE, !.whole = n]
                      ELSE IF r.whole \in Took(op, {"moved", "adopted"}) THEN [r EXCEPT !.whole = n]
                      ELSE r
<1>1. Took(op, {"moved", "adopted"}) = moved \cup adopted
  BY TookRoles DEF Shells
<1>2. Rehomed(n, op) = {Then(r) : r \in stay}
  BY DEF Rehomed
<1>3. ASSUME NEW r \in stay
      PROVE  RehomedAs(Then(r), r, n, op)
  <2>0. r \in RefType
    OBVIOUS
  <2> HIDE DEF moved, adopted, stay
  <2>1. CASE r.id \in moved
    <3>1. Then(r) = [r EXCEPT !.spent = TRUE] /\ r.id \notin adopted
      BY <2>1 DEF moved, adopted
    <3> HIDE DEF Then
    <3> QED
      BY <2>0, <2>1, <3>1 DEF RehomedAs, RefType, moved, adopted
  <2>2. CASE r.id \notin moved /\ r.id \in adopted
    <3>1. Then(r) = [r EXCEPT !.owned = FALSE, !.whole = n]
      BY <2>2 DEF moved, adopted
    <3> HIDE DEF Then
    <3> QED
      BY <2>0, <2>2, <3>1 DEF RehomedAs, RefType, moved, adopted
  <2>3. CASE r.id \notin moved /\ r.id \notin adopted /\ r.whole \in moved \cup adopted
    <3>1. Then(r) = [r EXCEPT !.whole = n]
      BY <1>1, <2>3 DEF moved, adopted
    <3> HIDE DEF Then
    <3> QED
      BY <2>0, <2>3, <3>1 DEF RehomedAs, RefType, moved, adopted
  <2>4. CASE r.id \notin moved /\ r.id \notin adopted /\ r.whole \notin moved \cup adopted
    <3>1. Then(r) = r
      BY <1>1, <2>4 DEF moved, adopted
    <3> HIDE DEF Then
    <3> QED
      BY <2>0, <2>4, <3>1 DEF RehomedAs, RefType, moved, adopted
  <2> QED
    BY <2>1, <2>2, <2>3, <2>4
<1> HIDE DEF Then
<1>4. \A q \in Rehomed(n, op) : \E r \in stay : RehomedAs(q, r, n, op) /\ q = Then(r)
  BY <1>2, <1>3
<1>5. \A r \in stay : \E q \in Rehomed(n, op) : RehomedAs(q, r, n, op)
  BY <1>2, <1>3
<1>6. ASSUME NEW q \in Rehomed(n, op), NEW p \in Rehomed(n, op), q.owned, p.owned, q.id = p.id
      PROVE  \E r, s \in stay : /\ r.id = q.id /\ r.owned /\ s.id = p.id /\ s.owned
                                /\ (r = s => q = p)
  <2>1. PICK r \in stay : RehomedAs(q, r, n, op) /\ q = Then(r)
    BY <1>4
  <2>2. PICK s \in stay : RehomedAs(p, s, n, op) /\ p = Then(s)
    BY <1>4
  <2>3. r.id = q.id /\ r.owned /\ s.id = p.id /\ s.owned
    BY <1>6, <2>1, <2>2 DEF RehomedAs
  <2> QED
    BY <2>1, <2>2, <2>3
<1> QED
  BY <1>4, <1>5, <1>6

LEMMA MakeStep ==
  ASSUME ObjectsInv, NEW op \in Calls(focus), NEW t, At(op.takes), MakesSound(focus, t, op),
         Make(t, op), UNCHANGED focus
  PROVE  ObjectsInv'
<1>1. /\ HeapInv(focus, heap) /\ RefInv(heap, refs) /\ focus \in Focuses
      /\ ByTheHeader \/ AllOwned(heap, refs)
  BY DEF ObjectsInv, Sound
<1>2. GivenArgs(focus, heap, op)
  BY <1>1, HandlesGiven
<1> DEFINE moved == Took(op, {"moved"})
           adopted == Took(op, {"adopted"})
           consumed == Took(op, {"consumed"})
           kept == Took(op, {"kept"})
           stay == {s \in refs : s.whole \notin consumed}
<1>3. PICK n \in Unused :
        /\ heap' = AfterMake(heap, n, op)
        /\ refs' = Rehomed(n, op) \cup {[Ref(n, op.as, Owns(t, op), n) EXCEPT !.keeps = kept]}
  BY DEF Make
<1> DEFINE new == [Ref(n, op.as, Owns(t, op), n) EXCEPT !.keeps = kept]
<1>4. n \in Results /\ n \in Path /\ \A x \in DOMAIN heap : x[1] # n[1]
  BY ResultPath DEF Unused
<1>5. HeapInv(focus, heap') /\ MadeAs(heap', heap, n, op)
  BY <1>1, <1>2, <1>3, <1>4, MakeSound
<1>6. moved \cap adopted = {} /\ moved \cap consumed = {} /\ adopted \cap consumed = {}
  <2>1. TakesSound(focus, op)
    BY <1>1, TablesAssumption
  <2> QED
    BY <2>1, TakenOnce, TookRoles
<1>7. \A x \in moved \cup adopted \cup consumed : heap[x].whole = x /\ x \notin Results
  BY <1>2, TookRoles DEF GivenArgs, Shells
<1>8. /\ \A q \in Rehomed(n, op) : \E r \in stay : RehomedAs(q, r, n, op)
      /\ \A r \in stay : \E q \in Rehomed(n, op) : RehomedAs(q, r, n, op)
      /\ \A q, p \in Rehomed(n, op) : q.owned /\ p.owned /\ q.id = p.id =>
           \E r, s \in stay : /\ r.id = q.id /\ r.owned /\ s.id = p.id /\ s.owned
                              /\ (r = s => q = p)
  <2>1. \A r \in refs : r \in RefType
    BY <1>1 DEF RefInv, RefSound
  <2> QED
    BY <1>4, <1>6, <2>1, RehomedRefs
<1>9. /\ new \in RefType /\ new.id = n /\ new.as = op.as /\ new.whole = n /\ new.keeps = kept
      /\ ~ByTheHeader => new.owned
  <2>1. op.as \in Types /\ HeaderGives(t, op)
    BY TablesAssumption DEF MakesSound, ClassesSound
  <2>2. Owns(t, op) \in BOOLEAN /\ (~ByTheHeader => Owns(t, op))
    BY <2>1, CAssumption DEF Owns, HeaderGives, GivesAway
  <2>3. kept \in SUBSET Path
    BY <1>1, <1>2 DEF GivenArgs, HeapInv, HeapType
  <2> HIDE DEF kept
  <2> QED
    BY <1>4, <2>1, <2>2, <2>3 DEF Ref, RefType
<1> HIDE DEF moved, adopted, consumed, kept, new
<1>10. refs' = Rehomed(n, op) \cup {new}
  BY <1>3 DEF new, kept
<1>11. /\ n \notin DOMAIN heap /\ n \in DOMAIN heap'
       /\ heap'[n].class = op.class /\ heap'[n].in = Alone /\ heap'[n].whole = n /\ heap'[n].full
       /\ heap'[n].kept = kept
       /\ \A y \in DOMAIN heap : y \in DOMAIN heap' <=> heap[y].whole \notin consumed
       /\ \A y \in DOMAIN heap' \ {n} :
            \/ y \notin DOMAIN heap /\ heap'[y].in # Alone /\ heap'[y].kept = {}
            \/ /\ y \in DOMAIN heap /\ heap'[y].class = heap[y].class /\ heap'[y].kept \subseteq heap[y].kept
               /\ y \in moved => heap'[y].whole = y
               /\ y \notin moved => /\ heap'[y].whole = IF heap[y].whole \in moved \cup adopted THEN n
                                                        ELSE heap[y].whole
                                    /\ heap'[y].full = heap[y].full
               /\ heap'[y].in = Alone <=> heap[y].in = Alone /\ y \notin adopted
  BY <1>5 DEF MadeAs, moved, adopted, consumed, kept
<1>12. RefSound(heap', new)
  BY <1>9, <1>11 DEF RefSound, MakesSound
<1>13. ASSUME NEW q \in Rehomed(n, op)
       PROVE  RefSound(heap', q) /\ q.id # n
  <2>1. PICK r \in stay : RehomedAs(q, r, n, op)
    BY <1>8
  <2>2. /\ q \in RefType /\ q.id = r.id /\ q.as = r.as
        /\ q.owned <=> r.owned /\ r.id \notin adopted
        /\ q.spent <=> r.spent \/ r.id \in moved
        /\ q.whole = IF r.id \notin moved /\ (r.id \in adopted \/ r.whole \in moved \cup adopted) THEN n
                     ELSE r.whole
    BY <2>1 DEF RehomedAs, moved, adopted
  <2>3. /\ r.id \in DOMAIN heap /\ r.whole = heap[r.id].whole /\ r.whole \notin consumed
        /\ (r.spent \/ heap[r.id].full) /\ (r.owned => heap[r.id].in = Alone)
        /\ r.as \in Bases(heap[r.id].class)
    BY <1>1 DEF RefInv, RefSound
  <2>4. r.id \in DOMAIN heap' /\ r.id # n
    BY <1>11, <2>3
  <2>5. q.whole = heap'[q.id].whole
    BY <1>7, <1>11, <2>2, <2>3, <2>4
  <2>6. q.spent \/ heap'[q.id].full
    BY <1>11, <2>2, <2>3, <2>4
  <2>7. (q.owned => heap'[q.id].in = Alone) /\ q.as \in Bases(heap'[q.id].class)
    BY <1>11, <2>2, <2>3, <2>4
  <2> QED
    BY <2>2, <2>4, <2>5, <2>6, <2>7 DEF RefSound
<1>14. \A q, s \in refs' : q.owned /\ s.owned /\ q.id = s.id => q = s
  <2>1. \A r, s \in stay : r.owned /\ s.owned /\ r.id = s.id => r = s
    BY <1>1 DEF RefInv
  <2>2. \A q, p \in Rehomed(n, op) : q.owned /\ p.owned /\ q.id = p.id => q = p
    BY <1>8, <2>1
  <2> QED
    BY <1>9, <1>10, <1>13, <2>2
<1>15. ASSUME NEW y \in DOMAIN heap', NEW k \in heap'[y].kept
       PROVE  \E q \in refs' : q.id = y /\ k \in q.keeps
  <2>1. CASE y = n
    BY <1>9, <1>10, <1>11, <2>1
  <2>2. CASE y # n
    <3>1. y \in DOMAIN heap /\ k \in heap[y].kept /\ heap[y].whole \notin consumed
      BY <1>11, <2>2
    <3>2. PICK r \in refs : r.id = y /\ k \in r.keeps
      BY <1>1, <3>1 DEF RefInv
    <3>3. r \in stay
      BY <1>1, <3>1, <3>2 DEF RefInv, RefSound
    <3>4. PICK q \in Rehomed(n, op) : RehomedAs(q, r, n, op)
      BY <1>8, <3>3
    <3> QED
      BY <1>10, <3>2, <3>4 DEF RehomedAs
  <2> QED
    BY <2>1, <2>2
<1>16. ASSUME AllOwned(heap, refs), ~ByTheHeader
       PROVE  AllOwned(heap', refs')
  <2> SUFFICES ASSUME NEW y \in DOMAIN heap', heap'[y].in = Alone
               PROVE  \E q \in refs' : q.id = y /\ q.owned
    BY DEF AllOwned
  <2>1. CASE y = n
    BY <1>9, <1>10, <1>16, <2>1
  <2>2. CASE y # n
    <3>1. y \in DOMAIN heap /\ heap[y].in = Alone /\ y \notin adopted /\ heap[y].whole \notin consumed
      BY <1>11, <2>2
    <3>2. PICK r \in refs : r.id = y /\ r.owned
      BY <1>16, <3>1 DEF AllOwned
    <3>3. r \in stay
      BY <1>1, <3>1, <3>2 DEF RefInv, RefSound
    <3>4. PICK q \in Rehomed(n, op) : RehomedAs(q, r, n, op)
      BY <1>8, <3>3
    <3>5. q.id = y /\ q.owned
      BY <3>1, <3>2, <3>4 DEF RehomedAs, adopted
    <3> QED
      BY <1>10, <3>5
  <2> QED
    BY <2>1, <2>2
<1>17. \A q \in refs' : RefSound(heap', q)
  BY <1>10, <1>12, <1>13
<1> QED
  BY <1>1, <1>5, <1>14, <1>15, <1>16, <1>17 DEF ObjectsInv, Sound, RefInv

-----------------------------------------------------------------------------
(***************************************************************************)
(* The program starts with its arguments.                                  *)
(***************************************************************************)
\* Two classes that are each other's base are the same.
LEMMA BasesOneWay ==
  ASSUME NEW c, NEW b, c \in Bases(b), b \in Bases(c)
  PROVE  c = b
BY DEF Bases, BaseOf

LEMMA StartHeap ==
  ASSUME NEW f \in Focuses, NEW args \in SUBSET ArgumentsOf[f]
  PROVE  /\ HeapInv(f, ArgumentHeap(args))
         /\ \A a \in args :
              LET o == ArgumentHeap(args)[<<a.role>>] IN
              /\ <<a.role>> \in DOMAIN ArgumentHeap(args) /\ <<a.role>> \in Path
              /\ o.whole = <<a.role>> /\ o.full /\ o.in = Alone /\ a.class \in Bases(o.class)
              /\ a.class \in Types
         /\ \A x \in DOMAIN ArgumentHeap(args) :
              /\ ArgumentHeap(args)[x].kept = {}
              /\ \E a \in args : x = <<a.role>>
<1> DEFINE g == ArgumentHeap(args)
           Chosen(x) == CHOOSE b \in args : b.role = x[1]
<1>1. g = [x \in {<<a.role>> : a \in args} |-> Object(Chosen(x).class, Alone, x, Members[Chosen(x).class], {})]
  BY DEF ArgumentHeap
<1>2. ArgumentsSound(f)
  BY TablesAssumption
<1>3. ASSUME NEW a \in args
      PROVE  /\ a.role \in Names /\ a.role \notin Reserved /\ a.class \in Types
             /\ <<a.role>> \in Path /\ <<a.role>> \in Named /\ <<a.role>> # <<>> /\ <<a.role>>[1] = a.role
             /\ <<a.role>> \notin Results /\ <<a.role>> # Library
  <2>1. a.role \in Names /\ a.role \notin Reserved /\ a.class \in Types
    BY <1>2 DEF ArgumentsSound
  <2>2. <<a.role>> \in Path /\ <<a.role>> \in Named /\ <<a.role>> # <<>> /\ <<a.role>>[1] = a.role
    BY <2>1, NamePath
  <2>3. <<a.role>> \notin Results
    BY <2>1, <2>2, NotReserved
  <2>4. <<a.role>> # Library
    BY <2>1, <2>2, LibraryPath, ReservedNames
  <2> QED
    BY <2>1, <2>2, <2>3, <2>4
<1>4. ASSUME NEW a \in args
      PROVE  LET b == Chosen(<<a.role>>) IN
             /\ b \in args /\ b.role = a.role /\ b.class \in Types /\ a.class \in Bases(b.class)
             /\ Members[b.class] \subseteq Names /\ b.class = ArgumentClass(f, a.role)
  <2> DEFINE b == Chosen(<<a.role>>)
  <2>1. <<a.role>>[1] = a.role
    BY <1>3
  <2>2. b = CHOOSE c \in args : c.role = a.role
    BY <2>1
  <2>3. b \in args /\ b.role = a.role
    BY <2>2
  <2> HIDE DEF b
  <2>4. b.class = ArgumentClass(f, a.role)
    <3> DEFINE d == CHOOSE c \in ArgumentsOf[f] : c.role = a.role
    <3>1. d \in ArgumentsOf[f] /\ d.role = a.role /\ d.class = ArgumentClass(f, a.role)
      BY DEF ArgumentClass
    <3> HIDE DEF d
    <3>2. d.class \in Bases(b.class) /\ b.class \in Bases(d.class)
      BY <1>2, <2>3, <3>1 DEF ArgumentsSound
    <3> QED
      BY <3>1, <3>2, BasesOneWay
  <2>5. b.class \in Types /\ a.class \in Bases(b.class)
    BY <1>2, <2>3 DEF ArgumentsSound
  <2>6. Members[b.class] \subseteq Names
    BY <2>5, TablesAssumption DEF ClassesSound
  <2> QED
    BY <2>3, <2>4, <2>5, <2>6 DEF b
<1> HIDE DEF Chosen
<1>5. ASSUME NEW a \in args
      PROVE  LET o == g[<<a.role>>] IN
             /\ <<a.role>> \in DOMAIN g
             /\ o \in ObjectType /\ o.in = Alone /\ o.whole = <<a.role>> /\ o.full /\ o.kept = {}
             /\ o.class = ArgumentClass(f, a.role) /\ a.class \in Bases(o.class)
  <2> DEFINE b == Chosen(<<a.role>>)
             o == g[<<a.role>>]
  <2>1. o = Object(b.class, Alone, <<a.role>>, Members[b.class], {}) /\ <<a.role>> \in DOMAIN g
    BY <1>1
  <2>2. /\ b.class \in Types /\ Members[b.class] \subseteq Names /\ b.class = ArgumentClass(f, a.role)
        /\ a.class \in Bases(b.class) /\ Alone \in Path /\ <<a.role>> \in Path
    BY <1>3, <1>4, LibraryPath
  <2> HIDE DEF b, o, g
  <2> QED
    BY <2>1, <2>2 DEF Object, ObjectType, o
<1>6. \A x \in DOMAIN g : \E a \in args : x = <<a.role>>
  BY <1>1
<1>7. g = [x \in DOMAIN g |-> g[x]]
  BY <1>1
<1> HIDE DEF g
<1>8. ASSUME NEW x \in DOMAIN g
      PROVE  /\ g[x] \in ObjectType /\ g[x].in = Alone /\ g[x].whole = x /\ g[x].full /\ g[x].kept = {}
             /\ x \in Path /\ x \in Named /\ x # <<>> /\ x # Library
             /\ \E a \in args : a.role = x[1] /\ g[x].class = ArgumentClass(f, x[1])
  <2>1. PICK a \in args : x = <<a.role>>
    BY <1>6
  <2>2. /\ g[x] \in ObjectType /\ g[x].in = Alone /\ g[x].whole = x /\ g[x].full /\ g[x].kept = {}
        /\ g[x].class = ArgumentClass(f, a.role)
    BY <1>5, <2>1
  <2>3. x \in Path /\ x \in Named /\ x # <<>> /\ x # Library /\ x[1] = a.role
    BY <1>3, <2>1
  <2> QED
    BY <2>2, <2>3
<1>9. HeapType(g)
  BY <1>7, <1>8 DEF HeapType
<1>10. Roots(f, g)
  BY <1>8, LibraryPath DEF Roots
<1>11. Inside(g)
  BY <1>8 DEF Inside, Outer
<1>12. \A x \in Path, m \in Names : Under(x, m) \in DOMAIN g => x = <<>>
  BY <1>8, LongerPath
<1>13. Prefixes(g)
  BY <1>8, <1>12 DEF Prefixes
<1>14. OpenFree(g)
  BY <1>8, <1>12 DEF OpenFree, ObjectType
<1>15. KeptAlive(f, g)
  BY <1>8 DEF KeptAlive
<1>16. Fitting(g)
  BY <1>8 DEF Fitting, Alone
<1>17. ConstantsFit(f, g)
  BY <1>8, ConstantPath DEF ConstantsFit
<1> QED
  BY <1>3, <1>5, <1>6, <1>8, <1>9, <1>10, <1>11, <1>13, <1>14, <1>15, <1>16, <1>17 DEF HeapInv, g

LEMMA InitSound == Init => ObjectsInv
<1> SUFFICES ASSUME Init
             PROVE  ObjectsInv
  OBVIOUS
<1> DEFINE args == ArgumentsOf[focus]
<1>1. focus \in Focuses /\ heap = ArgumentHeap(args)
  BY DEF Init
<1>2. refs = {Ref(<<a.role>>, a.class, TRUE, <<a.role>>) : a \in args}
  BY DEF Init
<1>3. /\ HeapInv(focus, heap)
      /\ \A a \in args :
           /\ <<a.role>> \in DOMAIN heap /\ <<a.role>> \in Path
           /\ heap[<<a.role>>].whole = <<a.role>> /\ heap[<<a.role>>].full
           /\ heap[<<a.role>>].in = Alone /\ a.class \in Bases(heap[<<a.role>>].class) /\ a.class \in Types
      /\ \A x \in DOMAIN heap : heap[x].kept = {} /\ \E a \in args : x = <<a.role>>
  BY <1>1, StartHeap DEF args
<1>4. ArgumentsSound(focus)
  BY <1>1, TablesAssumption
<1>5. ASSUME NEW r \in refs
      PROVE  /\ RefSound(heap, r) /\ r.owned
             /\ \E a \in args : r = Ref(<<a.role>>, a.class, TRUE, <<a.role>>)
  <2>1. PICK a \in args : r = Ref(<<a.role>>, a.class, TRUE, <<a.role>>)
    BY <1>2
  <2> QED
    BY <1>3, <2>1 DEF Ref, RefSound, RefType
<1>6. ASSUME NEW r \in refs, NEW s \in refs, r.id = s.id
      PROVE  r = s
  <2>1. PICK a \in args : r = Ref(<<a.role>>, a.class, TRUE, <<a.role>>)
    BY <1>5
  <2>2. PICK b \in args : s = Ref(<<b.role>>, b.class, TRUE, <<b.role>>)
    BY <1>5
  <2>3. a.role = b.role
    BY <1>6, <2>1, <2>2 DEF Ref
  <2>4. a.class \in Bases(b.class) /\ b.class \in Bases(a.class)
    BY <1>4, <2>3 DEF ArgumentsSound
  <2> QED
    BY <2>1, <2>2, <2>3, <2>4, BasesOneWay
<1>7. AllOwned(heap, refs)
  <2> SUFFICES ASSUME NEW x \in DOMAIN heap
               PROVE  \E r \in refs : r.id = x /\ r.owned
    BY DEF AllOwned
  <2>1. PICK a \in args : x = <<a.role>>
    BY <1>3
  <2>2. Ref(x, a.class, TRUE, x) \in refs
    BY <1>2, <2>1
  <2> QED
    BY <2>2 DEF Ref
<1> QED
  BY <1>1, <1>3, <1>5, <1>6, <1>7 DEF ObjectsInv, Sound, RefInv

-----------------------------------------------------------------------------
(***************************************************************************)
(* Every step.                                                             *)
(***************************************************************************)
LEMMA NextSound == ObjectsInv /\ [Next]_vars => ObjectsInv'
<1> SUFFICES ASSUME ObjectsInv, [Next]_vars
             PROVE  ObjectsInv'
  OBVIOUS
<1>1. focus \in Focuses /\ \A r \in refs : r.as \in Types
  BY DEF ObjectsInv, Sound, RefInv, RefSound, RefType
<1>2. Tables[focus] \subseteq Calls(focus)
  BY DEF Calls
<1>3. ASSUME NEW op \in Tables[focus], Call(op)
      PROVE  ObjectsInv'
  <2>1. ~op.self /\ At(op.takes) /\ UNCHANGED focus
    BY <1>3 DEF Call
  <2>2. CASE op.kind = "static"
    BY <1>3, <2>1, <2>2, ConstantStep DEF Call
  <2>3. CASE op.kind # "static"
    <3>1. MakesSound(focus, focus, op)
      BY <1>1, <2>1, <2>3, TablesAssumption
    <3>2. Make(focus, op)
      BY <1>3, <2>3 DEF Call
    <3> QED
      BY <1>2, <2>1, <3>1, <3>2, MakeStep
  <2> QED
    BY <2>2, <2>3
<1>4. ASSUME NEW r \in refs, NEW op \in On[r.as], CallOn(r, op)
      PROVE  ObjectsInv'
  <2>1. ~r.spent /\ At(op.takes) /\ <<r.as, op.fn>> \notin Mistyped /\ UNCHANGED focus
    BY <1>4 DEF CallOn
  <2>2. CASE op.kind = "made"
    <3>1. focus \in Bases(r.as) /\ Make(r.as, op)
      BY <1>4, <2>2 DEF CallOn
    <3>2. MakesSound(focus, r.as, op)
      BY <1>1, <2>1, <2>2, <3>1, TablesAssumption
    <3>3. op \in Calls(focus)
      BY <1>1, <3>1 DEF Calls
    <3> QED
      BY <2>1, <3>1, <3>2, <3>3, MakeStep
  <2>3. CASE op.kind = "part"
    <3>1. HandOut(op, r)
      BY <1>4, <2>3 DEF CallOn
    <3> QED
      BY <2>1, <2>3, <3>1, HandOutStep
  <2>4. CASE op.kind \notin {"made", "part"}
    <3>1. UNCHANGED <<heap, refs>>
      BY <1>4, <2>4 DEF CallOn
    <3> QED
      BY <2>1, <3>1 DEF ObjectsInv
  <2> QED
    BY <2>2, <2>3, <2>4
<1>5. ASSUME NEW op \in Tables[focus], CallThrows(op)
      PROVE  ObjectsInv'
  BY <1>2, <1>5, ThrowStep DEF CallThrows
<1>6. ASSUME NEW r \in refs, NEW op \in Own[r.as], FreeHandle(r, op)
      PROVE  ObjectsInv'
  BY <1>6, DeleteStep DEF FreeHandle
<1>7. ASSUME NEW r \in refs, NEW op \in Own[r.as], DropFrom(r, op)
      PROVE  ObjectsInv'
  <2>1. Droppable(r.as)
    BY <1>7 DEF DropFrom, Droppable
  <2> QED
    BY <1>7, <2>1, DropStep DEF DropFrom
<1>8. CASE UNCHANGED vars
  BY <1>8 DEF vars, ObjectsInv
<1> QED
  BY <1>3, <1>4, <1>5, <1>6, <1>7, <1>8 DEF Next

LEMMA ObjectsInvHolds == Spec => []ObjectsInv
BY InitSound, NextSound, PTL DEF Spec

-----------------------------------------------------------------------------
(***************************************************************************)
(* What follows.                                                           *)
(***************************************************************************)
(* A handle that may still be used is that of an object that exists and has its
   contents, and so is what a mediator keeps a reference to (RefsAlive).       *)
THEOREM RefsStayAlive == Spec => []RefsAlive
<1>1. ObjectsInv => RefsAlive
  BY DEF ObjectsInv, Sound, RefInv, RefSound, HeapInv, KeptAlive, RefsAlive
<1> QED
  BY <1>1, ObjectsInvHolds, PTL

(* Outside the functions of Mistyped no handle has, or is cast to, a class that
   its object does not have (ClassSound).                                      *)
THEOREM ClassesStaySound == Spec => []ClassSound
<1>1. ObjectsInv => ClassSound
  <2> SUFFICES ASSUME ObjectsInv, NEW r \in refs
               PROVE  /\ r.as \in Bases(heap[r.id].class)
                      /\ \A op \in On[r.as] :
                           op.cast # "" /\ <<r.as, op.fn>> \notin Mistyped =>
                             op.cast \in Bases(heap[r.id].class)
    BY DEF ClassSound
  <2>1. r.as \in Bases(heap[r.id].class) /\ heap[r.id].class \in Types
    BY DEF ObjectsInv, Sound, RefInv, RefSound, HeapInv, HeapType, ObjectType
  <2> QED
    BY <2>1, TablesAssumption DEF ClassesSound
<1> QED
  BY <1>1, ObjectsInvHolds, PTL

(* Without the headers' exception for one getter's strings, every object is freed
   by exactly one party: nothing leaks and nothing is freed twice (OneOwner).   *)
THEOREM OneOwnerAlways ==
  ASSUME ~ByTheHeader
  PROVE  Spec => []OneOwner
<1>1. ObjectsInv => OneOwner
  <2> SUFFICES ASSUME ObjectsInv
               PROVE  OneOwner
    OBVIOUS
  <2>1. HeapInv(focus, heap) /\ RefInv(heap, refs) /\ AllOwned(heap, refs)
    BY DEF ObjectsInv, Sound
  <2> DEFINE Owners(x) == {r \in refs : r.id = x /\ r.owned}
  <2>2. \A r \in refs : r.owned => r.id \in DOMAIN heap /\ heap[r.id].in = Alone
    BY <2>1 DEF RefInv, RefSound
  <2>3. ASSUME NEW x \in DOMAIN heap, heap[x].in = Alone
        PROVE  Cardinality(Owners(x)) = 1
    <3>1. PICK r \in refs : r.id = x /\ r.owned
      BY <2>1, <2>3 DEF AllOwned
    <3>2. Owners(x) = {r}
      BY <2>1, <3>1 DEF RefInv
    <3> QED
      BY <3>2, FS_Singleton
  <2>4. ASSUME NEW x \in DOMAIN heap, heap[x].in # Alone
        PROVE  Cardinality(Owners(x)) = 0
    <3>1. Owners(x) = {}
      BY <2>2, <2>4
    <3> QED
      BY <3>1, FS_EmptySet
  <2>5. ASSUME NEW x \in DOMAIN heap, heap[x].in # Alone, heap[x].in # Library
        PROVE  /\ {heap[x].in, heap[x].whole} \subseteq DOMAIN heap
               /\ heap[heap[x].in].full /\ heap[heap[x].whole].in \in {Alone, Library}
    BY <2>1, <2>5 DEF HeapInv, Inside, Outer
  <2> HIDE DEF Owners
  <2>6. Alone # Library
    BY LibraryPath
  <2>7. ASSUME NEW x \in DOMAIN heap
        PROVE  CASE heap[x].in = Alone -> Cardinality(Owners(x)) = 1
                 [] heap[x].in = Library -> Cardinality(Owners(x)) = 0
                 [] OTHER -> /\ {heap[x].in, heap[x].whole} \subseteq DOMAIN heap
                             /\ heap[heap[x].in].full /\ heap[heap[x].whole].in \in {Alone, Library}
                             /\ Cardinality(Owners(x)) = 0
    BY <2>3, <2>4, <2>5, <2>6
  <2> QED
    BY <2>2, <2>7 DEF OneOwner, Owners
<1> QED
  BY <1>1, ObjectsInvHolds, PTL

-----------------------------------------------------------------------------
(***************************************************************************)
(* The .NET binding. The inductive invariant: the heap is sound in the     *)
(* same way, a wrapper that may be used is that of an object with its      *)
(* contents, one whose release calls the library is that of an object in   *)
(* no other, and every ballot has such a wrapper.                          *)
(***************************************************************************)
WrapperType == [id : Path, as : DOMAIN DotNetClasses, spent : BOOLEAN]

WrapperSound(h, w) ==
  /\ w \in WrapperType
  /\ ~w.spent => w.id \in DOMAIN h /\ h[w.id].full /\ w.as \in Bases(h[w.id].class)
  /\ w.as \in FreedNatively => ~w.spent /\ h[w.id].in = Alone

BallotsWrapped(h, ws) ==
  \A x \in DOMAIN h : h[x].in = Alone /\ h[x].class \in Ballots =>
    \E w \in ws : w.id = x /\ w.as \in FreedNatively

WrappersInv(h, ws) == (\A w \in ws : WrapperSound(h, w)) /\ BallotsWrapped(h, ws)

BindingInv ==
  /\ subject \in Classes /\ fault = ""
  /\ HeapInv(subject, objects) /\ WrappersInv(objects, wrappers)

-----------------------------------------------------------------------------
(***************************************************************************)
(* The wrappers of arguments.                                              *)
(***************************************************************************)
\* The release of an argument that is relied on does nothing to the heap.
LEMMA ReliedOnStays ==
  ASSUME BindingInv, NEW w \in wrappers, NEW r \in ReliedOn(subject), r \notin Reserved, w.id = <<r>>
  PROVE  w.as \notin FreedNatively
<1> SUFFICES ASSUME w.as \in FreedNatively
             PROVE  FALSE
  OBVIOUS
<1>1. /\ w.id \in DOMAIN objects /\ w.id \in Path /\ w.as \in Bases(objects[w.id].class)
      /\ subject \in Classes /\ HeapInv(subject, objects)
  BY DEF BindingInv, WrappersInv, WrapperSound, WrapperType
<1>2. r \in Names /\ <<r>> \in Named /\ <<r>>[1] = r
  <2>1. <<r>> \in Path
    BY <1>1
  <2>2. r \in Names
    BY <2>1 DEF Path
  <2> QED
    BY <2>2, NamePath
<1>3. <<r>> \notin Results
  BY <1>2, NotReserved
<1>4. (\E a \in ArgumentsOf[subject] : a.role = r) /\ objects[w.id].class = ArgumentClass(subject, r)
  BY <1>1, <1>2, <1>3 DEF HeapInv, Roots
<1>5. PICK d \in ArgumentsOf[subject] : d.role = r /\ d.class = objects[w.id].class
  BY <1>4 DEF ArgumentClass
<1>6. Bases(d.class) \cap FreedNatively = {}
  BY <1>1, <1>5, BindingAssumption DEF ArgumentsBound
<1> QED
  BY <1>1, <1>5, <1>6

\* So the arguments that are disposed of before the call are there when it is made.
LEMMA HeapStaysAtCall ==
  ASSUME BindingInv, NEW c \in DOMAIN DotNetClasses, NEW op
  PROVE  /\ HeapAtCall(c, op) = objects
         /\ \A w \in DisposedBy(c, op) : w.as \notin FreedNatively
<1>1. ASSUME NEW w \in DisposedBy(c, op)
      PROVE  w.as \notin FreedNatively
  <2>1. PICK t \in op.takes : w.id = <<t.role>> /\ w \in wrappers /\ w.id[1] \in Disposed[c]
    BY DEF DisposedBy, Given
  <2>2. t.role \in Disposed[c]
    BY <2>1
  <2>3. t.role \in ReliedOn(subject) /\ t.role \notin Reserved
    BY <2>2, BindingAssumption DEF ReliedOn
  <2> QED
    BY <2>1, <2>3, ReliedOnStays
<1>2. {v \in DisposedBy(c, op) : FreesNatively(v)} = {}
  BY <1>1 DEF FreesNatively
<1>3. HeapAtCall(c, op) = [x \in DOMAIN objects |-> objects[x]]
  BY <1>2 DEF HeapAtCall, Removed
<1>4. objects = [x \in DOMAIN objects |-> objects[x]]
  BY DEF BindingInv, HeapInv, HeapType
<1> QED
  BY <1>1, <1>3, <1>4

\* What a careful program passes is there, with its contents, and is its own if it is taken over.
LEMMA AtHandGiven ==
  ASSUME Careful, BindingInv, NEW op, AtHand(op), NEW t \in op.takes
  PROVE  /\ <<t.role>> \in DOMAIN objects /\ objects[<<t.role>>].full
         /\ t.how \in {"read", "copied", "kept"} \/ objects[<<t.role>>].in = Alone
<1>1. PICK w \in wrappers : /\ w.id = <<t.role>> /\ ~w.spent
                            /\ (t.how \in {"read", "copied", "kept"} \/ objects[w.id].in = Alone)
  BY DEF AtHand
<1> QED
  BY <1>1 DEF BindingInv, WrappersInv, WrapperSound

LEMMA WrappersGiven ==
  ASSUME Careful, BindingInv, NEW op \in Calls(subject), AtHand(op)
  PROVE  GivenArgs(subject, objects, op)
<1>1. subject \in Focuses /\ HeapInv(subject, objects)
  BY DEF BindingInv, Classes
<1> QED
  BY <1>1, AtHandGiven, ArgsGiven

\* A careful program makes no call with undefined behaviour.
LEMMA CallsDefined ==
  ASSUME Careful, BindingInv, NEW c \in DOMAIN DotNetClasses, NEW op \in Offered(c), AtHand(op),
         NEW self \in SUBSET wrappers, \A w \in self : ~w.spent
  PROVE  FaultOf(c, op, Given(op) \cup self) = ""
<1>1. HeapAtCall(c, op) = objects
  BY HeapStaysAtCall
<1>2. op \in SoundOn[c]
  BY BindingAssumption DEF CallsBound
<1>3. ASSUME NEW w \in Given(op) \cup self
      PROVE  Alive(objects, w.id)
  <2>1. w.id \in DOMAIN objects /\ objects[w.id].full
    <3>1. CASE w \in self
      BY <3>1 DEF BindingInv, WrappersInv, WrapperSound
    <3>2. CASE w \in Given(op)
      BY <3>2, AtHandGiven DEF Given
    <3> QED
      BY <3>1, <3>2
  <2>2. \A k \in objects[w.id].kept : k \in DOMAIN objects /\ objects[k].full
    BY <2>1 DEF BindingInv, HeapInv, KeptAlive
  <2> QED
    BY <2>1, <2>2 DEF Alive
<1>4. ASSUME NEW x \in Took(op, {"adopted", "consumed"})
      PROVE  objects[x].in = Alone
  <2>1. PICK t \in op.takes : x = <<t.role>> /\ t.how \in {"adopted", "consumed"}
    BY DEF Took, Roles
  <2> QED
    BY <2>1, AtHandGiven
<1> QED
  BY <1>1, <1>2, <1>3, <1>4 DEF FaultOf

-----------------------------------------------------------------------------
(***************************************************************************)
(* The wrappers after a call.                                              *)
(***************************************************************************)
\* Nothing has become of an object that was not taken, and that did not go with one that is lost.
Settled(g, h, taken, lost) ==
  /\ \A y \in DOMAIN h : h[y].whole \notin lost /\ y \notin taken =>
       y \in DOMAIN g /\ g[y].full = h[y].full /\ (h[y].in = Alone => g[y].in = Alone)
  /\ \A y \in DOMAIN g \cap DOMAIN h :
       g[y].class = h[y].class /\ (g[y].in = Alone => h[y].in = Alone)

LEMMA LeftSound ==
  ASSUME BindingInv, NEW c \in DOMAIN DotNetClasses, NEW op \in Calls(subject), GivenArgs(subject, objects, op),
         NEW g, NEW lost \in SUBSET Took(op, {"moved", "adopted", "consumed"}),
         Settled(g, objects, Took(op, {"moved", "adopted", "consumed"}), lost)
  PROVE  /\ \A q \in Left(c, op, lost) : WrapperSound(g, q)
         /\ \A x \in DOMAIN g \cap DOMAIN objects : g[x].in = Alone /\ g[x].class \in Ballots =>
              \E q \in Left(c, op, lost) : q.id = x /\ q.as \in FreedNatively
<1> DEFINE taken == Took(op, {"moved", "adopted", "consumed"})
           Gone(w) == w.id \in taken \/ (w.id \in DOMAIN objects /\ objects[w.id].whole \in lost)
           Then(w) == [w EXCEPT !.spent = @ \/ Gone(w)]
<1>1. Left(c, op, lost) = {Then(w) : w \in wrappers \ DisposedBy(c, op)}
  BY DEF Left
<1>2. ASSUME NEW w \in wrappers
      PROVE  /\ Then(w) \in WrapperType /\ Then(w).id = w.id /\ Then(w).as = w.as
             /\ Then(w).spent <=> w.spent \/ Gone(w)
  <2>1. w \in WrapperType
    BY DEF BindingInv, WrappersInv, WrapperSound
  <2>2. Gone(w) \in BOOLEAN
    OBVIOUS
  <2> HIDE DEF Gone
  <2> QED
    BY <2>1, <2>2 DEF WrapperType
<1>3. ASSUME NEW w \in wrappers, w.as \in FreedNatively
      PROVE  /\ ~w.spent /\ ~Gone(w) /\ w \notin DisposedBy(c, op)
             /\ w.id \in DOMAIN objects /\ objects[w.id].in = Alone
  <2>1. ~w.spent /\ w.id \in DOMAIN objects /\ objects[w.id].in = Alone
    BY <1>3 DEF BindingInv, WrappersInv, WrapperSound
  <2>2. w.id \notin taken
    <3> SUFFICES ASSUME w.id \in taken
                 PROVE  FALSE
      OBVIOUS
    <3>1. PICK r \in Roles(op, {"moved", "adopted", "consumed"}) : w.id = <<r>>
      BY DEF Took
    <3>2. r \in ReliedOn(subject) /\ r \notin Reserved
      BY DEF ReliedOn, GivenArgs, TakenRoles
    <3> QED
      BY <1>3, <3>1, <3>2, ReliedOnStays
  <2>3. objects[w.id].whole = w.id
    BY <2>1 DEF BindingInv, HeapInv, Roots
  <2>4. w \notin DisposedBy(c, op)
    BY <1>3, HeapStaysAtCall
  <2> QED
    BY <2>1, <2>2, <2>3, <2>4
<1> HIDE DEF taken, Then
<1>4. ASSUME NEW q \in Left(c, op, lost)
      PROVE  WrapperSound(g, q)
  <2>1. PICK w \in wrappers : q = Then(w)
    BY <1>1
  <2>2. /\ q \in WrapperType /\ q.id = w.id /\ q.as = w.as
        /\ q.spent <=> w.spent \/ Gone(w)
    BY <1>2, <2>1
  <2>3. ASSUME ~w.spent, ~Gone(w)
        PROVE  /\ q.id \in DOMAIN g /\ g[q.id].full /\ q.as \in Bases(g[q.id].class)
               /\ objects[w.id].in = Alone => g[q.id].in = Alone
    <3>1. w.id \in DOMAIN objects /\ objects[w.id].full /\ w.as \in Bases(objects[w.id].class)
      BY <2>3 DEF BindingInv, WrappersInv, WrapperSound
    <3>2. objects[w.id].whole \notin lost /\ w.id \notin taken
      BY <2>3, <3>1
    <3> QED
      BY <2>2, <3>1, <3>2 DEF Settled, taken
  <2>4. w.as \in FreedNatively => ~w.spent /\ ~Gone(w) /\ objects[w.id].in = Alone
    BY <1>3
  <2> HIDE DEF Gone
  <2> QED
    BY <2>2, <2>3, <2>4 DEF WrapperSound
<1>5. ASSUME NEW x \in DOMAIN g \cap DOMAIN objects, g[x].in = Alone, g[x].class \in Ballots
      PROVE  \E q \in Left(c, op, lost) : q.id = x /\ q.as \in FreedNatively
  <2>1. objects[x].in = Alone /\ objects[x].class \in Ballots
    BY <1>5 DEF Settled
  <2>2. PICK w \in wrappers : w.id = x /\ w.as \in FreedNatively
    BY <2>1 DEF BindingInv, WrappersInv, BallotsWrapped
  <2>3. Then(w) \in Left(c, op, lost)
    BY <1>1, <1>3, <2>2
  <2> QED
    BY <1>2, <2>2, <2>3
<1> QED
  BY <1>4, <1>5

\* One more wrapper.
LEMMA NewWrapper ==
  ASSUME NEW h, NEW x \in DOMAIN h, x \in Path, h[x].full, NEW as \in DOMAIN DotNetClasses,
         as \in Bases(h[x].class), as \in FreedNatively => h[x].in = Alone
  PROVE  WrapperSound(h, Wrapper(x, as)) /\ Wrapper(x, as).id = x /\ Wrapper(x, as).as = as
BY DEF Wrapper, WrapperSound, WrapperType

\* A new part or constant changes nothing for the wrappers there are.
LEMMA GrownWrappers ==
  ASSUME NEW h, NEW g, NEW x, NEW m, NEW c, NEW whole, NEW ws, WrappersInv(h, ws),
         GrownAs(g, h, x, m, c, whole), Under(x, m) \notin DOMAIN h, x # Alone
  PROVE  WrappersInv(g, ws)
<1>1. DOMAIN g = DOMAIN h \cup {Under(x, m)} /\ g[Under(x, m)].in = x
  BY DEF GrownAs
<1>2. \A y \in DOMAIN h : g[y].class = h[y].class /\ g[y].in = h[y].in /\ g[y].full = h[y].full
  BY DEF GrownAs
<1>3. \A w \in ws : WrapperSound(g, w)
  BY <1>1, <1>2 DEF WrappersInv, WrapperSound
<1>4. BallotsWrapped(g, ws)
  BY <1>1, <1>2 DEF WrappersInv, BallotsWrapped
<1> QED
  BY <1>3, <1>4 DEF WrappersInv

-----------------------------------------------------------------------------
(***************************************************************************)
(* The actions of the .NET program.                                        *)
(***************************************************************************)
\* A constructor, or a member that gives a new object.
LEMMA WrapResultStep ==
  ASSUME Careful, BindingInv, NEW c \in DOMAIN DotNetClasses, NEW op \in Wrapping(c) \cap Calls(subject),
         op.kind # "static", AtHand(op), MakesSound(subject, c, op), UnusedNames # {}, WrapResult(c, op),
         UNCHANGED <<subject, fault>>
  PROVE  BindingInv'
<1>1. subject \in Focuses /\ HeapInv(subject, objects) /\ GivenArgs(subject, objects, op)
  BY WrappersGiven DEF BindingInv, Classes
<1> DEFINE as == DeclaredAs(c, op.fn)
           consumed == Took(op, {"consumed"})
           taken == Took(op, {"moved", "adopted", "consumed"})
<1>2. PICK n \in UnusedNames :
        /\ objects' = AfterMake(objects, n, op)
        /\ wrappers' = Left(c, op, consumed) \cup {Wrapper(n, as)}
  <2>1. HeapAtCall(c, op) = objects
    BY HeapStaysAtCall
  <2>2. (CHOOSE x \in UnusedNames : TRUE) \in UnusedNames
    OBVIOUS
  <2> QED
    BY <2>1, <2>2 DEF WrapResult
<1>3. n \in Results /\ n \in Path /\ \A x \in DOMAIN objects : x[1] # n[1]
  BY ResultPath DEF UnusedNames
<1>4. HeapInv(subject, objects') /\ MadeAs(objects', objects, n, op)
  BY <1>1, <1>2, <1>3, MakeSound
<1>5. Wrapping(c) \subseteq Offered(c) /\ as \in DOMAIN DotNetClasses /\ as \in Bases(op.class)
  BY BindingAssumption DEF Wrapping, WrapsBound
<1> HIDE DEF as
<1>6. /\ consumed \subseteq taken
      /\ \A x \in taken : x \in Took(op, {"moved"}) \/ x \in Took(op, {"adopted"}) \/ x \in consumed
      /\ Took(op, {"moved"}) \subseteq taken /\ Took(op, {"adopted"}) \subseteq taken
  BY DEF Took, Roles
<1>7. Settled(objects', objects, taken, consumed)
  <2>1. ASSUME NEW y \in DOMAIN objects, objects[y].whole \notin consumed, y \notin taken
        PROVE  /\ y \in DOMAIN objects' /\ objects'[y].full = objects[y].full
               /\ objects[y].in = Alone => objects'[y].in = Alone
    <3>1. y \in DOMAIN objects' \ {n}
      BY <1>4, <2>1 DEF MadeAs
    <3> QED
      BY <1>4, <1>6, <2>1, <3>1 DEF MadeAs
  <2>2. ASSUME NEW y \in DOMAIN objects' \cap DOMAIN objects
        PROVE  objects'[y].class = objects[y].class /\ (objects'[y].in = Alone => objects[y].in = Alone)
    <3>1. y \in DOMAIN objects' \ {n}
      BY <1>4 DEF MadeAs
    <3> QED
      BY <1>4, <3>1 DEF MadeAs
  <2> QED
    BY <2>1, <2>2 DEF Settled
<1>8. /\ \A q \in Left(c, op, consumed) : WrapperSound(objects', q)
      /\ \A x \in DOMAIN objects' \cap DOMAIN objects :
           objects'[x].in = Alone /\ objects'[x].class \in Ballots =>
             \E q \in Left(c, op, consumed) : q.id = x /\ q.as \in FreedNatively
  BY <1>1, <1>6, <1>7, LeftSound
<1>9. /\ n \in DOMAIN objects' /\ objects'[n].full /\ objects'[n].in = Alone
      /\ objects'[n].class = op.class
  BY <1>4 DEF MadeAs
<1>10. /\ WrapperSound(objects', Wrapper(n, as)) /\ Wrapper(n, as).id = n /\ Wrapper(n, as).as = as
  <2>1. as \in Bases(objects'[n].class) /\ objects'[n].in = Alone
    BY <1>5, <1>9
  <2>2. WrapperSound(objects', Wrapper(n, as))
    BY <1>3, <1>5, <1>9, <2>1, NewWrapper
  <2>3. Wrapper(n, as).id = n /\ Wrapper(n, as).as = as
    BY DEF Wrapper
  <2> QED
    BY <2>2, <2>3
<1>11. ASSUME NEW x \in DOMAIN objects', objects'[x].in = Alone, objects'[x].class \in Ballots
       PROVE  \E q \in wrappers' : q.id = x /\ q.as \in FreedNatively
  <2>1. CASE x = n
    <3>1. as \in FreedNatively
      BY <1>5, <1>9, <1>11, <2>1, BindingAssumption
    <3> QED
      BY <1>2, <1>10, <2>1, <3>1
  <2>2. CASE x # n
    <3>1. x \in DOMAIN objects
      BY <1>4, <1>11, <2>2 DEF MadeAs
    <3> QED
      BY <1>2, <1>8, <1>11, <3>1
  <2> QED
    BY <2>1, <2>2
<1>12. WrappersInv(objects', wrappers')
  BY <1>2, <1>8, <1>10, <1>11 DEF WrappersInv, BallotsWrapped
<1> QED
  BY <1>4, <1>12 DEF BindingInv

\* A call that throws after it has taken some of its arguments.
LEMMA FailMidwayStep ==
  ASSUME Careful, BindingInv, NEW c \in DOMAIN DotNetClasses, NEW op \in Calls(subject),
         AtHand(op), FailMidway(c, op), UNCHANGED <<subject, fault>>
  PROVE  BindingInv'
<1> DEFINE taken == Took(op, {"moved", "adopted", "consumed"})
<1>1. subject \in Focuses /\ HeapInv(subject, objects) /\ GivenArgs(subject, objects, op)
  BY WrappersGiven DEF BindingInv, Classes
<1>2. PICK moved \in SUBSET Roles(op, {"moved"}) : objects' = AfterThrow(objects, op, moved)
  BY HeapStaysAtCall DEF FailMidway
<1>3. wrappers' = Left(c, op, taken)
  BY DEF FailMidway
<1>4. HeapInv(subject, objects') /\ ThrownAs(objects', objects, op, moved)
  BY <1>1, <1>2, ThrowSound
<1>5. Shells(moved) \subseteq taken /\ Took(op, {"adopted", "consumed"}) \subseteq taken
  BY DEF Shells, Took, Roles
<1> HIDE DEF taken
<1>6. Settled(objects', objects, taken, taken) /\ DOMAIN objects' \subseteq DOMAIN objects
  BY <1>4, <1>5 DEF ThrownAs, Settled
<1>7. /\ \A q \in Left(c, op, taken) : WrapperSound(objects', q)
      /\ \A x \in DOMAIN objects' \cap DOMAIN objects :
           objects'[x].in = Alone /\ objects'[x].class \in Ballots =>
             \E q \in Left(c, op, taken) : q.id = x /\ q.as \in FreedNatively
  BY <1>1, <1>6, LeftSound DEF taken
<1>8. WrappersInv(objects', wrappers')
  BY <1>3, <1>6, <1>7 DEF WrappersInv, BallotsWrapped
<1> QED
  BY <1>4, <1>8 DEF BindingInv

\* A member that gives a part.
LEMMA WrapPartStep ==
  ASSUME BindingInv, NEW w \in wrappers, ~w.spent, NEW op \in Wrapping(w.as), op.self, op.kind = "part",
         WrapPart(w.as, op, w), UNCHANGED <<subject, fault>>
  PROVE  BindingInv'
<1> DEFINE as == DeclaredAs(w.as, op.fn)
<1>1. /\ subject \in Focuses /\ HeapInv(subject, objects) /\ WrappersInv(objects, wrappers)
      /\ w.as \in DOMAIN DotNetClasses /\ w.id \in DOMAIN objects /\ objects[w.id].full
      /\ w.as \in Bases(objects[w.id].class) /\ w.id \in Path
  BY DEF BindingInv, WrappersInv, WrapperSound, WrapperType, Classes
<1>2. objects[w.id].class \in Types /\ w.id # <<>> /\ w.id \notin Outer
  BY <1>1, LibraryPath DEF HeapInv, HeapType, ObjectType, Roots, Outer
<1>3. op \in On[w.as] /\ w.as \in Types
  BY <1>1, BindingAssumption DEF Wrapping, CallsBound, Types
<1>4. as \in DOMAIN DotNetClasses /\ as \in Bases(op.class) /\ as \notin FreedNatively
  BY <1>1, BindingAssumption DEF WrapsBound
<1> HIDE DEF as
<1>5. HandsOutSound(w.as, op)
  BY <1>3, TablesAssumption
<1>6. CASE \E x \in Member(objects, w.id, op.role) :
             wrappers' = wrappers \cup {Wrapper(x, as)} /\ UNCHANGED objects
  <2>1. PICK x \in Member(objects, w.id, op.role) :
             wrappers' = wrappers \cup {Wrapper(x, as)} /\ UNCHANGED objects
    BY <1>6
  <2>2. x \in DOMAIN objects /\ objects[x].in = w.id /\ x[Len(x)] = op.role
    BY DEF Member
  <2>3. objects[x].full /\ x \in Path
    BY <1>1, <1>2, <2>2 DEF HeapInv, Inside, HeapType
  <2>4. Fits(objects[w.id].class, op.role, objects[x].class)
    BY <1>1, <2>2 DEF HeapInv, Fitting
  <2>5. op.class \in Bases(objects[x].class)
    BY <1>1, <1>3, <2>4 DEF Fits
  <2>6. as \in Bases(objects[x].class)
    BY <1>4, <2>5, BasesTransitive
  <2>7. WrapperSound(objects, Wrapper(x, as))
    BY <1>4, <2>2, <2>3, <2>6, NewWrapper
  <2> QED
    BY <1>1, <2>1, <2>7 DEF BindingInv, WrappersInv, BallotsWrapped
<1>7. CASE /\ op.role \in objects[w.id].open
           /\ objects' = AfterHandOut(objects, w.id, op)
           /\ wrappers' = wrappers \cup {Wrapper(Append(w.id, op.role), as)}
  <2> DEFINE x == Under(w.id, op.role)
  <2>1. x \notin DOMAIN objects
    BY <1>1, <1>7 DEF HeapInv, OpenFree
  <2>2. GrownAs(objects', objects, w.id, op.role, op.class, objects[w.id].whole)
    BY <1>1, <1>5, <1>7, <2>1, AfterHandOutGrows DEF HandsOutSound
  <2>3. Growable(subject, objects, w.id, op.role, op.class, objects[w.id].whole)
    BY <1>1, <1>2, <1>5, <2>1 DEF HandsOutSound, Growable
  <2>4. HeapInv(subject, objects')
    BY <1>1, <1>5, <2>2, <2>3, GrowSound DEF HandsOutSound
  <2>5. WrappersInv(objects', wrappers)
    BY <1>1, <1>2, <2>1, <2>2, GrownWrappers DEF Outer
  <2>6. x \in DOMAIN objects' /\ objects'[x].full /\ objects'[x].class = op.class /\ x \in Path
    BY <2>2, <2>4 DEF GrownAs, HeapInv, HeapType
  <2>7. wrappers' = wrappers \cup {Wrapper(x, as)}
    BY <1>7 DEF Under
  <2> HIDE DEF x
  <2>8. WrapperSound(objects', Wrapper(x, as))
    BY <1>4, <2>6, NewWrapper
  <2> QED
    BY <1>1, <2>4, <2>5, <2>7, <2>8 DEF BindingInv, WrappersInv, BallotsWrapped
<1> QED
  BY <1>6, <1>7 DEF WrapPart, as

\* A member that gives a constant.
LEMMA WrapConstantStep ==
  ASSUME BindingInv, NEW op \in Wrapping(subject), ~op.self, op.kind = "static", WrapConstant(subject, op),
         UNCHANGED <<subject, fault>>
  PROVE  BindingInv'
<1> DEFINE x == ConstantAt(op)
           as == DeclaredAs(subject, op.fn)
<1>1. /\ subject \in Focuses /\ subject \in DOMAIN DotNetClasses
      /\ HeapInv(subject, objects) /\ WrappersInv(objects, wrappers)
  BY DEF BindingInv, Classes
<1>2. op \in Tables[subject]
  BY <1>1, BindingAssumption DEF Wrapping, CallsBound
<1>3. x \in Path /\ x = Under(Library, op.role) /\ op.role \in Names /\ Library \in Path /\ Library # Alone
  BY <1>1, <1>2, ConstantPath, LibraryPath
<1>4. op.class \in Types /\ op.as \in Bases(op.class)
  BY <1>1, <1>2, TablesAssumption DEF ConstantsSound
<1>5. as \in DOMAIN DotNetClasses /\ as \in Bases(op.as) /\ as \notin FreedNatively
  BY <1>1, BindingAssumption DEF WrapsBound
<1>6. objects' = AfterConstant(objects, op) /\ wrappers' = wrappers \cup {Wrapper(x, as)}
  BY DEF WrapConstant
<1> HIDE DEF as
<1>7. /\ HeapInv(subject, objects') /\ WrappersInv(objects', wrappers)
      /\ x \in DOMAIN objects' /\ objects'[x].full /\ op.as \in Bases(objects'[x].class)
  <2>1. CASE x \in DOMAIN objects
    <3>1. DOMAIN objects \cup {x} = DOMAIN objects
      BY <2>1
    <3>2. objects = [y \in DOMAIN objects |-> objects[y]]
      BY <1>1 DEF HeapInv, HeapType
    <3>3. objects' = objects
      BY <1>6, <3>1, <3>2 DEF AfterConstant, Placed
    <3>4. objects[x].in = Library /\ op.as \in Bases(objects[x].class)
      BY <1>1, <1>2, <2>1 DEF HeapInv, ConstantsFit
    <3>5. objects[x].full
      BY <1>1, <2>1, <3>4 DEF HeapInv, Roots
    <3> QED
      BY <1>1, <2>1, <3>3, <3>4, <3>5
  <2>2. CASE x \notin DOMAIN objects
    <3>1. /\ GrownAs(objects', objects, Library, op.role, op.class, x)
          /\ Growable(subject, objects, Library, op.role, op.class, x)
      BY <1>1, <1>2, <1>6, <2>2, AfterConstantGrows
    <3>2. HeapInv(subject, objects')
      BY <1>1, <1>3, <1>4, <3>1, GrowSound
    <3>3. WrappersInv(objects', wrappers)
      BY <1>1, <1>3, <2>2, <3>1, GrownWrappers
    <3>4. x \in DOMAIN objects' /\ objects'[x].full /\ objects'[x].class = op.class
      BY <1>3, <3>1 DEF GrownAs
    <3> QED
      BY <1>4, <3>2, <3>3, <3>4
  <2> QED
    BY <2>1, <2>2
<1> HIDE DEF x
<1>8. as \in Bases(objects'[x].class)
  BY <1>5, <1>7, BasesTransitive
<1>9. WrapperSound(objects', Wrapper(x, as))
  BY <1>3, <1>5, <1>7, <1>8, NewWrapper
<1>10. WrappersInv(objects', wrappers')
  BY <1>6, <1>7, <1>9 DEF WrappersInv, BallotsWrapped
<1> QED
  BY <1>7, <1>10 DEF BindingInv

\* What a mediator refers to has the name of an argument.
LEMMA KeepableNamed ==
  ASSUME NEW f \in Focuses, NEW r \in Keepable(f)
  PROVE  r \notin Reserved
<1>1. PICK op \in Calls(f) : r \in Roles(op, {"kept"})
  BY DEF Keepable
<1>2. PICK t \in op.takes : t.role = r
  BY <1>1 DEF Roles
<1> QED
  BY <1>2, TablesAssumption DEF TakesSound

-----------------------------------------------------------------------------
\* A wrapper is disposed of or finalized: what the library frees is whole, and nothing in use goes with it.
LEMMA ReleaseStep ==
  ASSUME Careful, BindingInv, NEW w \in wrappers, Release(w)
  PROVE  BindingInv'
<1>1. subject' = subject /\ wrappers' = wrappers \ {w} /\ ~Keeps(w)
  BY DEF Release
<1>2. /\ subject \in Classes /\ subject \in Focuses /\ fault = ""
      /\ HeapInv(subject, objects) /\ WrappersInv(objects, wrappers)
  BY DEF BindingInv, Classes
<1>3. CASE ~FreesNatively(w)
  <2>1. objects' = objects /\ fault' = fault
    BY <1>3 DEF Release
  <2>2. w.as \notin FreedNatively
    BY <1>3 DEF FreesNatively
  <2>3. WrappersInv(objects, wrappers \ {w})
    BY <1>2, <2>2 DEF WrappersInv, BallotsWrapped
  <2> QED
    BY <1>1, <1>2, <2>1, <2>3 DEF BindingInv
<1>4. CASE FreesNatively(w)
  <2>1. /\ w.as \in FreedNatively /\ ~w.spent /\ w.id \in DOMAIN objects
        /\ objects[w.id].in = Alone /\ objects[w.id].whole = w.id
    <3>1. w.as \in FreedNatively
      BY <1>4 DEF FreesNatively
    <3>2. ~w.spent /\ w.id \in DOMAIN objects /\ objects[w.id].in = Alone
      BY <1>2, <3>1 DEF WrappersInv, WrapperSound
    <3> QED
      BY <1>2, <3>1, <3>2 DEF HeapInv, Roots
  <2> DEFINE g == Without(objects, {w.id})
  <2>2. objects' = g /\ fault' = fault
    BY <1>4, <2>1, DeletedIsWithout DEF Release
  <2>3. DOMAIN g = {x \in DOMAIN objects : objects[x].whole # w.id} /\ \A x \in DOMAIN g : g[x] = objects[x]
    BY DEF Without
  <2>4. HeapInv(subject, g)
    <3>1. ASSUME NEW x \in DOMAIN objects, NEW k \in objects[x].kept, objects[k].whole = w.id
          PROVE  FALSE
      <4>1. k \in DOMAIN objects /\ objects[k].in = Alone /\ k[1] \in Keepable(subject)
        BY <1>2 DEF HeapInv, KeptAlive
      <4>2. k \in Named /\ objects[k].whole = k
        BY <1>2, <4>1 DEF HeapInv, Roots
      <4>3. k = w.id /\ k = <<k[1]>> /\ k[1] \in ReliedOn(subject)
        BY <3>1, <4>1, <4>2 DEF Named, ReliedOn
      <4>4. k[1] \notin Reserved
        BY <1>2, <4>1, KeepableNamed
      <4> QED
        BY <2>1, <4>3, <4>4, ReliedOnStays
    <3> QED
      BY <1>2, <3>1, WithoutSound
  <2> HIDE DEF g
  <2>5. ASSUME NEW v \in wrappers \ {w}
        PROVE  WrapperSound(g, v)
    <3>1. WrapperSound(objects, v)
      BY <1>2 DEF WrappersInv
    <3>2. CASE v.spent
      BY <3>1, <3>2 DEF WrapperSound
    <3>3. CASE ~v.spent
      <4>1. v.id \in DOMAIN objects /\ objects[v.id].whole # w.id
        BY <1>1, <3>1, <3>3 DEF WrapperSound, Keeps
      <4> QED
        BY <2>3, <3>1, <4>1 DEF WrapperSound
    <3> QED
      BY <3>2, <3>3
  <2>6. BallotsWrapped(g, wrappers \ {w})
    <3> SUFFICES ASSUME NEW x \in DOMAIN g, g[x].in = Alone, g[x].class \in Ballots
                 PROVE  \E v \in wrappers \ {w} : v.id = x /\ v.as \in FreedNatively
      BY DEF BallotsWrapped
    <3>1. x \in DOMAIN objects /\ objects[x] = g[x] /\ x # w.id
      BY <2>1, <2>3
    <3> QED
      BY <1>2, <3>1 DEF WrappersInv, BallotsWrapped
  <2> QED
    BY <1>1, <1>2, <2>2, <2>4, <2>5, <2>6 DEF BindingInv, WrappersInv
<1> QED
  BY <1>3, <1>4

LEMMA BindingInvInit ==
  ASSUME DotNetInit
  PROVE  BindingInv
<1> DEFINE args == ProgramArguments[subject]
<1>1. subject \in Classes /\ subject \in Focuses /\ fault = ""
  BY DEF DotNetInit, Classes
<1>2. objects = ArgumentHeap(args) /\ wrappers = {Wrapper(<<a.role>>, a.class) : a \in args}
  BY DEF DotNetInit
<1>3. args \in SUBSET ArgumentsOf[subject] /\ \A a \in args : a.class \in DOMAIN DotNetClasses
  BY <1>1, BindingAssumption DEF ArgumentsBound
<1>4. ArgumentsBound(subject)
  BY <1>1, BindingAssumption
<1> HIDE DEF args
<1>5. HeapInv(subject, objects)
  BY <1>1, <1>2, <1>3, StartHeap
<1>6. ASSUME NEW a \in args
      PROVE  /\ <<a.role>> \in DOMAIN objects /\ <<a.role>> \in Path
             /\ objects[<<a.role>>].full /\ objects[<<a.role>>].in = Alone
             /\ a.class \in Bases(objects[<<a.role>>].class) /\ a.class \in DOMAIN DotNetClasses
             /\ WrapperSound(objects, Wrapper(<<a.role>>, a.class))
  <2>1. /\ <<a.role>> \in DOMAIN objects /\ <<a.role>> \in Path
        /\ objects[<<a.role>>].full /\ objects[<<a.role>>].in = Alone
        /\ a.class \in Bases(objects[<<a.role>>].class)
    BY <1>1, <1>2, <1>3, StartHeap
  <2>2. a.class \in DOMAIN DotNetClasses
    BY <1>3
  <2> QED
    BY <2>1, <2>2, NewWrapper
<1>7. ASSUME NEW x \in DOMAIN objects, objects[x].class \in Ballots
      PROVE  \E w \in wrappers : w.id = x /\ w.as \in FreedNatively
  <2>1. PICK a \in args : x = <<a.role>>
    <3>1. \A y \in DOMAIN ArgumentHeap(args) : \E a \in args : y = <<a.role>>
      BY DEF ArgumentHeap
    <3> QED
      BY <1>2, <3>1
  <2>2. a.class \in FreedNatively
    BY <1>6, <1>7, <2>1, BindingAssumption
  <2>3. Wrapper(x, a.class) \in wrappers /\ Wrapper(x, a.class).id = x /\ Wrapper(x, a.class).as = a.class
    BY <1>2, <2>1 DEF Wrapper
  <2> QED
    BY <2>2, <2>3
<1>8. WrappersInv(objects, wrappers)
  BY <1>2, <1>6, <1>7 DEF WrappersInv, BallotsWrapped
<1> QED
  BY <1>1, <1>5, <1>8 DEF BindingInv

\* The call that a careful program makes of an entry point: it has no fault, and leaves all as it is unless
\* its result is wrapped.
LEMMA InvokeStep ==
  ASSUME Careful, BindingInv, NEW c \in DOMAIN DotNetClasses, NEW op \in Entries[c],
         NEW self \in SUBSET wrappers, \A w \in self : ~w.spent, Invoke(c, op, self)
  PROVE  /\ op \in Offered(c) /\ AtHand(op) /\ UNCHANGED <<subject, fault>>
         /\ \/ UNCHANGED <<objects, wrappers>>
            \/ /\ op \in Wrapping(c)
               /\ \/ op.kind \in {"new", "made"} /\ UnusedNames # {} /\ WrapResult(c, op)
                  \/ op.kind = "part" /\ \E w \in self : WrapPart(c, op, w)
                  \/ op.kind = "static" /\ WrapConstant(c, op)
<1>1. op \in Offered(c) /\ AtHand(op)
  BY DEF Invoke, Offered
<1>2. fault' = "" /\ fault = ""
  BY <1>1, CallsDefined DEF Invoke, BindingInv
<1>3. ASSUME op.fn \in Uses(c, "wraps")
      PROVE  /\ op \in Wrapping(c)
             /\ op.kind \in {"new", "made", "part", "static"}
  <2>1. op \in Wrapping(c)
    BY <1>1, <1>3 DEF Wrapping
  <2> QED
    BY <2>1, BindingAssumption DEF WrapsBound
<1>4. CASE op.fn \notin Uses(c, "wraps")
  BY <1>1, <1>2, <1>4 DEF Invoke
<1>5. CASE op.fn \in Uses(c, "wraps")
  <2>1. CASE op.kind \in {"new", "made"}
    BY <1>1, <1>2, <1>3, <1>5, <2>1 DEF Invoke
  <2>2. CASE op.kind = "part"
    BY <1>1, <1>2, <1>3, <1>5, <2>2 DEF Invoke
  <2>3. CASE op.kind = "static"
    BY <1>1, <1>2, <1>3, <1>5, <2>3 DEF Invoke
  <2> QED
    BY <1>3, <1>5, <2>1, <2>2, <2>3
<1> QED
  BY <1>4, <1>5

LEMMA BindingInvNext ==
  ASSUME Careful, BindingInv, [DotNetNext]_dotNetVars
  PROVE  BindingInv'
<1>1. /\ subject \in Focuses /\ subject \in DOMAIN DotNetClasses
      /\ DOMAIN DotNetClasses \subseteq Types /\ Focuses \subseteq DOMAIN Tables
  BY BindingAssumption, TablesAssumption DEF BindingInv, Classes, Types
<1>2. ASSUME UNCHANGED <<subject, objects, wrappers, fault>>
      PROVE  BindingInv'
  BY <1>2 DEF BindingInv
<1>3. ASSUME NEW op \in Entries[subject], CallStatic(op)
      PROVE  BindingInv'
  <2>1. ~op.self /\ Invoke(subject, op, {})
    BY <1>3 DEF CallStatic
  <2>2. /\ op \in Offered(subject) /\ AtHand(op) /\ UNCHANGED <<subject, fault>>
        /\ \/ UNCHANGED <<objects, wrappers>>
           \/ /\ op \in Wrapping(subject)
              /\ \/ op.kind \in {"new", "made"} /\ UnusedNames # {} /\ WrapResult(subject, op)
                 \/ op.kind = "static" /\ WrapConstant(subject, op)
    BY <1>1, <2>1, InvokeStep
  <2>3. op \in Tables[subject] /\ op \in Calls(subject)
    BY <1>1, <2>1, <2>2, BindingAssumption DEF CallsBound, Calls
  <2>4. CASE UNCHANGED <<objects, wrappers>>
    BY <1>2, <2>2, <2>4
  <2>5. CASE /\ op \in Wrapping(subject) /\ op.kind \in {"new", "made"}
             /\ UnusedNames # {} /\ WrapResult(subject, op)
    <3>1. MakesSound(subject, subject, op)
      BY <1>1, <2>1, <2>3, <2>5, TablesAssumption
    <3> QED
      BY <1>1, <2>2, <2>3, <2>5, <3>1, WrapResultStep
  <2>6. CASE op \in Wrapping(subject) /\ op.kind = "static" /\ WrapConstant(subject, op)
    BY <2>1, <2>2, <2>6, WrapConstantStep
  <2> QED
    BY <2>2, <2>4, <2>5, <2>6
<1>4. ASSUME NEW w \in wrappers, NEW op \in Entries[w.as], CallMember(w, op)
      PROVE  BindingInv'
  <2>1. op.self /\ ~w.spent /\ (subject \in Bases(w.as) \/ op.kind = "part") /\ Invoke(w.as, op, {w})
    BY <1>4 DEF CallMember
  <2>2. w.as \in DOMAIN DotNetClasses /\ w.as \in Types
    BY <1>1 DEF BindingInv, WrappersInv, WrapperSound, WrapperType
  <2>3. /\ op \in Offered(w.as) /\ AtHand(op) /\ UNCHANGED <<subject, fault>>
        /\ \/ UNCHANGED <<objects, wrappers>>
           \/ /\ op \in Wrapping(w.as)
              /\ \/ op.kind \in {"new", "made"} /\ UnusedNames # {} /\ WrapResult(w.as, op)
                 \/ op.kind = "part" /\ WrapPart(w.as, op, w)
                 \/ op.kind = "static" /\ WrapConstant(w.as, op)
    BY <2>1, <2>2, InvokeStep
  <2>4. op \in On[w.as]
    BY <2>1, <2>2, <2>3, BindingAssumption DEF CallsBound
  <2>5. CASE UNCHANGED <<objects, wrappers>>
    BY <1>2, <2>3, <2>5
  <2>6. CASE op \in Wrapping(w.as) /\ ~UNCHANGED <<objects, wrappers>>
    <3>1. WrapsBound(w.as, op)
      BY <2>2, <2>6, BindingAssumption
    <3>2. CASE op.kind = "part"
      BY <2>1, <2>3, <2>6, <3>2, WrapPartStep
    <3>3. CASE op.kind # "part"
      <4>1. op.kind = "made" /\ <<w.as, op.fn>> \notin Mistyped /\ subject \in Bases(w.as)
        BY <2>1, <3>1, <3>3 DEF WrapsBound
      <4>2. op \in Calls(subject)
        BY <2>2, <2>4, <4>1 DEF Calls
      <4>3. MakesSound(subject, w.as, op)
        BY <1>1, <2>2, <2>4, <4>1, TablesAssumption
      <4>4. UnusedNames # {} /\ WrapResult(w.as, op)
        BY <2>3, <2>6, <4>1
      <4> QED
        BY <2>2, <2>3, <2>6, <4>1, <4>2, <4>3, <4>4, WrapResultStep
    <3> QED
      BY <3>2, <3>3
  <2> QED
    BY <2>3, <2>5, <2>6
<1>5. ASSUME NEW op \in Entries[subject], CallFails(op)
      PROVE  BindingInv'
  <2>1. /\ op \in Offered(subject) /\ AtHand(op) /\ FailMidway(subject, op)
        /\ UNCHANGED <<subject, fault>>
    BY <1>5 DEF CallFails, Offered
  <2>2. op \in Calls(subject)
    <3>1. op \in On[subject] \/ op \in Tables[subject]
      BY <1>1, <2>1, BindingAssumption DEF CallsBound
    <3>2. subject \in Bases(subject) /\ subject \in Types
      BY <1>1 DEF Bases
    <3> QED
      BY <3>1, <3>2 DEF Calls
  <2> QED
    BY <1>1, <2>1, <2>2, FailMidwayStep
<1> QED
  BY <1>2, <1>3, <1>4, <1>5, ReleaseStep DEF DotNetNext, dotNetVars

LEMMA BindingInvHolds ==
  ASSUME Careful
  PROVE  DotNetSpec => []BindingInv
<1>1. DotNetInit => BindingInv
  BY BindingInvInit
<1>2. BindingInv /\ [DotNetNext]_dotNetVars => BindingInv'
  BY BindingInvNext
<1> QED
  BY <1>1, <1>2, PTL DEF DotNetSpec

-----------------------------------------------------------------------------
(* Whatever a careful .NET program does, and in whatever order its wrappers are
   disposed of, collected and finalized, the library is never asked to free an
   object twice or one that is inside another, or to work on one that is gone or
   emptied, and a wrapper that may still be used is that of an object of its
   class: for every set of classes the program works with, any number of objects
   and wrappers, and calls that fail midway.                                   *)
THEOREM NoFaultAlways ==
  ASSUME Careful
  PROVE  DotNetSpec => []NoFault
<1>1. BindingInv => NoFault
  <2> SUFFICES ASSUME BindingInv
               PROVE  NoFault
    OBVIOUS
  <2>1. ASSUME NEW w \in wrappers, ~w.spent
        PROVE  Alive(objects, w.id) /\ w.as \in Bases(objects[w.id].class)
    <3>1. w.id \in DOMAIN objects /\ objects[w.id].full /\ w.as \in Bases(objects[w.id].class)
      BY <2>1 DEF BindingInv, WrappersInv, WrapperSound
    <3>2. \A k \in objects[w.id].kept : k \in DOMAIN objects /\ objects[k].full
      BY <3>1 DEF BindingInv, HeapInv, KeptAlive
    <3> QED
      BY <3>1, <3>2 DEF Alive
  <2> QED
    BY <2>1 DEF NoFault, BindingInv
<1> QED
  BY <1>1, BindingInvHolds, PTL

(* A ballot whose wrapper has gone is not on the heap: of the classes that the
   Free of their wrapper releases, nothing is left behind, whatever calls move a
   ballot, fail with it, or hand out its parts.                                 *)
THEOREM BallotsReclaimedAlways ==
  ASSUME Careful
  PROVE  DotNetSpec => []BallotsReclaimed
<1>1. BindingInv => BallotsReclaimed
  BY DEF BindingInv, WrappersInv, BallotsWrapped, BallotsReclaimed
<1> QED
  BY <1>1, BindingInvHolds, PTL

=============================================================================
