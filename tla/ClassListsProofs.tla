--------------------------- MODULE ClassListsProofs ----------------------------
(***************************************************************************)
(* Theorems about ClassLists: what the loops of class_tree_builder.cc put  *)
(* into a class list, for every set of classes and every heritage.         *)
(***************************************************************************)
EXTENDS ClassLists, Induction, FiniteSetTheorems, SequenceTheorems, TLAPS

NonEmptyList(S) == {s \in Seq(S) : s # <<>>}

-----------------------------------------------------------------------------
(* The class list of a class of the program. *)

LEMMA AppendAbsentTyped ==
  ASSUME NEW S, NEW classes \in NonEmptyList(S), NEW base \in S
  PROVE  AppendAbsent(classes, base) \in NonEmptyList(S)
<1>1. Append(classes, base) \in Seq(S) /\ Append(classes, base) # <<>>
  BY DEF NonEmptyList
<1> QED BY <1>1 DEF AppendAbsent, NonEmptyList

(* The loop over the bases of one class: the list after each turn.         *)
AddsBases(S, classes, bases, list) ==
  /\ list[0] = classes
  /\ \A i \in 1 .. Len(bases) : list[i] = AppendAbsent(list[i - 1], bases[i])
  /\ \A i \in 0 .. Len(bases) : list[i] \in NonEmptyList(S)

LEMMA AppendAllAbsentAdds ==
  ASSUME NEW S, NEW classes \in NonEmptyList(S), NEW bases \in Seq(S)
  PROVE  \E list : /\ AddsBases(S, classes, bases, list)
                   /\ AppendAllAbsent(classes, bases) = list[Len(bases)]
<1> DEFINE List(f) == f = [i \in 0 .. Len(bases) |->
                             IF i = 0 THEN classes ELSE AppendAbsent(f[i - 1], bases[i])]
<1>1. PICK n : n = Len(bases)
  OBVIOUS
<1>2. n \in Nat /\ \A i \in 1 .. n : bases[i] \in S
  BY <1>1
<1>3. PICK L : L = NonEmptyList(S)
  OBVIOUS
<1>4. PICK step : step = [i \in 1 .. n |-> [s \in L |-> AppendAbsent(s, bases[i])]]
  OBVIOUS
<1>5. step \in [1 .. n -> [L -> L]]
  BY <1>2, <1>3, <1>4, AppendAbsentTyped
<1>6. PICK f : Loops(L, classes, step, n, f)
  BY <1>2, <1>3, <1>5, LoopExists
<1>7. List(f)
  <2>1. ASSUME NEW i \in 0 .. n, i # 0
        PROVE  step[i][f[i - 1]] = AppendAbsent(f[i - 1], bases[i])
    <3>1. i \in 1 .. n /\ i - 1 \in 0 .. n
      BY <1>2, <2>1
    <3>2. f[i - 1] \in L
      BY <1>6, <3>1 DEF Loops
    <3> QED BY <1>4, <3>1, <3>2
  <2>2. f = [i \in 0 .. n |-> IF i = 0 THEN classes ELSE step[i][f[i - 1]]]
    BY <1>6 DEF Loops
  <2>3. f = [i \in 0 .. n |-> IF i = 0 THEN classes ELSE AppendAbsent(f[i - 1], bases[i])]
    BY <2>1, <2>2
  <2> QED BY <1>1, <2>3
<1>8. PICK g : g = CHOOSE h : List(h)
  OBVIOUS
<1>9. List(g)
  BY <1>7, <1>8
<1>10. \A i \in 0 .. n : g[i] \in L
  <2>1. g[0] \in L
    BY <1>1, <1>2, <1>3, <1>9
  <2>2. ASSUME NEW i \in 1 .. n, g[i - 1] \in L
        PROVE  g[i] \in L
    <3>1. g[i] = AppendAbsent(g[i - 1], bases[i])
      BY <1>1, <1>2, <1>9
    <3> QED BY <1>2, <1>3, <2>2, <3>1, AppendAbsentTyped
  <2> QED BY <1>2, <2>1, <2>2, LoopKeeps
<1>11. AppendAllAbsent(classes, bases) = g[n]
  BY <1>1, <1>8 DEF AppendAllAbsent
<1>12. g[0] = classes /\ \A i \in 1 .. n : g[i] = AppendAbsent(g[i - 1], bases[i])
  BY <1>1, <1>2, <1>9
<1> HIDE DEF List
<1>13. AddsBases(S, classes, bases, g)
  BY <1>1, <1>3, <1>10, <1>12 DEF AddsBases
<1> QED BY <1>1, <1>11, <1>13

LEMMA AppendAllAbsentTyped ==
  ASSUME NEW S, NEW classes \in NonEmptyList(S), NEW bases \in Seq(S)
  PROVE  AppendAllAbsent(classes, bases) \in NonEmptyList(S)
<1>1. Len(bases) \in 0 .. Len(bases)
  OBVIOUS
<1> QED BY <1>1, AppendAllAbsentAdds DEF AddsBases

LEMMA FiniteImage ==
  ASSUME NEW f, IsFiniteSet(DOMAIN f), f = [x \in DOMAIN f |-> f[x]]
  PROVE  IsFiniteSet({f[x] : x \in DOMAIN f})
<1>1. f \in Surjection(DOMAIN f, {f[x] : x \in DOMAIN f})
  BY DEF Surjection
<1> QED BY <1>1, FS_Surjection

NamedBases(bases_of) == UNION {Range(bases_of[d]) : d \in DOMAIN bases_of}

(* A finite program names finitely many bases.                             *)
LEMMA NamedBasesFinite ==
  ASSUME NEW bases_of, IsFiniteSet(DOMAIN bases_of),
         \A c \in DOMAIN bases_of : \E S : bases_of[c] \in Seq(S)
  PROVE  IsFiniteSet(NamedBases(bases_of)) /\ Cardinality(NamedBases(bases_of)) \in Nat
<1>1. PICK ranges : ranges = {Range(bases_of[c]) : c \in DOMAIN bases_of}
  OBVIOUS
<1>2. IsFiniteSet(ranges)
  <2>1. PICK f : f = [c \in DOMAIN bases_of |-> Range(bases_of[c])]
    OBVIOUS
  <2>2. IsFiniteSet({f[c] : c \in DOMAIN f})
    BY <2>1, FiniteImage
  <2>3. ranges = {f[c] : c \in DOMAIN f}
    BY <1>1, <2>1
  <2> QED BY <2>2, <2>3
<1>3. ASSUME NEW c \in DOMAIN bases_of
      PROVE  IsFiniteSet(Range(bases_of[c]))
  <2>1. PICK s : s = bases_of[c]
    OBVIOUS
  <2>2. PICK S : s \in Seq(S)
    BY <2>1
  <2>3. DOMAIN s = 1 .. Len(s) /\ Len(s) \in Nat
    BY <2>2
  <2>4. IsFiniteSet(1 .. Len(s))
    BY <2>3, FS_Interval
  <2>5. IsFiniteSet({s[i] : i \in DOMAIN s})
    BY <2>2, <2>3, <2>4, FiniteImage
  <2> QED BY <2>1, <2>5 DEF Range
<1>4. IsFiniteSet(UNION ranges)
  BY <1>1, <1>2, <1>3, FS_UNION
<1>5. UNION ranges = NamedBases(bases_of)
  BY <1>1 DEF NamedBases
<1> QED BY <1>4, <1>5, FS_CardinalityType

(* One turn of the outer loop, and the list after each.                    *)
Visit(bases_of, n, classes) ==
  IF n > Len(classes) THEN classes
  ELSE AppendAllAbsent(classes, BaseClassesOf(bases_of, classes[n]))

Visits(bases_of, c, P, list) ==
  /\ list[0] = <<c>>
  /\ \A n \in Nat : list[n] \in NonEmptyList(P)
  /\ \A n \in Nat : list[n + 1] = Visit(bases_of, n + 1, list[n])

(* The search stays among P, the class itself and what it inherits, when   *)
(* the bases of every class of P are of P.                                 *)
LEMMA BreadthFirstVisits ==
  ASSUME NEW P, P \subseteq ClassValue, NEW c \in P, NEW bases_of,
         IsFiniteSet(DOMAIN bases_of),
         \A d \in DOMAIN bases_of : bases_of[d] \in Seq(ClassValue),
         \A d \in P \cap DOMAIN bases_of : bases_of[d] \in Seq(P)
  PROVE  \E list : /\ Visits(bases_of, c, P, list)
                   /\ BreadthFirstClassList(bases_of, c) =
                        list[Cardinality(NamedBases(bases_of)) + 1]
<1> DEFINE Search(f) == f = [n \in Nat |->
                               IF n = 0 THEN <<c>>
                               ELSE [classes \in Seq(ClassValue) |->
                                       Visit(bases_of, n, classes)][f[n - 1]]]
<1>1. PICK L : L = NonEmptyList(P)
  OBVIOUS
<1>2. L \subseteq Seq(ClassValue) /\ <<c>> \in L
  BY <1>1 DEF NonEmptyList
<1>3. ASSUME NEW n \in Nat, NEW classes \in L
      PROVE  Visit(bases_of, n + 1, classes) \in L
  <2>1. CASE n + 1 > Len(classes)
    BY <1>3, <2>1 DEF Visit
  <2>2. CASE ~ (n + 1 > Len(classes))
    <3>1. n + 1 \in 1 .. Len(classes) /\ classes \in Seq(P)
      BY <1>1, <1>3, <2>2 DEF NonEmptyList
    <3>2. classes[n + 1] \in P
      BY <3>1
    <3>3. BaseClassesOf(bases_of, classes[n + 1]) \in Seq(P)
      BY <3>2 DEF BaseClassesOf
    <3> QED BY <1>1, <2>2, <3>3, AppendAllAbsentTyped DEF Visit
  <2> QED BY <2>1, <2>2
<1>4. PICK step : step = [n \in Nat |-> [classes \in L |-> Visit(bases_of, n + 1, classes)]]
  OBVIOUS
<1>5. step \in [Nat -> [L -> L]]
  BY <1>3, <1>4
<1>6. PICK f : Repeats(L, <<c>>, step, f)
  BY <1>2, <1>5, Iteration
<1>7. Search(f)
  <2>1. ASSUME NEW n \in Nat, n # 0
        PROVE  f[n] = [classes \in Seq(ClassValue) |-> Visit(bases_of, n, classes)][f[n - 1]]
    <3>1. n - 1 \in Nat /\ (n - 1) + 1 = n
      BY <2>1
    <3>2. f[n - 1] \in L /\ f[n] = step[n - 1][f[n - 1]]
      BY <1>6, <3>1 DEF Repeats
    <3>3. f[n] = Visit(bases_of, n, f[n - 1])
      BY <1>4, <3>1, <3>2
    <3> QED BY <1>2, <3>2, <3>3
  <2>2. f \in [Nat -> L] /\ f[0] = <<c>>
    BY <1>6 DEF Repeats
  <2> QED BY <2>1, <2>2
<1> HIDE DEF Search
<1>8. PICK g : g = CHOOSE h : Search(h)
  OBVIOUS
<1>9. Search(g)
  BY <1>7, <1>8
<1>10. \A n \in Nat : g[n] \in L
  <2> DEFINE T == {n \in Nat : g[n] \in L}
  <2>1. 0 \in T
    BY <1>2, <1>9 DEF Search
  <2>2. ASSUME NEW n \in Nat, n \in T
        PROVE  n + 1 \in T
    <3>1. n + 1 \in Nat /\ n + 1 # 0 /\ (n + 1) - 1 = n
      OBVIOUS
    <3>2. g[n + 1] = [classes \in Seq(ClassValue) |-> Visit(bases_of, n + 1, classes)][g[n]]
      BY <1>9, <3>1 DEF Search
    <3>3. g[n] \in L
      BY <2>2
    <3>4. g[n + 1] = Visit(bases_of, n + 1, g[n])
      BY <1>2, <3>2, <3>3
    <3> QED BY <1>3, <3>3, <3>4
  <2> HIDE DEF T
  <2>3. \A n \in Nat : n \in T
    BY <2>1, <2>2, SetInduction
  <2> QED BY <2>3 DEF T
<1>11. ASSUME NEW n \in Nat
       PROVE  g[n + 1] = Visit(bases_of, n + 1, g[n])
  <2>1. n + 1 \in Nat /\ n + 1 # 0 /\ (n + 1) - 1 = n
    OBVIOUS
  <2>2. g[n + 1] = [classes \in Seq(ClassValue) |-> Visit(bases_of, n + 1, classes)][g[n]]
    BY <1>9, <2>1 DEF Search
  <2>3. g[n] \in L
    BY <1>10
  <2> QED BY <1>2, <2>2, <2>3
<1>12. g[0] = <<c>>
  BY <1>9 DEF Search
<1>13. Visits(bases_of, c, P, g)
  BY <1>1, <1>10, <1>11, <1>12 DEF Visits
<1>14. BreadthFirstClassList(bases_of, c) = g[Cardinality(NamedBases(bases_of)) + 1]
  BY <1>8 DEF BreadthFirstClassList, NamedBases, Visit, Search
<1> QED BY <1>13, <1>14

-----------------------------------------------------------------------------
(* The class list of a constructed class. *)

LEMMA ArgumentMapTyped ==
  ASSUME NEW k \in ConstructedClass
  PROVE  \A p \in DOMAIN ComputeArgumentMap(k) : ComputeArgumentMap(k)[p] \in Argument
<1>1. PICK parameters : parameters = ParametersOf[k.generic_class]
  OBVIOUS
<1>2. /\ k.generic_class \in GenericClass
      /\ k.arguments \in Seq(Argument)
      /\ Len(k.arguments) = Len(parameters)
  BY <1>1 DEF ConstructedClass
<1>3. parameters \in Seq(TypeParameter)
  BY <1>1, <1>2, ClassAssumption
<1>4. ASSUME NEW p \in Range(parameters)
      PROVE  k.arguments[CHOOSE i \in DOMAIN parameters : parameters[i] = p] \in Argument
  <2>1. PICK j : j = CHOOSE i \in DOMAIN parameters : parameters[i] = p
    OBVIOUS
  <2>2. \E i \in DOMAIN parameters : parameters[i] = p
    BY <1>4 DEF Range
  <2>3. j \in DOMAIN parameters
    BY <2>1, <2>2
  <2>4. j \in 1 .. Len(k.arguments)
    BY <1>2, <1>3, <2>3
  <2>5. k.arguments[j] \in Argument
    BY <1>2, <2>4
  <2> QED BY <2>1, <2>5
<1> QED BY <1>1, <1>4 DEF ComputeArgumentMap

(* Substituting arguments makes a class of the same origin, and leaves a   *)
(* class without arguments alone.                                          *)
LEMMA ConstructClassTyped ==
  ASSUME NEW k \in ConstructedClass, NEW v \in ClassValue,
         NEW w, w = ConstructClass(v, ComputeArgumentMap(k))
  PROVE  /\ w \in ClassValue
         /\ OriginOf(w) = OriginOf(v)
         /\ v \in Class => w = v
         /\ v \notin Class => w \in ConstructedClass
<1>1. CASE v \in Class
  BY <1>1 DEF ConstructClass
<1>2. CASE v \notin Class
  <2>1. PICK map : map = ComputeArgumentMap(k)
    OBVIOUS
  <2>2. PICK old : old = v.arguments
    OBVIOUS
  <2>3. /\ v \in [generic_class : GenericClass, arguments : Seq(Argument)]
        /\ Len(old) = Len(ParametersOf[v.generic_class])
        /\ old \in Seq(Argument)
    BY <1>2, <2>2 DEF ClassValue, ConstructedClass
  <2>4. PICK new : new = [i \in DOMAIN old |-> IF old[i] \in DOMAIN map
                                                THEN map[old[i]] ELSE old[i]]
    OBVIOUS
  <2>5. w = [v EXCEPT !.arguments = new]
    BY <1>2, <2>1, <2>2, <2>4 DEF ConstructClass
  <2>6. new \in Seq(Argument) /\ Len(new) = Len(old)
    <3>1. \A i \in 1 .. Len(old) : new[i] \in Argument
      BY <2>1, <2>3, <2>4, ArgumentMapTyped
    <3>2. Len(old) \in Nat /\ DOMAIN old = 1 .. Len(old)
      BY <2>3
    <3> QED BY <2>4, <3>1, <3>2
  <2>7. /\ w \in [generic_class : GenericClass, arguments : Seq(Argument)]
        /\ w.arguments = new
        /\ w.generic_class = v.generic_class
    BY <2>3, <2>5, <2>6
  <2>8. w \in ConstructedClass
    BY <2>3, <2>6, <2>7 DEF ConstructedClass
  <2>9. w \notin Class
    BY <2>8, ClassAssumption
  <2> QED BY <1>2, <2>7, <2>8, <2>9 DEF ClassValue, OriginOf
<1> QED BY <1>1, <1>2

(* What the list of k holds after k itself: each is an inherited class,    *)
(* other than the generic class of k, with the arguments substituted.      *)
ListOf(k, inherited) ==
  {s \in Seq(ClassValue) :
     /\ s # <<>> /\ s[1] = k
     /\ \A i \in 2 .. Len(s) :
          \E v \in Range(inherited) :
            /\ v # k.generic_class
            /\ s[i] = ConstructClass(v, ComputeArgumentMap(k))}

LEMMA ListOfGrows ==
  ASSUME NEW k \in ConstructedClass, NEW inherited \in Seq(ClassValue),
         NEW s \in ListOf(k, inherited), NEW v \in Range(inherited), v # k.generic_class
  PROVE  Append(s, ConstructClass(v, ComputeArgumentMap(k))) \in ListOf(k, inherited)
<1>1. PICK w : w = ConstructClass(v, ComputeArgumentMap(k))
  OBVIOUS
<1>2. s \in Seq(ClassValue) /\ s # <<>> /\ s[1] = k
  BY DEF ListOf
<1>3. v \in ClassValue
  BY DEF Range
<1>4. w \in ClassValue
  BY <1>1, <1>3, ConstructClassTyped
<1>5. PICK t : t = Append(s, w)
  OBVIOUS
<1>6. t \in Seq(ClassValue) /\ t # <<>> /\ t[1] = k
  BY <1>2, <1>4, <1>5
<1>7. ASSUME NEW i \in 2 .. Len(t)
      PROVE  \E u \in Range(inherited) :
               u # k.generic_class /\ t[i] = ConstructClass(u, ComputeArgumentMap(k))
  <2>1. CASE i = Len(s) + 1
    BY <1>1, <1>2, <1>5, <2>1
  <2>2. CASE i # Len(s) + 1
    <3>1. i \in 2 .. Len(s) /\ t[i] = s[i]
      BY <1>2, <1>4, <1>5, <1>7, <2>2
    <3> QED BY <3>1 DEF ListOf
  <2> QED BY <2>1, <2>2
<1> QED BY <1>1, <1>5, <1>6, <1>7 DEF ListOf

(* The list that the loop of FinalizeConstructedClass begins with.         *)
InheritedBy(lists, k) ==
  IF k.generic_class \in DOMAIN lists THEN lists[k.generic_class] ELSE <<>>

LEMMA ConstructedClassListTyped ==
  ASSUME NEW lists, NEW k \in ConstructedClass,
         InheritedBy(lists, k) \in Seq(ClassValue)
  PROVE  ConstructedClassList(lists, k) \in ListOf(k, InheritedBy(lists, k))
<1>1. PICK bases : bases = InheritedBy(lists, k)
  OBVIOUS
<1>2. PICK n : n = Len(bases)
  OBVIOUS
<1>3. n \in Nat /\ \A i \in 1 .. n : bases[i] \in Range(bases)
  BY <1>1, <1>2 DEF Range
<1>4. PICK L : L = ListOf(k, bases)
  OBVIOUS
<1>5. <<k>> \in L
  BY <1>4 DEF ListOf, ClassValue
<1> DEFINE Turn(i, s) == IF bases[i] = k.generic_class THEN s
                         ELSE Append(s, ConstructClass(bases[i], ComputeArgumentMap(k)))
           List(f) == f = [i \in 0 .. n |-> IF i = 0 THEN <<k>> ELSE Turn(i, f[i - 1])]
<1>6. ASSUME NEW i \in 1 .. n, NEW s \in L
      PROVE  Turn(i, s) \in L
  BY <1>1, <1>3, <1>4, <1>6, ListOfGrows
<1> HIDE DEF Turn
<1>7. PICK step : step = [i \in 1 .. n |-> [s \in L |-> Turn(i, s)]]
  OBVIOUS
<1>8. step \in [1 .. n -> [L -> L]]
  BY <1>6, <1>7
<1>9. PICK f : Loops(L, <<k>>, step, n, f)
  BY <1>3, <1>5, <1>8, LoopExists
<1>10. List(f)
  <2>1. ASSUME NEW i \in 0 .. n, i # 0
        PROVE  step[i][f[i - 1]] = Turn(i, f[i - 1])
    <3>1. i \in 1 .. n /\ i - 1 \in 0 .. n
      BY <1>3, <2>1
    <3>2. f[i - 1] \in L
      BY <1>9, <3>1 DEF Loops
    <3> QED BY <1>7, <3>1, <3>2
  <2>2. f = [i \in 0 .. n |-> IF i = 0 THEN <<k>> ELSE step[i][f[i - 1]]]
    BY <1>9 DEF Loops
  <2> QED BY <2>1, <2>2
<1> HIDE DEF List
<1>11. PICK g : g = CHOOSE h : List(h)
  OBVIOUS
<1>12. List(g)
  BY <1>10, <1>11
<1>13. \A i \in 0 .. n : g[i] \in L
  <2>1. g[0] \in L
    BY <1>3, <1>5, <1>12 DEF List
  <2>2. ASSUME NEW i \in 1 .. n, g[i - 1] \in L
        PROVE  g[i] \in L
    <3>1. g[i] = Turn(i, g[i - 1])
      BY <1>3, <1>12 DEF List
    <3> QED BY <1>6, <2>2, <3>1
  <2> QED BY <1>3, <2>1, <2>2, LoopKeeps
<1>14. ConstructedClassList(lists, k) = g[n]
  BY <1>1, <1>2, <1>11 DEF ConstructedClassList, InheritedBy, List, Turn
<1> QED BY <1>1, <1>3, <1>4, <1>13, <1>14

(* What a list of k names besides k has the origin of an inherited class,  *)
(* and is that class when it is a class of the program.                    *)
LEMMA ListOfMembers ==
  ASSUME NEW k \in ConstructedClass, NEW inherited \in Seq(ClassValue),
         NEW s \in ListOf(k, inherited), NEW w \in Range(s), w # k
  PROVE  \E v \in Range(inherited) :
           /\ v # k.generic_class
           /\ OriginOf(w) = OriginOf(v)
           /\ (v \in Class \/ w \in Class) => w = v
           /\ w \notin Class => w \in ConstructedClass
<1>1. s \in Seq(ClassValue) /\ s # <<>> /\ s[1] = k
  BY DEF ListOf
<1>2. PICK i \in 1 .. Len(s) : s[i] = w
  BY <1>1 DEF Range
<1>3. i \in 2 .. Len(s)
  BY <1>1, <1>2
<1>4. PICK v \in Range(inherited) :
        v # k.generic_class /\ w = ConstructClass(v, ComputeArgumentMap(k))
  BY <1>2, <1>3 DEF ListOf
<1>5. v \in ClassValue
  BY <1>4 DEF Range
<1>6. /\ OriginOf(w) = OriginOf(v)
      /\ v \in Class => w = v
      /\ v \notin Class => w \in ConstructedClass
  BY <1>4, <1>5, ConstructClassTyped
<1>7. \A c \in Class : c \notin ConstructedClass
  BY ClassAssumption
<1> QED BY <1>4, <1>6, <1>7

(* The classes that FinalizeConstructedClass makes by calling itself: after *)
(* n calls within each other, reached[n].                                  *)
Grown(lists, known) ==
  known \cup {c \in UNION {Range(ConstructedClassList(lists, k)) : k \in known} :
               c \notin Class /\ c \notin DOMAIN lists}

Reached(lists, roots, Q, reached) ==
  /\ reached \in [Nat -> SUBSET Q]
  /\ reached[0] = roots
  /\ \A n \in Nat : reached[n + 1] = Grown(lists, reached[n])

(* They stay within any set that holds the first ones and what their lists  *)
(* name.                                                                   *)
LEMMA ConstructionsAreReached ==
  ASSUME NEW lists, NEW Q, Q \subseteq ConstructedClass, NEW roots, roots \subseteq Q,
         \A k \in Q : \A w \in Range(ConstructedClassList(lists, k)) : w \notin Class => w \in Q
  PROVE  \E reached : /\ Reached(lists, roots, Q, reached)
                      /\ Constructions(lists, roots) = reached[Cardinality(GenericClass)]
<1> DEFINE Reaches(f) == f = [n \in Nat |-> IF n = 0 THEN roots ELSE Grown(lists, f[n - 1])]
<1>1. ASSUME NEW known \in SUBSET Q
      PROVE  Grown(lists, known) \in SUBSET Q
  BY DEF Grown
<1>2. PICK L : L = SUBSET Q
  OBVIOUS
<1>3. PICK next : next = [known \in L |-> Grown(lists, known)]
  OBVIOUS
<1>4. PICK step : step = [n \in Nat |-> next]
  OBVIOUS
<1>5. next \in [L -> L] /\ roots \in L
  BY <1>1, <1>2, <1>3
<1>6. step \in [Nat -> [L -> L]]
  BY <1>4, <1>5
<1>7. PICK f : Repeats(L, roots, step, f)
  BY <1>5, <1>6, Iteration
<1>8. Reaches(f)
  <2>1. ASSUME NEW n \in Nat, n # 0
        PROVE  f[n] = Grown(lists, f[n - 1])
    <3>1. n - 1 \in Nat /\ (n - 1) + 1 = n
      BY <2>1
    <3>2. f[n - 1] \in L /\ f[n] = step[n - 1][f[n - 1]]
      BY <1>7, <3>1 DEF Repeats
    <3> QED BY <1>3, <1>4, <3>1, <3>2
  <2>2. f \in [Nat -> L] /\ f[0] = roots
    BY <1>7 DEF Repeats
  <2> QED BY <2>1, <2>2
<1> HIDE DEF Reaches
<1>9. PICK g : g = CHOOSE h : Reaches(h)
  OBVIOUS
<1>10. Reaches(g)
  BY <1>8, <1>9
<1>11. \A n \in Nat : g[n] \in L
  <2> DEFINE T == {n \in Nat : g[n] \in L}
  <2>1. 0 \in T
    BY <1>5, <1>10 DEF Reaches
  <2>2. ASSUME NEW n \in Nat, n \in T
        PROVE  n + 1 \in T
    <3>1. n + 1 \in Nat /\ n + 1 # 0 /\ (n + 1) - 1 = n
      OBVIOUS
    <3>2. g[n + 1] = Grown(lists, g[n])
      BY <1>10, <3>1 DEF Reaches
    <3> QED BY <1>1, <1>2, <2>2, <3>2
  <2> HIDE DEF T
  <2>3. \A n \in Nat : n \in T
    BY <2>1, <2>2, SetInduction
  <2> QED BY <2>3 DEF T
<1>12. PICK size : size = Cardinality(GenericClass)
  OBVIOUS
<1>13. size \in Nat
  BY <1>12, ClassAssumption, FS_CardinalityType
<1>14. Constructions(lists, roots) = g[size] \cap ConstructedClass
  BY <1>9, <1>12 DEF Constructions, Reaches, Grown
<1>15. Constructions(lists, roots) = g[size]
  BY <1>2, <1>11, <1>13, <1>14
<1>16. ASSUME NEW n \in Nat
       PROVE  g[n + 1] = Grown(lists, g[n])
  <2>1. n + 1 \in Nat /\ n + 1 # 0 /\ (n + 1) - 1 = n
    OBVIOUS
  <2> QED BY <1>10, <2>1 DEF Reaches
<1>17. g[0] = roots /\ g = [n \in Nat |-> g[n]]
  BY <1>10 DEF Reaches
<1>18. g \in [Nat -> SUBSET Q]
  BY <1>2, <1>11, <1>17
<1>19. Reached(lists, roots, Q, g)
  BY <1>16, <1>17, <1>18 DEF Reached
<1> QED BY <1>12, <1>15, <1>19

LEMMA ConstructionsStayWithin ==
  ASSUME NEW lists, NEW Q, Q \subseteq ConstructedClass, NEW roots, roots \subseteq Q,
         \A k \in Q : \A w \in Range(ConstructedClassList(lists, k)) : w \notin Class => w \in Q
  PROVE  Constructions(lists, roots) \subseteq Q
<1>1. PICK reached : /\ Reached(lists, roots, Q, reached)
                     /\ Constructions(lists, roots) = reached[Cardinality(GenericClass)]
  BY ConstructionsAreReached
<1>2. Cardinality(GenericClass) \in Nat
  BY ClassAssumption, FS_CardinalityType
<1> QED BY <1>1, <1>2 DEF Reached

-----------------------------------------------------------------------------
(* What the lists of all finalized classes have in common. *)

(* The list of a class of the program names the class and bases out of the *)
(* program, of finalized origin; the list of a constructed class names     *)
(* classes of the program only out of the bases.                           *)
ListIsSound(lists, inherited, c) ==
  /\ lists[c] \in Seq(ClassValue)
  /\ c \in Class =>
       \A v \in Range(lists[c]) : v = c \/ (v \in inherited /\ OriginOf(v) \in DOMAIN lists)
  /\ c \notin Class => \A v \in Range(lists[c]) : v \in Class => v \in inherited

ListsAreSound(lists, inherited) ==
  /\ DOMAIN lists \subseteq ClassValue
  /\ \A c \in DOMAIN lists : ListIsSound(lists, inherited, c)

OfFinalized(lists) == {k \in ConstructedClass : k.generic_class \in DOMAIN lists}

(* What the list of a constructed class names besides itself comes from     *)
(* the list of its generic class.                                          *)
LEMMA NewListMembers ==
  ASSUME NEW lists, NEW inherited, ListsAreSound(lists, inherited), NEW k \in ConstructedClass
  PROVE  /\ ConstructedClassList(lists, k) \in Seq(ClassValue)
         /\ \A w \in Range(ConstructedClassList(lists, k)) : w # k =>
              /\ k.generic_class \in DOMAIN lists
              /\ w \notin Class => w \in ConstructedClass
              /\ \E v \in Range(lists[k.generic_class]) :
                   /\ v # k.generic_class
                   /\ OriginOf(w) = OriginOf(v)
                   /\ (v \in Class \/ w \in Class) => w = v
<1>1. PICK bases : bases = InheritedBy(lists, k)
  OBVIOUS
<1>2. bases \in Seq(ClassValue)
  <2>1. CASE k.generic_class \in DOMAIN lists
    BY <1>1, <2>1 DEF InheritedBy, ListsAreSound, ListIsSound
  <2>2. CASE k.generic_class \notin DOMAIN lists
    BY <1>1, <2>2 DEF InheritedBy
  <2> QED BY <2>1, <2>2
<1>3. ASSUME NEW v \in Range(bases)
      PROVE  k.generic_class \in DOMAIN lists /\ bases = lists[k.generic_class]
  <2>1. CASE k.generic_class \notin DOMAIN lists
    <3>1. bases = <<>>
      BY <1>1, <2>1 DEF InheritedBy
    <3> QED BY <1>3, <3>1 DEF Range
  <2> QED BY <1>1, <2>1 DEF InheritedBy
<1>4. PICK s : s = ConstructedClassList(lists, k)
  OBVIOUS
<1>5. s \in ListOf(k, bases)
  BY <1>1, <1>2, <1>4, ConstructedClassListTyped
<1>6. ASSUME NEW w \in Range(s), w # k
      PROVE  /\ k.generic_class \in DOMAIN lists
             /\ w \notin Class => w \in ConstructedClass
             /\ \E v \in Range(lists[k.generic_class]) :
                  /\ v # k.generic_class
                  /\ OriginOf(w) = OriginOf(v)
                  /\ (v \in Class \/ w \in Class) => w = v
  <2>1. PICK v \in Range(bases) : /\ v # k.generic_class
                                  /\ OriginOf(w) = OriginOf(v)
                                  /\ (v \in Class \/ w \in Class) => w = v
                                  /\ w \notin Class => w \in ConstructedClass
    BY <1>2, <1>5, <1>6, ListOfMembers
  <2> QED BY <1>3, <2>1
<1>7. s \in Seq(ClassValue)
  BY <1>5 DEF ListOf
<1> QED BY <1>4, <1>6, <1>7

LEMMA NewListIsSound ==
  ASSUME NEW lists, NEW inherited, ListsAreSound(lists, inherited), NEW k \in ConstructedClass
  PROVE  /\ ConstructedClassList(lists, k) \in Seq(ClassValue)
         /\ \A v \in Range(ConstructedClassList(lists, k)) :
              /\ v \in Class => v \in inherited
              /\ v \notin Class /\ v # k => v \in OfFinalized(lists)
<1>1. PICK s : s = ConstructedClassList(lists, k)
  OBVIOUS
<1>2. k.generic_class \in Class /\ k \notin Class
  BY ClassAssumption DEF ConstructedClass, Class
<1>3. ASSUME NEW w \in Range(s), w # k
      PROVE  /\ w \in Class => w \in inherited
             /\ w \notin Class => w \in OfFinalized(lists)
  <2>1. k.generic_class \in DOMAIN lists /\ (w \notin Class => w \in ConstructedClass)
    BY <1>1, <1>3, NewListMembers
  <2>2. PICK v \in Range(lists[k.generic_class]) : /\ v # k.generic_class
                                                   /\ OriginOf(w) = OriginOf(v)
                                                   /\ (v \in Class \/ w \in Class) => w = v
    BY <1>1, <1>3, NewListMembers
  <2>3. v \in inherited /\ OriginOf(v) \in DOMAIN lists
    BY <1>2, <2>1, <2>2 DEF ListsAreSound, ListIsSound
  <2> QED BY <2>1, <2>2, <2>3 DEF OfFinalized, OriginOf
<1>4. s \in Seq(ClassValue)
  BY <1>1, NewListMembers
<1> QED BY <1>1, <1>2, <1>3, <1>4

LEMMA ConstructionsAreOfFinalized ==
  ASSUME NEW lists, NEW inherited, ListsAreSound(lists, inherited),
         NEW roots, roots \subseteq OfFinalized(lists)
  PROVE  Constructions(lists, roots) \subseteq OfFinalized(lists)
<1>1. PICK Q : Q = OfFinalized(lists)
  OBVIOUS
<1>2. Q \subseteq ConstructedClass
  BY <1>1 DEF OfFinalized
<1>3. ASSUME NEW k \in Q, NEW w \in Range(ConstructedClassList(lists, k)), w \notin Class
      PROVE  w \in Q
  BY <1>1, <1>2, <1>3, NewListIsSound
<1> QED BY <1>1, <1>2, <1>3, ConstructionsStayWithin

(* The classes finalized on the way.                                       *)
LEMMA FinalizeMissingSound ==
  ASSUME NEW lists, NEW inherited, ListsAreSound(lists, inherited),
         NEW roots, roots \subseteq OfFinalized(lists),
         NEW after, after = FinalizeMissing(lists, roots)
  PROVE  /\ ListsAreSound(after, inherited)
         /\ DOMAIN lists \subseteq DOMAIN after
         /\ DOMAIN after \subseteq DOMAIN lists \cup OfFinalized(lists)
<1>1. PICK new : new = Constructions(lists, roots \ DOMAIN lists)
  OBVIOUS
<1>2. new \subseteq OfFinalized(lists)
  BY <1>1, ConstructionsAreOfFinalized
<1>3. after = [c \in DOMAIN lists \cup new |->
                 IF c \in DOMAIN lists THEN lists[c] ELSE ConstructedClassList(lists, c)]
  BY <1>1 DEF FinalizeMissing
<1>4. DOMAIN after = DOMAIN lists \cup new
  BY <1>3
<1>5. DOMAIN after \subseteq ClassValue
  BY <1>2, <1>4 DEF ListsAreSound, OfFinalized, ClassValue
<1>6. ASSUME NEW c \in DOMAIN after
      PROVE  ListIsSound(after, inherited, c)
  <2>1. CASE c \in DOMAIN lists
    <3>1. after[c] = lists[c] /\ ListIsSound(lists, inherited, c)
      BY <1>3, <2>1 DEF ListsAreSound
    <3> QED BY <1>4, <3>1 DEF ListIsSound
  <2>2. CASE c \notin DOMAIN lists
    <3>1. c \in ConstructedClass /\ after[c] = ConstructedClassList(lists, c)
      BY <1>2, <1>3, <1>4, <2>2 DEF OfFinalized
    <3>2. c \notin Class
      BY <3>1, ClassAssumption
    <3> QED BY <3>1, <3>2, NewListIsSound DEF ListIsSound
  <2> QED BY <2>1, <2>2
<1> QED BY <1>2, <1>4, <1>5, <1>6 DEF ListsAreSound

(* FinalizeConstructedClass, called for a class that has a list or not.    *)
LEMMA FinalizeConstructedClassSound ==
  ASSUME NEW lists, NEW inherited, ListsAreSound(lists, inherited),
         NEW k \in ConstructedClass,
         NEW after, after = FinalizeConstructedClass(lists, k)
  PROVE  /\ ListsAreSound(after, inherited)
         /\ DOMAIN lists \subseteq DOMAIN after
         /\ DOMAIN after \subseteq DOMAIN lists \cup {k} \cup OfFinalized(lists)
<1>1. PICK classes : classes = ConstructedClassList(lists, k)
  OBVIOUS
<1>2. PICK named : named = {c \in Range(classes) : c \notin Class /\ c # k}
  OBVIOUS
<1>3. PICK others : others = FinalizeMissing(lists, named)
  OBVIOUS
<1>4. /\ classes \in Seq(ClassValue)
      /\ \A v \in Range(classes) : v \in Class => v \in inherited
      /\ named \subseteq OfFinalized(lists)
  BY <1>1, <1>2, NewListIsSound
<1>5. /\ ListsAreSound(others, inherited)
      /\ DOMAIN lists \subseteq DOMAIN others
      /\ DOMAIN others \subseteq DOMAIN lists \cup OfFinalized(lists)
  BY <1>3, <1>4, FinalizeMissingSound
<1>6. after = SetClassList(others, k, classes)
  BY <1>1, <1>2, <1>3 DEF FinalizeConstructedClass
<1>7. DOMAIN after = DOMAIN others \cup {k} /\ k \in ClassValue /\ k \notin Class
  BY <1>6, ClassAssumption DEF SetClassList, ClassValue
<1>8. ASSUME NEW c \in DOMAIN after
      PROVE  ListIsSound(after, inherited, c)
  <2>1. CASE c # k
    <3>1. c \in DOMAIN others /\ after[c] = others[c]
      BY <1>6, <1>7, <2>1 DEF SetClassList
    <3>2. ListIsSound(others, inherited, c)
      BY <1>5, <3>1 DEF ListsAreSound
    <3> QED BY <1>7, <3>1, <3>2 DEF ListIsSound
  <2>2. CASE c = k /\ k \notin DOMAIN others
    <3>1. after[c] = classes
      BY <1>6, <1>7, <2>2 DEF SetClassList
    <3> QED BY <1>4, <1>7, <2>2, <3>1 DEF ListIsSound
  <2>3. CASE c = k /\ k \in DOMAIN others
    <3>1. PICK old : old = others[k]
      OBVIOUS
    <3>2. after[c] = classes \o old
      BY <1>6, <1>7, <2>3, <3>1 DEF SetClassList
    <3>3. old \in Seq(ClassValue) /\ \A v \in Range(old) : v \in Class => v \in inherited
      BY <1>5, <1>7, <2>3, <3>1 DEF ListsAreSound, ListIsSound
    <3>4. classes \o old \in Seq(ClassValue)
      BY <1>4, <3>3
    <3>5. Range(classes \o old) \subseteq Range(classes) \cup Range(old)
      BY <1>4, <3>3 DEF Range
    <3>6. after[c] \in Seq(ClassValue) /\ \A v \in Range(after[c]) : v \in Class => v \in inherited
      BY <1>4, <3>2, <3>3, <3>4, <3>5
    <3> QED BY <1>7, <2>3, <3>6 DEF ListIsSound
  <2> QED BY <1>7, <2>1, <2>2, <2>3
<1> QED BY <1>5, <1>7, <1>8 DEF ListsAreSound

(* No base of c, or of a class finalized before c, is left unfinalized.    *)
MayFinalize(lists, bases_of, c) ==
  /\ c \in Class /\ c \in DOMAIN bases_of /\ c \notin DOMAIN lists
  /\ DOMAIN bases_of \subseteq Class
  /\ IsFiniteSet(DOMAIN bases_of)
  /\ \A d \in DOMAIN bases_of :
       /\ bases_of[d] \in Seq(ClassValue)
       /\ d = c \/ d \in DOMAIN lists => OriginsOf(bases_of[d]) \subseteq DOMAIN lists

LEMMA ProgramClassList ==
  ASSUME NEW lists, NEW bases_of, NEW c, MayFinalize(lists, bases_of, c),
         NEW classes, classes = BreadthFirstClassList(bases_of, c)
  PROVE  /\ classes \in Seq(ClassValue)
         /\ \A v \in Range(classes) :
              v = c \/ (v \in NamedBases(bases_of) /\ OriginOf(v) \in DOMAIN lists)
<1> PICK inherited : inherited = NamedBases(bases_of)
  OBVIOUS
<1> USE DEF MayFinalize
<1>1. PICK P : P = {v \in ClassValue :
                      v = c \/ (v \in inherited /\ OriginOf(v) \in DOMAIN lists)}
  OBVIOUS
<1>2. P \subseteq ClassValue /\ c \in P
  BY <1>1 DEF ClassValue
<1>3. ASSUME NEW d \in P \cap DOMAIN bases_of
      PROVE  bases_of[d] \in Seq(P)
  <2>1. d \in Class /\ OriginOf(d) = d
    BY DEF OriginOf
  <2>2. d = c \/ d \in DOMAIN lists
    BY <1>1, <2>1
  <2>3. PICK s : s = bases_of[d]
    OBVIOUS
  <2>4. s \in Seq(ClassValue) /\ OriginsOf(s) \subseteq DOMAIN lists
    BY <2>2, <2>3
  <2>5. \A i \in 1 .. Len(s) : s[i] \in Range(s) /\ s[i] \in ClassValue
    BY <2>4 DEF Range
  <2>6. Range(s) \subseteq inherited
    BY <2>3 DEF NamedBases
  <2>7. \A i \in 1 .. Len(s) : s[i] \in P
    BY <1>1, <2>4, <2>5, <2>6 DEF OriginsOf
  <2>8. s \in Seq(P)
    BY <2>4, <2>7
  <2> QED BY <2>3, <2>8
<1>4. classes \in Seq(P)
  <2>1. PICK list : /\ Visits(bases_of, c, P, list)
                    /\ classes = list[Cardinality(NamedBases(bases_of)) + 1]
    BY <1>2, <1>3, BreadthFirstVisits
  <2>2. Cardinality(NamedBases(bases_of)) + 1 \in Nat
    BY NamedBasesFinite
  <2> QED BY <2>1, <2>2 DEF Visits, NonEmptyList
<1>5. Range(classes) \subseteq P /\ classes \in Seq(ClassValue)
  BY <1>2, <1>4 DEF Range
<1> QED BY <1>1, <1>5

LEMMA ListsFinalizingSound ==
  ASSUME NEW lists, NEW before, ListsAreSound(lists, before),
         NEW bases_of, NEW c, MayFinalize(lists, bases_of, c),
         before \subseteq NamedBases(bases_of),
         NEW after, after = ListsFinalizing(lists, bases_of, c)
  PROVE  /\ ListsAreSound(after, NamedBases(bases_of))
         /\ DOMAIN lists \cup {c} \subseteq DOMAIN after
         /\ DOMAIN after \subseteq DOMAIN lists \cup {c} \cup OfFinalized(lists)
<1> PICK inherited : inherited = NamedBases(bases_of)
  OBVIOUS
<1> USE DEF MayFinalize
<1>1. PICK classes : classes = BreadthFirstClassList(bases_of, c)
  OBVIOUS
<1>2. /\ classes \in Seq(ClassValue)
      /\ \A v \in Range(classes) : v = c \/ (v \in inherited /\ OriginOf(v) \in DOMAIN lists)
  BY <1>1, ProgramClassList
<1>3. PICK constructed : constructed = {k \in Range(classes) : k \notin Class}
  OBVIOUS
<1>4. constructed \subseteq OfFinalized(lists)
  <2>1. SUFFICES ASSUME NEW k \in Range(classes), k \notin Class
                 PROVE  k \in OfFinalized(lists)
    BY <1>3
  <2>2. k \in ClassValue /\ OriginOf(k) \in DOMAIN lists
    BY <1>2, <2>1 DEF Range
  <2> QED BY <2>1, <2>2 DEF OfFinalized, OriginOf, ClassValue
<1>5. ListsAreSound(lists, inherited)
  <2>1. ASSUME NEW d \in DOMAIN lists
        PROVE  ListIsSound(lists, inherited, d)
    BY DEF ListsAreSound, ListIsSound
  <2> QED BY <2>1 DEF ListsAreSound
<1>6. PICK others : others = FinalizeMissing(lists, constructed)
  OBVIOUS
<1>7. /\ ListsAreSound(others, inherited)
       /\ DOMAIN lists \subseteq DOMAIN others
       /\ DOMAIN others \subseteq DOMAIN lists \cup OfFinalized(lists)
  BY <1>4, <1>5, <1>6, FinalizeMissingSound
<1>8. after = SetClassList(others, c, classes)
  BY <1>1, <1>3, <1>6 DEF ListsFinalizing
<1>9. c \notin DOMAIN others
  <2>1. c \notin ConstructedClass
    BY ClassAssumption
  <2> QED BY <1>7, <2>1 DEF OfFinalized
<1>10. DOMAIN after = DOMAIN others \cup {c} /\ c \in ClassValue
  BY <1>8 DEF SetClassList, ClassValue
<1>11. ASSUME NEW d \in DOMAIN after
       PROVE  ListIsSound(after, inherited, d)
  <2>1. CASE d # c
    <3>1. d \in DOMAIN others /\ after[d] = others[d]
      BY <1>8, <1>10, <2>1 DEF SetClassList
    <3>2. ListIsSound(others, inherited, d)
      BY <1>7, <3>1 DEF ListsAreSound
    <3> QED BY <1>10, <3>1, <3>2 DEF ListIsSound
  <2>2. CASE d = c
    <3>1. after[d] = classes
      BY <1>8, <1>9, <1>10, <2>2 DEF SetClassList
    <3>2. classes \in Seq(ClassValue)
      BY <1>2
    <3>3. \A v \in Range(classes) : v = c \/ (v \in inherited /\ OriginOf(v) \in DOMAIN after)
      BY <1>2, <1>7, <1>10
    <3> QED BY <2>2, <3>1, <3>2, <3>3 DEF ListIsSound
  <2> QED BY <2>1, <2>2
<1> QED BY <1>7, <1>10, <1>11 DEF ListsAreSound

-----------------------------------------------------------------------------
(* Every class that a list names has a list. *)

NamesAreFinalized(lists) ==
  \A c \in DOMAIN lists : Range(lists[c]) \subseteq DOMAIN lists

(* Generic classes are finalized after the generic classes whose           *)
(* constructions they inherit: in that order, a generic class is ranked    *)
(* above what its list names.                                              *)
FinalizedGenerics(lists) == GenericClass \cap DOMAIN lists

RankedBelow(lists, rank, n) ==
  /\ rank \in [GenericClass -> Nat]
  /\ \A g \in FinalizedGenerics(lists) :
       /\ rank[g] < n
       /\ \A v \in Range(lists[g]) : v \notin Class => rank[v.generic_class] < rank[g]

AreRanked(lists) ==
  \E rank : RankedBelow(lists, rank, Cardinality(FinalizedGenerics(lists)))

CompleteLists(lists, inherited) ==
  ListsAreSound(lists, inherited) /\ NamesAreFinalized(lists) /\ AreRanked(lists)

LEMMA RankGoesDown ==
  ASSUME NEW lists, NEW inherited, CompleteLists(lists, inherited),
         NEW rank, NEW n, RankedBelow(lists, rank, n),
         NEW k \in ConstructedClass, NEW w \in Range(ConstructedClassList(lists, k)), w # k
  PROVE  /\ w \in Class => w \in DOMAIN lists
         /\ w \notin Class => rank[w.generic_class] < rank[k.generic_class]
<1>1. PICK g : g = k.generic_class
  OBVIOUS
<1>2. g \in GenericClass /\ k \in ConstructedClass
  BY <1>1 DEF ConstructedClass
<1>3. g \in DOMAIN lists /\ (w \notin Class => w \in ConstructedClass)
  BY <1>1, NewListMembers DEF CompleteLists
<1>4. PICK v \in Range(lists[g]) : /\ OriginOf(w) = OriginOf(v)
                                   /\ (v \in Class \/ w \in Class) => w = v
  BY <1>1, NewListMembers DEF CompleteLists
<1>5. CASE w \in Class
  BY <1>3, <1>4, <1>5 DEF CompleteLists, NamesAreFinalized
<1>6. CASE w \notin Class
  <2>1. v \notin Class /\ v.generic_class = w.generic_class
    BY <1>4, <1>6 DEF OriginOf
  <2>2. rank[v.generic_class] < rank[g]
    BY <1>2, <1>3, <1>4, <2>1 DEF RankedBelow, FinalizedGenerics
  <2> QED BY <1>1, <1>6, <2>1, <2>2
<1> QED BY <1>5, <1>6

(* Nothing that a list made on the way names is left out.  With every call *)
(* within another the rank goes down, so the calls end before the bound of *)
(* Constructions does.                                                     *)
Settled(lists, k, known) ==
  \A w \in Range(ConstructedClassList(lists, k)) :
    w \notin Class => w \in known \cup DOMAIN lists

LEMMA ConstructionsAreSettled ==
  ASSUME NEW lists, NEW inherited, CompleteLists(lists, inherited),
         NEW roots, roots \subseteq OfFinalized(lists),
         NEW new, new = Constructions(lists, roots)
  PROVE  roots \subseteq new /\ \A k \in new : Settled(lists, k, new)
<1>1. PICK size : size = Cardinality(GenericClass)
  OBVIOUS
<1>2. size \in Nat /\ Cardinality(FinalizedGenerics(lists)) \in Nat
      /\ Cardinality(FinalizedGenerics(lists)) <= size
  BY <1>1, ClassAssumption, FS_CardinalityType, FS_Subset DEF FinalizedGenerics
<1>3. PICK rank : RankedBelow(lists, rank, Cardinality(FinalizedGenerics(lists)))
  BY DEF CompleteLists, AreRanked
<1>4. PICK Q : Q = OfFinalized(lists)
  OBVIOUS
<1>5. ASSUME NEW k \in Q
      PROVE  rank[k.generic_class] \in Nat /\ rank[k.generic_class] < size
  <2>1. PICK g : g = k.generic_class
    OBVIOUS
  <2>2. g \in FinalizedGenerics(lists) /\ g \in GenericClass
    BY <1>4, <1>5, <2>1 DEF OfFinalized, FinalizedGenerics, ConstructedClass
  <2>3. rank[g] \in Nat /\ rank[g] < Cardinality(FinalizedGenerics(lists))
    BY <1>3, <2>2 DEF RankedBelow
  <2> QED BY <1>2, <2>1, <2>3
<1>6. ASSUME NEW k \in Q, NEW w \in Range(ConstructedClassList(lists, k)), w \notin Class
      PROVE  w \in Q /\ (w # k => rank[w.generic_class] < rank[k.generic_class])
  <2>1. k \in ConstructedClass /\ ListsAreSound(lists, inherited)
    BY <1>4 DEF OfFinalized, CompleteLists
  <2>2. w # k => w \in Q
    BY <1>4, <1>6, <2>1, NewListIsSound
  <2> QED BY <1>3, <1>6, <2>1, <2>2, RankGoesDown
<1>7. Q \subseteq ConstructedClass /\ roots \subseteq Q
  BY <1>4 DEF OfFinalized
<1>8. PICK reached : Reached(lists, roots, Q, reached) /\ new = reached[size]
  BY <1>1, <1>6, <1>7, ConstructionsAreReached
<1>9. PICK T : T = {n \in Nat : /\ roots \subseteq reached[n]
                                /\ \A k \in reached[n] : \/ Settled(lists, k, reached[n])
                                                         \/ rank[k.generic_class] + n < size}
  OBVIOUS
<1>10. \A n \in Nat : reached[n] \subseteq Q
  BY <1>8 DEF Reached
<1>11. 0 \in T
  <2>1. reached[0] = roots /\ reached[0] \subseteq Q
    BY <1>8, <1>10 DEF Reached
  <2> QED BY <1>5, <1>9, <2>1
<1>12. ASSUME NEW n \in Nat, n \in T
       PROVE  n + 1 \in T
  <2>1. reached[n + 1] = Grown(lists, reached[n])
    BY <1>8 DEF Reached
  <2>2. reached[n] \subseteq reached[n + 1]
    BY <2>1 DEF Grown
  <2>3. ASSUME NEW k \in reached[n]
        PROVE  Settled(lists, k, reached[n + 1])
    BY <2>1 DEF Grown, Settled
  <2>4. ASSUME NEW w \in reached[n + 1], w \notin reached[n]
        PROVE  rank[w.generic_class] + (n + 1) < size
    <3>1. PICK k \in reached[n] : w \in Range(ConstructedClassList(lists, k))
      BY <2>1, <2>4 DEF Grown
    <3>2. w \notin Class /\ w \notin DOMAIN lists
      BY <2>1, <2>4 DEF Grown
    <3>3. ~ Settled(lists, k, reached[n])
      BY <2>4, <3>1, <3>2 DEF Settled
    <3>4. rank[k.generic_class] + n < size
      BY <1>9, <1>12, <3>3
    <3>5. k \in Q /\ w \in Q /\ w # k
      BY <1>10, <2>4
    <3>6. rank[w.generic_class] < rank[k.generic_class]
      BY <1>6, <3>1, <3>2, <3>5
    <3>7. rank[w.generic_class] \in Nat /\ rank[k.generic_class] \in Nat
      BY <1>5, <3>5
    <3> QED BY <1>2, <3>4, <3>6, <3>7
  <2>5. roots \subseteq reached[n + 1]
    BY <1>9, <1>12, <2>2
  <2>6. \A k \in reached[n + 1] : \/ Settled(lists, k, reached[n + 1])
                                  \/ rank[k.generic_class] + (n + 1) < size
    BY <2>3, <2>4
  <2> QED BY <1>9, <2>5, <2>6
<1>13. \A n \in Nat : n \in T
  BY <1>11, <1>12, SetInduction
<1>14. size \in T
  BY <1>2, <1>13
<1>15. ASSUME NEW k \in reached[size]
       PROVE  ~ (rank[k.generic_class] + size < size)
  <2>1. k \in Q
    BY <1>2, <1>10
  <2> QED BY <1>2, <1>5, <2>1
<1> QED BY <1>8, <1>9, <1>14, <1>15

LEMMA RankingKept ==
  ASSUME NEW lists, NEW after,
         AreRanked(lists), FinalizedGenerics(after) = FinalizedGenerics(lists),
         \A g \in FinalizedGenerics(lists) : after[g] = lists[g]
  PROVE  AreRanked(after)
<1>1. PICK rank : RankedBelow(lists, rank, Cardinality(FinalizedGenerics(lists)))
  BY DEF AreRanked
<1>2. RankedBelow(after, rank, Cardinality(FinalizedGenerics(after)))
  BY <1>1 DEF RankedBelow
<1> QED BY <1>2 DEF AreRanked

LEMMA FinalizeMissingComplete ==
  ASSUME NEW lists, NEW inherited, CompleteLists(lists, inherited),
         NEW roots, roots \subseteq OfFinalized(lists),
         NEW after, after = FinalizeMissing(lists, roots)
  PROVE  CompleteLists(after, inherited) /\ roots \subseteq DOMAIN after
<1>1. PICK new : new = Constructions(lists, roots \ DOMAIN lists)
  OBVIOUS
<1>2. /\ roots \ DOMAIN lists \subseteq new
      /\ \A k \in new : Settled(lists, k, new)
  BY <1>1, ConstructionsAreSettled
<1>3. ListsAreSound(lists, inherited)
  BY DEF CompleteLists
<1>4. new \subseteq OfFinalized(lists)
  BY <1>1, <1>3, ConstructionsAreOfFinalized
<1>5. after = [c \in DOMAIN lists \cup new |->
                 IF c \in DOMAIN lists THEN lists[c] ELSE ConstructedClassList(lists, c)]
  BY <1>1 DEF FinalizeMissing
<1>6. DOMAIN after = DOMAIN lists \cup new
  BY <1>5
<1>7. ListsAreSound(after, inherited)
  BY <1>3, FinalizeMissingSound
<1>8. PICK rank : RankedBelow(lists, rank, Cardinality(FinalizedGenerics(lists)))
  BY DEF CompleteLists, AreRanked
<1>9. ASSUME NEW c \in DOMAIN after, NEW w \in Range(after[c])
      PROVE  w \in DOMAIN after
  <2>1. CASE c \in DOMAIN lists
    <3>1. after[c] = lists[c]
      BY <1>5, <2>1
    <3> QED BY <1>6, <1>9, <2>1, <3>1 DEF CompleteLists, NamesAreFinalized
  <2>2. CASE c \notin DOMAIN lists
    <3>1. c \in new /\ c \in ConstructedClass /\ after[c] = ConstructedClassList(lists, c)
      BY <1>4, <1>5, <1>6, <2>2 DEF OfFinalized
    <3>2. w = c \/ (w \in Class => w \in DOMAIN lists)
      BY <1>8, <1>9, <3>1, RankGoesDown
    <3>3. w \notin Class => w \in new \cup DOMAIN lists
      BY <1>2, <1>9, <3>1 DEF Settled
    <3> QED BY <1>6, <3>1, <3>2, <3>3
  <2> QED BY <2>1, <2>2
<1>10. \A c \in new : c \notin GenericClass
  BY <1>4, ClassAssumption DEF OfFinalized, Class
<1>11. /\ FinalizedGenerics(after) = FinalizedGenerics(lists)
       /\ \A g \in FinalizedGenerics(lists) : after[g] = lists[g]
  BY <1>5, <1>6, <1>10 DEF FinalizedGenerics
<1>12. AreRanked(after)
  BY <1>11, RankingKept DEF CompleteLists
<1> QED BY <1>2, <1>6, <1>7, <1>9, <1>12 DEF CompleteLists, NamesAreFinalized

LEMMA FinalizeConstructedClassComplete ==
  ASSUME NEW lists, NEW inherited, CompleteLists(lists, inherited),
         NEW k \in ConstructedClass,
         NEW after, after = FinalizeConstructedClass(lists, k)
  PROVE  CompleteLists(after, inherited)
<1>1. PICK classes : classes = ConstructedClassList(lists, k)
  OBVIOUS
<1>2. PICK named : named = {c \in Range(classes) : c \notin Class /\ c # k}
  OBVIOUS
<1>3. PICK others : others = FinalizeMissing(lists, named)
  OBVIOUS
<1>4. ListsAreSound(lists, inherited)
  BY DEF CompleteLists
<1>5. named \subseteq OfFinalized(lists)
  BY <1>1, <1>2, <1>4, NewListIsSound
<1>6. /\ CompleteLists(others, inherited)
      /\ named \subseteq DOMAIN others
      /\ DOMAIN lists \subseteq DOMAIN others
  BY <1>3, <1>4, <1>5, FinalizeMissingComplete, FinalizeMissingSound
<1>7. after = SetClassList(others, k, classes)
  BY <1>1, <1>2, <1>3 DEF FinalizeConstructedClass
<1>8. DOMAIN after = DOMAIN others \cup {k} /\ k \notin Class
  BY <1>7, ClassAssumption DEF SetClassList
<1>9. PICK rank : RankedBelow(lists, rank, Cardinality(FinalizedGenerics(lists)))
  BY DEF CompleteLists, AreRanked
<1>10. Range(classes) \subseteq DOMAIN after
  <2>1. \A w \in Range(classes) : w = k \/ (w \in Class => w \in DOMAIN lists)
    BY <1>1, <1>9, RankGoesDown
  <2> QED BY <1>2, <1>6, <1>8, <2>1
<1>11. ASSUME NEW c \in DOMAIN others
       PROVE  Range(others[c]) \subseteq DOMAIN after
  BY <1>6, <1>8 DEF CompleteLists, NamesAreFinalized
<1>12. ASSUME NEW c \in DOMAIN after
       PROVE  Range(after[c]) \subseteq DOMAIN after
  <2>1. CASE c # k
    <3>1. c \in DOMAIN others /\ after[c] = others[c]
      BY <1>7, <1>8, <2>1 DEF SetClassList
    <3> QED BY <1>11, <3>1
  <2>2. CASE c = k /\ k \notin DOMAIN others
    <3>1. after[c] = classes
      BY <1>7, <1>8, <2>2 DEF SetClassList
    <3> QED BY <1>10, <3>1
  <2>3. CASE c = k /\ k \in DOMAIN others
    <3>1. PICK old : old = others[k]
      OBVIOUS
    <3>2. after[c] = classes \o old
      BY <1>7, <1>8, <2>3, <3>1 DEF SetClassList
    <3>3. old \in Seq(ClassValue) /\ classes \in Seq(ClassValue)
      BY <1>1, <1>4, <1>6, <2>3, <3>1, NewListIsSound
      DEF CompleteLists, ListsAreSound, ListIsSound
    <3>4. Range(classes \o old) \subseteq Range(classes) \cup Range(old)
      BY <3>3 DEF Range
    <3> QED BY <1>10, <1>11, <2>3, <3>1, <3>2, <3>4
  <2> QED BY <1>8, <2>1, <2>2, <2>3
<1>13. /\ FinalizedGenerics(after) = FinalizedGenerics(others)
       /\ \A g \in FinalizedGenerics(others) : after[g] = others[g]
  BY <1>7, <1>8 DEF FinalizedGenerics, SetClassList, Class
<1>14. AreRanked(after)
  BY <1>6, <1>13, RankingKept DEF CompleteLists
<1>15. ListsAreSound(after, inherited)
  BY <1>4, FinalizeConstructedClassSound
<1> QED BY <1>12, <1>14, <1>15 DEF CompleteLists, NamesAreFinalized

(* A generic class finalized last is ranked above all others.              *)
LEMMA LastIsRankedHighest ==
  ASSUME NEW lists, NEW inherited, ListsAreSound(lists, inherited), AreRanked(lists),
         NEW c \in Class, c \notin DOMAIN lists,
         NEW after, FinalizedGenerics(after) = FinalizedGenerics(lists) \cup ({c} \cap GenericClass),
         \A g \in FinalizedGenerics(lists) : after[g] = lists[g],
         \A v \in Range(after[c]) :
           v \notin Class => v \in ConstructedClass /\ v.generic_class \in DOMAIN lists
  PROVE  AreRanked(after)
<1>1. CASE c \notin GenericClass
  <2>1. FinalizedGenerics(after) = FinalizedGenerics(lists)
    BY <1>1
  <2> QED BY <2>1, RankingKept
<1>2. CASE c \in GenericClass
  <2>1. PICK n : n = Cardinality(FinalizedGenerics(lists))
    OBVIOUS
  <2>2. PICK rank : RankedBelow(lists, rank, n)
    BY <2>1 DEF AreRanked
  <2>3. PICK higher : higher = [rank EXCEPT ![c] = n]
    OBVIOUS
  <2>4. IsFiniteSet(FinalizedGenerics(lists)) /\ c \notin FinalizedGenerics(lists)
    BY ClassAssumption, FS_Subset DEF FinalizedGenerics
  <2>5. n \in Nat /\ Cardinality(FinalizedGenerics(after)) = n + 1
    <3>1. FinalizedGenerics(after) = FinalizedGenerics(lists) \cup {c}
      BY <1>2
    <3> QED BY <2>1, <2>4, <3>1, FS_CardinalityType, FS_AddElement
  <2>6. /\ higher \in [GenericClass -> Nat]
        /\ higher[c] = n
        /\ \A g \in GenericClass : g # c => higher[g] = rank[g]
    BY <1>2, <2>2, <2>3, <2>5 DEF RankedBelow
  <2>7. ASSUME NEW g \in FinalizedGenerics(lists)
        PROVE  /\ g # c /\ g \in GenericClass
               /\ higher[g] = rank[g] /\ higher[g] < n
    BY <2>2, <2>4, <2>6 DEF RankedBelow, FinalizedGenerics
  <2>8. ASSUME NEW g \in FinalizedGenerics(lists), NEW v \in Range(after[g]), v \notin Class
        PROVE  higher[v.generic_class] < higher[g]
    <3>1. g \in DOMAIN lists /\ g \in Class /\ v \in Range(lists[g])
      BY <2>8 DEF FinalizedGenerics, Class
    <3>2. v \in ClassValue /\ OriginOf(v) \in DOMAIN lists
      BY <2>8, <3>1 DEF ListsAreSound, ListIsSound, Range
    <3>3. v.generic_class \in FinalizedGenerics(lists)
      BY <2>8, <3>2 DEF ClassValue, ConstructedClass, OriginOf, FinalizedGenerics
    <3>4. rank[v.generic_class] < rank[g]
      BY <2>2, <2>8, <3>1 DEF RankedBelow
    <3> QED BY <2>7, <3>3, <3>4
  <2>9. ASSUME NEW v \in Range(after[c]), v \notin Class
        PROVE  higher[v.generic_class] < higher[c]
    <3>1. v.generic_class \in FinalizedGenerics(lists)
      BY <2>9 DEF ConstructedClass, FinalizedGenerics
    <3> QED BY <2>6, <2>7, <3>1
  <2>10. \A g \in FinalizedGenerics(after) : higher[g] < n + 1
    BY <1>2, <2>5, <2>6, <2>7
  <2>11. RankedBelow(after, higher, n + 1)
    BY <1>2, <2>6, <2>8, <2>9, <2>10 DEF RankedBelow
  <2> QED BY <2>5, <2>11 DEF AreRanked
<1> QED BY <1>1, <1>2

LEMMA ListsFinalizingComplete ==
  ASSUME NEW lists, NEW before, CompleteLists(lists, before),
         NEW bases_of, NEW c, MayFinalize(lists, bases_of, c),
         before \subseteq NamedBases(bases_of),
         NEW after, after = ListsFinalizing(lists, bases_of, c)
  PROVE  CompleteLists(after, NamedBases(bases_of))
<1> PICK inherited : inherited = NamedBases(bases_of)
  OBVIOUS
<1> USE DEF MayFinalize
<1>1. PICK classes : classes = BreadthFirstClassList(bases_of, c)
  OBVIOUS
<1>2. PICK constructed : constructed = {k \in Range(classes) : k \notin Class}
  OBVIOUS
<1>3. PICK others : others = FinalizeMissing(lists, constructed)
  OBVIOUS
<1>4. ListsAreSound(lists, before)
  BY DEF CompleteLists
<1>5. /\ classes \in Seq(ClassValue)
      /\ \A v \in Range(classes) : v = c \/ OriginOf(v) \in DOMAIN lists
  BY <1>1, ProgramClassList
<1>6. ASSUME NEW v \in Range(classes), v \notin Class
      PROVE  v \in ConstructedClass /\ v.generic_class \in DOMAIN lists
  <2>1. v \in ClassValue
    BY <1>5 DEF Range
  <2> QED BY <1>5, <1>6, <2>1 DEF ClassValue, OriginOf
<1>7. constructed \subseteq OfFinalized(lists)
  BY <1>2, <1>6 DEF OfFinalized
<1>8. /\ CompleteLists(others, before)
      /\ constructed \subseteq DOMAIN others
      /\ DOMAIN lists \subseteq DOMAIN others
      /\ DOMAIN others \subseteq DOMAIN lists \cup OfFinalized(lists)
  BY <1>3, <1>4, <1>7, FinalizeMissingComplete, FinalizeMissingSound
<1>9. after = SetClassList(others, c, classes)
  BY <1>1, <1>2, <1>3 DEF ListsFinalizing
<1>10. \A k \in OfFinalized(lists) : k \notin Class
  BY ClassAssumption DEF OfFinalized
<1>11. c \notin DOMAIN others
  BY <1>8, <1>10
<1>12. /\ DOMAIN after = DOMAIN others \cup {c}
       /\ after[c] = classes
       /\ \A d \in DOMAIN others : after[d] = others[d]
  BY <1>9, <1>11 DEF SetClassList
<1>13. ASSUME NEW v \in Range(classes)
       PROVE  v \in DOMAIN after
  <2>1. CASE v \in Class
    BY <1>5, <1>8, <1>12, <2>1 DEF OriginOf
  <2>2. CASE v \notin Class
    BY <1>2, <1>8, <1>12, <2>2
  <2> QED BY <2>1, <2>2
<1>14. NamesAreFinalized(after)
  <2>1. NamesAreFinalized(others)
    BY <1>8 DEF CompleteLists
  <2> QED BY <1>12, <1>13, <2>1 DEF NamesAreFinalized
<1>15. AreRanked(after)
  <2>1. AreRanked(others) /\ ListsAreSound(others, before)
    BY <1>8 DEF CompleteLists
  <2>2. FinalizedGenerics(after) = FinalizedGenerics(others) \cup ({c} \cap GenericClass)
    BY <1>12 DEF FinalizedGenerics
  <2>3. \A g \in FinalizedGenerics(others) : after[g] = others[g]
    BY <1>12 DEF FinalizedGenerics
  <2>4. \A v \in Range(after[c]) :
          v \notin Class => v \in ConstructedClass /\ v.generic_class \in DOMAIN others
    BY <1>6, <1>8, <1>12
  <2> QED BY <1>11, <2>1, <2>2, <2>3, <2>4, LastIsRankedHighest
<1>16. ListsAreSound(after, inherited)
  BY <1>4, ListsFinalizingSound
<1> QED BY <1>14, <1>15, <1>16 DEF CompleteLists

-----------------------------------------------------------------------------
(* The list of a class of the program is in breadth-first order. *)

BasesOf(bases_of, d) == Range(BaseClassesOf(bases_of, d))

(* Every class of the list but the first is a base of one before it, one   *)
(* level below its own; levels do not go down along the list.              *)
Layers(bases_of, c, s, level) ==
  /\ s \in Seq(ClassValue) /\ s # <<>> /\ s[1] = c
  /\ level \in [1 .. Len(s) -> Nat] /\ level[1] = 0
  /\ \A i, j \in 1 .. Len(s) : s[i] = s[j] => i = j
  /\ \A i, j \in 1 .. Len(s) : i <= j => level[i] <= level[j]
  /\ \A i \in 2 .. Len(s) :
       \E j \in 1 .. Len(s) : /\ j < i
                              /\ s[i] \in BasesOf(bases_of, s[j])
                              /\ level[i] = level[j] + 1

Holds(s, level, b, n) == \E k \in 1 .. Len(s) : s[k] = b /\ level[k] <= n

(* The bases of the first n classes are on the list.                       *)
Expanded(bases_of, s, level, n) ==
  \A i \in 1 .. Len(s) :
    i <= n => \A b \in BasesOf(bases_of, s[i]) : Holds(s, level, b, level[i] + 1)

(* While the class at n is expanded no other is more than a level further. *)
Frontier(s, level, n) ==
  \A i \in 1 .. Len(s) : n <= Len(s) => level[i] <= level[n] + 1

Extends(s, level, t, further) ==
  /\ Len(s) <= Len(t)
  /\ \A i \in 1 .. Len(s) : t[i] = s[i] /\ further[i] = level[i]

Expanding(bases_of, c, s, level, n) ==
  /\ Layers(bases_of, c, s, level)
  /\ Expanded(bases_of, s, level, n - 1)
  /\ Frontier(s, level, n)

LEMMA HoldsFurther ==
  ASSUME NEW s, NEW level, NEW t, NEW further, Extends(s, level, t, further),
         Len(s) \in Nat, Len(t) \in Nat, NEW b, NEW n, Holds(s, level, b, n)
  PROVE  Holds(t, further, b, n)
<1>1. PICK k \in 1 .. Len(s) : s[k] = b /\ level[k] <= n
  BY DEF Holds
<1>2. k \in 1 .. Len(t) /\ t[k] = b /\ further[k] <= n
  BY <1>1 DEF Extends
<1> QED BY <1>2 DEF Holds

LEMMA AppendAbsentLayers ==
  ASSUME NEW bases_of, NEW c, NEW s, NEW level, NEW n \in 1 .. Len(s),
         Expanding(bases_of, c, s, level, n),
         NEW b \in BasesOf(bases_of, s[n]), b \in ClassValue, b # c,
         NEW t, t = AppendAbsent(s, b)
  PROVE  \E further : /\ Expanding(bases_of, c, t, further, n)
                      /\ Extends(s, level, t, further)
                      /\ Holds(t, further, b, level[n] + 1)
<1>1. /\ s \in Seq(ClassValue) /\ s # <<>> /\ s[1] = c /\ Len(s) \in Nat /\ Len(s) >= 1
      /\ level \in [1 .. Len(s) -> Nat] /\ level[1] = 0
  BY DEF Expanding, Layers
<1>2. Range(Tail(s)) = {s[i] : i \in 2 .. Len(s)}
  <2>1. Tail(s) \in Seq(ClassValue) /\ Len(Tail(s)) = Len(s) - 1
    BY <1>1
  <2>2. \A i \in 1 .. Len(s) - 1 : Tail(s)[i] = s[i + 1]
    BY <1>1
  <2>3. \A i \in 2 .. Len(s) : i - 1 \in 1 .. Len(s) - 1 /\ (i - 1) + 1 = i
    BY <1>1
  <2>4. PICK r : r = Tail(s)
    OBVIOUS
  <2>5. Range(r) = {r[i] : i \in 1 .. Len(s) - 1}
    <3>1. DOMAIN r = 1 .. Len(s) - 1
      BY <1>1, <2>1, <2>4
    <3> QED BY <3>1 DEF Range
  <2>6. ASSUME NEW i \in 1 .. Len(s) - 1
        PROVE  r[i] \in {s[j] : j \in 2 .. Len(s)}
    <3>1. i + 1 \in 2 .. Len(s)
      BY <1>1
    <3>2. r[i] = s[i + 1]
      BY <2>2, <2>4
    <3> QED BY <3>1, <3>2
  <2>7. ASSUME NEW j \in 2 .. Len(s)
        PROVE  s[j] \in Range(r)
    <3>1. j - 1 \in 1 .. Len(s) - 1 /\ r[j - 1] = s[j]
      BY <2>2, <2>3, <2>4
    <3> QED BY <2>5, <3>1
  <2>8. \A v \in Range(r) : v \in {s[j] : j \in 2 .. Len(s)}
    BY <2>5, <2>6
  <2> QED BY <2>4, <2>7, <2>8
<1>3. CASE b \in Range(Tail(s))
  <2>1. t = s
    BY <1>3 DEF AppendAbsent
  <2>2. PICK i \in 2 .. Len(s) : s[i] = b
    BY <1>2, <1>3
  <2>3. level[i] <= level[n] + 1
    BY <1>1, <2>2 DEF Expanding, Frontier
  <2>4. Holds(s, level, b, level[n] + 1)
    BY <1>1, <2>2, <2>3 DEF Holds
  <2>5. Extends(s, level, s, level)
    BY <1>1 DEF Extends
  <2> QED BY <2>1, <2>4, <2>5
<1>4. CASE b \notin Range(Tail(s))
  <2>1. t = Append(s, b)
    BY <1>4 DEF AppendAbsent
  <2>2. /\ t \in Seq(ClassValue) /\ Len(t) = Len(s) + 1 /\ t # <<>>
        /\ t[Len(t)] = b /\ \A i \in 1 .. Len(s) : t[i] = s[i]
    BY <1>1, <2>1
  <2>3. PICK m : m = level[n] + 1
    OBVIOUS
  <2>4. m \in Nat
    BY <1>1, <2>3
  <2>5. PICK further : further = [i \in 1 .. Len(t) |-> IF i = Len(t) THEN m ELSE level[i]]
    OBVIOUS
  <2>6. /\ further \in [1 .. Len(t) -> Nat] /\ further[Len(t)] = m
        /\ \A i \in 1 .. Len(s) : further[i] = level[i]
    BY <1>1, <2>2, <2>4, <2>5
  <2>7. Extends(s, level, t, further)
    BY <1>1, <2>2, <2>6 DEF Extends
  <2>8. Holds(t, further, b, m)
    BY <1>1, <2>2, <2>4, <2>6 DEF Holds
  <2>9. \A i \in 1 .. Len(s) : s[i] # b
    BY <1>1, <1>2, <1>4
  <2>10. \A i \in 1 .. Len(t) : i = Len(t) \/ i \in 1 .. Len(s)
    BY <1>1, <2>2
  <2>11. \A i, j \in 1 .. Len(t) : t[i] = t[j] => i = j
    <3>1. \A i, j \in 1 .. Len(s) : s[i] = s[j] => i = j
      BY DEF Expanding, Layers
    <3> QED BY <2>2, <2>9, <2>10, <3>1
  <2>12. \A i \in 1 .. Len(s) : level[i] <= m
    BY <1>1, <2>3 DEF Expanding, Frontier
  <2>13. \A i, j \in 1 .. Len(t) : i <= j => further[i] <= further[j]
    <3>1. \A i, j \in 1 .. Len(s) : i <= j => level[i] <= level[j]
      BY DEF Expanding, Layers
    <3>2. SUFFICES ASSUME NEW i \in 1 .. Len(t), NEW j \in 1 .. Len(t), i <= j
                   PROVE  further[i] <= further[j]
      OBVIOUS
    <3>3. CASE j = Len(t)
      BY <2>4, <2>6, <2>10, <2>12, <3>3
    <3>4. CASE j # Len(t)
      <4>1. j \in 1 .. Len(s) /\ i \in 1 .. Len(s)
        BY <1>1, <2>2, <3>2, <3>4
      <4> QED BY <2>6, <3>1, <3>2, <4>1
    <3> QED BY <3>3, <3>4
  <2>14. ASSUME NEW i \in 2 .. Len(t)
         PROVE  \E j \in 1 .. Len(t) : /\ j < i
                                       /\ t[i] \in BasesOf(bases_of, t[j])
                                       /\ further[i] = further[j] + 1
    <3>1. CASE i = Len(t)
      <4>1. n \in 1 .. Len(t) /\ n < i
        BY <1>1, <2>2, <3>1
      <4>2. t[n] = s[n] /\ further[n] = level[n]
        BY <2>2, <2>6
      <4> QED BY <2>2, <2>3, <2>6, <3>1, <4>1, <4>2
    <3>2. CASE i # Len(t)
      <4>1. i \in 2 .. Len(s)
        BY <1>1, <2>2, <3>2
      <4>2. PICK j \in 1 .. Len(s) : /\ j < i
                                     /\ s[i] \in BasesOf(bases_of, s[j])
                                     /\ level[i] = level[j] + 1
        BY <4>1 DEF Expanding, Layers
      <4>3. i \in 1 .. Len(s) /\ j \in 1 .. Len(t)
        BY <1>1, <2>2, <4>1
      <4>4. t[i] = s[i] /\ t[j] = s[j] /\ further[i] = level[i] /\ further[j] = level[j]
        BY <2>2, <2>6, <4>3
      <4> QED BY <4>2, <4>3, <4>4
    <3> QED BY <3>1, <3>2
  <2>15. t[1] = c /\ further[1] = 0
    BY <1>1, <2>2, <2>6
  <2>16. Layers(bases_of, c, t, further)
    BY <2>2, <2>6, <2>11, <2>13, <2>14, <2>15 DEF Layers
  <2>17. Expanded(bases_of, t, further, n - 1)
    <3>1. SUFFICES ASSUME NEW i \in 1 .. Len(t), i <= n - 1,
                          NEW a \in BasesOf(bases_of, t[i])
                   PROVE  Holds(t, further, a, further[i] + 1)
      BY DEF Expanded
    <3>2. i \in 1 .. Len(s)
      BY <1>1, <2>2, <3>1
    <3>3. t[i] = s[i] /\ further[i] = level[i]
      BY <2>2, <2>6, <3>2
    <3>4. Holds(s, level, a, level[i] + 1)
      BY <3>1, <3>2, <3>3 DEF Expanding, Expanded
    <3> QED BY <1>1, <2>2, <2>7, <3>3, <3>4, HoldsFurther
  <2>18. Frontier(t, further, n)
    <3>1. further[n] + 1 = m
      BY <2>3, <2>6
    <3> QED BY <2>4, <2>6, <2>10, <2>12, <3>1 DEF Frontier
  <2> QED BY <2>3, <2>7, <2>8, <2>16, <2>17, <2>18 DEF Expanding
<1> QED BY <1>3, <1>4

LEMMA ExtendsIsTransitive ==
  ASSUME NEW s, NEW level, NEW t, NEW further, Extends(s, level, t, further),
         NEW u, NEW last, Extends(t, further, u, last),
         Len(s) \in Nat, Len(t) \in Nat, Len(u) \in Nat
  PROVE  Extends(s, level, u, last)
<1>1. \A i \in 1 .. Len(s) : i \in 1 .. Len(t)
  BY DEF Extends
<1> QED BY <1>1 DEF Extends

(* The loop over the bases of the class at n puts them all on the list.    *)
LEMMA AppendAllAbsentLayers ==
  ASSUME NEW bases_of, NEW c, NEW s, NEW level, NEW n \in 1 .. Len(s),
         Expanding(bases_of, c, s, level, n),
         BaseClassesOf(bases_of, s[n]) \in Seq(ClassValue),
         c \notin BasesOf(bases_of, s[n]),
         NEW t, t = AppendAllAbsent(s, BaseClassesOf(bases_of, s[n]))
  PROVE  \E further : /\ Layers(bases_of, c, t, further)
                      /\ Expanded(bases_of, t, further, n)
                      /\ Frontier(t, further, n)
                      /\ Len(s) <= Len(t)
<1>1. s \in NonEmptyList(ClassValue) /\ Len(s) \in Nat
  BY DEF Expanding, Layers, NonEmptyList
<1>2. PICK bases : bases = BaseClassesOf(bases_of, s[n])
  OBVIOUS
<1>3. PICK m : m = Len(bases)
  OBVIOUS
<1>4. m \in Nat /\ bases \in Seq(ClassValue) /\ BasesOf(bases_of, s[n]) = Range(bases)
  BY <1>2, <1>3 DEF BasesOf
<1>5. Range(bases) = {bases[j] : j \in 1 .. m}
  BY <1>3, <1>4 DEF Range
<1>6. PICK list : AddsBases(ClassValue, s, bases, list) /\ t = list[m]
  BY <1>1, <1>2, <1>3, <1>4, AppendAllAbsentAdds
<1>7. \A i \in 0 .. m : list[i] \in Seq(ClassValue) /\ Len(list[i]) \in Nat
  BY <1>3, <1>6 DEF AddsBases, NonEmptyList
<1> DEFINE Added(i, further) ==
             /\ Expanding(bases_of, c, list[i], further, n)
             /\ Extends(s, level, list[i], further)
             /\ \A j \in 1 .. i : Holds(list[i], further, bases[j], level[n] + 1)
           T == {i \in Nat : i <= m => \E further : Added(i, further)}
<1>8. 0 \in T
  <2>1. list[0] = s
    BY <1>6 DEF AddsBases
  <2>2. Extends(s, level, s, level)
    BY <1>1 DEF Extends
  <2>3. Added(0, level)
    BY <2>1, <2>2
  <2> QED BY <2>3
<1>9. ASSUME NEW i \in Nat, i \in T
      PROVE  i + 1 \in T
  <2>1. SUFFICES ASSUME i + 1 <= m
                 PROVE  \E further : Added(i + 1, further)
    OBVIOUS
  <2>2. i \in 0 .. m /\ i + 1 \in 1 .. m /\ i + 1 \in 0 .. m /\ (i + 1) - 1 = i
    BY <1>4, <2>1
  <2>3. PICK further : Added(i, further)
    BY <1>4, <1>9, <2>1
  <2>4. PICK u : u = list[i]
    OBVIOUS
  <2>5. PICK b : b = bases[i + 1]
    OBVIOUS
  <2>6. list[i + 1] = AppendAbsent(u, b)
    BY <1>3, <1>6, <2>2, <2>4, <2>5 DEF AddsBases
  <2>7. n \in 1 .. Len(u) /\ u[n] = s[n] /\ further[n] = level[n]
    BY <1>1, <1>7, <2>2, <2>3, <2>4 DEF Extends
  <2>8. b \in BasesOf(bases_of, u[n]) /\ b \in ClassValue /\ b # c
    BY <1>3, <1>4, <1>5, <2>2, <2>5, <2>7
  <2>9. PICK last : /\ Expanding(bases_of, c, list[i + 1], last, n)
                    /\ Extends(u, further, list[i + 1], last)
                    /\ Holds(list[i + 1], last, b, level[n] + 1)
    BY <2>3, <2>4, <2>6, <2>7, <2>8, AppendAbsentLayers
  <2>10. Extends(s, level, list[i + 1], last)
    BY <1>1, <1>7, <2>2, <2>3, <2>4, <2>9, ExtendsIsTransitive
  <2>11. ASSUME NEW j \in 1 .. i + 1
         PROVE  Holds(list[i + 1], last, bases[j], level[n] + 1)
    <3>1. CASE j = i + 1
      BY <2>5, <2>9, <3>1
    <3>2. CASE j # i + 1
      <4>1. j \in 1 .. i
        BY <3>2
      <4>2. Holds(u, further, bases[j], level[n] + 1)
        BY <2>3, <2>4, <4>1
      <4> QED BY <1>7, <2>2, <2>4, <2>9, <4>2, HoldsFurther
    <3> QED BY <3>1, <3>2
  <2>12. Added(i + 1, last)
    BY <2>9, <2>10, <2>11
  <2> QED BY <2>12
<1> HIDE DEF T
<1>10. \A i \in Nat : i \in T
  BY <1>8, <1>9, SetInduction
<1>11. PICK further : Added(m, further)
  <2>1. m \in T
    BY <1>4, <1>10
  <2> QED BY <1>4, <2>1 DEF T
<1>12. Len(t) \in Nat /\ Len(s) <= Len(t) /\ t[n] = s[n] /\ further[n] = level[n]
  BY <1>1, <1>4, <1>6, <1>7, <1>11 DEF Extends
<1>13. ASSUME NEW i \in 1 .. Len(t), i <= n, NEW b \in BasesOf(bases_of, t[i])
       PROVE  Holds(t, further, b, further[i] + 1)
  <2>1. CASE i <= n - 1
    BY <1>6, <1>11, <1>13, <2>1 DEF Expanding, Expanded
  <2>2. CASE i = n
    <3>1. PICK j \in 1 .. m : bases[j] = b
      BY <1>4, <1>5, <1>12, <1>13, <2>2
    <3> QED BY <1>6, <1>11, <1>12, <2>2, <3>1
  <2> QED BY <1>1, <1>13, <2>1, <2>2
<1>14. Layers(bases_of, c, t, further) /\ Frontier(t, further, n)
  BY <1>6, <1>11 DEF Expanding
<1>15. Expanded(bases_of, t, further, n)
  BY <1>13 DEF Expanded
<1> QED BY <1>12, <1>14, <1>15

(* After n turns of the outer loop. *)
Searched(bases_of, c, s, level, n) ==
  /\ Layers(bases_of, c, s, level)
  /\ Expanded(bases_of, s, level, n)
  /\ IF n = 0 THEN Len(s) = 1 ELSE Frontier(s, level, n)

LEMMA VisitLayers ==
  ASSUME NEW bases_of, NEW c, NEW s, NEW level, NEW n \in Nat,
         Searched(bases_of, c, s, level, n),
         n + 1 <= Len(s) =>
           /\ BaseClassesOf(bases_of, s[n + 1]) \in Seq(ClassValue)
           /\ c \notin BasesOf(bases_of, s[n + 1]),
         NEW t, t = Visit(bases_of, n + 1, s)
  PROVE  \E further : Searched(bases_of, c, t, further, n + 1)
<1>1. s \in Seq(ClassValue) /\ Len(s) \in Nat /\ level \in [1 .. Len(s) -> Nat]
  BY DEF Searched, Layers
<1>2. CASE n + 1 > Len(s)
  <2>1. t = s
    BY <1>2 DEF Visit
  <2>2. Expanded(bases_of, s, level, n + 1)
    <3>1. \A i \in 1 .. Len(s) : i <= n
      BY <1>1, <1>2
    <3> QED BY <3>1 DEF Searched, Expanded
  <2>3. Frontier(s, level, n + 1) /\ n + 1 # 0
    BY <1>1, <1>2 DEF Frontier
  <2> QED BY <2>1, <2>2, <2>3 DEF Searched
<1>3. CASE ~ (n + 1 > Len(s))
  <2>1. n + 1 \in 1 .. Len(s) /\ n + 1 <= Len(s) /\ n + 1 # 0 /\ (n + 1) - 1 = n
    BY <1>1, <1>3
  <2>2. t = AppendAllAbsent(s, BaseClassesOf(bases_of, s[n + 1]))
    BY <1>3 DEF Visit
  <2>3. Frontier(s, level, n + 1)
    <3>1. SUFFICES ASSUME NEW i \in 1 .. Len(s)
                   PROVE  level[i] <= level[n + 1] + 1
      BY DEF Frontier
    <3>2. level[i] \in Nat /\ level[n + 1] \in Nat
      BY <1>1, <2>1
    <3>3. CASE n = 0
      <4>1. Len(s) = 1
        BY <3>3 DEF Searched
      <4>2. i = n + 1
        BY <3>1, <3>3, <4>1
      <4> QED BY <3>2, <4>2
    <3>4. CASE n # 0
      <4>1. n \in 1 .. Len(s) /\ n <= Len(s)
        BY <1>1, <2>1, <3>4
      <4>2. level[i] <= level[n] + 1
        BY <3>4, <4>1 DEF Searched, Frontier
      <4>3. level[n] <= level[n + 1]
        BY <2>1, <4>1 DEF Searched, Layers
      <4>4. level[n] \in Nat
        BY <1>1, <4>1
      <4> QED BY <3>2, <4>2, <4>3, <4>4
    <3> QED BY <3>3, <3>4
  <2>4. Expanding(bases_of, c, s, level, n + 1)
    BY <2>1, <2>3 DEF Expanding, Searched
  <2>5. PICK further : /\ Layers(bases_of, c, t, further)
                       /\ Expanded(bases_of, t, further, n + 1)
                       /\ Frontier(t, further, n + 1)
    BY <2>1, <2>2, <2>4, AppendAllAbsentLayers
  <2> QED BY <2>1, <2>5 DEF Searched
<1> QED BY <1>2, <1>3

(* What the list of a class of the program is: all that is reached from it *)
(* through bases, in layers.                                               *)
BreadthFirst(bases_of, c, s) ==
  \E level : /\ Layers(bases_of, c, s, level)
             /\ Expanded(bases_of, s, level, Len(s))

LEMMA LayersAreBases ==
  ASSUME NEW bases_of, NEW c, NEW s, NEW level, Layers(bases_of, c, s, level)
  PROVE  Range(s) \subseteq {c} \cup NamedBases(bases_of)
<1>1. SUFFICES ASSUME NEW i \in 2 .. Len(s)
               PROVE  s[i] \in NamedBases(bases_of)
  BY DEF Layers, Range
<1>2. PICK j \in 1 .. Len(s) : s[i] \in BasesOf(bases_of, s[j])
  BY DEF Layers
<1>3. CASE s[j] \in DOMAIN bases_of
  BY <1>2, <1>3 DEF BasesOf, BaseClassesOf, NamedBases
<1>4. CASE s[j] \notin DOMAIN bases_of
  <2>1. BaseClassesOf(bases_of, s[j]) = <<>>
    BY <1>4 DEF BaseClassesOf
  <2> QED BY <1>2, <2>1 DEF BasesOf, Range
<1> QED BY <1>3, <1>4

LEMMA ProgramListIsBreadthFirst ==
  ASSUME NEW lists, NEW bases_of, NEW c, MayFinalize(lists, bases_of, c),
         NEW s, s = BreadthFirstClassList(bases_of, c)
  PROVE  BreadthFirst(bases_of, c, s)
<1> USE DEF MayFinalize
<1>1. PICK P : P = {v \in ClassValue : v = c \/ OriginOf(v) \in DOMAIN lists}
  OBVIOUS
<1>2. P \subseteq ClassValue /\ c \in P
  BY <1>1 DEF ClassValue
<1>3. ASSUME NEW d \in P \cap DOMAIN bases_of
      PROVE  bases_of[d] \in Seq(P) /\ c \notin Range(bases_of[d])
  <2>1. d \in Class /\ OriginOf(d) = d /\ OriginOf(c) = c
    BY DEF OriginOf
  <2>2. d = c \/ d \in DOMAIN lists
    BY <1>1, <2>1
  <2>3. PICK bases : bases = bases_of[d]
    OBVIOUS
  <2>4. bases \in Seq(ClassValue) /\ OriginsOf(bases) \subseteq DOMAIN lists
    BY <2>2, <2>3
  <2>5. \A v \in Range(bases) : v \in ClassValue /\ OriginOf(v) \in DOMAIN lists
    BY <2>4 DEF OriginsOf, Range
  <2>6. c \notin Range(bases)
    BY <2>1, <2>5
  <2>7. \A i \in 1 .. Len(bases) : bases[i] \in P
    BY <1>1, <2>4, <2>5 DEF Range
  <2>8. bases \in Seq(P)
    BY <2>4, <2>7
  <2> QED BY <2>3, <2>6, <2>8
<1>4. ASSUME NEW d \in P
      PROVE  /\ BaseClassesOf(bases_of, d) \in Seq(ClassValue)
             /\ c \notin BasesOf(bases_of, d)
  <2>1. CASE d \in DOMAIN bases_of
    BY <1>3, <2>1 DEF BaseClassesOf, BasesOf
  <2>2. CASE d \notin DOMAIN bases_of
    <3>1. BaseClassesOf(bases_of, d) = <<>>
      BY <2>2 DEF BaseClassesOf
    <3> QED BY <3>1 DEF BasesOf, Range
  <2> QED BY <2>1, <2>2
<1>5. PICK size : size = Cardinality(NamedBases(bases_of))
  OBVIOUS
<1>6. size \in Nat /\ IsFiniteSet(NamedBases(bases_of))
  BY <1>5, NamedBasesFinite
<1>7. PICK list : Visits(bases_of, c, P, list) /\ s = list[size + 1]
  BY <1>2, <1>3, <1>5, BreadthFirstVisits
<1> DEFINE T == {n \in Nat : \E level : Searched(bases_of, c, list[n], level, n)}
<1>8. 0 \in T
  <2>1. PICK u : u = list[0]
    OBVIOUS
  <2>2. u = <<c>> /\ c \in ClassValue
    BY <1>2, <1>7, <2>1 DEF Visits
  <2>3. PICK level : level = [i \in 1 .. 1 |-> 0]
    OBVIOUS
  <2>4. u \in Seq(ClassValue) /\ u # <<>> /\ u[1] = c /\ Len(u) = 1
    BY <2>2
  <2>5. level \in [1 .. Len(u) -> Nat] /\ level[1] = 0
    BY <2>3, <2>4
  <2>6. \A i \in 1 .. Len(u) : i = 1
    BY <2>4
  <2>7. Layers(bases_of, c, u, level)
    BY <2>4, <2>5, <2>6 DEF Layers
  <2>8. Expanded(bases_of, u, level, 0)
    BY <2>6 DEF Expanded
  <2>9. Searched(bases_of, c, u, level, 0)
    BY <2>4, <2>7, <2>8 DEF Searched
  <2> QED BY <2>1, <2>9
<1>9. ASSUME NEW n \in Nat, n \in T
      PROVE  n + 1 \in T
  <2>1. PICK u : u = list[n]
    OBVIOUS
  <2>2. PICK level : Searched(bases_of, c, u, level, n)
    BY <1>9, <2>1
  <2>3. u \in Seq(P) /\ list[n + 1] = Visit(bases_of, n + 1, u)
    BY <1>7, <2>1 DEF Visits, NonEmptyList
  <2>4. n + 1 <= Len(u) => u[n + 1] \in P
    <3>1. n + 1 <= Len(u) => n + 1 \in 1 .. Len(u)
      BY <2>3
    <3> QED BY <2>3, <3>1
  <2>5. \E further : Searched(bases_of, c, list[n + 1], further, n + 1)
    BY <1>4, <2>2, <2>3, <2>4, VisitLayers
  <2> QED BY <2>5
<1> HIDE DEF T
<1>10. size + 1 \in T
  BY <1>6, <1>8, <1>9, SetInduction
<1>11. PICK level : Searched(bases_of, c, s, level, size + 1)
  BY <1>7, <1>10 DEF T
<1>12. /\ s \in Seq(ClassValue) /\ Len(s) \in Nat
       /\ \A i, j \in 1 .. Len(s) : s[i] = s[j] => i = j
  BY <1>11 DEF Searched, Layers
<1>13. Len(s) <= size + 1
  <2>1. PICK all : all = {c} \cup NamedBases(bases_of)
    OBVIOUS
  <2>2. IsFiniteSet(all) /\ Cardinality(all) <= size + 1
    <3>1. CASE c \in NamedBases(bases_of)
      <4>1. all = NamedBases(bases_of)
        BY <2>1, <3>1
      <4> QED BY <1>5, <1>6, <4>1
    <3>2. CASE c \notin NamedBases(bases_of)
      <4>1. all = NamedBases(bases_of) \cup {c}
        BY <2>1
      <4>2. PICK rest : rest = NamedBases(bases_of)
        OBVIOUS
      <4>3. IsFiniteSet(rest) /\ c \notin rest /\ Cardinality(rest) = size
        BY <1>5, <1>6, <3>2, <4>2
      <4>4. IsFiniteSet(rest \cup {c}) /\ Cardinality(rest \cup {c}) = size + 1
        BY <4>3, FS_AddElement
      <4> QED BY <1>6, <4>1, <4>2, <4>4
    <3> QED BY <3>1, <3>2
  <2>3. Range(s) \subseteq all
    BY <1>11, <2>1, LayersAreBases DEF Searched
  <2>4. s \in Injection(1 .. Len(s), all)
    <3>1. s \in [1 .. Len(s) -> all]
      BY <1>12, <2>3 DEF Range
    <3> QED BY <1>12, <3>1 DEF Injection, IsInjective
  <2>5. Cardinality(1 .. Len(s)) <= Cardinality(all)
    BY <2>2, <2>4, FS_Injection
  <2>6. Cardinality(1 .. Len(s)) = Len(s)
    <3>1. Len(s) >= 1 /\ 1 - 1 = 0 /\ Len(s) - 1 + 1 = Len(s)
      BY <1>11, <1>12 DEF Searched, Layers
    <3> QED BY <1>12, <3>1, FS_Interval
  <2> QED BY <1>6, <1>12, <2>2, <2>5, <2>6, FS_CardinalityType
<1>14. Expanded(bases_of, s, level, Len(s))
  <2>1. \A i \in 1 .. Len(s) : i <= size + 1
    BY <1>6, <1>12, <1>13
  <2> QED BY <1>11, <2>1 DEF Searched, Expanded
<1> QED BY <1>11, <1>14 DEF Searched, BreadthFirst

(* The order depends on the bases of the classes on the list only.         *)
LEMMA BreadthFirstKept ==
  ASSUME NEW bases_of, NEW c, NEW s, BreadthFirst(bases_of, c, s),
         NEW later, \A v \in Range(s) : BaseClassesOf(later, v) = BaseClassesOf(bases_of, v)
  PROVE  BreadthFirst(later, c, s)
<1>1. PICK level : /\ Layers(bases_of, c, s, level)
                   /\ Expanded(bases_of, s, level, Len(s))
  BY DEF BreadthFirst
<1>2. s \in Seq(ClassValue)
  BY <1>1 DEF Layers
<1>3. \A i \in 1 .. Len(s) : BasesOf(later, s[i]) = BasesOf(bases_of, s[i])
  BY <1>2 DEF Range, BasesOf
<1>4. Layers(later, c, s, level)
  BY <1>1, <1>3 DEF Layers
<1>5. Expanded(later, s, level, Len(s))
  BY <1>1, <1>3 DEF Expanded
<1> QED BY <1>4, <1>5 DEF BreadthFirst

(* FinalizeClass gives a class its list once and leaves the others alone;  *)
(* FinalizeConstructedClass only touches those of constructed classes.     *)
LEMMA ListsFinalizingAdds ==
  ASSUME NEW lists, NEW inherited, ListsAreSound(lists, inherited),
         NEW bases_of, NEW c, MayFinalize(lists, bases_of, c),
         NEW after, after = ListsFinalizing(lists, bases_of, c)
  PROVE  /\ after[c] = BreadthFirstClassList(bases_of, c)
         /\ \A d \in DOMAIN lists : after[d] = lists[d]
<1> USE DEF MayFinalize
<1>1. PICK classes : classes = BreadthFirstClassList(bases_of, c)
  OBVIOUS
<1>2. PICK constructed : constructed = {k \in Range(classes) : k \notin Class}
  OBVIOUS
<1>3. PICK others : others = FinalizeMissing(lists, constructed)
  OBVIOUS
<1>4. after = SetClassList(others, c, classes)
  BY <1>1, <1>2, <1>3 DEF ListsFinalizing
<1>5. /\ DOMAIN lists \subseteq DOMAIN others
      /\ \A d \in DOMAIN lists : others[d] = lists[d]
      /\ \A d \in DOMAIN others : d \in DOMAIN lists \/ d \in ConstructedClass
  BY <1>3 DEF FinalizeMissing, Constructions
<1>6. c \notin DOMAIN others
  BY <1>5, ClassAssumption
<1> QED BY <1>1, <1>4, <1>5, <1>6 DEF SetClassList

LEMMA FinalizeConstructedClassKeeps ==
  ASSUME NEW lists, NEW k
  PROVE  \A d \in DOMAIN lists : d # k => FinalizeConstructedClass(lists, k)[d] = lists[d]
<1>1. PICK classes : classes = ConstructedClassList(lists, k)
  OBVIOUS
<1>2. PICK named : named = {c \in Range(classes) : c \notin Class /\ c # k}
  OBVIOUS
<1>3. PICK others : others = FinalizeMissing(lists, named)
  OBVIOUS
<1>4. FinalizeConstructedClass(lists, k) = SetClassList(others, k, classes)
  BY <1>1, <1>2, <1>3 DEF FinalizeConstructedClass
<1>5. /\ DOMAIN lists \subseteq DOMAIN others
      /\ \A d \in DOMAIN lists : others[d] = lists[d]
  BY <1>3 DEF FinalizeMissing
<1> QED BY <1>4, <1>5 DEF SetClassList
=============================================================================
