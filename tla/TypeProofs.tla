----------------------------- MODULE TypeProofs -----------------------------
(***************************************************************************)
(* Two theorems about the types of the analyzer.                           *)
(*                                                                         *)
(* TypesAreOne: types that stand for the same are one type, whatever the    *)
(* factory is asked for and in whatever order.  The factory only ever       *)
(* compares addresses: a key is found if its parts are the very same        *)
(* types.  That is enough because the parts of a type were made before it   *)
(* (RefersBack), so two types of one meaning have, by induction over the    *)
(* later of them, the same parts, and then they were found in the cache     *)
(* (NoTwins); and because the members of a union are never unions           *)
(* themselves (UnionsAreFlat), so that what a union stands for is what its  *)
(* key is.                                                                 *)
(*                                                                         *)
(* KindLostByMoveOnly: the kind of an annotation and the tag it is read     *)
(* from agree until the annotation is moved to its reader, for every        *)
(* document, by induction over its tags (IsCompiled).                      *)
(***************************************************************************)
EXTENDS TypeFactory, AnnotationCompiler, Induction, FiniteSetTheorems, TLAPS

IsState(s) ==
  s = [types |-> s.types, at |-> s.at, errors |-> s.errors, failed |-> s.failed]

(* The types that can be made of the types in S. *)
TypesOver(S) ==
  {[kind |-> Singletons[i]] : i \in DOMAIN Singletons}
    \cup Declared
    \cup [kind : {"class"}, class : [name : ClassNames, arguments : Seq(S)]]
    \cup [kind : {"function"}, function : FunctionTypeKinds,
          type_parameters : Seq(S), arity : FunctionTypeArities,
          parameters : Seq(S), return : S, this : S]
    \cup [kind : {"labeled"}, label : STRING, type : S]
    \cup [kind : {"record"}, labels : SUBSET S]
    \cup [kind : {"tuple"}, elements : Seq(S)]
    \cup [kind : {"union"}, union : SUBSET S]

(* The inductive invariant. *)
IsList(types) == \E S : types \in Seq(S)
SingletonsFirst(types) ==
  \A i \in DOMAIN Singletons :
    i \in DOMAIN types /\ types[i] = [kind |-> Singletons[i]]
RefersBack(types) == \A i \in DOMAIN types : types[i] \in TypesOver(1 .. i - 1)
NoTwins(types) == \A i, j \in DOMAIN types : types[i] = types[j] => i = j

Sound(types) ==
  /\ IsList(types)
  /\ SingletonsFirst(types)
  /\ RefersBack(types)
  /\ NoTwins(types)
  /\ UnionsAreFlat(types)

FactoryInv == IsState(store) /\ Sound(store.types)

-----------------------------------------------------------------------------
(* What the types are made of. *)

LEMMA DomainOfList ==
  ASSUME NEW types, IsList(types)
  PROVE  /\ Len(types) \in Nat
         /\ DOMAIN types = 1 .. Len(types)
         /\ IsFiniteSet(DOMAIN types)
<1>1. PICK S : types \in Seq(S)
  BY DEF IsList
<1>2. Len(types) \in Nat /\ DOMAIN types = 1 .. Len(types)
  BY <1>1
<1>3. IsFiniteSet(1 .. Len(types))
  BY <1>2, FS_Interval
<1> QED BY <1>2, <1>3

LEMMA Named ==
  ASSUME NEW t \in Declared
  PROVE  \/ /\ t.kind \in {"primitive", "type_parameter", "alias"}
            /\ t = [kind |-> t.kind, name |-> t.name]
         \/ /\ t.kind = "class"
            /\ t = [kind |-> "class",
                    class |-> [name |-> t.class.name, arguments |-> t.class.arguments]]
            /\ t.class.arguments = <<>>
            /\ t.class.name \in ClassNames
BY DEF Declared

LEMMA SingletonKinds ==
  ASSUME NEW i \in DOMAIN Singletons
  PROVE  Singletons[i] \in {"any", "invalid", "nil", "null", "unspecified", "void"}
BY DEF Singletons

(* A type is what its fields are. *)
Shape(t, S) ==
  \/ /\ t.kind \in {"any", "invalid", "nil", "null", "unspecified", "void"}
     /\ t = [kind |-> t.kind]
  \/ /\ t.kind \in {"primitive", "type_parameter", "alias"}
     /\ t = [kind |-> t.kind, name |-> t.name]
  \/ /\ t.kind = "class"
     /\ t = [kind |-> "class",
             class |-> [name |-> t.class.name, arguments |-> t.class.arguments]]
     /\ t.class.arguments \in Seq(S)
  \/ /\ t.kind = "function"
     /\ t = [kind |-> "function", function |-> t.function,
             type_parameters |-> t.type_parameters, arity |-> t.arity,
             parameters |-> t.parameters, return |-> t.return, this |-> t.this]
     /\ t.type_parameters \in Seq(S) /\ t.parameters \in Seq(S)
     /\ t.return \in S /\ t.this \in S
  \/ /\ t.kind = "labeled"
     /\ t = [kind |-> "labeled", label |-> t.label, type |-> t.type]
     /\ t.type \in S
  \/ /\ t.kind = "record"
     /\ t = [kind |-> "record", labels |-> t.labels]
     /\ t.labels \subseteq S
  \/ /\ t.kind = "tuple"
     /\ t = [kind |-> "tuple", elements |-> t.elements]
     /\ t.elements \in Seq(S)
  \/ /\ t.kind = "union"
     /\ t = [kind |-> "union", union |-> t.union]
     /\ t.union \subseteq S

LEMMA ShapeOf ==
  ASSUME NEW S, NEW t \in TypesOver(S)
  PROVE  Shape(t, S)
<1>1. CASE t \in {[kind |-> Singletons[i]] : i \in DOMAIN Singletons}
  BY <1>1, SingletonKinds DEF Shape
<1>2. CASE t \in Declared
  <2>1. CASE t.kind = "class"
    <3>1. t = [kind |-> "class", class |-> [name |-> t.class.name,
                                          arguments |-> t.class.arguments]]
          /\ t.class.arguments = <<>>
      BY <1>2, <2>1, Named
    <3>2. t.class.arguments \in Seq(S)
      BY <3>1
    <3> QED BY <2>1, <3>1, <3>2 DEF Shape
  <2>2. CASE t.kind # "class"
    <3>1. t.kind \in {"primitive", "type_parameter", "alias"}
          /\ t = [kind |-> t.kind, name |-> t.name]
      BY <1>2, <2>2, Named
    <3> QED BY <3>1 DEF Shape
  <2> QED BY <2>1, <2>2
<1>3. CASE t \in [kind : {"class"}, class : [name : ClassNames, arguments : Seq(S)]]
  BY <1>3 DEF Shape
<1>4. CASE t \in [kind : {"function"}, function : FunctionTypeKinds,
                  type_parameters : Seq(S), arity : FunctionTypeArities,
                  parameters : Seq(S), return : S, this : S]
  BY <1>4 DEF Shape
<1>5. CASE t \in [kind : {"labeled"}, label : STRING, type : S]
  BY <1>5 DEF Shape
<1>6. CASE t \in [kind : {"record"}, labels : SUBSET S]
  BY <1>6 DEF Shape
<1>7. CASE t \in [kind : {"tuple"}, elements : Seq(S)]
  BY <1>7 DEF Shape
<1>8. CASE t \in [kind : {"union"}, union : SUBSET S]
  BY <1>8 DEF Shape
<1> QED BY <1>1, <1>2, <1>3, <1>4, <1>5, <1>6, <1>7, <1>8 DEF TypesOver

-----------------------------------------------------------------------------
(* What a call of the factory leaves. *)

LEMMA SingleIsFirst ==
  /\ Single("any") \in DOMAIN Singletons /\ Singletons[Single("any")] = "any"
  /\ Single("nil") \in DOMAIN Singletons /\ Singletons[Single("nil")] = "nil"
<1>1. 1 \in DOMAIN Singletons /\ Singletons[1] = "any"
      /\ 3 \in DOMAIN Singletons /\ Singletons[3] = "nil"
  BY DEF Singletons
<1>2. \E i \in DOMAIN Singletons : Singletons[i] = "any"
  BY <1>1
<1>3. \E i \in DOMAIN Singletons : Singletons[i] = "nil"
  BY <1>1
<1> HIDE DEF Singletons
<1> QED BY <1>2, <1>3 DEF Single

(* The type any is the one of its kind. *)
LEMMA AnyIsSingle ==
  ASSUME NEW types, Sound(types), NEW i \in DOMAIN types, types[i].kind = "any"
  PROVE  i = Single("any")
<1>1. Single("any") \in DOMAIN types /\ types[Single("any")] = [kind |-> "any"]
  BY SingleIsFirst DEF Sound, SingletonsFirst
<1>2. types[i] \in TypesOver(1 .. i - 1)
  BY DEF Sound, RefersBack
<1>3. Shape(types[i], 1 .. i - 1)
  BY <1>2, ShapeOf
<1>4. types[i] = [kind |-> "any"]
  BY <1>3 DEF Shape
<1> QED BY <1>1, <1>4 DEF Sound, NoTwins

LEMMA AppendedList ==
  ASSUME NEW types, IsList(types), NEW type
  PROVE  /\ IsList(Append(types, type))
         /\ DOMAIN Append(types, type) = 1 .. Len(types) + 1
         /\ \A i \in 1 .. Len(types) : Append(types, type)[i] = types[i]
         /\ Append(types, type)[Len(types) + 1] = type
<1>1. PICK S : types \in Seq(S)
  BY DEF IsList
<1>2. types \in Seq(S \cup {type})
  BY <1>1
<1>3. Append(types, type) \in Seq(S \cup {type})
  BY <1>2
<1> QED BY <1>2, <1>3 DEF IsList

(* What may be asked for: made of types that are there, and flat.          *)
MayBeMade(types, type) ==
  /\ type \in TypesOver(DOMAIN types)
  /\ type.kind = "union" =>
       /\ Cardinality(type.union) > 1
       /\ \A m \in type.union : types[m].kind \notin {"any", "nil", "union"}

LEMMA AppendedSound ==
  ASSUME NEW types, Sound(types), NEW type, MayBeMade(types, type),
         \A i \in DOMAIN types : types[i] # type
  PROVE  Sound(Append(types, type))
<1> DEFINE n == Len(types)
           longer == Append(types, type)
<1>1. /\ n \in Nat /\ DOMAIN types = 1 .. n
  BY DomainOfList DEF Sound
<1>2. /\ IsList(longer) /\ DOMAIN longer = 1 .. n + 1
      /\ \A i \in 1 .. n : longer[i] = types[i]
      /\ longer[n + 1] = type
  BY AppendedList DEF Sound
<1> HIDE DEF n, longer
<1>3. SingletonsFirst(longer)
  BY <1>1, <1>2 DEF Sound, SingletonsFirst
<1>4. RefersBack(longer)
  <2>1. ASSUME NEW i \in 1 .. n PROVE longer[i] \in TypesOver(1 .. i - 1)
    BY <1>1, <1>2 DEF Sound, RefersBack
  <2>2. longer[n + 1] \in TypesOver(1 .. (n + 1) - 1)
    <3>1. DOMAIN types = 1 .. (n + 1) - 1
      BY <1>1
    <3> QED BY <1>2, <3>1 DEF MayBeMade
  <2> QED BY <1>1, <1>2, <2>1, <2>2 DEF RefersBack
<1>5. NoTwins(longer)
  BY <1>1, <1>2 DEF Sound, NoTwins
<1>6. UnionsAreFlat(longer)
  <2>1. SUFFICES ASSUME NEW i \in 1 .. n + 1, longer[i].kind = "union"
                 PROVE  /\ Cardinality(longer[i].union) > 1
                        /\ \A m \in longer[i].union :
                             longer[m].kind \notin {"any", "nil", "union"}
    BY <1>2 DEF UnionsAreFlat
  <2>2. CASE i \in 1 .. n
    <3>1. /\ types[i].kind = "union" /\ longer[i] = types[i]
      BY <1>2, <2>1, <2>2
    <3>2. Shape(types[i], 1 .. i - 1)
      BY <1>1, <2>2, ShapeOf DEF Sound, RefersBack
    <3>3. types[i].union \subseteq 1 .. i - 1
      BY <3>1, <3>2 DEF Shape
    <3>4. types[i].union \subseteq 1 .. n
      BY <1>1, <2>2, <3>3
    <3> QED BY <1>1, <1>2, <2>2, <3>1, <3>4 DEF Sound, UnionsAreFlat
  <2>3. CASE i = n + 1
    <3>1. Shape(type, DOMAIN types) /\ type.kind = "union"
      BY <1>2, <2>1, <2>3, ShapeOf DEF MayBeMade
    <3>2. type.union \subseteq 1 .. n
      BY <1>1, <3>1 DEF Shape
    <3> QED BY <1>2, <2>3, <3>1, <3>2 DEF MayBeMade
  <2> QED BY <1>1, <2>2, <2>3
<1> QED BY <1>2, <1>3, <1>4, <1>5, <1>6 DEF Sound, longer

SoundState(s) == IsState(s) /\ Sound(s.types)

LEMMA AtKeeps ==
  ASSUME NEW s, SoundState(s), NEW i
  PROVE  SoundState(At(s, i)) /\ At(s, i).types = s.types
BY DEF SoundState, IsState, At

LEMMA CheckKeeps ==
  ASSUME NEW s, SoundState(s), NEW assertion, NEW holds
  PROVE  /\ SoundState(Check(s, assertion, holds))
         /\ Check(s, assertion, holds).types = s.types
<1>1. CASE holds
  BY <1>1 DEF Check
<1>2. CASE ~ holds
  <2>1. Check(s, assertion, holds) =
          [types |-> s.types, at |-> s.at, errors |-> s.errors,
           failed |-> s.failed \cup {assertion}]
    BY <1>2 DEF Check, SoundState, IsState
  <2> QED BY <2>1 DEF SoundState, IsState
<1> QED BY <1>1, <1>2

LEMMA NewKeeps ==
  ASSUME NEW s, SoundState(s), NEW type, MayBeMade(s.types, type)
  PROVE  SoundState(New(s, type))
<1> DEFINE present == {i \in DOMAIN s.types : s.types[i] = type}
<1>1. CASE present # {}
  <2>1. PICK i : New(s, type) = At(s, i)
    BY <1>1 DEF New
  <2> QED BY <2>1, AtKeeps
<1>2. CASE present = {}
  <2>1. New(s, type) = [types |-> Append(s.types, type), at |-> Len(s.types) + 1,
                        errors |-> s.errors, failed |-> s.failed]
    BY <1>2 DEF New, SoundState, IsState
  <2>2. Sound(Append(s.types, type))
    BY <1>2, AppendedSound DEF SoundState
  <2> QED BY <2>1, <2>2 DEF SoundState, IsState
<1> QED BY <1>1, <1>2

-----------------------------------------------------------------------------
(* Every call keeps the types sound. *)

LEMMA FlatKey ==
  ASSUME NEW s, SoundState(s), NEW members \in SUBSET DOMAIN s.types
  PROVE  /\ UnionKey(s, members) \subseteq DOMAIN s.types
         /\ Cardinality(UnionKey(s, members)) # 1 =>
              \A m \in UnionKey(s, members) :
                s.types[m].kind \notin {"any", "nil", "union"}
<1> DEFINE Part(t) == CASE TypeAt(s, t).kind = "nil" -> {}
                        [] TypeAt(s, t).kind = "union" -> TypeAt(s, t).union
                        [] OTHER -> {t}
<1>1. CASE Single("any") \in members
  <2>1. UnionKey(s, members) = {Single("any")}
    BY <1>1 DEF UnionKey
  <2> QED BY <1>1, <2>1, FS_Singleton
<1>2. CASE Single("any") \notin members
  <2>1. UnionKey(s, members) = UNION {Part(t) : t \in members}
    BY <1>2 DEF UnionKey
  <2>2. ASSUME NEW t \in members
        PROVE  /\ Part(t) \subseteq DOMAIN s.types
               /\ \A m \in Part(t) : s.types[m].kind \notin {"any", "nil", "union"}
    <3>1. CASE s.types[t].kind = "nil"
      BY <3>1 DEF TypeAt
    <3>2. CASE s.types[t].kind = "union"
      <4>1. Part(t) = s.types[t].union
        BY <3>2 DEF TypeAt
      <4>2. Shape(s.types[t], 1 .. t - 1)
        BY ShapeOf DEF SoundState, Sound, RefersBack
      <4>3. s.types[t].union \subseteq 1 .. t - 1
        BY <3>2, <4>2 DEF Shape
      <4>4. t \in 1 .. Len(s.types) /\ Len(s.types) \in Nat
            /\ DOMAIN s.types = 1 .. Len(s.types)
        BY DomainOfList DEF SoundState, Sound
      <4>5. s.types[t].union \subseteq DOMAIN s.types
        BY <4>3, <4>4
      <4> QED BY <3>2, <4>1, <4>5 DEF SoundState, Sound, UnionsAreFlat
    <3>3. CASE s.types[t].kind \notin {"nil", "union"}
      <4>1. Part(t) = {t}
        BY <3>3 DEF TypeAt
      <4>2. s.types[t].kind # "any"
        BY <1>2, AnyIsSingle DEF SoundState
      <4> QED BY <3>3, <4>1, <4>2
    <3> QED BY <3>1, <3>2, <3>3
  <2> HIDE DEF Part
  <2> QED BY <2>1, <2>2
<1> QED BY <1>1, <1>2

LEMMA NewUnionTypeKeeps ==
  ASSUME NEW s, SoundState(s), NEW members \in SUBSET DOMAIN s.types
  PROVE  SoundState(NewUnionType(s, members))
<1>1. PICK key : key = UnionKey(s, members)
  OBVIOUS
<1>2. NewUnionType(s, members) = NewUnionTypeOf(s, key)
  BY <1>1 DEF NewUnionType
<1>3. CASE key = {}
  BY <1>2, <1>3, AtKeeps DEF NewUnionTypeOf
<1>4. CASE key # {} /\ Cardinality(key) = 1
  BY <1>2, <1>4, AtKeeps DEF NewUnionTypeOf
<1>5. CASE key # {} /\ Cardinality(key) # 1
  <2>1. key \in SUBSET DOMAIN s.types
        /\ \A m \in key : s.types[m].kind \notin {"any", "nil", "union"}
    BY <1>1, <1>5, FlatKey
  <2>2. IsFiniteSet(key)
    BY <2>1, DomainOfList, FS_Subset DEF SoundState, Sound
  <2>3. Cardinality(key) \in Nat /\ Cardinality(key) # 0
    BY <1>5, <2>2, FS_CardinalityType, FS_EmptySet
  <2>4. Cardinality(key) > 1
    BY <1>5, <2>3
  <2>5. [kind |-> "union", union |-> key] \in TypesOver(DOMAIN s.types)
    BY <2>1 DEF TypesOver
  <2>6. MayBeMade(s.types, [kind |-> "union", union |-> key])
    BY <2>1, <2>4, <2>5 DEF MayBeMade
  <2>7. NewUnionType(s, members) = New(s, [kind |-> "union", union |-> key])
    BY <1>2, <1>5 DEF NewUnionTypeOf
  <2> QED BY <2>6, <2>7, NewKeeps
<1> QED BY <1>3, <1>4, <1>5

LEMMA NewClassTypeKeeps ==
  ASSUME NEW s, SoundState(s), NEW name \in ClassNames,
         NEW arguments \in Seq(DOMAIN s.types)
  PROVE  SoundState(NewClassType(s, [name |-> name, arguments |-> arguments]))
<1> DEFINE type == [kind |-> "class", class |-> [name |-> name, arguments |-> arguments]]
<1>1. type \in TypesOver(DOMAIN s.types)
  BY DEF TypesOver
<1>2. MayBeMade(s.types, type)
  BY <1>1 DEF MayBeMade
<1> QED BY <1>2, NewKeeps DEF NewClassType

LEMMA NewConstructedClassKeeps ==
  ASSUME NEW s, SoundState(s), NEW name \in ClassNames,
         NEW arguments \in Seq(DOMAIN s.types)
  PROVE  SoundState(NewConstructedClass(s, name, arguments))
<1>1. PICK t : t = Check(Check(s, "ConstructedClass", Len(arguments) >= 1),
                         "ConstructedClass", Len(arguments) = GenericArity[name])
  OBVIOUS
<1>2. SoundState(t) /\ t.types = s.types
  BY <1>1, CheckKeeps
<1>3. NewConstructedClass(s, name, arguments) =
        NewClassType(t, [name |-> name, arguments |-> arguments])
  BY <1>1 DEF NewConstructedClass
<1> QED BY <1>2, <1>3, NewClassTypeKeeps

LEMMA NewFunctionTypeKeeps ==
  ASSUME NEW s, SoundState(s), NEW kind \in FunctionTypeKinds,
         NEW arity \in FunctionTypeArities,
         NEW type_parameters \in Seq(DOMAIN s.types),
         NEW parameters \in Seq(DOMAIN s.types),
         NEW return \in DOMAIN s.types, NEW this \in DOMAIN s.types
  PROVE  SoundState(NewFunctionType(s, kind, type_parameters, arity, parameters,
                                    return, this))
<1> DEFINE type == [kind |-> "function", function |-> kind,
                    type_parameters |-> type_parameters, arity |-> arity,
                    parameters |-> parameters, return |-> return, this |-> this]
<1>1. PICK t : t = Check(s, "FunctionType", MatchesArity(arity, parameters))
  OBVIOUS
<1>2. SoundState(t) /\ t.types = s.types
  BY <1>1, CheckKeeps
<1>3. type \in TypesOver(DOMAIN s.types)
  BY DEF TypesOver
<1>4. MayBeMade(t.types, type)
  BY <1>2, <1>3 DEF MayBeMade
<1> QED BY <1>1, <1>2, <1>4, NewKeeps DEF NewFunctionType

LEMMA NewLabeledTypeKeeps ==
  ASSUME NEW s, SoundState(s), NEW label \in STRING, NEW type \in DOMAIN s.types
  PROVE  SoundState(NewLabeledType(s, label, type))
<1> DEFINE labeled == [kind |-> "labeled", label |-> label, type |-> type]
<1>1. PICK t : t = Check(s, "LabeledType", TypeAt(s, type).kind # "labeled")
  OBVIOUS
<1>2. SoundState(t) /\ t.types = s.types
  BY <1>1, CheckKeeps
<1>3. labeled \in TypesOver(DOMAIN s.types)
  BY DEF TypesOver
<1>4. MayBeMade(t.types, labeled)
  BY <1>2, <1>3 DEF MayBeMade
<1> QED BY <1>1, <1>2, <1>4, NewKeeps DEF NewLabeledType

LEMMA NewRecordTypeKeeps ==
  ASSUME NEW s, SoundState(s), NEW members \in Seq(DOMAIN s.types)
  PROVE  SoundState(NewRecordType(s, members))
<1>1. PICK labels : labels = {members[i] : i \in DOMAIN members}
  OBVIOUS
<1>2. labels \in SUBSET DOMAIN s.types
  BY <1>1
<1>3. PICK t : t = Check(s, "RecordType",
                         Cardinality({TypeAt(s, l).label : l \in labels}) = Len(members))
  OBVIOUS
<1>4. SoundState(t) /\ t.types = s.types
  BY <1>3, CheckKeeps
<1>5. [kind |-> "record", labels |-> labels] \in TypesOver(DOMAIN s.types)
  BY <1>2 DEF TypesOver
<1>6. MayBeMade(t.types, [kind |-> "record", labels |-> labels])
  BY <1>4, <1>5 DEF MayBeMade
<1>7. NewRecordType(s, members) = New(t, [kind |-> "record", labels |-> labels])
  BY <1>1, <1>3 DEF NewRecordType
<1> QED BY <1>4, <1>6, <1>7, NewKeeps

LEMMA NewTupleTypeKeeps ==
  ASSUME NEW s, SoundState(s), NEW members \in Seq(DOMAIN s.types)
  PROVE  SoundState(NewTupleType(s, members))
<1>1. [kind |-> "tuple", elements |-> members] \in TypesOver(DOMAIN s.types)
  BY DEF TypesOver
<1>2. MayBeMade(s.types, [kind |-> "tuple", elements |-> members])
  BY <1>1 DEF MayBeMade
<1> QED BY <1>2, NewKeeps DEF NewTupleType

LEMMA ListOfSome ==
  ASSUME NEW S, NEW T, T \subseteq S, NEW list \in Seq(T)
  PROVE  list \in Seq(S)
OBVIOUS

LEMMA FactoryStep ==
  ASSUME FactoryInv, [FactoryNext]_store
  PROVE  FactoryInv'
<1> USE DEF Made
<1>1. SoundState(store)
  BY DEF FactoryInv, SoundState
<1>2. SUFFICES SoundState(store')
  BY DEF FactoryInv, SoundState, IsState
<1>3. CASE CallNewClassType
  <2>1. <<>> \in Seq(DOMAIN store.types)
    OBVIOUS
  <2> QED BY <1>1, <1>3, <2>1, NewClassTypeKeeps DEF CallNewClassType
<1>4. CASE CallNewConstructedClass
  BY <1>1, <1>4, NewConstructedClassKeeps DEF CallNewConstructedClass
<1>5. CASE CallNewFunctionType
  <2>1. OfKind("type_parameter") \subseteq DOMAIN store.types
    BY DEF OfKind
  <2> QED BY <1>1, <1>5, <2>1, ListOfSome, NewFunctionTypeKeeps
          DEF CallNewFunctionType
<1>6. CASE CallNewLabeledType
  BY <1>1, <1>6, NewLabeledTypeKeeps DEF CallNewLabeledType
<1>7. CASE CallNewRecordType
  <2>1. OfKind("labeled") \subseteq DOMAIN store.types
    BY DEF OfKind
  <2> QED BY <1>1, <1>7, <2>1, ListOfSome, NewRecordTypeKeeps DEF CallNewRecordType
<1>8. CASE CallNewTupleType
  BY <1>1, <1>8, NewTupleTypeKeeps DEF CallNewTupleType
<1>9. CASE CallNewUnionType
  BY <1>1, <1>9, NewUnionTypeKeeps DEF CallNewUnionType
<1>10. CASE UNCHANGED store
  BY <1>1, <1>10
<1> QED BY <1>3, <1>4, <1>5, <1>6, <1>7, <1>8, <1>9, <1>10 DEF FactoryNext

LEMMA ConcatenationOf ==
  ASSUME NEW S, NEW a \in Seq(S), NEW b \in Seq(S)
  PROVE  /\ Len(a \o b) = Len(a) + Len(b)
         /\ \A i \in 1 .. Len(a) : (a \o b)[i] = a[i]
         /\ \A i \in 1 .. Len(b) : (a \o b)[Len(a) + i] = b[i]
OBVIOUS

LEMMA FactoryStart ==
  ASSUME store = InitialState
  PROVE  FactoryInv
<1>1. PICK types : types = InitialTypes
  OBVIOUS
<1>2. IsState(store) /\ store.types = types
  BY <1>1 DEF InitialState, IsState
<1>3. PICK first : first = [i \in DOMAIN Singletons |-> [kind |-> Singletons[i]]]
  OBVIOUS
<1>4. /\ first \in Seq({[kind |-> Singletons[i]] : i \in DOMAIN Singletons})
      /\ DOMAIN Singletons = 1 .. 6 /\ Len(first) = 6
  BY <1>3 DEF Singletons
<1>5. Declarations \in Seq(Declared) /\ types = first \o Declarations
  BY <1>1, <1>3, DeclarationsAssumption DEF InitialTypes
<1>6. PICK n \in Nat : n = Len(Declarations)
  BY <1>5
<1>7. /\ IsList(types) /\ DOMAIN types = 1 .. 6 + n
      /\ \A i \in 1 .. 6 : types[i] = [kind |-> Singletons[i]]
      /\ \A i \in 1 .. n : types[6 + i] = Declarations[i]
      /\ DOMAIN Declarations = 1 .. n
  <2>1. PICK S : S = {[kind |-> Singletons[i]] : i \in DOMAIN Singletons} \cup Declared
    OBVIOUS
  <2>2. first \in Seq(S) /\ Declarations \in Seq(S)
    BY <1>4, <1>5, <2>1
  <2>3. types \in Seq(S)
    BY <1>5, <2>2
  <2>4. DOMAIN first = 1 .. 6 /\ DOMAIN Declarations = 1 .. n
    BY <1>4, <1>5, <1>6
  <2>5. /\ Len(types) = 6 + n
        /\ \A i \in 1 .. 6 : types[i] = first[i]
        /\ \A i \in 1 .. n : types[6 + i] = Declarations[i]
    <3>1. types = first \o Declarations /\ Len(first) = 6 /\ Len(Declarations) = n
      BY <1>4, <1>5, <1>6
    <3>2. /\ Len(first \o Declarations) = Len(first) + Len(Declarations)
          /\ \A i \in 1 .. Len(first) : (first \o Declarations)[i] = first[i]
          /\ \A i \in 1 .. Len(Declarations) :
               (first \o Declarations)[Len(first) + i] = Declarations[i]
      BY <2>2, ConcatenationOf
    <3> QED BY <3>1, <3>2
  <2>6. ASSUME NEW i \in 1 .. 6 PROVE types[i] = [kind |-> Singletons[i]]
    BY <1>3, <1>4, <2>5
  <2> QED BY <2>3, <2>4, <2>5, <2>6 DEF IsList
<1>8. ASSUME NEW i \in DOMAIN types
      PROVE  \/ i \in 1 .. 6 /\ types[i] = [kind |-> Singletons[i]]
             \/ \E k \in 1 .. n : i = 6 + k /\ types[i] = Declarations[k]
  <2>1. i \in 1 .. 6 \/ (i - 6 \in 1 .. n /\ i = 6 + (i - 6))
    BY <1>7
  <2> QED BY <1>7, <2>1
<1>9. \A k \in 1 .. n : Declarations[k] \in Declared
  BY <1>5, <1>7
<1>10. SingletonsFirst(types)
  BY <1>4, <1>7 DEF SingletonsFirst
<1>11. RefersBack(types)
  BY <1>4, <1>8, <1>9 DEF RefersBack, TypesOver
<1>12. ASSUME NEW i \in 1 .. 6, NEW j \in 1 .. 6, Singletons[i] = Singletons[j]
       PROVE  i = j
  BY <1>12 DEF Singletons
<1>13. NoTwins(types)
  <2>1. SUFFICES ASSUME NEW i \in DOMAIN types, NEW j \in DOMAIN types,
                        types[i] = types[j]
                 PROVE  i = j
    BY DEF NoTwins
  <2>2. ASSUME NEW k \in 1 .. n, NEW l \in 1 .. 6
        PROVE  Declarations[k] # [kind |-> Singletons[l]]
    <3>1. Declarations[k].kind \in {"primitive", "type_parameter", "alias", "class"}
      BY <1>9, Named
    <3>2. Singletons[l] \in {"any", "invalid", "nil", "null", "unspecified", "void"}
      BY <1>4, SingletonKinds
    <3> QED BY <3>1, <3>2
  <2>3. CASE i \in 1 .. 6 /\ types[i] = [kind |-> Singletons[i]]
    <3>1. CASE j \in 1 .. 6 /\ types[j] = [kind |-> Singletons[j]]
      <4>1. /\ types[i].kind = Singletons[i] /\ types[j].kind = Singletons[j]
        BY <2>3, <3>1
      <4> QED BY <1>12, <2>1, <2>3, <3>1, <4>1
    <3>2. CASE \E k \in 1 .. n : j = 6 + k /\ types[j] = Declarations[k]
      BY <2>1, <2>2, <2>3, <3>2
    <3> QED BY <1>8, <3>1, <3>2
  <2>4. CASE \E k \in 1 .. n : i = 6 + k /\ types[i] = Declarations[k]
    <3>1. CASE j \in 1 .. 6 /\ types[j] = [kind |-> Singletons[j]]
      BY <2>1, <2>2, <2>4, <3>1
    <3>2. CASE \E k \in 1 .. n : j = 6 + k /\ types[j] = Declarations[k]
      BY <1>7, <2>1, <2>4, <3>2, DeclarationsAssumption
    <3> QED BY <1>8, <3>1, <3>2
  <2> QED BY <1>8, <2>3, <2>4
<1>14. UnionsAreFlat(types)
  <2>1. ASSUME NEW i \in DOMAIN types PROVE types[i].kind # "union"
    <3>1. CASE i \in 1 .. 6 /\ types[i] = [kind |-> Singletons[i]]
      BY <1>4, <3>1, SingletonKinds
    <3>2. CASE \E k \in 1 .. n : i = 6 + k /\ types[i] = Declarations[k]
      BY <1>9, <3>2, Named
    <3> QED BY <1>8, <3>1, <3>2
  <2> QED BY <2>1 DEF UnionsAreFlat
<1> QED BY <1>2, <1>7, <1>10, <1>11, <1>13, <1>14 DEF FactoryInv, Sound

LEMMA FactoryIsSound == FactorySpec => []FactoryInv
<1>1. store = InitialState => FactoryInv
  BY FactoryStart
<1>2. FactoryInv /\ [FactoryNext]_store => FactoryInv'
  BY FactoryStep
<1> QED BY <1>1, <1>2, PTL DEF FactorySpec

-----------------------------------------------------------------------------
(* Meanings. *)

MeansFrom(types, m) == m = [i \in DOMAIN types |-> MeaningFrom(types, m, i)]

LEMMA ElementsOf ==
  ASSUME NEW S, NEW list \in Seq(S)
  PROVE  \A k \in DOMAIN list : list[k] \in S
OBVIOUS

(* What a type stands for depends on the types before it only.             *)
LEMMA MeaningIsLocal ==
  ASSUME NEW types, RefersBack(types), NEW i \in DOMAIN types, NEW f, NEW g,
         \A j \in 1 .. i - 1 : f[j] = g[j]
  PROVE  MeaningFrom(types, f, i) = MeaningFrom(types, g, i)
<1>1. PICK t : t = types[i]
  OBVIOUS
<1>2. Shape(t, 1 .. i - 1)
  BY <1>1, ShapeOf DEF RefersBack
<1> DEFINE S == 1 .. i - 1
<1>3. ASSUME NEW list \in Seq(S)
      PROVE  [k \in DOMAIN list |-> f[list[k]]] = [k \in DOMAIN list |-> g[list[k]]]
  <2>1. \A k \in DOMAIN list : list[k] \in S
    BY ElementsOf
  <2> QED BY <2>1
<1>4. CASE t.kind \in {"any", "invalid", "nil", "null", "unspecified", "void",
                       "primitive", "type_parameter", "alias"}
  BY <1>1, <1>4 DEF MeaningFrom
<1>5. CASE t.kind = "class"
  <2>1. t.class.arguments \in Seq(S)
    BY <1>2, <1>5 DEF Shape
  <2> QED BY <1>1, <1>3, <1>5, <2>1 DEF MeaningFrom
<1>6. CASE t.kind = "function"
  <2>1. t.type_parameters \in Seq(S) /\ t.parameters \in Seq(S)
        /\ t.return \in S /\ t.this \in S
    BY <1>2, <1>6 DEF Shape
  <2> QED BY <1>1, <1>3, <1>6, <2>1 DEF MeaningFrom
<1>7. CASE t.kind = "labeled"
  <2>1. t.type \in S
    BY <1>2, <1>7 DEF Shape
  <2> QED BY <1>1, <1>7, <2>1 DEF MeaningFrom
<1>8. CASE t.kind = "record"
  <2>1. t.labels \subseteq S
    BY <1>2, <1>8 DEF Shape
  <2>2. {f[l] : l \in t.labels} = {g[l] : l \in t.labels}
    BY <2>1
  <2> QED BY <1>1, <1>8, <2>2 DEF MeaningFrom
<1>9. CASE t.kind = "tuple"
  <2>1. t.elements \in Seq(S)
    BY <1>2, <1>9 DEF Shape
  <2> QED BY <1>1, <1>3, <1>9, <2>1 DEF MeaningFrom
<1>10. CASE t.kind = "union"
  <2>1. t.union \subseteq S
    BY <1>2, <1>10 DEF Shape
  <2>2. \A m \in t.union : Dissolved(types, f, m) = Dissolved(types, g, m)
    BY <2>1 DEF Dissolved
  <2>3. {Dissolved(types, f, m) : m \in t.union} = {Dissolved(types, g, m) : m \in t.union}
    BY <2>2
  <2> QED BY <1>1, <1>10, <2>3 DEF MeaningFrom
<1> QED BY <1>2, <1>4, <1>5, <1>6, <1>7, <1>8, <1>9, <1>10 DEF Shape

(* Every type stands for something: the recursion of Meaning ends.         *)
LEMMA MeaningIsDefined ==
  ASSUME NEW types, IsList(types), RefersBack(types)
  PROVE  MeansFrom(types, Meaning(types))
<1>1. PICK n \in Nat : n = Len(types) /\ DOMAIN types = 1 .. n
  BY DomainOfList
<1> DEFINE Partial(k, g) == g = [i \in 1 .. k |-> MeaningFrom(types, g, i)]
           Exists(k) == \E g : Partial(k, g)
           T == {k \in Nat : k <= n => Exists(k)}
<1>2. 0 \in T
  <2>1. PICK e : e = [i \in {} |-> i]
    OBVIOUS
  <2>2. Partial(0, e)
    BY <2>1
  <2> QED BY <2>2
<1>3. ASSUME NEW k \in Nat, k \in T
      PROVE  k + 1 \in T
  <2>1. SUFFICES ASSUME k + 1 <= n PROVE Exists(k + 1)
    <3> HIDE DEF Exists
    <3> QED OBVIOUS
  <2>2. PICK g : Partial(k, g)
    BY <1>3, <2>1
  <2>3. PICK h : h = [i \in 1 .. k + 1 |-> IF i <= k THEN g[i]
                                           ELSE MeaningFrom(types, g, i)]
    OBVIOUS
  <2>4. ASSUME NEW i \in 1 .. k + 1
        PROVE  h[i] = MeaningFrom(types, h, i)
    <3>1. i \in DOMAIN types
      BY <1>1, <2>1
    <3>2. \A j \in 1 .. i - 1 : h[j] = g[j]
      BY <2>3
    <3>3. MeaningFrom(types, h, i) = MeaningFrom(types, g, i)
      BY <3>1, <3>2, MeaningIsLocal
    <3>4. h[i] = MeaningFrom(types, g, i)
      <4>1. CASE i <= k
        <5>1. h[i] = g[i] /\ i \in 1 .. k
          BY <2>3, <4>1
        <5> QED BY <2>2, <5>1
      <4>2. CASE ~ (i <= k)
        BY <2>3, <4>2
      <4> QED BY <4>1, <4>2
    <3> QED BY <3>3, <3>4
  <2>5. h = [i \in 1 .. k + 1 |-> h[i]]
    BY <2>3
  <2>6. Partial(k + 1, h)
    BY <2>4, <2>5
  <2> QED BY <2>6
<1> HIDE DEF T
<1>4. n \in T
  BY <1>2, <1>3, SetInduction
<1>5. \E g : g = [i \in DOMAIN types |-> MeaningFrom(types, g, i)]
  BY <1>1, <1>4 DEF T
<1> QED BY <1>5 DEF Meaning, MeansFrom

(* The first part of a meaning is the kind of the type.                    *)
LEMMA MeaningKind ==
  ASSUME NEW types, NEW m, NEW i, NEW S, Shape(types[i], S)
  PROVE  MeaningFrom(types, m, i)[1] = types[i].kind
BY DEF MeaningFrom, Shape

(* Apart(m, S): no two types of S stand for the same.                      *)
Apart(m, S) == \A i, j \in S : m[i] = m[j] => i = j

LEMMA ListsApart ==
  ASSUME NEW m, NEW S, Apart(m, S), NEW a \in Seq(S), NEW b \in Seq(S),
         [k \in DOMAIN a |-> m[a[k]]] = [k \in DOMAIN b |-> m[b[k]]]
  PROVE  a = b
<1>1. PICK f : f = [k \in DOMAIN a |-> m[a[k]]]
  OBVIOUS
<1>2. DOMAIN a = DOMAIN b
  <2>1. DOMAIN f = DOMAIN a
    BY <1>1
  <2>2. DOMAIN f = DOMAIN b
    BY <1>1
  <2> QED BY <2>1, <2>2
<1>3. ASSUME NEW k \in DOMAIN a PROVE a[k] = b[k]
  <2>1. f[k] = m[a[k]] /\ f[k] = m[b[k]]
    BY <1>1, <1>2
  <2>2. a[k] \in S /\ b[k] \in S
    BY <1>2, ElementsOf
  <2> QED BY <2>1, <2>2 DEF Apart
<1>4. a = [k \in DOMAIN a |-> a[k]] /\ b = [k \in DOMAIN b |-> b[k]]
  OBVIOUS
<1> QED BY <1>2, <1>3, <1>4

LEMMA SetsApart ==
  ASSUME NEW m, NEW S, Apart(m, S), NEW a \in SUBSET S, NEW b \in SUBSET S,
         \A x \in a : \E y \in b : m[x] = m[y],
         \A x \in b : \E y \in a : m[x] = m[y]
  PROVE  a = b
BY DEF Apart

(* Types of one meaning whose parts are told apart have the same parts.    *)
LEMMA SameParts ==
  ASSUME NEW types, Sound(types), NEW m, NEW S, Apart(m, S),
         NEW i \in DOMAIN types, NEW j \in DOMAIN types,
         1 .. i - 1 \subseteq S, 1 .. j - 1 \subseteq S,
         MeaningFrom(types, m, i) = MeaningFrom(types, m, j)
  PROVE  types[i] = types[j]
<1>1. PICK t, u : t = types[i] /\ u = types[j]
  OBVIOUS
<1>2. Shape(t, 1 .. i - 1) /\ Shape(u, 1 .. j - 1)
  BY <1>1, ShapeOf DEF Sound, RefersBack
<1> PICK p : p = MeaningFrom(types, m, i) /\ p = MeaningFrom(types, m, j)
  OBVIOUS
<1>3. t.kind = u.kind
  <2>1. Shape(types[i], 1 .. i - 1) /\ Shape(types[j], 1 .. j - 1)
    BY <1>1, <1>2
  <2>2. MeaningFrom(types, m, i)[1] = types[i].kind
    BY <2>1, MeaningKind
  <2>3. MeaningFrom(types, m, j)[1] = types[j].kind
    BY <2>1, MeaningKind
  <2> QED BY <1>1, <2>2, <2>3
<1>4. CASE t.kind \in {"any", "invalid", "nil", "null", "unspecified", "void"}
  BY <1>1, <1>2, <1>3, <1>4 DEF Shape
<1>5. CASE t.kind \in {"primitive", "type_parameter", "alias"}
  <2>1. p = <<t.kind, t.name>>
        /\ p = <<u.kind, u.name>>
    BY <1>1, <1>3, <1>5 DEF MeaningFrom
  <2>2. t.name = u.name
    BY <2>1
  <2> QED BY <1>1, <1>2, <1>3, <1>5, <2>2 DEF Shape
<1>6. CASE t.kind = "class"
  <2> DEFINE Each(list) == [k \in DOMAIN list |-> m[list[k]]]
  <2>1. /\ p = <<"class", t.class.name, Each(t.class.arguments)>>
        /\ p = <<"class", u.class.name, Each(u.class.arguments)>>
    BY <1>1, <1>3, <1>6 DEF MeaningFrom
  <2>2. t.class.name = u.class.name
        /\ Each(t.class.arguments) = Each(u.class.arguments)
    BY <2>1
  <2>3. t.class.arguments \in Seq(1 .. i - 1) /\ u.class.arguments \in Seq(1 .. j - 1)
    BY <1>2, <1>3, <1>6 DEF Shape
  <2>4. t.class.arguments \in Seq(S) /\ u.class.arguments \in Seq(S)
    BY <2>3, ListOfSome
  <2>5. t.class.arguments = u.class.arguments
    BY <2>2, <2>4, ListsApart
  <2> HIDE DEF Each
  <2> QED BY <1>1, <1>2, <1>3, <1>6, <2>2, <2>5 DEF Shape
<1>7. CASE t.kind = "function"
  <2> DEFINE Each(list) == [k \in DOMAIN list |-> m[list[k]]]
  <2>1. /\ p = <<"function", t.function, t.arity, Each(t.parameters),
               Each(t.type_parameters), m[t.return], m[t.this]>>
        /\ p = <<"function", u.function, u.arity, Each(u.parameters),
               Each(u.type_parameters), m[u.return], m[u.this]>>
    BY <1>1, <1>3, <1>7 DEF MeaningFrom
  <2>2. /\ t.function = u.function /\ t.arity = u.arity
        /\ Each(t.parameters) = Each(u.parameters)
        /\ Each(t.type_parameters) = Each(u.type_parameters)
        /\ m[t.return] = m[u.return] /\ m[t.this] = m[u.this]
    BY <2>1
  <2>3. /\ t.type_parameters \in Seq(1 .. i - 1) /\ t.parameters \in Seq(1 .. i - 1)
        /\ t.return \in 1 .. i - 1 /\ t.this \in 1 .. i - 1
        /\ u.type_parameters \in Seq(1 .. j - 1) /\ u.parameters \in Seq(1 .. j - 1)
        /\ u.return \in 1 .. j - 1 /\ u.this \in 1 .. j - 1
    BY <1>2, <1>3, <1>7 DEF Shape
  <2>4. /\ t.type_parameters \in Seq(S) /\ t.parameters \in Seq(S)
        /\ u.type_parameters \in Seq(S) /\ u.parameters \in Seq(S)
    BY <2>3, ListOfSome
  <2>5. t.parameters = u.parameters
    BY <2>2, <2>4, ListsApart
  <2>6. t.type_parameters = u.type_parameters
    BY <2>2, <2>4, ListsApart
  <2>7. t.return = u.return /\ t.this = u.this
    BY <2>2, <2>3 DEF Apart
  <2>8. /\ t = [kind |-> "function", function |-> t.function,
                type_parameters |-> t.type_parameters, arity |-> t.arity,
                parameters |-> t.parameters, return |-> t.return, this |-> t.this]
        /\ u = [kind |-> "function", function |-> u.function,
                type_parameters |-> u.type_parameters, arity |-> u.arity,
                parameters |-> u.parameters, return |-> u.return, this |-> u.this]
    BY <1>2, <1>3, <1>7 DEF Shape
  <2> HIDE DEF Each
  <2> QED BY <1>1, <2>2, <2>5, <2>6, <2>7, <2>8, Zenon
<1>8. CASE t.kind = "labeled"
  <2>1. /\ p = <<"labeled", t.label, m[t.type]>>
        /\ p = <<"labeled", u.label, m[u.type]>>
    BY <1>1, <1>3, <1>8 DEF MeaningFrom
  <2>2. t.label = u.label /\ m[t.type] = m[u.type]
    BY <2>1
  <2>3. t.type \in S /\ u.type \in S
    BY <1>2, <1>3, <1>8 DEF Shape
  <2>4. t.type = u.type
    BY <2>2, <2>3 DEF Apart
  <2> QED BY <1>1, <1>2, <1>3, <1>8, <2>2, <2>4 DEF Shape
<1>9. CASE t.kind = "record"
  <2>1. /\ p = <<"record", {m[l] : l \in t.labels}>>
        /\ p = <<"record", {m[l] : l \in u.labels}>>
    BY <1>1, <1>3, <1>9 DEF MeaningFrom
  <2>2. {m[l] : l \in t.labels} = {m[l] : l \in u.labels}
    BY <2>1
  <2>3. t.labels \in SUBSET S /\ u.labels \in SUBSET S
    BY <1>2, <1>3, <1>9 DEF Shape
  <2>4. /\ \A x \in t.labels : m[x] \in {m[l] : l \in u.labels}
        /\ \A x \in u.labels : m[x] \in {m[l] : l \in t.labels}
    BY <2>2
  <2>5. t.labels = u.labels
    BY <2>3, <2>4, SetsApart
  <2> QED BY <1>1, <1>2, <1>3, <1>9, <2>5 DEF Shape
<1>10. CASE t.kind = "tuple"
  <2> DEFINE Each(list) == [k \in DOMAIN list |-> m[list[k]]]
  <2>1. /\ p = <<"tuple", Each(t.elements)>>
        /\ p = <<"tuple", Each(u.elements)>>
    BY <1>1, <1>3, <1>10 DEF MeaningFrom
  <2>2. Each(t.elements) = Each(u.elements)
    BY <2>1
  <2>3. t.elements \in Seq(1 .. i - 1) /\ u.elements \in Seq(1 .. j - 1)
    BY <1>2, <1>3, <1>10 DEF Shape
  <2>4. t.elements \in Seq(S) /\ u.elements \in Seq(S)
    BY <2>3, ListOfSome
  <2>5. t.elements = u.elements
    BY <2>2, <2>4, ListsApart
  <2> HIDE DEF Each
  <2> QED BY <1>1, <1>2, <1>3, <1>10, <2>5 DEF Shape
<1>11. CASE t.kind = "union"
  <2> DEFINE Members(v) == UNION {Dissolved(types, m, k) : k \in v.union}
  <2>1. /\ p = <<"union", Members(t)>>
        /\ p = <<"union", Members(u)>>
    BY <1>1, <1>3, <1>11 DEF MeaningFrom
  <2>2. Members(t) = Members(u)
    BY <2>1
  <2>3. /\ \A k \in t.union : types[k].kind # "union"
        /\ \A k \in u.union : types[k].kind # "union"
    BY <1>1, <1>3, <1>11 DEF Sound, UnionsAreFlat
  <2>4. /\ \A k \in t.union : Dissolved(types, m, k) = {m[k]}
        /\ \A k \in u.union : Dissolved(types, m, k) = {m[k]}
    BY <2>3 DEF Dissolved
  <2>5. /\ Members(t) = {m[k] : k \in t.union}
        /\ Members(u) = {m[k] : k \in u.union}
    BY <2>4
  <2>6. t.union \in SUBSET S /\ u.union \in SUBSET S
    BY <1>2, <1>3, <1>11 DEF Shape
  <2>7. /\ \A x \in t.union : m[x] \in {m[k] : k \in u.union}
        /\ \A x \in u.union : m[x] \in {m[k] : k \in t.union}
    BY <2>2, <2>5
  <2>8. t.union = u.union
    BY <2>6, <2>7, SetsApart
  <2> QED BY <1>1, <1>2, <1>3, <1>11, <2>8 DEF Shape
<1> QED BY <1>2, <1>4, <1>5, <1>6, <1>7, <1>8, <1>9, <1>10, <1>11 DEF Shape

LEMMA MeaningsApart ==
  ASSUME NEW types, Sound(types)
  PROVE  Apart(Meaning(types), DOMAIN types)
<1>1. PICK n \in Nat : n = Len(types) /\ DOMAIN types = 1 .. n
  BY DomainOfList DEF Sound
<1>2. PICK m : m = Meaning(types)
  OBVIOUS
<1>3. \A i \in DOMAIN types : m[i] = MeaningFrom(types, m, i)
  <2>1. MeansFrom(types, m)
    BY <1>2, MeaningIsDefined DEF Sound
  <2> QED BY <2>1 DEF MeansFrom
<1> DEFINE T == {k \in Nat : k <= n => Apart(m, 1 .. k)}
<1>4. 0 \in T
  BY DEF Apart
<1>5. ASSUME NEW k \in Nat, k \in T
      PROVE  k + 1 \in T
  <2>1. SUFFICES ASSUME k + 1 <= n PROVE Apart(m, 1 .. k + 1)
    OBVIOUS
  <2>2. Apart(m, 1 .. k)
    BY <1>5, <2>1
  <2>3. SUFFICES ASSUME NEW i \in 1 .. k + 1, NEW j \in 1 .. k + 1, m[i] = m[j]
                 PROVE  i = j
    BY DEF Apart
  <2>4. /\ i \in DOMAIN types /\ j \in DOMAIN types
        /\ 1 .. i - 1 \subseteq 1 .. k /\ 1 .. j - 1 \subseteq 1 .. k
    BY <1>1, <2>1
  <2>5. MeaningFrom(types, m, i) = MeaningFrom(types, m, j)
    BY <1>3, <2>3, <2>4
  <2>6. types[i] = types[j]
    BY <2>2, <2>4, <2>5, SameParts
  <2> QED BY <2>4, <2>6 DEF Sound, NoTwins
<1> HIDE DEF T
<1>6. n \in T
  BY <1>4, <1>5, SetInduction
<1> QED BY <1>1, <1>2, <1>6 DEF T

(* So there are as many meanings as types.                                 *)
LEMMA AsManyMeanings ==
  ASSUME NEW types, Sound(types)
  PROVE  Cardinality({Meaning(types)[i] : i \in DOMAIN types}) = Len(types)
<1>1. PICK n \in Nat : n = Len(types) /\ DOMAIN types = 1 .. n
  BY DomainOfList DEF Sound
<1>2. PICK m : m = Meaning(types)
  OBVIOUS
<1>3. Apart(m, 1 .. n)
  BY <1>1, <1>2, MeaningsApart
<1>4. PICK M : M = {m[i] : i \in 1 .. n}
  OBVIOUS
<1>5. PICK f : f = [i \in 1 .. n |-> m[i]]
  OBVIOUS
<1>6. f \in Bijection(1 .. n, M)
  BY <1>3, <1>4, <1>5 DEF Apart, Bijection, Injection, Surjection, IsInjective
<1>7. Cardinality(M) = n
  BY <1>6, FS_CountingElements DEF ExistsBijection
<1> QED BY <1>1, <1>2, <1>4, <1>7

(* Two types that the factory made never stand for the same, and a union   *)
(* has two members at least, none of them any, nil or a union, whatever    *)
(* the factory was asked for and in whatever order.                        *)
THEOREM TypesAreOne == FactorySpec => []OneTypePerMeaning
<1>1. FactoryInv => OneTypePerMeaning
  BY AsManyMeanings DEF FactoryInv, Sound, OneTypePerMeaning
<1> QED BY <1>1, FactoryIsSound, PTL

-----------------------------------------------------------------------------
(* The kind of an annotation. *)

AnnotationFields ==
  {"document", "kind", "kind_tag", "access_tag", "const_tag", "final_tag",
   "override_tag", "return_tag", "this_tag", "extends_tags", "implements_tags",
   "parameter_tags", "type_node", "type_parameter_names", "reports", "failed"}

(* What most tags leave alone.                                             *)
Keeps(a, b) ==
  /\ DOMAIN b = AnnotationFields
  /\ b.document = a.document
  /\ a.reports \subseteq b.reports
  /\ a.failed \subseteq b.failed
KeepsKind(a, b) ==
  /\ Keeps(a, b)
  /\ b.kind = a.kind /\ b.kind_tag = a.kind_tag /\ b.type_node = a.type_node

LEMMA ReportKeepsKind ==
  ASSUME NEW a, DOMAIN a = AnnotationFields, NEW code, NEW i
  PROVE  KeepsKind(a, ReportTag(a, code, i)) /\ ReportTag(a, code, i).reports # {}
BY DEF ReportTag, KeepsKind, Keeps, AnnotationFields

LEMMA OtherFieldKeepsKind ==
  ASSUME NEW a, DOMAIN a = AnnotationFields, NEW value,
         NEW field \in AnnotationFields
                         \ {"document", "kind", "kind_tag", "type_node", "reports",
                            "failed"}
  PROVE  KeepsKind(a, [a EXCEPT ![field] = value])
BY DEF KeepsKind, Keeps, AnnotationFields

LEMMA RememberKeepsKind ==
  ASSUME NEW a, DOMAIN a = AnnotationFields, NEW i,
         NEW field \in AnnotationFields
                         \ {"document", "kind", "kind_tag", "type_node", "reports",
                            "failed"}
  PROVE  KeepsKind(a, RememberTag(a, field, i))
BY ReportKeepsKind, OtherFieldKeepsKind DEF RememberTag

LEMMA AppendKeepsKind ==
  ASSUME NEW a, DOMAIN a = AnnotationFields, NEW i
  PROVE  /\ KeepsKind(a, [a EXCEPT !.extends_tags = Append(@, i)])
         /\ KeepsKind(a, [a EXCEPT !.implements_tags = Append(@, i)])
         /\ KeepsKind(a, [a EXCEPT !.parameter_tags = Append(@, i)])
         /\ KeepsKind(a, [a EXCEPT !.type_parameter_names = Append(@, i)])
BY DEF KeepsKind, Keeps, AnnotationFields

LEMMA KeepsKindTransitive ==
  ASSUME NEW a, NEW b, NEW c, KeepsKind(a, b), KeepsKind(b, c)
  PROVE  KeepsKind(a, c)
BY DEF KeepsKind, Keeps

LEMMA AddTypeParameterKeepsKind ==
  ASSUME NEW a, DOMAIN a = AnnotationFields, NEW i, NEW operand
  PROVE  KeepsKind(a, AddTypeParameter(a, i, operand))
<1>1. KeepsKind(a, a)
  BY DEF KeepsKind, Keeps
<1> QED BY <1>1, ReportKeepsKind, AppendKeepsKind DEF AddTypeParameter

(* The loop over the operands of @template.                                *)
LEMMA TemplateKeepsKind ==
  ASSUME NEW a, DOMAIN a = AnnotationFields, NEW i,
         NEW S, a.document[i].parts \in Seq(S)
  PROVE  KeepsKind(a, ProcessTemplateTag(a, i))
<1>1. PICK operands : operands = a.document[i].parts
  OBVIOUS
<1>2. PICK n \in Nat : n = Len(operands)
  BY <1>1
<1> DEFINE Turn(g, k) == IF k = 0 THEN a ELSE AddTypeParameter(g[k - 1], i, operands[k])
           Turns(k, g) == g = [j \in 0 .. k |-> Turn(g, j)]
           Done(k) == \E g : Turns(k, g)
           T == {k \in Nat : Done(k)}
<1>3. 0 \in T
  <2>1. PICK g : g = [j \in 0 .. 0 |-> a]
    OBVIOUS
  <2>2. Turns(0, g)
    <3>1. \A j \in 0 .. 0 : Turn(g, j) = a
      OBVIOUS
    <3> HIDE DEF Turn
    <3> QED BY <2>1, <3>1
  <2> QED BY <2>2
<1>4. ASSUME NEW k \in Nat, k \in T
      PROVE  k + 1 \in T
  <2>1. PICK g : Turns(k, g)
    BY <1>4
  <2>2. PICK h : h = [j \in 0 .. k + 1 |-> IF j <= k THEN g[j] ELSE Turn(g, j)]
    OBVIOUS
  <2>3. \A j \in 0 .. k : h[j] = g[j]
    BY <2>2
  <2>4. ASSUME NEW j \in 0 .. k + 1 PROVE h[j] = Turn(h, j)
    <3>1. Turn(h, j) = Turn(g, j)
      <4>1. j = 0 \/ j - 1 \in 0 .. k
        OBVIOUS
      <4> QED BY <2>3, <4>1
    <3>2. h[j] = Turn(g, j)
      <4>1. CASE j <= k
        <5>1. j \in 0 .. k /\ h[j] = g[j]
          BY <2>3, <4>1
        <5> HIDE DEF Turn
        <5> QED BY <2>1, <5>1
      <4>2. CASE ~ (j <= k)
        <5> HIDE DEF Turn
        <5> QED BY <2>2, <4>2
      <4> QED BY <4>1, <4>2
    <3> QED BY <3>1, <3>2
  <2>5. Turns(k + 1, h)
    <3>1. DOMAIN h = 0 .. k + 1 /\ h = [j \in DOMAIN h |-> h[j]]
      BY <2>2
    <3> HIDE DEF Turn
    <3> QED BY <2>4, <3>1
  <2> HIDE DEF Turns
  <2> QED BY <2>5
<1> HIDE DEF T
<1>5. n \in T
  BY <1>3, <1>4, SetInduction
<1>6. PICK g : Turns(n, g)
  BY <1>5 DEF T
<1>7. PICK after : /\ after = CHOOSE f : f = [j \in 0 .. n |->
                                 IF j = 0 THEN a
                                 ELSE AddTypeParameter(f[j - 1], i, operands[j])]
                   /\ Turns(n, after)
  BY <1>6
<1>8. ProcessTemplateTag(a, i) = after[n]
  BY <1>1, <1>2, <1>7 DEF ProcessTemplateTag
<1>9. \A j \in 0 .. n : KeepsKind(a, after[j])
  <2>1. after[0] = a /\ \A j \in 0 .. n : j # 0 =>
          after[j] = AddTypeParameter(after[j - 1], i, operands[j])
    <3>1. \A j \in 0 .. n : after[j] = Turn(after, j)
      <4> HIDE DEF Turn
      <4> QED BY <1>7
    <3> QED BY <3>1
  <2> DEFINE U == {j \in Nat : j <= n => KeepsKind(a, after[j])}
  <2>2. 0 \in U
    BY <2>1 DEF KeepsKind, Keeps
  <2>3. ASSUME NEW j \in Nat, j \in U PROVE j + 1 \in U
    <3>1. SUFFICES ASSUME j + 1 <= n PROVE KeepsKind(a, after[j + 1])
      OBVIOUS
    <3>2. KeepsKind(a, after[j]) /\ DOMAIN after[j] = AnnotationFields
      BY <2>3, <3>1 DEF KeepsKind, Keeps
    <3>3. after[j + 1] = AddTypeParameter(after[j], i, operands[j + 1])
      BY <2>1, <3>1
    <3> QED BY <3>2, <3>3, AddTypeParameterKeepsKind, KeepsKindTransitive
  <2> HIDE DEF U
  <2>4. \A j \in Nat : j \in U
    BY <2>2, <2>3, SetInduction
  <2> QED BY <2>4 DEF U
<1> QED BY <1>8, <1>9

-----------------------------------------------------------------------------
(* One tag. *)

(* What the loop over the tags keeps, unless something was reported.       *)
IsCompiled(a, document, n) ==
  /\ DOMAIN a = AnnotationFields
  /\ a.document = document
  /\ (a.reports = {} /\ a.failed = {}) =>
       IF a.kind_tag = 0
       THEN a.kind \in {"None", "Function"} /\ a.type_node = 0
       ELSE /\ a.kind_tag \in 1 .. n
            /\ LET tag == document[a.kind_tag].tag
               IN  /\ tag \in DOMAIN KindTags \cup {"@const"}
                   /\ a.kind = IF tag = "@const" THEN "Type" ELSE KindTags[tag]
            /\ a.kind \in {"Define", "Type", "TypeDef"} => a.type_node = a.kind_tag

LEMMA KindTagsAre ==
  /\ DOMAIN KindTags = {"@constructor", "@dict", "@enum", "@interface", "@record",
                        "@define", "@type", "@typedef"}
  /\ KindTags["@constructor"] = "Constructor" /\ KindTags["@dict"] = "Dict"
  /\ KindTags["@enum"] = "Enum" /\ KindTags["@interface"] = "Interface"
  /\ KindTags["@record"] = "Interface" /\ KindTags["@define"] = "Define"
  /\ KindTags["@type"] = "Type" /\ KindTags["@typedef"] = "TypeDef"
BY DEF KindTags

(* A tag without a kind leaves what the loop keeps.                        *)
LEMMA PlainTagStays ==
  ASSUME NEW document, NEW n \in Nat, NEW a, IsCompiled(a, document, n), NEW b,
         KeepsKind(a, b)
  PROVE  IsCompiled(b, document, n)
<1>1. /\ DOMAIN b = AnnotationFields /\ b.document = document
      /\ b.kind = a.kind /\ b.kind_tag = a.kind_tag /\ b.type_node = a.type_node
      /\ a.reports \subseteq b.reports /\ a.failed \subseteq b.failed
  BY DEF KeepsKind, Keeps, IsCompiled
<1>2. SUFFICES ASSUME b.reports = {}, b.failed = {}
               PROVE  IF b.kind_tag = 0
                      THEN b.kind \in {"None", "Function"} /\ b.type_node = 0
                      ELSE /\ b.kind_tag \in 1 .. n
                           /\ LET tag == document[b.kind_tag].tag
                              IN  /\ tag \in DOMAIN KindTags \cup {"@const"}
                                  /\ b.kind = IF tag = "@const" THEN "Type"
                                                                ELSE KindTags[tag]
                           /\ b.kind \in {"Define", "Type", "TypeDef"} =>
                                b.type_node = b.kind_tag
  BY <1>1 DEF IsCompiled
<1>3. a.reports = {} /\ a.failed = {}
  BY <1>1, <1>2
<1> QED BY <1>1, <1>3 DEF IsCompiled

LEMMA PlainTag ==
  ASSUME NEW document, NEW n \in Nat, NEW a, IsCompiled(a, document, n), NEW b,
         KeepsKind(a, b)
  PROVE  IsCompiled(b, document, n + 1)
<1>1. IsCompiled(b, document, n)
  BY PlainTagStays
<1>2. b.kind_tag \in 1 .. n => b.kind_tag \in 1 .. n + 1
  OBVIOUS
<1> QED BY <1>1, <1>2 DEF IsCompiled

(* @param, @return and @this make a function of what has no kind.          *)
LEMMA FunctionTagKeeps ==
  ASSUME NEW document, NEW n \in Nat, NEW a, IsCompiled(a, document, n)
  PROVE  IsCompiled(FunctionTag(a), document, n)
<1>1. CASE a.kind = "None"
  <2>1. FunctionTag(a) = [a EXCEPT !.kind = "Function"]
    BY <1>1 DEF FunctionTag
  <2>2. PICK b : b = FunctionTag(a)
    OBVIOUS
  <2>3. /\ DOMAIN b = AnnotationFields /\ b.document = document
        /\ b.kind = "Function" /\ b.kind_tag = a.kind_tag /\ b.type_node = a.type_node
        /\ b.reports = a.reports /\ b.failed = a.failed
    BY <2>1, <2>2 DEF IsCompiled, AnnotationFields
  <2>4. (a.reports = {} /\ a.failed = {}) => a.kind_tag = 0 /\ a.type_node = 0
    BY <1>1, KindTagsAre DEF IsCompiled
  <2>5. IsCompiled(b, document, n)
    BY <2>3, <2>4 DEF IsCompiled
  <2> QED BY <2>2, <2>5
<1>2. CASE a.kind # "None"
  BY <1>2 DEF FunctionTag
<1> QED BY <1>1, <1>2

LEMMA SetKindIs ==
  ASSUME NEW a, DOMAIN a = AnnotationFields, NEW kind, NEW i
  PROVE  LET b == SetKind(a, kind, i)
         IN  /\ Keeps(a, b) /\ b.kind = kind /\ b.type_node = a.type_node
             /\ b.failed = a.failed
             /\ a.kind_tag # 0 => b.reports # {}
             /\ a.kind_tag = 0 => b.kind_tag = i /\ b.reports = a.reports
<1>1. PICK c : c = [a EXCEPT !.kind = kind]
  OBVIOUS
<1>2. /\ DOMAIN c = AnnotationFields /\ c.document = a.document /\ c.kind = kind
      /\ c.kind_tag = a.kind_tag /\ c.type_node = a.type_node
      /\ c.reports = a.reports /\ c.failed = a.failed
  BY <1>1 DEF AnnotationFields
<1>3. SetKind(a, kind, i) = RememberTag(c, "kind_tag", i)
  BY <1>1 DEF SetKind
<1>4. CASE a.kind_tag # 0
  <2>1. SetKind(a, kind, i) = [c EXCEPT !.reports = @ \cup {<<"MULTIPLE_TAG", i>>}]
    BY <1>2, <1>3, <1>4 DEF RememberTag, ReportTag
  <2> QED BY <1>2, <1>4, <2>1 DEF Keeps, AnnotationFields
<1>5. CASE a.kind_tag = 0
  <2>1. SetKind(a, kind, i) = [c EXCEPT !.kind_tag = i]
    BY <1>2, <1>3, <1>5 DEF RememberTag
  <2> QED BY <1>2, <1>5, <2>1 DEF Keeps, AnnotationFields
<1> QED BY <1>4, <1>5

LEMMA RememberTypeIs ==
  ASSUME NEW a, DOMAIN a = AnnotationFields, NEW i
  PROVE  LET b == RememberType(a, i)
         IN  /\ Keeps(a, b) /\ b.kind = a.kind /\ b.kind_tag = a.kind_tag
             /\ b.reports = a.reports
             /\ a.type_node # 0 => b.type_node = a.type_node
             /\ (a.type_node = 0 /\ b.failed = {}) => b.type_node = i
BY DEF RememberType, Keeps, AnnotationFields

(* A tag that has a kind and no type.                                      *)
LEMMA UntypedKindTag ==
  ASSUME NEW document, NEW n \in Nat, NEW a, IsCompiled(a, document, n),
         NEW tag, tag = document[n + 1].tag, tag \in DOMAIN KindTags \ TypedKindTags
  PROVE  IsCompiled(SetKind(a, KindTags[tag], n + 1), document, n + 1)
<1>1. PICK b : b = SetKind(a, KindTags[tag], n + 1)
  OBVIOUS
<1>2. /\ Keeps(a, b) /\ b.kind = KindTags[tag]
      /\ a.kind_tag # 0 => b.reports # {}
      /\ a.kind_tag = 0 => b.kind_tag = n + 1
  BY <1>1, SetKindIs DEF IsCompiled
<1>3. /\ tag # "@const"
      /\ KindTags[tag] \notin {"Define", "Type", "TypeDef"}
  BY KindTagsAre DEF TypedKindTags
<1>4. IsCompiled(b, document, n + 1)
  <2>1. DOMAIN b = AnnotationFields /\ b.document = document
    BY <1>2 DEF Keeps, IsCompiled
  <2>2. b.reports = {} => b.kind_tag = n + 1
    BY <1>2
  <2>3. n + 1 # 0 /\ n + 1 \in 1 .. n + 1
    OBVIOUS
  <2> QED BY <1>2, <1>3, <2>1, <2>2, <2>3 DEF IsCompiled
<1> QED BY <1>1, <1>4

(* A tag that has a kind and a type.                                       *)
LEMMA TypedKindTag ==
  ASSUME NEW document, NEW n \in Nat, NEW a, IsCompiled(a, document, n),
         NEW tag, tag = document[n + 1].tag, tag \in TypedKindTags \cup {"@const"},
         NEW kind, kind = IF tag = "@const" THEN "Type" ELSE KindTags[tag]
  PROVE  IsCompiled(RememberType(SetKind(a, kind, n + 1), n + 1), document, n + 1)
<1>1. PICK b : b = SetKind(a, kind, n + 1)
  OBVIOUS
<1>2. /\ Keeps(a, b) /\ b.kind = kind /\ b.type_node = a.type_node
      /\ a.kind_tag # 0 => b.reports # {}
      /\ a.kind_tag = 0 => b.kind_tag = n + 1
  BY <1>1, SetKindIs DEF IsCompiled
<1>3. PICK c : c = RememberType(b, n + 1)
  OBVIOUS
<1>4. DOMAIN b = AnnotationFields
  BY <1>2 DEF Keeps
<1>5. /\ Keeps(b, c) /\ c.kind = kind /\ c.kind_tag = b.kind_tag
      /\ (b.type_node = 0 /\ c.failed = {}) => c.type_node = n + 1
  BY <1>2, <1>3, <1>4, RememberTypeIs
<1>6. tag \in DOMAIN KindTags \cup {"@const"}
  BY KindTagsAre DEF TypedKindTags
<1>7. IsCompiled(c, document, n + 1)
  <2>1. /\ DOMAIN c = AnnotationFields /\ c.document = document
        /\ a.reports \subseteq b.reports /\ b.reports \subseteq c.reports
        /\ a.failed \subseteq b.failed /\ b.failed \subseteq c.failed
    BY <1>2, <1>5 DEF Keeps, IsCompiled
  <2>2. SUFFICES ASSUME c.reports = {}, c.failed = {}
                 PROVE  c.kind_tag = n + 1 /\ c.type_node = n + 1
    <3>1. n + 1 # 0 /\ n + 1 \in 1 .. n + 1
      OBVIOUS
    <3> QED BY <1>5, <1>6, <2>1, <3>1 DEF IsCompiled
  <2>3. a.kind_tag = 0 /\ c.kind_tag = n + 1
    BY <1>2, <1>5, <2>1, <2>2
  <2>4. a.type_node = 0
    BY <2>1, <2>2, <2>3 DEF IsCompiled
  <2> QED BY <1>2, <1>5, <2>2, <2>3, <2>4
<1> QED BY <1>1, <1>3, <1>7

LEMMA TagFields ==
  {"const_tag", "final_tag", "override_tag", "access_tag", "return_tag", "this_tag"}
    \subseteq AnnotationFields \ {"document", "kind", "kind_tag", "type_node",
                                  "reports", "failed"}
BY DEF AnnotationFields

LEMMA TagKeeps ==
  ASSUME NEW Parts, NEW document \in Seq([tag : STRING, parts : Seq(Parts)]),
         NEW n \in Nat, n < Len(document), NEW a, IsCompiled(a, document, n)
  PROVE  IsCompiled(ClassifyTag(a, n + 1), document, n + 1)
<1>1. /\ DOMAIN a = AnnotationFields /\ a.document = document
      /\ n + 1 \in DOMAIN document /\ document[n + 1].parts \in Seq(Parts)
  <2>1. n + 1 \in DOMAIN document
    OBVIOUS
  <2>2. document[n + 1] \in [tag : STRING, parts : Seq(Parts)]
    BY <2>1, ElementsOf
  <2> QED BY <2>1, <2>2 DEF IsCompiled
<1>2. PICK tag, i : tag = document[n + 1].tag /\ i = n + 1
  OBVIOUS
<1>3. IsCompiled(a, document, n) => KeepsKind(a, a)
  BY DEF KeepsKind, Keeps, IsCompiled
<1>4. CASE tag = "@const"
  <2>1. PICK b : b = RememberTag(a, "const_tag", i)
    OBVIOUS
  <2>2. KeepsKind(a, b)
    BY <1>1, <2>1, RememberKeepsKind, TagFields
  <2>3. CASE document[i].parts = <<>>
    <3>1. ClassifyTag(a, i) = b
      BY <1>1, <1>2, <1>4, <2>1, <2>3, KindTagsAre
         DEF ClassifyTag, TypedKindTags, AccessTags
    <3> QED BY <1>2, <2>2, <3>1, PlainTag
  <2>4. CASE document[i].parts # <<>>
    <3>1. ClassifyTag(a, i) = RememberType(SetKind(b, "Type", i), i)
      BY <1>1, <1>2, <1>4, <2>1, <2>4, KindTagsAre
         DEF ClassifyTag, TypedKindTags, AccessTags
    <3>2. IsCompiled(b, document, n)
      BY <1>1, <2>2, PlainTagStays
    <3> QED BY <1>2, <1>4, <3>1, <3>2, TypedKindTag
  <2> QED BY <2>3, <2>4
<1>5. CASE tag \in TypedKindTags
  <2>1. ClassifyTag(a, i) = RememberType(SetKind(a, KindTags[tag], i), i)
    BY <1>1, <1>2, <1>5, KindTagsAre DEF ClassifyTag, TypedKindTags, AccessTags
  <2>2. tag # "@const"
    BY <1>5 DEF TypedKindTags
  <2> QED BY <1>2, <1>5, <2>1, <2>2, TypedKindTag
<1>6. CASE tag \in DOMAIN KindTags \ TypedKindTags
  <2>1. ClassifyTag(a, i) = SetKind(a, KindTags[tag], i)
    BY <1>1, <1>2, <1>6, KindTagsAre DEF ClassifyTag, TypedKindTags, AccessTags
  <2> QED BY <1>2, <1>6, <2>1, UntypedKindTag
<1>7. CASE tag \in {"@param", "@return", "@this"}
  <2>1. PICK b : b = FunctionTag(a)
    OBVIOUS
  <2>2. IsCompiled(b, document, n) /\ DOMAIN b = AnnotationFields
    BY <2>1, FunctionTagKeeps DEF IsCompiled
  <2>3. \/ ClassifyTag(a, i) = [b EXCEPT !.parameter_tags = Append(@, i)]
        \/ ClassifyTag(a, i) = RememberTag(b, "return_tag", i)
        \/ ClassifyTag(a, i) = RememberTag(b, "this_tag", i)
    BY <1>1, <1>2, <1>7, <2>1, KindTagsAre DEF ClassifyTag, TypedKindTags, AccessTags
  <2>4. KeepsKind(b, [b EXCEPT !.parameter_tags = Append(@, i)])
    BY <2>2, AppendKeepsKind
  <2>5. /\ KeepsKind(b, RememberTag(b, "return_tag", i))
        /\ KeepsKind(b, RememberTag(b, "this_tag", i))
    BY <2>2, RememberKeepsKind, TagFields
  <2>6. KeepsKind(b, ClassifyTag(a, i))
    BY <2>3, <2>4, <2>5, Zenon
  <2> QED BY <1>2, <2>2, <2>6, PlainTag
<1>8. CASE tag = "@template"
  <2>1. ClassifyTag(a, i) = ProcessTemplateTag(a, i)
    BY <1>1, <1>2, <1>8, KindTagsAre DEF ClassifyTag, TypedKindTags, AccessTags
  <2> QED BY <1>1, <1>2, <2>1, TemplateKeepsKind, PlainTag
<1>9. CASE tag \in {"@extends", "@implements", "@final", "@override"} \cup AccessTags
  <2>1. \/ ClassifyTag(a, i) = [a EXCEPT !.extends_tags = Append(@, i)]
        \/ ClassifyTag(a, i) = [a EXCEPT !.implements_tags = Append(@, i)]
        \/ ClassifyTag(a, i) = RememberTag(a, "final_tag", i)
        \/ ClassifyTag(a, i) = RememberTag(a, "override_tag", i)
        \/ ClassifyTag(a, i) = RememberTag(a, "access_tag", i)
    BY <1>1, <1>2, <1>9, KindTagsAre DEF ClassifyTag, TypedKindTags, AccessTags
  <2>2. /\ KeepsKind(a, [a EXCEPT !.extends_tags = Append(@, i)])
        /\ KeepsKind(a, [a EXCEPT !.implements_tags = Append(@, i)])
    BY <1>1, AppendKeepsKind
  <2>3. /\ KeepsKind(a, RememberTag(a, "final_tag", i))
        /\ KeepsKind(a, RememberTag(a, "override_tag", i))
        /\ KeepsKind(a, RememberTag(a, "access_tag", i))
    BY <1>1, RememberKeepsKind, TagFields
  <2>4. KeepsKind(a, ClassifyTag(a, i))
    BY <2>1, <2>2, <2>3, Zenon
  <2> QED BY <1>2, <2>4, PlainTag
<1>10. CASE tag \notin {"@const", "@param", "@return", "@this", "@template", "@extends",
                        "@implements", "@final", "@override"}
                         \cup AccessTags \cup TypedKindTags \cup DOMAIN KindTags
  <2>1. ClassifyTag(a, i) = a
    BY <1>1, <1>2, <1>10 DEF ClassifyTag
  <2> QED BY <1>2, <1>3, <2>1, PlainTag
<1> QED BY <1>4, <1>5, <1>6, <1>7, <1>8, <1>9, <1>10

(* What the loop of Classify keeps holds when it is done.                   *)
LEMMA ClassifyCompiles ==
  ASSUME NEW Parts, NEW document \in Seq([tag : STRING, parts : Seq(Parts)])
  PROVE  IsCompiled(Classify(document), document, Len(document))
<1>1. PICK n \in Nat : n = Len(document)
  OBVIOUS
<1>2. PICK base : base = NewAnnotation(document)
  OBVIOUS
<1> DEFINE Turn(g, k) == IF k = 0 THEN base ELSE ClassifyTag(g[k - 1], k)
           Turns(k, g) == g = [j \in 0 .. k |-> Turn(g, j)]
           Done(k) == \E g : Turns(k, g)
           T == {k \in Nat : Done(k)}
<1>3. 0 \in T
  <2>1. PICK g : g = [j \in 0 .. 0 |-> base]
    OBVIOUS
  <2>2. Turns(0, g)
    <3>1. \A j \in 0 .. 0 : Turn(g, j) = base
      OBVIOUS
    <3> HIDE DEF Turn
    <3> QED BY <2>1, <3>1
  <2> QED BY <2>2
<1>4. ASSUME NEW k \in Nat, k \in T
      PROVE  k + 1 \in T
  <2>1. PICK g : Turns(k, g)
    BY <1>4
  <2>2. PICK h : h = [j \in 0 .. k + 1 |-> IF j <= k THEN g[j] ELSE Turn(g, j)]
    OBVIOUS
  <2>3. \A j \in 0 .. k : h[j] = g[j]
    BY <2>2
  <2>4. ASSUME NEW j \in 0 .. k + 1 PROVE h[j] = Turn(h, j)
    <3>1. Turn(h, j) = Turn(g, j)
      <4>1. j = 0 \/ j - 1 \in 0 .. k
        OBVIOUS
      <4> QED BY <2>3, <4>1
    <3>2. h[j] = Turn(g, j)
      <4>1. CASE j <= k
        <5>1. j \in 0 .. k /\ h[j] = g[j]
          BY <2>3, <4>1
        <5> HIDE DEF Turn
        <5> QED BY <2>1, <5>1
      <4>2. CASE ~ (j <= k)
        <5> HIDE DEF Turn
        <5> QED BY <2>2, <4>2
      <4> QED BY <4>1, <4>2
    <3> QED BY <3>1, <3>2
  <2>5. Turns(k + 1, h)
    <3>1. DOMAIN h = 0 .. k + 1 /\ h = [j \in DOMAIN h |-> h[j]]
      BY <2>2
    <3> HIDE DEF Turn
    <3> QED BY <2>4, <3>1
  <2> HIDE DEF Turns
  <2> QED BY <2>5
<1> HIDE DEF T
<1>5. n \in T
  BY <1>3, <1>4, SetInduction
<1>6. PICK g : Turns(n, g)
  BY <1>5 DEF T
<1>7. PICK after : /\ after = CHOOSE f : f = [j \in 0 .. n |->
                                 IF j = 0 THEN base ELSE ClassifyTag(f[j - 1], j)]
                   /\ Turns(n, after)
  BY <1>6
<1>8. Classify(document) = after[n]
  BY <1>1, <1>2, <1>7 DEF Classify
<1>9. \A j \in 0 .. n : IsCompiled(after[j], document, j)
  <2>1. after[0] = base /\ \A j \in 0 .. n : j # 0 => after[j] = ClassifyTag(after[j - 1], j)
    <3>1. \A j \in 0 .. n : after[j] = Turn(after, j)
      <4> HIDE DEF Turn
      <4> QED BY <1>7
    <3> QED BY <3>1
  <2> DEFINE U == {j \in Nat : j <= n => IsCompiled(after[j], document, j)}
  <2>2. 0 \in U
    BY <1>2, <2>1 DEF NewAnnotation, IsCompiled, AnnotationFields
  <2>3. ASSUME NEW j \in Nat, j \in U PROVE j + 1 \in U
    <3>1. SUFFICES ASSUME j + 1 <= n PROVE IsCompiled(after[j + 1], document, j + 1)
      OBVIOUS
    <3>2. IsCompiled(after[j], document, j) /\ j < Len(document)
      BY <1>1, <2>3, <3>1
    <3>3. after[j + 1] = ClassifyTag(after[j], j + 1)
      BY <2>1, <3>1
    <3> QED BY <3>2, <3>3, TagKeeps
  <2> HIDE DEF U
  <2>4. \A j \in Nat : j \in U
    BY <2>2, <2>3, SetInduction
  <2> QED BY <2>4 DEF U
<1> QED BY <1>1, <1>8, <1>9

(* An annotation that is compiled is asked the same by its kind and by its  *)
(* kind tag.                                                               *)
LEMMA KindsAgree ==
  ASSUME NEW document, NEW n \in Nat, NEW a, IsCompiled(a, document, n)
  PROVE  KindAgrees(a)
<1>1. SUFFICES ASSUME a.reports = {}, a.failed = {}
               PROVE  LET tag == IF a.kind_tag = 0 THEN "" ELSE TagName(a, a.kind_tag)
                      IN  /\ tag \in DOMAIN KindTags => a.kind = KindTags[tag]
                          /\ tag = "@const" => a.kind = "Type"
                          /\ a.kind_tag = 0 => a.kind \in {"None", "Function"}
                          /\ a.kind \in {"Constructor", "Interface"}
                               => ClassKind(a) # "NOTREACHED"
                          /\ a.kind \in {"Define", "Type", "TypeDef"}
                               => a.type_node = a.kind_tag
  BY DEF KindAgrees
<1>2. CASE a.kind_tag = 0
  BY <1>1, <1>2, KindTagsAre DEF IsCompiled
<1>3. CASE a.kind_tag # 0
  <2>1. PICK tag : tag = TagName(a, a.kind_tag) /\ tag = document[a.kind_tag].tag
    BY DEF IsCompiled, TagName
  <2>2. /\ tag \in DOMAIN KindTags \cup {"@const"}
        /\ a.kind = IF tag = "@const" THEN "Type" ELSE KindTags[tag]
        /\ a.kind \in {"Define", "Type", "TypeDef"} => a.type_node = a.kind_tag
    BY <1>1, <1>3, <2>1 DEF IsCompiled
  <2>3. tag = "@const" => tag \notin DOMAIN KindTags
    BY KindTagsAre
  <2>4. a.kind \in {"Constructor", "Interface"}
          => tag \in {"@constructor", "@interface", "@record"}
    BY <2>2, KindTagsAre
  <2>5. a.kind \in {"Constructor", "Interface"} => ClassKind(a) # "NOTREACHED"
    BY <1>3, <2>1, <2>4 DEF ClassKind
  <2> QED BY <1>3, <2>1, <2>2, <2>3, <2>5
<1> QED BY <1>2, <1>3

(* Without its kind it is asked the same only if no tag gave it one.        *)
LEMMA KindIsMissed ==
  ASSUME NEW document, NEW n \in Nat, NEW a, IsCompiled(a, document, n),
         a.reports = {}, a.failed = {},
         NEW b, b = [a EXCEPT !.kind = "None"]
  PROVE  KindAgrees(b) <=> a.kind_tag = 0
<1>1. /\ b.kind = "None" /\ b.kind_tag = a.kind_tag /\ b.document = document
      /\ b.reports = {} /\ b.failed = {}
  BY DEF IsCompiled, AnnotationFields
<1>2. CASE a.kind_tag = 0
  BY <1>1, <1>2, KindTagsAre DEF KindAgrees
<1>3. CASE a.kind_tag # 0
  <2>1. PICK tag : tag = TagName(b, b.kind_tag) /\ tag = document[a.kind_tag].tag
    BY <1>1 DEF TagName
  <2>2. tag \in DOMAIN KindTags \cup {"@const"}
    BY <1>3, <2>1 DEF IsCompiled
  <2>3. tag \in DOMAIN KindTags => KindTags[tag] # "None"
    BY KindTagsAre
  <2> QED BY <1>1, <1>3, <2>1, <2>2, <2>3 DEF KindAgrees
<1> QED BY <1>2, <1>3

(* Whatever the tags of a document and their order, if none was reported as *)
(* one too many, the annotation that its reader gets is asked the same by   *)
(* its kind and by its kind tag exactly when it has no kind tag or the move *)
(* constructor copies the kind, which it does not (annotation.cc:19): the   *)
(* two fields that ClassifyTag writes never disagree before.                *)
THEOREM KindLostByMoveOnly ==
  ASSUME NEW Parts, NEW document \in Seq([tag : STRING, parts : Seq(Parts)])
  PROVE  LosesKindInMoveOnly(Classify(document))
<1>1. PICK a : a = Classify(document)
  OBVIOUS
<1>2. Len(document) \in Nat /\ IsCompiled(a, document, Len(document))
  BY <1>1, ClassifyCompiles
<1>3. ASSUME a.reports = {}, a.failed = {}, NEW keeps \in BOOLEAN
      PROVE  KindAgrees(MovedKeeping(a, keeps)) <=> (keeps \/ a.kind_tag = 0)
  <2>1. CASE keeps
    BY <1>2, <2>1, KindsAgree DEF MovedKeeping
  <2>2. CASE ~ keeps
    BY <1>2, <1>3, <2>2, KindIsMissed DEF MovedKeeping
  <2> QED BY <2>1, <2>2
<1> QED BY <1>1, <1>3 DEF LosesKindInMoveOnly
=============================================================================
