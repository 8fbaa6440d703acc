------------------------------ MODULE TypeFactory ------------------------------
(***************************************************************************)
(* The types of the analyzer, analyzer/type_factory.cc, types.cc and the    *)
(* constructed classes of factory.cc.  Types are shared: the factory keeps  *)
(* a map from the parts of a type to the type it made from them, so that    *)
(* two types are the same exactly when their addresses are.  An address is  *)
(* a position in the sequence of the types made so far.                     *)
(*                                                                          *)
(* The operators take and return a state s: the types, the position of the  *)
(* type the last operator returned (at), the errors reported and the        *)
(* assertions that failed.                                                  *)
(***************************************************************************)
EXTENDS Naturals, Sequences, FiniteSets

CONSTANTS
    ClassNames,       \* names of classes and interfaces
    GenericArity,     \* class name -> number of type parameters, 0 for none
    PrimitiveNames,   \* names of primitive types
    ParameterNames,   \* names of type parameters
    AliasNames,       \* names of type aliases
    Declarations      \* the types of these names, in the order they are made

VARIABLE store        \* types, errors and failed assertions

(* The kinds of types that have one instance. *)
Singletons == <<"any", "invalid", "nil", "null", "unspecified", "void">>
Single(kind) == CHOOSE i \in DOMAIN Singletons : Singletons[i] = kind

At(s, i) == [s EXCEPT !.at = i]
TypeAt(s, i) == s.types[i]
IsKind(s, kind) == s.types[s.at].kind = kind

Check(s, assertion, holds) ==
    IF holds THEN s ELSE [s EXCEPT !.failed = @ \cup {assertion}]
AddError(s, code, node) == [s EXCEPT !.errors = @ \cup {<<code, node>>}]

-----------------------------------------------------------------------------
(* Find and Register of the caches: the type of these parts, made if there  *)
(* is none.                                                                 *)
New(s, type) ==
    LET present == {i \in DOMAIN s.types : s.types[i] = type}
    IN  IF present # {}
        THEN At(s, CHOOSE i \in present : TRUE)
        ELSE [s EXCEPT !.types = Append(@, type), !.at = Len(s.types) + 1]

(* A class is its name and, for a constructed one, its arguments. *)
NewClassType(s, class) == New(s, [kind |-> "class", class |-> class])

NewConstructedClass(s, name, arguments) ==
    NewClassType(Check(Check(s, "ConstructedClass", Len(arguments) >= 1),
                       "ConstructedClass", Len(arguments) = GenericArity[name]),
                 [name |-> name, arguments |-> arguments])

(* FunctionType: as many parameters as the arity says. *)
MatchesArity(arity, parameters) ==
    /\ arity.minimum <= arity.maximum
    /\ Len(parameters) = arity.maximum + IF arity.has_rest THEN 1 ELSE 0

NewFunctionType(s, kind, type_parameters, arity, parameters, return, this) ==
    New(Check(s, "FunctionType", MatchesArity(arity, parameters)),
        [kind |-> "function", function |-> kind,
         type_parameters |-> type_parameters, arity |-> arity,
         parameters |-> parameters, return |-> return, this |-> this])

NewLabeledType(s, label, type) ==
    New(Check(s, "LabeledType", TypeAt(s, type).kind # "labeled"),
        [kind |-> "labeled", label |-> label, type |-> type])

(* Members are sorted by their names, so that their order is no part of the *)
(* type.                                                                    *)
NewRecordType(s, members) ==
    LET labels == {members[i] : i \in DOMAIN members}
        names == {TypeAt(s, t).label : t \in labels}
    IN  New(Check(s, "RecordType", Cardinality(names) = Len(members)),
            [kind |-> "record", labels |-> labels])

NewTupleType(s, members) == New(s, [kind |-> "tuple", elements |-> members])

UnionKeyNested(s, members) ==
    IF Single("any") \in members THEN {Single("any")}
                                 ELSE members \ {Single("nil")}

(* ComputeUnionTypeKey: any absorbs the others, nil is left out and the      *)
(* members of a union take its place.                                        *)
UnionKey(s, members) ==
    IF Single("any") \in members
    THEN {Single("any")}
    ELSE UNION {CASE TypeAt(s, t).kind = "nil" -> {}
                  [] TypeAt(s, t).kind = "union" -> TypeAt(s, t).union
                  [] OTHER -> {t} : t \in members}

NewUnionTypeOf(s, key) ==
    IF key = {} THEN At(s, Single("nil"))
    ELSE IF Cardinality(key) = 1 THEN At(s, CHOOSE t \in key : TRUE)
    ELSE New(s, [kind |-> "union", union |-> key])

NewUnionType(s, members) == NewUnionTypeOf(s, UnionKey(s, members))

-----------------------------------------------------------------------------
(* What is there before an annotation is read: the single types, the        *)
(* primitive types, and what NameResolver registered for declared names.    *)
Declared ==
    {[kind |-> "primitive", name |-> n] : n \in PrimitiveNames}
      \cup {[kind |-> "type_parameter", name |-> n] : n \in ParameterNames}
      \cup {[kind |-> "alias", name |-> n] : n \in AliasNames}
      \cup {[kind |-> "class", class |-> [name |-> n, arguments |-> <<>>]] :
              n \in ClassNames}

ASSUME DeclarationsAssumption ==
    /\ Declarations \in Seq(Declared)
    /\ {Declarations[i] : i \in DOMAIN Declarations} = Declared
    /\ \A i, j \in DOMAIN Declarations : Declarations[i] = Declarations[j] => i = j

InitialTypes ==
    [i \in DOMAIN Singletons |-> [kind |-> Singletons[i]]] \o Declarations

InitialState == [types |-> InitialTypes, at |-> 1, errors |-> {}, failed |-> {}]

(* Context::TryTypeOf of a type name, 0 for none. *)
NameOfType(type) == IF type.kind = "class" THEN type.class.name ELSE type.name
TryTypeOf(name) ==
    LET named == {i \in DOMAIN InitialTypes :
                    /\ InitialTypes[i] \in Declared
                    /\ NameOfType(InitialTypes[i]) = name}
    IN  IF named = {} THEN 0 ELSE CHOOSE i \in named : TRUE

-----------------------------------------------------------------------------
(* The factory by itself: its members are called in any order, with any of   *)
(* the types made so far that the declarations of their parameters allow.    *)
(* TransformTypeApplication counts the arguments before it asks for a class, *)
(* TransformRecordType leaves out a member whose name is repeated.           *)
FunctionTypeKinds == {"Constructor", "Normal"}
FunctionTypeArities == [minimum : Nat, maximum : Nat, has_rest : BOOLEAN]

Made == DOMAIN store.types
OfKind(kind) == {i \in Made : store.types[i].kind = kind}

CallNewClassType ==
    \E class \in ClassNames :
        store' = NewClassType(store, [name |-> class, arguments |-> <<>>])
CallNewConstructedClass ==
    \E class \in ClassNames : \E arguments \in Seq(Made) :
        /\ Len(arguments) = GenericArity[class] /\ arguments # <<>>
        /\ store' = NewConstructedClass(store, class, arguments)
CallNewFunctionType ==
    \E kind \in FunctionTypeKinds, arity \in FunctionTypeArities,
       type_parameters \in Seq(OfKind("type_parameter")),
       parameters \in Seq(Made), return \in Made, this \in Made :
        store' = NewFunctionType(store, kind, type_parameters, arity, parameters,
                                 return, this)
CallNewLabeledType ==
    \E label \in STRING, type \in Made : store' = NewLabeledType(store, label, type)
CallNewRecordType ==
    \E members \in Seq(OfKind("labeled")) :
        /\ \A i, j \in DOMAIN members :
             TypeAt(store, members[i]).label = TypeAt(store, members[j]).label => i = j
        /\ store' = NewRecordType(store, members)
CallNewTupleType ==
    \E members \in Seq(Made) : store' = NewTupleType(store, members)
CallNewUnionType ==
    \E members \in SUBSET Made : store' = NewUnionType(store, members)

FactoryNext ==
    \/ CallNewClassType
    \/ CallNewConstructedClass
    \/ CallNewFunctionType
    \/ CallNewLabeledType
    \/ CallNewRecordType
    \/ CallNewTupleType
    \/ CallNewUnionType

FactorySpec == store = InitialState /\ [][FactoryNext]_store

-----------------------------------------------------------------------------
(* Properties. *)

(* What a type stands for, whatever its position: the members of a union are *)
(* a set in which a union among them is dissolved.                          *)
Dissolved(types, meaning, i) ==
    IF types[i].kind = "union" THEN meaning[i][2] ELSE {meaning[i]}
MeaningFrom(types, meaning, i) ==
    LET t == types[i]
        Each(seq) == [k \in DOMAIN seq |-> meaning[seq[k]]]
    IN  CASE t.kind = "union" ->
               <<"union", UNION {Dissolved(types, meaning, m) : m \in t.union}>>
          [] t.kind = "tuple" -> <<"tuple", Each(t.elements)>>
          [] t.kind = "record" -> <<"record", {meaning[l] : l \in t.labels}>>
          [] t.kind = "labeled" -> <<"labeled", t.label, meaning[t.type]>>
          [] t.kind = "class" ->
               <<"class", t.class.name, Each(t.class.arguments)>>
          [] t.kind = "function" ->
               <<"function", t.function, t.arity, Each(t.parameters),
                 Each(t.type_parameters), meaning[t.return], meaning[t.this]>>
          [] t.kind \in {"primitive", "type_parameter", "alias"} ->
               <<t.kind, t.name>>
          [] OTHER -> <<t.kind>>
Meaning(types) ==
    LET meaning[i \in DOMAIN types] == MeaningFrom(types, meaning, i) IN meaning
Flattened(types, i) == Dissolved(types, Meaning(types), i)

(* A union has two members at least, and none that is any, nil or a union.   *)
UnionsAreFlat(types) ==
    \A i \in DOMAIN types : types[i].kind = "union" =>
        /\ Cardinality(types[i].union) > 1
        /\ \A m \in types[i].union : types[m].kind \notin {"any", "nil", "union"}

(* Types are compared by address everywhere, in the caches, the keys of      *)
(* unions and functions and by the checks of the analyzer.  So no two types  *)
(* that are made may stand for the same, however they were written down      *)
(* (members of a union in another order or nested, records with sorted       *)
(* members), and a union never has one member or the type any in it.         *)
OneTypePerMeaning ==
    /\ Cardinality({Meaning(store.types)[i] : i \in DOMAIN store.types})
         = Len(store.types)
    /\ UnionsAreFlat(store.types)
================================================================================
