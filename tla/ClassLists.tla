------------------------------ MODULE ClassLists ------------------------------
(***************************************************************************)
(* The class lists of src/aoba/analyzer/class_tree_builder.cc: the pure    *)
(* computations by which ClassTreeBuilder linearizes the ancestors of a    *)
(* class and instantiates the class list of a generic class for given      *)
(* type arguments.                                                         *)
(*                                                                         *)
(* A class value is a member of Class when it is written in the source     *)
(* program, and a record when it is a ConstructedClass.  The factory       *)
(* interns constructed classes by generic class and arguments              *)
(* (analyzer/factory.cc), so two records are equal exactly when the code   *)
(* holds the same pointer.  `lists' stands for the class_list_ members: it *)
(* maps every class whose list is set, that is every finalized class, to   *)
(* its list.                                                               *)
(***************************************************************************)
EXTENDS Naturals, Sequences, FiniteSets, SequencesExt

CONSTANTS
  NormalClass,     \* classes without type parameters
  GenericClass,    \* classes with type parameters
  TypeParameter,   \* type parameters, the T of G<T>
  PlainType,       \* the other types an argument may be
  ParametersOf     \* the parameter list of each generic class

Class == NormalClass \cup GenericClass
Argument == TypeParameter \cup PlainType
ConstructedClass ==
  {k \in [generic_class : GenericClass, arguments : Seq(Argument)] :
     Len(k.arguments) = Len(ParametersOf[k.generic_class])}
ClassValue == Class \cup ConstructedClass

ASSUME ClassAssumption ==
  /\ \A c \in Class : c \notin ConstructedClass
  /\ ParametersOf \in [GenericClass -> Seq(TypeParameter)]
  /\ IsFiniteSet(GenericClass)

(* A base class given as G<...> stands for G wherever readiness matters.   *)
OriginOf(clazz) ==
  IF clazz \in Class THEN clazz ELSE clazz.generic_class

OriginsOf(classes) == {OriginOf(c) : c \in Range(classes)}

-----------------------------------------------------------------------------
(* The class list of a constructed class.                                  *)

(* Parameters paired with the arguments at the same position.              *)
ComputeArgumentMap(constructed) ==
  LET parameters == ParametersOf[constructed.generic_class]
  IN  [p \in Range(parameters) |->
         constructed.arguments[CHOOSE i \in DOMAIN parameters :
                                 parameters[i] = p]]

(* Only the arguments themselves are substituted, not the arguments nested *)
(* inside them; a class without type arguments stands for itself.          *)
ConstructClass(clazz, argument_map) ==
  IF clazz \in Class
  THEN clazz
  ELSE [clazz EXCEPT !.arguments =
          [i \in DOMAIN @ |-> IF @[i] \in DOMAIN argument_map
                              THEN argument_map[@[i]]
                              ELSE @[i]]]

ListKeepingGeneric(lists, constructed) ==
  LET inherited == lists[constructed.generic_class]
      argument_map == ComputeArgumentMap(constructed)
  IN  <<constructed>> \o
        [i \in DOMAIN inherited |-> ConstructClass(inherited[i], argument_map)]

(* The list of `constructed': itself, then what its generic class inherits *)
(* with the arguments substituted.  A generic class that has no list yet   *)
(* contributes nothing.                                                    *)
ConstructedClassList(lists, constructed) ==
  LET generic == constructed.generic_class
      inherited == IF generic \in DOMAIN lists THEN lists[generic] ELSE <<>>
      argument_map == ComputeArgumentMap(constructed)
      list[i \in 0 .. Len(inherited)] ==
        IF i = 0 THEN <<constructed>>
        ELSE IF inherited[i] = generic THEN list[i - 1]
        ELSE Append(list[i - 1], ConstructClass(inherited[i], argument_map))
  IN  list[Len(inherited)]

(* The constructed classes finalized by finalizing those in `roots': each  *)
(* list may name constructed classes that have no list yet, and so on.     *)
(* Generic classes inherit acyclically, so a chain is no longer than their *)
(* number.                                                                 *)
Constructions(lists, roots) ==
  LET Named(classes) == UNION {Range(ConstructedClassList(lists, k)) : k \in classes}
      IsNew(c) == c \notin Class /\ c \notin DOMAIN lists
      reached[n \in Nat] ==
        IF n = 0
        THEN roots
        ELSE LET known == reached[n - 1]
             IN  known \cup {c \in Named(known) : IsNew(c)}
  IN  reached[Cardinality(GenericClass)] \cap ConstructedClass

-----------------------------------------------------------------------------
(* Recording lists.                                                        *)

(* Value::Editor::SetClassList inserts at the front of what is there.      *)
SetClassList(lists, clazz, classes) ==
  [c \in DOMAIN lists \cup {clazz} |->
     IF c # clazz THEN lists[c]
     ELSE IF c \in DOMAIN lists THEN classes \o lists[c]
     ELSE classes]

(* Finalizes those of `roots' that have no list, and what they name.       *)
FinalizeMissingOnly(lists, roots) ==
  [c \in DOMAIN lists \cup roots |->
     IF c \in DOMAIN lists THEN lists[c] ELSE ConstructedClassList(lists, c)]
FinalizeMissing(lists, roots) ==
  LET new == Constructions(lists, roots \ DOMAIN lists)
  IN  [c \in DOMAIN lists \cup new |->
         IF c \in DOMAIN lists THEN lists[c] ELSE ConstructedClassList(lists, c)]

FinalizeConstructedClass(lists, constructed) ==
  LET classes == ConstructedClassList(lists, constructed)
      named == {c \in Range(classes) : c \notin Class /\ c # constructed}
  IN  SetClassList(FinalizeMissing(lists, named), constructed, classes)

-----------------------------------------------------------------------------
(* The class list of a class of the program, in breadth-first order.       *)

(* `presents' of the code holds every member but the class itself.         *)
AppendAlways(classes, base) == Append(classes, base)
AppendAbsent(classes, base) ==
  IF base \in Range(Tail(classes)) THEN classes ELSE Append(classes, base)

AppendAllAbsent(classes, bases) ==
  LET list[i \in 0 .. Len(bases)] ==
        IF i = 0 THEN classes ELSE AppendAbsent(list[i - 1], bases[i])
  IN  list[Len(bases)]

BaseClassesOf(heritage, clazz) ==
  IF clazz \in DOMAIN heritage THEN heritage[clazz] ELSE <<>>

(* A constructed class has no base_classes of its own: the search does not *)
(* go past it.                                                             *)
BreadthFirstClassList(heritage, clazz) ==
  LET bases == UNION {Range(heritage[c]) : c \in DOMAIN heritage}
      visited[n \in Nat] ==
        IF n = 0
        THEN <<clazz>>
        ELSE LET Visit[classes \in Seq(ClassValue)] ==
                   IF n > Len(classes) THEN classes
                   ELSE AppendAllAbsent(classes, BaseClassesOf(heritage, classes[n]))
             IN  Visit[visited[n - 1]]
  IN  visited[Cardinality(bases) + 1]

(* The lists once FinalizeClass has set the list of `clazz', and with it   *)
(* those of the constructed classes it met on the way.                     *)
ListsFinalizing(lists, heritage, clazz) ==
  LET classes == BreadthFirstClassList(heritage, clazz)
      constructed == {c \in Range(classes) : c \notin Class}
  IN  SetClassList(FinalizeMissing(lists, constructed), clazz, classes)

=============================================================================
