------------------------------ MODULE TypeResolver ------------------------------
(***************************************************************************)
(* The second pass of the analyzer, analyzer/type_resolver.cc: it visits    *)
(* the annotated constructs of the syntax trees, gives their nodes types,    *)
(* and gives every class its base classes.  Classes, and the types of the    *)
(* names in type expressions, are what NameResolver made of them.            *)
(*                                                                          *)
(* A construct is a record: its shape, the document that annotates it, the   *)
(* class that is its value ("none" if it is no class), the heritage of a     *)
(* class, parameters of a function, methods of a class, bindings of a        *)
(* declaration.  A program is the sequence of the constructs of its trees.   *)
(***************************************************************************)
EXTENDS TypeAnnotationTransformer, SequencesExt

CONSTANTS
    Programs,       \* sequences of annotated constructs
    Interfaces,     \* classes whose kind is Interface or Record
    ObjectClass     \* the class Object

ASSUME ClassAssumption ==
    /\ Interfaces \subseteq ClassNames
    /\ {ObjectClass, ArrayClass} \subseteq ClassNames \ Interfaces
    /\ GenericArity[ArrayClass] = 1

VARIABLES
    node_types,    \* <<visit, node>> -> type: Context::RegisterType
    base_classes,  \* class -> its bases; <<>> until SetClassHeritage
    program,       \* the constructs of the trees
    visited        \* how many of them were visited

vars == <<store, node_types, base_classes, program, visited>>

Init ==
    /\ store = InitialState
    /\ node_types = <<>>
    /\ base_classes = [c \in ClassNames |-> <<>>]
    /\ program \in Programs
    /\ visited = 0

(* The state the operators pass on: the store, what is registered in this    *)
(* visit and the base classes.                                              *)
Now == [s |-> store, nodes |-> <<>>, bases |-> base_classes]

IsClass(class) == class.name \notin Interfaces
Plain(name) == [name |-> name, arguments |-> <<>>]

-----------------------------------------------------------------------------
(* ResolveClass: [s, class], class "none" if the node denotes no class.      *)
NoClass(s) == [s |-> s, class |-> <<>>]
ClassNamed(s, name) ==
    IF name \in ClassNames THEN [s |-> s, class |-> <<Plain(name)>>] ELSE NoClass(s)
ClassMade(s) ==
    IF IsKind(s, "class") THEN [s |-> s, class |-> <<TypeAt(s, s.at).class>>]
                          ELSE NoClass(s)
ResolveClass(s, node) ==
    CASE Is(node, "TypeName") -> ClassNamed(s, node.name)
      [] Is(node, "TypeApplication") -> ClassMade(TransformTypeApplication(s, node))
      [] Is(node, "ReferenceExpression") -> ClassNamed(s, node.name)
      [] OTHER -> NoClass(s)

(* h: the list of bases so far, of the class h.class of the node h.node.     *)
AddBase(h, class) == [h EXCEPT !.list = Append(@, class)]
HeritageError(h, code, i) == [h EXCEPT !.s = AddError(@, code, [tag |-> i])]

Resolved(h, i) ==
    LET tag == h.annotation.document[i]
    IN  IF HasChildAt(tag, 1) THEN ResolveClass(h.s, ChildAt(tag, 1))
        ELSE [s |-> CheckChildAt(h.s, tag, 1), class |-> <<>>]

(* The operators below take r, the class that ResolveClass found. *)
AddHeritage(h, r) ==
    IF r.class # <<>> /\ IsClass(r.class[1])
    THEN AddBase([h EXCEPT !.s = r.s], r.class[1])
    ELSE [h EXCEPT !.s = AddError(r.s, "EXPECT_CLASS", h.node.heritage)]
ProcessHeritage(h, node) ==
    IF node.shape # "class" \/ Is(node.heritage, "ElisionExpression") THEN h
    ELSE AddHeritage(h, ResolveClass(h.s, node.heritage))

AddExtendedAnyNumber(h0, r, i) ==
    LET h == [h0 EXCEPT !.s = r.s]
    IN  CASE r.class = <<>> \/ IsClass(r.class[1]) # IsClass(Plain(h.class)) ->
               HeritageError(h, "EXPECT_CLASS", i)
          [] r.class # <<>> /\ r.class[1] \in Range(h.list) ->
               HeritageError(h, "MULTIPLE_OCCURRENCES", i)
          [] h.node.shape = "class" -> HeritageError(h, "UNEXPECT_EXTENDS", i)
          [] OTHER -> AddBase(h, r.class[1])
AddExtended(h0, r, i) ==
    LET h == [h0 EXCEPT !.s = r.s]
    IN  CASE r.class = <<>> \/ IsClass(r.class[1]) # IsClass(Plain(h.class)) ->
               HeritageError(h, "EXPECT_CLASS", i)
          [] r.class # <<>> /\ r.class[1] \in Range(h.list) ->
               HeritageError(h, "MULTIPLE_OCCURRENCES", i)
          [] \/ h.node.shape = "class"
             \/ IsClass(Plain(h.class)) /\ h.list # <<>> ->
               HeritageError(h, "UNEXPECT_EXTENDS", i)
          [] OTHER -> AddBase(h, r.class[1])
ProcessExtendsTag(h, i) == AddExtended(h, Resolved(h, i), i)

AddDefaultBase(h) ==
    IF IsClass(Plain(h.class)) /\ h.list = <<>> /\ h.class # ObjectClass
    THEN AddBase(h, Plain(ObjectClass)) ELSE h

AddImplemented(h0, r, i) ==
    LET h == [h0 EXCEPT !.s = r.s]
    IN  CASE r.class = <<>> \/ IsClass(r.class[1]) ->
               HeritageError(h, "EXPECT_INTERFACE", i)
          [] r.class # <<>> /\ r.class[1] \in Range(h.list) ->
               HeritageError(h, "MULTIPLE_OCCURRENCES", i)
          [] ~IsClass(Plain(h.class)) ->
               HeritageError(h, "UNEXPECT_IMPLEMENTS", i)
          [] OTHER -> AddBase(h, r.class[1])

ProcessImplementsTag(h, i) == AddImplemented(h, Resolved(h, i), i)

(* The references of a class are set once; its ProcessClassDefinition is the *)
(* action of that name in ClassTree.                                        *)
SetBaseClasses(now, h) ==
    [now EXCEPT !.s = Check(h.s, "base_classes", now.bases[h.class] = <<>>),
                !.bases[h.class] = @ \o h.list]
SetClassHeritage(now, class, a, node) ==
    LET start == [s |-> now.s, class |-> class, annotation |-> a, node |-> node,
                  list |-> <<>>]
        extended == FoldLeft(ProcessExtendsTag, ProcessHeritage(start, node),
                             a.extends_tags)
    IN  SetBaseClasses(now, FoldLeft(ProcessImplementsTag, AddDefaultBase(extended),
                                     a.implements_tags))

-----------------------------------------------------------------------------
(* RegisterType: once for a node; functions and methods have function types. *)
FitsNode(s, node) ==
    CASE node.shape = "function" -> IsKind(s, "class") \/ IsKind(s, "function")
      [] node.shape = "method" -> node.getter \/ IsKind(s, "function")
      [] OTHER -> TRUE

RegisterType(now, s, node, key) ==
    LET new == {k \in DOMAIN now.nodes : now.nodes[k].node = key}
        t == Check(Check(s, "NodeType", FitsNode(s, node)), "OneType", new = {})
    IN  [now EXCEPT !.s = t,
                    !.nodes = IF new = {} THEN Append(@, [node |-> key, type |-> s.at])
                                          ELSE @]

RegisterTypeAt(now, s, node, key) ==
    IF s.at = 0 THEN [now EXCEPT !.s = s] ELSE RegisterType(now, s, node, key)
RegisterTypeIfPossible(now, a, node, key, this_type) ==
    RegisterTypeAt(now, CompileType(now.s, a, node, this_type), node, key)

WithClassType(now, class) ==
    [now EXCEPT !.s = NewClassType(now.s, Plain(class))]

RegisterClassMember(now, a, node, key) ==
    RegisterTypeIfPossible(now, a, node, key, now.s.at)

(* The node is the left hand side of an assignment or a declared name.       *)
ProcessAssignment(now, a, node, key) ==
    IF node.class = "none" THEN RegisterTypeIfPossible(now, a, node, key, 0)
    ELSE RegisterClassMember(
             WithClassType(SetClassHeritage(now, node.class, a, node), node.class),
             a, node, key)

ProcessMethod(now, class_type, method, key) ==
    RegisterTypeIfPossible(now, Compile(method.document), method, key,
                           IF method.static THEN 0 ELSE class_type)

ProcessMethods(now, node) ==
    LET Add(n, i) == ProcessMethod(n, now.s.at, node.methods[i], <<"method", i>>)
    IN  FoldLeft(Add, now, [i \in DOMAIN node.methods |-> i])

ProcessClass(now, a, node) ==
    ProcessMethods(
        WithClassType(SetClassHeritage(now, node.class, a, node), node.class), node)

ProcessFunction(now, a, node) ==
    IF node.class = "none"
    THEN RegisterTypeIfPossible(now, a, node, <<"node", 0>>, 0)
    ELSE SetClassHeritage(now, node.class, a, node)

(* A binding that is no name gives its type to the whole declaration.        *)
ProcessVariableDeclaration(now, a, node) ==
    LET Bind(n, i) ==
            IF node.bindings[i].shape = "binding"
            THEN ProcessAssignment(n, a, node.bindings[i], <<"binding", i>>)
            ELSE RegisterTypeIfPossible(n, a, node, <<"node", 0>>, 0)
    IN  FoldLeft(Bind, now, [i \in DOMAIN node.bindings |-> i])

(* An assignment to a property is processed as a property and, the return    *)
(* missing, as an expression too.                                           *)
ProcessAssigned(now, a, node) ==
    IF node.assigned
    THEN RegisterTypeIfPossible(now, a,
                                [node EXCEPT !.shape = "expression", !.class = "none"],
                                <<"assignment", 0>>, 0)
    ELSE now
ProcessProperty(now, a, node) ==
    ProcessAssigned(ProcessAssignment(now, a, node, <<"node", 0>>), a, node)
ProcessExpression(now, a, node) ==
    RegisterTypeIfPossible(now, a, node, <<"node", 0>>, 0)

Construct == program[visited + 1]
IsNext(shape) == visited < Len(program) /\ Construct.shape = shape
Annotation == Compile(Construct.document)
Visit(result) ==
    /\ \E now \in {result} :
          /\ store' = now.s
          /\ base_classes' = now.bases
          /\ node_types' = Append(node_types, now.nodes)
    /\ visited' = visited + 1
    /\ UNCHANGED program

VisitClass ==
    IsNext("class") /\ Visit(ProcessClass(Now, Annotation, Construct))
VisitFunction ==
    IsNext("function") /\ Visit(ProcessFunction(Now, Annotation, Construct))
VisitVariables ==
    IsNext("variables")
    /\ Visit(ProcessVariableDeclaration(Now, Annotation, Construct))
VisitProperty ==
    IsNext("property") /\ Visit(ProcessProperty(Now, Annotation, Construct))
VisitExpression ==
    IsNext("expression") /\ Visit(ProcessExpression(Now, Annotation, Construct))

Next == VisitClass \/ VisitFunction \/ VisitVariables \/ VisitProperty
        \/ VisitExpression

Spec == Init /\ [][Next]_vars

-----------------------------------------------------------------------------
(* Properties. *)

LastDocument == program[visited].document
Classified == Classify(LastDocument)

(* The two ways to ask a reader's annotation for its kind give different     *)
(* answers of every document with a kind tag, and that is the doing of the   *)
(* move constructor (annotation.cc:19) alone: what ClassifyTag made of any   *)
(* tags, in any order, agrees, and would if the move kept it.                *)
OnlyMoveLosesKind == visited # 0 => LosesKindInMoveOnly(Classified)

(* A document whose @param tags have a type and a name each, no name twice   *)
(* and nothing after a rest parameter.                                      *)
HasPlainParameters(a) ==
    LET tag(k) == a.document[a.parameter_tags[k]]
        n == Len(a.parameter_tags)
    IN  /\ \A k \in 1 .. n : /\ Len(tag(k).parts) >= 2
                             /\ IsTypeSyntax(ChildAt(tag(k), 1))
                             /\ PartIs(tag(k), 2, "ReferenceExpression")
                             /\ k < n => ~PartIs(tag(k), 1, "RestType")
        /\ Cardinality({PartName(tag(k)) : k \in 1 .. n}) = n
ListOf(a) ==
    [k \in DOMAIN a.parameter_tags |->
       [name |-> PartName(a.document[a.parameter_tags[k]]),
        initializer |-> FALSE, rest |-> FALSE]]

(* TransformAsFunctionType: @param tags at a declaration without a function  *)
(* are "equivalent to" the same tags at a function with these parameters.    *)
(* The type and the errors are the same, though two different state machines *)
(* count the parameters.                                                    *)
ShorthandIsEquivalent ==
    visited # 0 =>
        LET a == Classified
            At0(node) == TransformAsFunctionType(InitialState, a, node, 0)
            SameType(f, g) == f.types[f.at] = g.types[g.at] /\ f.errors = g.errors
        IN  (a.kind = "Function" /\ HasPlainParameters(a)) =>
                SameType(At0([shape |-> "function", parameters |-> ListOf(a)]),
                         At0([shape |-> "binding"]))

(* A class has one class among its bases, the default base Object included,  *)
(* and before its interfaces; an interface has interfaces only; none twice.  *)
HeritageIsWellFormed ==
    "base_classes" \notin store.failed =>
        \A c \in ClassNames :
            LET bases == base_classes[c]
                classes == {k \in DOMAIN bases : IsClass(bases[k])}
            IN  /\ Cardinality(Range(bases)) = Len(bases)
                /\ IF IsClass(Plain(c)) THEN classes \subseteq {1} ELSE classes = {}
                /\ (IsClass(Plain(c)) /\ bases # <<>> /\ c # ObjectClass) =>
                      classes = {1}

(* "!" takes null away: a type that has null among its members loses it and  *)
(* nothing else, one that has not stays what it is and is reported.          *)
IsNullable(types, i) ==
    types[i].kind = "union" /\ Single("null") \in types[i].union
NonNullableExcludesNull ==
    visited # 0 =>
        \A i \in DOMAIN LastDocument :
            PartIs(LastDocument[i], 1, "NonNullableType") =>
                LET node == ChildAt(LastDocument[i], 1)
                    inner == Transform(InitialState, Child(node))
                    s == Transform(InitialState, node)
                    reported == <<"EXPECT_NULLABLE_TYPE", Child(node)>> \in s.errors
                IN  /\ reported = ~IsNullable(inner.types, inner.at)
                    /\ ~IsNullable(s.types, s.at)
                    /\ Flattened(inner.types, inner.at) \ {<<"null">>}
                         = Flattened(s.types, s.at)

(* A variable that is annotated with @type, and is no class, gets a type:    *)
(* the tests expect it in the printed tree.                                 *)
AnnotatedVariableHasType ==
    \A v \in 1 .. visited :
        (/\ program[v].shape = "variables"
         /\ \E i \in DOMAIN program[v].document :
              /\ program[v].document[i].tag = "@type"
              /\ PartIs(program[v].document[i], 1, "AnyType"))
        => node_types[v] # <<>>
================================================================================
