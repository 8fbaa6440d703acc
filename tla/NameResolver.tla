----------------------------- MODULE NameResolver -----------------------------
(***************************************************************************)
(* The first analyzer pass, analyzer/name_resolver.cc: it walks the syntax *)
(* trees, opens an Environment for every construct that has a scope, binds *)
(* the declared variables and types in it, and gives every reference and   *)
(* every type name the variable or type it denotes.  A name that is used   *)
(* before it is declared is kept in a list of the current environment and  *)
(* looked up again, or handed outwards, by the environment's destructor.   *)
(*                                                                         *)
(* The syntax tree is any tree: the walk is a sequence of visits chosen    *)
(* freely, in which what is entered is left in the reverse order (frames). *)
(* A handler that visits children before it is done leaves a frame with    *)
(* the rest of its work.  Environments are numbered in the order of their  *)
(* construction, 1 being the global one; an environment is constructed     *)
(* inside the current one, so the nearest of several enclosing             *)
(* environments is the one with the largest number.                        *)
(***************************************************************************)
EXTENDS Naturals, Sequences, FiniteSets

CONSTANTS
    Name,             \* identifiers
    GlobalName,       \* the identifier "global"
    NoName,           \* an omitted name: ast::Empty, or no alias
    PrimitiveTypes,   \* names of the types bound before anything is visited
    MaxEnvironments,  \* bound: environments constructed
    MaxVisits,        \* bound: references and type names visited
    MaxFrames,        \* bound: nesting of unfinished handlers
    MaxReports        \* bound: errors of names declared several times

ASSUME NameAssumption ==
    /\ GlobalName \in Name
    /\ NoName \notin Name
    /\ PrimitiveTypes \subseteq Name

(* value_map_ and type_map_ of an environment are one set of keys. *)
Variable(n) == <<"variable", n>>
Type(n) == <<"type", n>>
Key == {"variable", "type"} \X Name

VARIABLES
    environment_,        \* the current environment, 0 after the global one
    enclosing,           \* environment -> it and the outer_ ones around it
    document,            \* environment -> the annotated declaration whose
                         \*   JsDoc document is visited in it, 0 for none
    bound,               \* environment -> keys of value_map_ and type_map_
    assignments,         \* environment -> name -> assignments(), 2 for more
    forward_referenced,  \* environment -> the two lists of pending visits
    frames,              \* unfinished handlers, the innermost first
    visits,              \* references and type names, in visiting order
    registered,          \* <<visit, environment>>: RegisterValue/RegisterType
    undefined,           \* visits reported as undefined variable or type
    multiple,            \* <<environment, key>> of MULTIPLE_OCCURRENCES
    global_properties,   \* name -> whose data the global object's property has
    rejected             \* names whose property the editor could not add

vars == <<environment_, enclosing, document, bound, assignments,
          forward_referenced, frames, visits, registered, undefined, multiple,
          global_properties, rejected>>

declarations == <<bound, assignments, multiple, global_properties, rejected>>
references == <<forward_referenced, visits, registered, undefined>>

Environment == DOMAIN enclosing

Frame == [work : {"environment", "tags", "declaration"}, name : {NoName},
          class : BOOLEAN, document : Nat]
         \cup [work : {"annotated", "binding"}, name : Name,
               class : BOOLEAN, document : Nat]

TypeOK ==
    /\ enclosing \in Seq(SUBSET Nat)
    /\ environment_ \in Environment \cup {0}
    /\ document \in [Environment -> Nat]
    /\ bound \in [Environment -> SUBSET Key]
    /\ assignments \in [Environment -> [Name -> 0 .. 2]]
    /\ forward_referenced \in [Environment -> SUBSET DOMAIN visits]
    /\ frames \in Seq(Frame)
    /\ visits \in Seq([node : Nat, key : Key, environment : Environment])
    /\ registered \subseteq (DOMAIN visits) \X Environment
    /\ undefined \subseteq DOMAIN visits
    /\ multiple \subseteq Environment \X Key
    /\ global_properties \in [Name -> {"none", "variable", "member"}]
    /\ rejected \subseteq Name

NoAssignments == [n \in Name |-> 0]

(* NewGlobalEnvironment: the primitive types, and a variable "global" with *)
(* the global object assigned to it and to its property of that name.      *)
Init ==
    /\ environment_ = 1
    /\ enclosing = <<{1}>>
    /\ document = <<0>>
    /\ bound = <<{Type(n) : n \in PrimitiveTypes} \cup {Variable(GlobalName)}>>
    /\ assignments = <<[NoAssignments EXCEPT ![GlobalName] = 1]>>
    /\ forward_referenced = <<{}>>
    /\ frames = <<>>
    /\ visits = <<>>
    /\ registered = {}
    /\ undefined = {}
    /\ multiple = {}
    /\ global_properties =
           [n \in Name |-> IF n = GlobalName THEN "variable" ELSE "none"]
    /\ rejected = {}

-----------------------------------------------------------------------------
(* Looking names up. *)

(* The environments on the outer_ chain of e that bind k. *)
Binders(e, k) == {f \in enclosing[e] : k \in bound[f]}

Innermost(S) == {e \in S : \A f \in S : f <= e}

IsRegistered(v) == \E e \in Environment : <<v, e>> \in registered

-----------------------------------------------------------------------------
(* Declaring names.  BindVariable and BindType look in the current         *)
(* environment only, and report a key it binds already.                    *)

Bound(keys) == [bound EXCEPT ![environment_] = @ \cup keys]

Repeated(keys) == {environment_} \X (keys \cap bound[environment_])

Report(reports) ==
    /\ multiple' = multiple \cup reports
    /\ Cardinality(multiple') <= MaxReports

ExposeAnywhere(names) ==
    LET new == {n \in names : Variable(n) \notin bound[environment_]}
        free == {n \in new : global_properties[n] = "none"}
    IN  /\ global_properties' =
               [n \in Name |-> IF n \in free THEN "variable"
                                             ELSE global_properties[n]]
        /\ rejected' = rejected \cup (new \ free)

(* BindVariable at the global scope also makes a property of the global    *)
(* object that shares the variable's data.  The property map keeps the     *)
(* property it has if there is one.                                        *)
ExposeGlobal(names) ==
    LET new == {n \in names : /\ environment_ = 1
                              /\ Variable(n) \notin bound[1]}
        free == {n \in new : global_properties[n] = "none"}
    IN  /\ global_properties' =
               [n \in Name |-> IF n \in free THEN "variable"
                                             ELSE global_properties[n]]
        /\ rejected' = rejected \cup (new \ free)

AssignmentsOf(n) == assignments[environment_][n]

Counted(n) == IF AssignmentsOf(n) = 2 THEN 2 ELSE AssignmentsOf(n) + 1

Assigned(n) == [assignments EXCEPT ![environment_][n] = Counted(n)]

(* Names that may be omitted, as sets: the name of the declaration itself, *)
(* and the alias that its context gives it.                                *)
Given(n) == {n} \ {NoName}
Alias(n) == {n} \ {NoName}

(* The Environment constructor, in an action that binds outerKeys in the   *)
(* current environment first and keys in the new one.                      *)
Construct(outerKeys, keys, d) ==
    LET e == Len(enclosing) + 1
    IN  /\ e <= MaxEnvironments
        /\ environment_' = e
        /\ enclosing' = Append(enclosing, enclosing[environment_] \cup {e})
        /\ document' = Append(document, d)
        /\ bound' = Append(Bound(outerKeys), keys)
        /\ forward_referenced' = Append(forward_referenced, {})

Push(work, name, class, d) ==
    /\ Len(frames) < MaxFrames
    /\ frames' = <<[work |-> work, name |-> name, class |-> class,
                    document |-> d]>> \o frames

Pop(work) ==
    /\ frames # <<>>
    /\ Head(frames).work \in work
    /\ frames' = Tail(frames)

(* The innermost unfinished handler is one of these. *)
Within(work) == frames # <<>> /\ Head(frames).work \in work

(* Syntax of any kind may follow; a JsDoc document has only names in it. *)
Walking == environment_ # 0 /\ ~ Within({"tags"})

-----------------------------------------------------------------------------
(* Handlers that construct an Environment. *)

(* Modules, blocks, arrow functions, catch clauses and for statements. *)
EnterEnvironment ==
    /\ Walking
    /\ Construct({}, {}, 0)
    /\ assignments' = Append(assignments, NoAssignments)
    /\ Push("environment", NoName, FALSE, 0)
    /\ UNCHANGED <<visits, registered, undefined, multiple, global_properties,
                   rejected>>

(* ProcessMethod and ProcessPropertyAssignment: the type parameters of the *)
(* class, then those of the member's own @template tags.                   *)
EnterMember ==
    \E classParameters, ownParameters \in SUBSET {Type(n) : n \in Name} :
        /\ Walking
        /\ Construct({}, classParameters \cup ownParameters, 0)
        /\ assignments' = Append(assignments, NoAssignments)
        /\ Report({environment_'} \X (classParameters \cap ownParameters))
        /\ Push("environment", NoName, FALSE, 0)
        /\ UNCHANGED <<visits, registered, undefined, global_properties,
                       rejected>>

(* ProcessParamTags: an environment for the names of the @param tags, in   *)
(* which the annotation's document is then visited.  It is called for each *)
(* binding of an annotated declaration, and for a property assignment,     *)
(* which has a document of its own.                                        *)
EnterTags ==
    /\ Walking
    /\ Construct({}, {}, IF Within({"declaration", "annotated"})
                        THEN Head(frames).document
                        ELSE Len(enclosing) + 1)
    /\ assignments' = Append(assignments, NoAssignments)
    /\ Push("tags", NoName, FALSE, 0)
    /\ UNCHANGED <<visits, registered, undefined, multiple, global_properties,
                   rejected>>

BindTagParameter ==
    \E n \in Name :
        /\ Within({"tags"})
        /\ \A v \in DOMAIN visits : visits[v].environment # environment_
        /\ bound' = Bound({Variable(n)})
        /\ Report(Repeated({Variable(n)}))
        /\ UNCHANGED <<environment_, enclosing, document, assignments,
                       global_properties, rejected, frames, references>>

(* The document a class or a function is annotated with when it initializes *)
(* the binding under way and takes its name.                                *)
SharedDocument(alias) ==
    IF Within({"annotated"}) /\ Head(frames).name = alias
    THEN Head(frames).document
    ELSE 0

(* ProcessClass.  alias is the name an anonymous class is given by what it *)
(* initializes; the class binds it as a type too.  A second class, or a    *)
(* class after a value of the same name, is not bound as a type.           *)
VisitClass ==
    \E name, alias \in Name \cup {NoName}, parameters \in SUBSET Name :
        LET aliasKeys == {Type(n) : n \in Alias(alias)}
            first == {n \in Given(name) : AssignmentsOf(n) = 0}
            nameTypes == {Type(n) : n \in first}
            variables == {Variable(n) : n \in Given(name)}
        IN  /\ Walking
            /\ Construct(variables \cup aliasKeys \cup nameTypes,
                         {Type(n) : n \in parameters}, SharedDocument(alias))
            /\ assignments' =
                   Append(IF name = NoName THEN assignments ELSE Assigned(name),
                          NoAssignments)
            /\ Report(Repeated(variables \cup aliasKeys \cup nameTypes) \cup
                      ({environment_} \X
                          ((aliasKeys \cap nameTypes) \cup
                           {Variable(n) : n \in Given(name) \ first})))
            /\ ExposeGlobal(Given(name))
            /\ Push("environment", NoName, FALSE, 0)
            /\ UNCHANGED <<visits, registered, undefined>>

(* ProcessFunction.  An annotated constructor is a class, which is assigned *)
(* to its variable only if nothing is yet, and bound as a type always.      *)
VisitFunction ==
    \E name, alias \in Name \cup {NoName}, parameters \in SUBSET Name,
       is_class \in BOOLEAN :
        LET aliasKeys == {Type(n) : n \in Alias(alias)}
            nameTypes == {Type(n) : n \in Given(name)}
            types == IF is_class THEN aliasKeys \cup nameTypes ELSE {}
            variables == {Variable(n) : n \in Given(name)}
            taken == {n \in Given(name) : is_class /\ AssignmentsOf(n) # 0}
        IN  /\ Walking
            /\ Construct(variables \cup types,
                         {Type(n) : n \in parameters}, SharedDocument(alias))
            /\ assignments' =
                   Append(IF name = NoName \/ taken # {} THEN assignments
                                                         ELSE Assigned(name),
                          NoAssignments)
            /\ Report(Repeated(variables \cup types) \cup
                      ({environment_} \X
                          ((types \cap aliasKeys \cap nameTypes) \cup
                           {Variable(n) : n \in taken})))
            /\ ExposeGlobal(Given(name))
            /\ Push("environment", NoName, FALSE, 0)
            /\ UNCHANGED <<visits, registered, undefined>>

FoundOutsideGlobal(e) ==
    {v \in forward_referenced[e] : e # 1 /\ visits[v].key \in bound[e]}
Found(e) == {v \in forward_referenced[e] : visits[v].key \in bound[e]}

AllOf(e) == forward_referenced[e]
NotFound(e) == forward_referenced[e] \ Found(e)

(* The destructor: what the environment binds by now is resolved, the rest *)
(* is handed to the outer environment or, at the global one, reported.     *)
(* NameResolver's own destructor closes the global environment.            *)
ResolveForwardReferences(e) ==
    /\ registered' = registered \cup {<<v, e>> : v \in Found(e)}
    /\ \/ /\ enclosing[e] \ {e} = {}
          /\ environment_' = 0
          /\ undefined' = undefined \cup NotFound(e)
          /\ forward_referenced' = [forward_referenced EXCEPT ![e] = {}]
       \/ \E outer \in Innermost(enclosing[e] \ {e}) :
          /\ environment_' = outer
          /\ undefined' = undefined
          /\ forward_referenced' =
                 [forward_referenced EXCEPT ![e] = {},
                                            ![outer] = @ \cup NotFound(e)]

LeaveEnvironment ==
    /\ environment_ # 0
    /\ \/ environment_ # 1 /\ Pop({"environment", "tags"})
       \/ environment_ = 1 /\ frames = <<>> /\ UNCHANGED frames
    /\ ResolveForwardReferences(environment_)
    /\ UNCHANGED <<enclosing, document, declarations, visits>>

-----------------------------------------------------------------------------
(* Bindings. *)

(* A BindingNameElement visits its initializer before it binds its name. *)
VisitBinding ==
    \E n \in Name :
        /\ Walking
        /\ Push("binding", n, FALSE, 0)
        /\ UNCHANGED <<environment_, enclosing, document, declarations,
                       references>>

(* known: the initializer has a value by now, which is assigned. *)
FinishBinding ==
    \E known \in BOOLEAN :
        LET n == Head(frames).name
            count == IF known THEN Counted(n) ELSE AssignmentsOf(n)
        IN  /\ Pop({"binding"})
            /\ bound' = Bound({Variable(n)})
            /\ assignments' = [assignments EXCEPT ![environment_][n] = count]
            /\ Report(Repeated({Variable(n)}) \cup
                   (IF count = 2 THEN {<<environment_, Variable(n)>>} ELSE {}))
            /\ ExposeGlobal({n})
            /\ UNCHANGED <<environment_, enclosing, document, references>>

(* ProcessVariableDeclaration: the bindings of an annotated var, let or    *)
(* const share its document.                                               *)
VisitAnnotatedDeclaration ==
    /\ Walking
    /\ Push("declaration", NoName, FALSE, Len(enclosing) + 1)
    /\ UNCHANGED <<environment_, enclosing, document, declarations, references>>

FinishAnnotatedDeclaration ==
    /\ Pop({"declaration"})
    /\ UNCHANGED <<environment_, enclosing, document, declarations, references>>

(* Unless the annotation is a mere @type, the name is bound first; a name  *)
(* with several assignments ends the declaration.                          *)
VisitAnnotatedBinding ==
    \E n \in Name, class \in BOOLEAN :
        /\ Within({"declaration"})
        /\ bound' = Bound({Variable(n)})
        /\ ExposeGlobal({n})
        /\ \/ /\ AssignmentsOf(n) = 2
              /\ Report({<<environment_, Variable(n)>>})
              /\ Pop({"declaration"})
           \/ /\ AssignmentsOf(n) < 2
              /\ Report(Repeated({Variable(n)}))
              /\ Push("annotated", n, class, Head(frames).document)
        /\ UNCHANGED <<environment_, enclosing, document, assignments,
                       references>>

(* The end of ProcessAssignment: @constructor, @interface and @typedef bind *)
(* the name as a type; then RecordAssignment.                               *)
FinishAnnotatedBinding ==
    \E known \in BOOLEAN :
        LET n == Head(frames).name
            types == IF Head(frames).class THEN {Type(n)} ELSE {}
        IN  /\ Pop({"annotated"})
            /\ bound' = Bound(types)
            /\ Report(Repeated(types))
            /\ assignments' = IF known THEN Assigned(n) ELSE assignments
            /\ UNCHANGED <<environment_, enclosing, document,
                           global_properties, rejected, references>>

(* ProcessTemplateTags binds the @template names in the current environment. *)
BindTemplateTag ==
    \E n \in Name :
        /\ Walking
        /\ bound' = Bound({Type(n)})
        /\ Report(Repeated({Type(n)}))
        /\ UNCHANGED <<environment_, enclosing, document, assignments,
                       global_properties, rejected, frames, references>>

-----------------------------------------------------------------------------
(* Uses of names. *)

LookupOutermost(k) ==
    {e \in Binders(environment_, k) :
        \A f \in Binders(environment_, k) : e <= f}
LookupAnywhere(k) == Innermost({e \in Environment : k \in bound[e]})
Lookup(k) == Innermost(Binders(environment_, k))

(* A reference or a type name is looked up from the current environment    *)
(* outwards, and kept for later if nothing is found.                       *)
Look(node, k) ==
    LET v == Len(visits) + 1
    IN  /\ v <= MaxVisits
        /\ visits' = Append(visits, [node |-> node, key |-> k,
                                     environment |-> environment_])
        /\ \/ /\ Binders(environment_, k) = {}
              /\ forward_referenced' =
                     [forward_referenced EXCEPT ![environment_] = @ \cup {v}]
              /\ UNCHANGED registered
           \/ \E e \in Lookup(k) :
              /\ registered' = registered \cup {<<v, e>>}
              /\ UNCHANGED forward_referenced
        /\ UNCHANGED <<environment_, enclosing, document, declarations,
                       frames, undefined>>

VisitName ==
    /\ environment_ # 0
    /\ \E k \in Key : Look(Len(visits) + 1, k)

(* The document of an annotated declaration is visited once for each of    *)
(* its bindings, always in an environment of its own.  A type name that is *)
(* found and has its type already is left alone.                           *)
RevisitName ==
    \E v \in DOMAIN visits :
        LET first == visits[v]
            found == Binders(environment_, first.key) # {}
        IN  /\ environment_ \in Environment \ {first.environment}
            /\ document[environment_] = document[first.environment]
            /\ document[environment_] # 0
            /\ ~ (first.key[1] = "type" /\ found /\
                  \E w \in DOMAIN visits :
                      visits[w].node = first.node /\ IsRegistered(w))
            /\ Look(first.node, first.key)

(* x = <expression of known value>, for a variable x found when visited. *)
AssignToReference ==
    \E v \in DOMAIN visits, e \in Environment :
        LET n == visits[v].key[2]
        IN  /\ environment_ = visits[v].environment
            /\ <<v, e>> \in registered
            /\ visits[v].key = Variable(n)
            /\ assignments' = [assignments EXCEPT ![e][n] =
                                   IF @ = 2 THEN 2 ELSE @ + 1]
            /\ UNCHANGED <<environment_, enclosing, document, bound,
                           multiple, global_properties, rejected, frames,
                           references>>

(* global.n, for a reference "global" that denotes the global object: *)
(* GetOrNewProperty.                                                  *)
VisitGlobalMember ==
    \E v \in DOMAIN visits, n \in Name :
        /\ environment_ = visits[v].environment
        /\ visits[v].key = Variable(GlobalName)
        /\ <<v, 1>> \in registered
        /\ global_properties[n] = "none"
        /\ global_properties' = [global_properties EXCEPT ![n] = "member"]
        /\ UNCHANGED <<environment_, enclosing, document, bound, assignments,
                       multiple, rejected, frames, references>>

Next ==
    \/ EnterEnvironment \/ EnterMember \/ EnterTags \/ BindTagParameter
    \/ VisitClass \/ VisitFunction \/ LeaveEnvironment
    \/ VisitBinding \/ FinishBinding
    \/ VisitAnnotatedDeclaration \/ FinishAnnotatedDeclaration
    \/ VisitAnnotatedBinding \/ FinishAnnotatedBinding \/ BindTemplateTag
    \/ VisitName \/ RevisitName \/ AssignToReference \/ VisitGlobalMember

Spec == Init /\ [][Next]_vars
-----------------------------------------------------------------------------
(* Properties. *)

IsOpen(e) == environment_ # 0 /\ e \in enclosing[environment_]

IsPending(v) == \E e \in Environment : v \in forward_referenced[e]

(* Every visited name has exactly one outcome: it is resolved, to a single *)
(* environment's binding, or it waits in the list of a single environment, *)
(* or it is reported undefined.  Handing a list outwards neither loses nor *)
(* repeats an entry.                                                       *)
OneOutcomePerVisit ==
    \A v \in DOMAIN visits :
        /\ IsRegistered(v) \/ IsPending(v) \/ v \in undefined
        /\ IsRegistered(v) => ~ IsPending(v) /\ v \notin undefined
        /\ v \in undefined => ~ IsPending(v)
        /\ \A e, f \in Environment :
              /\ <<v, e>> \in registered /\ <<v, f>> \in registered => e = f
              /\ v \in forward_referenced[e] /\ v \in forward_referenced[f]
                    => e = f

(* A name is resolved to an environment around the place it is used at,    *)
(* and one that binds it, whichever list it came from.                     *)
ResolvedInScope ==
    \A v \in DOMAIN visits, e \in Environment :
        <<v, e>> \in registered =>
            e \in Binders(visits[v].environment, visits[v].key)

(* A name reported undefined is bound by no environment around it, however *)
(* late the binding came.                                                  *)
UndefinedIsUnbound ==
    \A v \in undefined : Binders(visits[v].environment, visits[v].key) = {}

(* A name waits in the innermost environment around its place that is still *)
(* open, and none of the environments further in, all closed by now, binds  *)
(* it.                                                                      *)
PendingIsUnbound ==
    \A e \in Environment : \A v \in forward_referenced[e] :
        /\ e \in Innermost({f \in enclosing[visits[v].environment] : IsOpen(f)})
        /\ \A b \in Binders(visits[v].environment, visits[v].key) : b <= e

(* When the resolver is gone every name has been resolved or reported. *)
NothingPendingAtEnd ==
    environment_ = 0 =>
        \A v \in DOMAIN visits : IsRegistered(v) \/ v \in undefined

(* A global variable is a property of the global object with the same data, *)
(* except where the property was there first.                               *)
GlobalVariablesAreProperties ==
    \A n \in Name : Variable(n) \in bound[1] =>
        global_properties[n] = IF n \in rejected THEN "member" ELSE "variable"

(* NameResolver keeps the promise of LexicalScopes: the lists of forward    *)
(* references settle every use exactly when a scope that has its key closes *)
(* or at once, and the destructors lose none.                               *)
Scopes == INSTANCE LexicalScopes WITH
    open <- {e \in Environment : IsOpen(e)},
    uses <- [v \in DOMAIN visits |->
                [key |-> visits[v].key, environment |-> visits[v].environment]],
    settled <- registered

ImplementsScopes == Scopes!Spec

(* The inductive invariant.  The outer_ chains nest; after the global      *)
(* environment no handler is left, and nothing is undefined before.        *)
ChainsNest ==
    \A e \in Environment :
        /\ {1, e} \subseteq enclosing[e]
        /\ \A f \in enclosing[e] :
              f \in Environment /\ enclosing[f] = enclosing[e] \cap (1 .. f)

GlobalIsLast ==
    /\ environment_ = 0 => frames = <<>>
    /\ environment_ # 0 => undefined = {}

Inv ==
    /\ ChainsNest
    /\ GlobalIsLast
    /\ OneOutcomePerVisit
    /\ ResolvedInScope
    /\ UndefinedIsUnbound
    /\ PendingIsUnbound

=============================================================================
