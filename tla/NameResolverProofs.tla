-------------------------- MODULE NameResolverProofs --------------------------
(***************************************************************************)
(* Proofs about NameResolver, for every set of names, every number of      *)
(* environments and every walk.                                            *)
(*                                                                         *)
(* The state splits in two.  What is declared how often, the frames and    *)
(* the global object matter to the types only.  To the scopes a step is    *)
(* one of five kinds, whatever handler takes it: it opens an environment,  *)
(* binds keys in the current one, closes it, looks a name up, or does      *)
(* nothing.  StepKinds says so once, and the invariant and the refinement  *)
(* are proved for the five kinds.                                          *)
(***************************************************************************)
EXTENDS NameResolver, TLAPS

-----------------------------------------------------------------------------
(* Lists indexed by environment. *)

(* Appending to a function on 1 .. n, read as a list. *)
LEMMA AppendToList ==
    ASSUME NEW S, NEW n \in Nat, NEW s \in [1 .. n -> S], NEW x \in S
    PROVE  /\ Append(s, x) \in [1 .. n + 1 -> S]
           /\ Append(s, x)[n + 1] = x
           /\ \A i \in 1 .. n : Append(s, x)[i] = s[i]
<1>1. s \in Seq(S) /\ Len(s) = n
  OBVIOUS
<1>2. /\ Append(s, x) \in Seq(S)
      /\ Len(Append(s, x)) = n + 1
      /\ Append(s, x)[n + 1] = x
      /\ \A i \in 1 .. n : Append(s, x)[i] = s[i]
  BY <1>1
<1> DEFINE t == Append(s, x)
<1>3. t \in Seq(S) /\ Len(t) = n + 1
  BY <1>2
<1>4. t \in [1 .. n + 1 -> S]
  <2> HIDE DEF t
  <2> QED BY <1>3
<1> QED
  BY <1>2, <1>4

LEMMA ListOfFunction ==
    ASSUME NEW S, NEW n \in Nat, NEW s \in [1 .. n -> S]
    PROVE  s \in Seq(S) /\ Len(s) = n /\ DOMAIN s = 1 .. n
OBVIOUS

LEMMA EnvironmentsAreNumbered ==
    ASSUME TypeOK
    PROVE  /\ Len(enclosing) \in Nat
           /\ Environment = 1 .. Len(enclosing)
           /\ enclosing \in [Environment -> SUBSET Nat]
           /\ Environment \subseteq Nat
<1>1. enclosing \in Seq(SUBSET Nat)
  BY DEF TypeOK
<1> QED
  BY <1>1 DEF Environment

LEMMA VisitsAreNumbered ==
    ASSUME TypeOK
    PROVE  /\ Len(visits) \in Nat
           /\ DOMAIN visits = 1 .. Len(visits)
           /\ \A v \in DOMAIN visits :
                 /\ visits[v] \in [node : Nat, key : Key, environment : Environment]
                 /\ visits[v].key \in Key
                 /\ visits[v].environment \in Environment
                 /\ visits[v].node \in Nat
<1>1. visits \in Seq([node : Nat, key : Key, environment : Environment])
  BY DEF TypeOK
<1> DEFINE S == [node : Nat, key : Key, environment : Environment]
<1>2. Len(visits) \in Nat /\ DOMAIN visits = 1 .. Len(visits)
  BY <1>1
<1>3. \A v \in DOMAIN visits : visits[v] \in S
  <2> HIDE DEF S
  <2>1. visits \in Seq(S)
    BY <1>1 DEF S
  <2> QED BY <2>1, <1>2
<1> QED
  BY <1>2, <1>3

LEMMA KeysOfNames ==
    \A n \in Name : Variable(n) \in Key /\ Type(n) \in Key
BY DEF Variable, Type, Key

-----------------------------------------------------------------------------
(* The parts of the handlers. *)

LEMMA BoundType ==
    ASSUME TypeOK, environment_ \in Environment, NEW keys \in SUBSET Key
    PROVE  /\ Bound(keys) \in [Environment -> SUBSET Key]
           /\ Bound(keys)[environment_] = bound[environment_] \cup keys
           /\ \A e \in Environment \ {environment_} : Bound(keys)[e] = bound[e]
<1>1. bound \in [Environment -> SUBSET Key]
  BY DEF TypeOK
<1> QED
  BY <1>1 DEF Bound

LEMMA AssignedType ==
    ASSUME TypeOK, environment_ \in Environment, NEW n \in Name
    PROVE  /\ AssignmentsOf(n) \in 0 .. 2
           /\ Counted(n) \in 0 .. 2
           /\ Assigned(n) \in [Environment -> [Name -> 0 .. 2]]
           /\ \A c \in 0 .. 2 : [assignments EXCEPT ![environment_][n] = c]
                                   \in [Environment -> [Name -> 0 .. 2]]
<1>1. assignments \in [Environment -> [Name -> 0 .. 2]]
  BY DEF TypeOK
<1>2. AssignmentsOf(n) \in 0 .. 2
  BY <1>1 DEF AssignmentsOf
<1>3. Counted(n) \in 0 .. 2
  BY <1>2 DEF Counted
<1> QED
  BY <1>1, <1>2, <1>3 DEF Assigned

LEMMA ExposeType ==
    ASSUME TypeOK, NEW names \in SUBSET Name, ExposeGlobal(names)
    PROVE  /\ global_properties' \in [Name -> {"none", "variable", "member"}]
           /\ rejected' \subseteq Name
BY DEF TypeOK, ExposeGlobal

LEMMA PushType ==
    ASSUME TypeOK,
           NEW work \in {"environment", "tags", "declaration", "annotated", "binding"},
           NEW name \in Name \cup {NoName},
           (work \in {"annotated", "binding"} /\ name \in Name) \/
           (work \in {"environment", "tags", "declaration"} /\ name = NoName),
           NEW class \in BOOLEAN, NEW d \in Nat, Push(work, name, class, d)
    PROVE  frames' \in Seq(Frame)
<1> DEFINE frame == [work |-> work, name |-> name, class |-> class, document |-> d]
<1>1. frame \in Frame
  BY DEF Frame
<1>2. frames \in Seq(Frame)
  BY DEF TypeOK
<1>3. <<frame>> \in Seq(Frame)
  BY <1>1
<1>4. frames' = <<frame>> \o frames
  BY DEF Push
<1> QED
  BY <1>2, <1>3, <1>4

LEMMA PopType ==
    ASSUME TypeOK, NEW work, Pop(work)
    PROVE  /\ frames' \in Seq(Frame)
           /\ Head(frames) \in Frame
           /\ Head(frames).work \in work
<1>1. frames \in Seq(Frame) /\ frames # <<>>
  BY DEF TypeOK, Pop
<1> QED
  BY <1>1 DEF Pop

LEMMA FramesAreNamed ==
    ASSUME NEW frame \in Frame, frame.work \in {"annotated", "binding"}
    PROVE  frame.name \in Name
BY DEF Frame

LEMMA FramesHaveDocuments ==
    ASSUME NEW frame \in Frame
    PROVE  frame.document \in Nat /\ frame.class \in BOOLEAN
BY DEF Frame
-----------------------------------------------------------------------------
(* The kinds of steps. *)

Opens ==
    /\ environment_ \in Environment
    /\ environment_' = Len(enclosing) + 1
    /\ enclosing' = Append(enclosing, enclosing[environment_] \cup {Len(enclosing) + 1})
    /\ bound' \in [1 .. Len(enclosing) + 1 -> SUBSET Key]
    /\ bound[environment_] \subseteq bound'[environment_]
    /\ \A e \in Environment \ {environment_} : bound'[e] = bound[e]
    /\ forward_referenced' = Append(forward_referenced, {})
    /\ UNCHANGED <<visits, registered, undefined>>

Binds ==
    /\ environment_ \in Environment
    /\ bound' \in [Environment -> SUBSET Key]
    /\ bound[environment_] \subseteq bound'[environment_]
    /\ \A e \in Environment \ {environment_} : bound'[e] = bound[e]
    /\ UNCHANGED <<environment_, enclosing, references>>

Looks ==
    /\ environment_ \in Environment
    /\ \E node \in Nat, k \in Key : Look(node, k)

Leaves ==
    /\ environment_ \in Environment
    /\ ResolveForwardReferences(environment_)
    /\ UNCHANGED <<enclosing, bound, visits>>

Rests == UNCHANGED <<environment_, enclosing, bound, references>>

(* The variables that do not matter to the scopes keep their types. *)
DeclarationsOK ==
    /\ frames \in Seq(Frame)
    /\ global_properties \in [Name -> {"none", "variable", "member"}]
    /\ rejected \subseteq Name

LEMMA VisitsKeepType ==
    ASSUME TypeOK, UNCHANGED visits, Environment \subseteq Environment'
    PROVE  visits' \in Seq([node : Nat, key : Key, environment : Environment'])
<1> DEFINE S == [node : Nat, key : Key, environment : Environment']
<1>1. Len(visits) \in Nat /\ DOMAIN visits = 1 .. Len(visits)
  BY VisitsAreNumbered
<1>2. \A v \in 1 .. Len(visits) : visits[v] \in S
  BY VisitsAreNumbered
<1>3. visits \in Seq([node : Nat, key : Key, environment : Environment])
  BY DEF TypeOK
<1>4. visits \in [1 .. Len(visits) -> S]
  <2> HIDE DEF S
  <2>1. visits = [v \in 1 .. Len(visits) |-> visits[v]]
    BY <1>3, <1>1
  <2> QED BY <2>1, <1>2
<1>5. visits \in Seq(S)
  <2> HIDE DEF S
  <2> QED BY <1>1, <1>4
<1> QED
  BY <1>5

LEMMA OpeningStep ==
    ASSUME TypeOK, environment_ \in Environment,
           NEW o \in SUBSET Key, NEW k \in SUBSET Key, NEW d \in Nat,
           Construct(o, k, d), UNCHANGED <<visits, registered, undefined>>,
           NEW a \in [Environment -> [Name -> 0 .. 2]],
           assignments' = Append(a, NoAssignments),
           multiple' \subseteq (Environment \cup {Len(enclosing) + 1}) \X Key,
           DeclarationsOK'
    PROVE  TypeOK' /\ Opens
<1> DEFINE n == Len(enclosing)
<1>1. /\ n \in Nat
      /\ Environment = 1 .. n
      /\ enclosing \in [1 .. n -> SUBSET Nat]
      /\ environment_ \in 1 .. n
  BY EnvironmentsAreNumbered
<1>2. /\ enclosing' = Append(enclosing, enclosing[environment_] \cup {n + 1})
      /\ environment_' = n + 1
      /\ document' = Append(document, d)
      /\ bound' = Append(Bound(o), k)
      /\ forward_referenced' = Append(forward_referenced, {})
  BY DEF Construct
<1>3. enclosing[environment_] \cup {n + 1} \in SUBSET Nat
  BY <1>1
<1>4. enclosing' \in [1 .. n + 1 -> SUBSET Nat]
  BY <1>1, <1>2, <1>3, AppendToList
<1>5. /\ Environment' = 1 .. n + 1
      /\ enclosing' \in Seq(SUBSET Nat)
  <2>1. n + 1 \in Nat
    BY <1>1
  <2> QED BY <1>4, <2>1, ListOfFunction DEF Environment
<1>6. environment_' \in Environment' \cup {0} /\ Environment \subseteq Environment'
  BY <1>5, <1>2, <1>1
<1>7. document' \in [Environment' -> Nat]
  <2>1. document \in [1 .. n -> Nat]
    BY <1>1 DEF TypeOK
  <2> QED BY <2>1, <1>1, <1>2, <1>5, AppendToList
<1>8. bound' \in [1 .. n + 1 -> SUBSET Key] /\ \A e \in 1 .. n : bound'[e] = Bound(o)[e]
  <2> DEFINE b == Bound(o)
  <2>1. b \in [1 .. n -> SUBSET Key]
    BY <1>1, BoundType
  <2>2. bound' = Append(b, k)
    BY <1>2
  <2> HIDE DEF b
  <2>3. /\ Append(b, k) \in [1 .. n + 1 -> SUBSET Key]
        /\ \A e \in 1 .. n : Append(b, k)[e] = b[e]
    <3> DEFINE S == SUBSET Key
    <3>1. k \in S /\ b \in [1 .. n -> S] /\ n \in Nat
      BY <2>1, <1>1
    <3> HIDE DEF S, n
    <3>2. Append(b, k) \in [1 .. n + 1 -> S]
      BY <3>1, AppendToList
    <3>3. ASSUME NEW e \in 1 .. n
          PROVE  Append(b, k)[e] = b[e]
      BY <3>1, AppendToList
    <3> QED BY <3>2, <3>3 DEF S
  <2> QED BY <2>2, <2>3 DEF b
<1>9. assignments' \in [Environment' -> [Name -> 0 .. 2]]
  <2>1. NoAssignments \in [Name -> 0 .. 2]
    BY DEF NoAssignments
  <2>2. a \in [1 .. n -> [Name -> 0 .. 2]]
    BY <1>1
  <2> QED BY <2>1, <2>2, <1>1, <1>5, AppendToList
<1>10. forward_referenced' \in [Environment' -> SUBSET DOMAIN visits']
  <2>1. forward_referenced \in [1 .. n -> SUBSET DOMAIN visits]
    BY <1>1 DEF TypeOK
  <2>2. forward_referenced' \in [1 .. n + 1 -> SUBSET DOMAIN visits]
    BY <2>1, <1>1, <1>2, AppendToList
  <2> QED BY <2>2, <1>5
<1>11. visits' \in Seq([node : Nat, key : Key, environment : Environment'])
  BY <1>6, VisitsKeepType
<1>12. /\ registered' \subseteq (DOMAIN visits') \X Environment'
       /\ undefined' \subseteq DOMAIN visits'
       /\ multiple' \subseteq Environment' \X Key
  BY <1>1, <1>5, <1>6 DEF TypeOK
<1>13. TypeOK'
  BY <1>5, <1>6, <1>7, <1>8, <1>9, <1>10, <1>11, <1>12 DEF TypeOK, DeclarationsOK
<1>14. Opens
  BY <1>1, <1>2, <1>8, BoundType DEF Opens
<1> QED
  BY <1>13, <1>14

LEMMA BindingStep ==
    ASSUME TypeOK, environment_ \in Environment,
           NEW keys \in SUBSET Key, bound' = Bound(keys),
           UNCHANGED <<environment_, enclosing, document, references>>,
           assignments' \in [Environment -> [Name -> 0 .. 2]],
           multiple' \subseteq Environment \X Key,
           DeclarationsOK'
    PROVE  TypeOK' /\ Binds
<1>1. Environment' = Environment
  BY DEF Environment
<1>2. TypeOK'
  BY <1>1, BoundType DEF TypeOK, DeclarationsOK, references
<1>3. Binds
  BY BoundType DEF Binds
<1> QED
  BY <1>2, <1>3

LEMMA RestingStep ==
    ASSUME TypeOK,
           UNCHANGED <<environment_, enclosing, document, bound, references>>,
           assignments' \in [Environment -> [Name -> 0 .. 2]],
           multiple' \subseteq Environment \X Key,
           DeclarationsOK'
    PROVE  TypeOK' /\ Rests
<1>1. Environment' = Environment
  BY DEF Environment
<1>2. TypeOK'
  BY <1>1 DEF TypeOK, DeclarationsOK, references
<1> QED
  BY <1>2 DEF Rests
LEMMA ChainsAreEnvironments ==
    ASSUME TypeOK, ChainsNest, NEW e \in Environment
    PROVE  /\ enclosing[e] \subseteq Environment
           /\ {1, e} \subseteq enclosing[e]
           /\ \A f \in enclosing[e] : enclosing[f] = enclosing[e] \cap (1 .. f)
BY DEF ChainsNest

LEMMA LookingStep ==
    ASSUME TypeOK, ChainsNest, environment_ \in Environment,
           NEW node \in Nat, NEW k \in Key, Look(node, k)
    PROVE  TypeOK' /\ Looks
<1> DEFINE v == Len(visits) + 1
           S == [node : Nat, key : Key, environment : Environment]
           record == [node |-> node, key |-> k, environment |-> environment_]
<1>1. Len(visits) \in Nat /\ DOMAIN visits = 1 .. Len(visits)
  BY VisitsAreNumbered
<1>2. visits' = Append(visits, record)
  BY DEF Look
<1>3. visits' \in Seq(S) /\ DOMAIN visits' = 1 .. v
  <2>1. record \in S
    OBVIOUS
  <2>2. visits \in Seq(S)
    BY DEF TypeOK
  <2> HIDE DEF S, record
  <2> QED BY <2>1, <2>2, <1>2, <1>1
<1>4. Environment' = Environment
  BY DEF Look, Environment
<1>5. registered' \subseteq (DOMAIN visits') \X Environment
  <2>1. registered \subseteq (DOMAIN visits) \X Environment
    BY DEF TypeOK
  <2>2. Lookup(k) \subseteq Environment
    BY ChainsAreEnvironments DEF Lookup, Innermost, Binders
  <2>3. \/ registered' = registered
        \/ \E e \in Lookup(k) : registered' = registered \cup {<<v, e>>}
    BY DEF Look
  <2> QED BY <2>1, <2>2, <2>3, <1>1, <1>3
<1>6. forward_referenced' \in [Environment -> SUBSET DOMAIN visits']
  <2>1. forward_referenced \in [Environment -> SUBSET (1 .. Len(visits))]
    BY <1>1 DEF TypeOK
  <2>2. \/ forward_referenced' = forward_referenced
        \/ forward_referenced' =
               [forward_referenced EXCEPT ![environment_] = @ \cup {v}]
    BY DEF Look
  <2>3. forward_referenced' \in [Environment -> SUBSET (1 .. v)]
    BY <2>1, <2>2, <1>1
  <2> QED BY <2>3, <1>3
<1>7. TypeOK'
  <2>1. UNCHANGED <<environment_, enclosing, document, bound, assignments,
                    frames, multiple, global_properties, rejected, undefined>>
    BY DEF Look, declarations
  <2>2. undefined \subseteq DOMAIN visits'
    BY <1>1, <1>3 DEF TypeOK
  <2> QED BY <1>3, <1>4, <1>5, <1>6, <2>1, <2>2 DEF TypeOK
<1> QED
  BY <1>7 DEF Looks

LEMMA LeavingStep ==
    ASSUME TypeOK, ChainsNest, LeaveEnvironment
    PROVE  TypeOK' /\ Leaves
<1>1. /\ environment_ \in Environment
      /\ ResolveForwardReferences(environment_)
      /\ UNCHANGED <<enclosing, document, bound, assignments, multiple,
                     global_properties, rejected, visits>>
  BY DEF LeaveEnvironment, TypeOK, declarations
<1>2. Environment' = Environment
  BY <1>1 DEF Environment
<1>3. frames' \in Seq(Frame)
  <2>1. CASE UNCHANGED frames
    BY <2>1 DEF TypeOK
  <2>2. CASE Pop({"environment", "tags"})
    BY <2>2, PopType
  <2> QED BY <2>1, <2>2 DEF LeaveEnvironment
<1>4. forward_referenced \in [Environment -> SUBSET DOMAIN visits]
  BY DEF TypeOK
<1>5. /\ Found(environment_) \subseteq DOMAIN visits
      /\ NotFound(environment_) \subseteq DOMAIN visits
  BY <1>1, <1>4 DEF Found, NotFound
<1>6. registered' \subseteq (DOMAIN visits) \X Environment
  BY <1>1, <1>5 DEF ResolveForwardReferences, TypeOK
<1>7. /\ environment_' \in Environment \cup {0}
      /\ undefined' \subseteq DOMAIN visits
      /\ forward_referenced' \in [Environment -> SUBSET DOMAIN visits]
  <2>1. CASE /\ environment_' = 0
             /\ undefined' = undefined \cup NotFound(environment_)
             /\ forward_referenced' =
                    [forward_referenced EXCEPT ![environment_] = {}]
    BY <2>1, <1>4, <1>5 DEF TypeOK
  <2>2. ASSUME NEW outer \in Innermost(enclosing[environment_] \ {environment_}),
               environment_' = outer,
               undefined' = undefined,
               forward_referenced' =
                   [forward_referenced EXCEPT ![environment_] = {},
                          ![outer] = @ \cup NotFound(environment_)]
        PROVE  <1>7!1 /\ <1>7!2 /\ <1>7!3
    <3>1. outer \in Environment
      BY <1>1, ChainsAreEnvironments DEF Innermost
    <3> QED BY <2>2, <3>1, <1>4, <1>5 DEF TypeOK
  <2> QED BY <2>1, <2>2, <1>1 DEF ResolveForwardReferences
<1>8. TypeOK'
  BY <1>1, <1>2, <1>3, <1>6, <1>7 DEF TypeOK
<1> QED
  BY <1>1, <1>8 DEF Leaves
-----------------------------------------------------------------------------
(* Every action is a step of one of the kinds. *)

LEMMA TypesOf ==
    ASSUME TypeOK
    PROVE  /\ assignments \in [Environment -> [Name -> 0 .. 2]]
           /\ multiple \subseteq Environment \X Key
           /\ DeclarationsOK
BY DEF TypeOK, DeclarationsOK

LEMMA WalkingInEnvironment ==
    ASSUME TypeOK, GlobalIsLast, Walking \/ frames # <<>>
    PROVE  environment_ \in Environment
BY DEF TypeOK, GlobalIsLast, Walking

LEMMA EnterStep ==
    ASSUME TypeOK, GlobalIsLast,
           EnterEnvironment \/ EnterMember \/ EnterTags
    PROVE  TypeOK' /\ Opens
<1>1. CASE EnterEnvironment
  <2>1. /\ environment_ \in Environment
        /\ Construct({}, {}, 0)
        /\ assignments' = Append(assignments, NoAssignments)
        /\ Push("environment", NoName, FALSE, 0)
        /\ UNCHANGED <<visits, registered, undefined, multiple,
                       global_properties, rejected>>
    BY <1>1, WalkingInEnvironment DEF EnterEnvironment
  <2>2. DeclarationsOK'
    BY <2>1, PushType, TypesOf DEF DeclarationsOK
  <2>3. multiple' \subseteq (Environment \cup {Len(enclosing) + 1}) \X Key
    BY <2>1, TypesOf
  <2> QED BY <2>1, <2>2, <2>3, TypesOf, OpeningStep
<1>2. CASE EnterMember
  <2>1. PICK c \in SUBSET {Type(n) : n \in Name},
             t \in SUBSET {Type(n) : n \in Name} :
           /\ Construct({}, c \cup t, 0)
           /\ assignments' = Append(assignments, NoAssignments)
           /\ Report({environment_'} \X (c \cap t))
           /\ Push("environment", NoName, FALSE, 0)
           /\ UNCHANGED <<visits, registered, undefined, global_properties,
                          rejected>>
    BY <1>2 DEF EnterMember
  <2>2. environment_ \in Environment
    BY <1>2, WalkingInEnvironment DEF EnterMember
  <2>3. c \cup t \in SUBSET Key
    BY KeysOfNames
  <2>4. DeclarationsOK'
    BY <2>1, PushType, TypesOf DEF DeclarationsOK
  <2>5. multiple' \subseteq (Environment \cup {Len(enclosing) + 1}) \X Key
    BY <2>1, <2>3, TypesOf DEF Construct, Report
  <2> QED BY <2>1, <2>2, <2>3, <2>4, <2>5, TypesOf, OpeningStep
<1>3. CASE EnterTags
  <2> DEFINE d == IF Within({"declaration", "annotated"})
                  THEN Head(frames).document
                  ELSE Len(enclosing) + 1
  <2>1. /\ environment_ \in Environment
        /\ Construct({}, {}, d)
        /\ assignments' = Append(assignments, NoAssignments)
        /\ Push("tags", NoName, FALSE, 0)
        /\ UNCHANGED <<visits, registered, undefined, multiple,
                       global_properties, rejected>>
    BY <1>3, WalkingInEnvironment DEF EnterTags
  <2>2. d \in Nat
    <3>1. CASE Within({"declaration", "annotated"})
      <4>1. frames \in Seq(Frame) /\ frames # <<>>
        BY <3>1 DEF TypeOK, Within
      <4>2. Head(frames) \in Frame
        BY <4>1
      <4> QED BY <4>2, <3>1, FramesHaveDocuments
    <3>2. CASE ~ Within({"declaration", "annotated"})
      BY <3>2, EnvironmentsAreNumbered
    <3> QED BY <3>1, <3>2
  <2>3. DeclarationsOK'
    BY <2>1, PushType, TypesOf DEF DeclarationsOK
  <2>4. multiple' \subseteq (Environment \cup {Len(enclosing) + 1}) \X Key
    BY <2>1, TypesOf
  <2> HIDE DEF d
  <2> QED BY <2>1, <2>2, <2>3, <2>4, TypesOf, OpeningStep
<1> QED
  BY <1>1, <1>2, <1>3

LEMMA SharedDocumentType ==
    ASSUME TypeOK, NEW alias
    PROVE  SharedDocument(alias) \in Nat
<1>1. CASE Within({"annotated"})
  <2>1. frames \in Seq(Frame) /\ frames # <<>>
    BY <1>1 DEF TypeOK, Within
  <2>2. Head(frames) \in Frame
    BY <2>1
  <2> QED BY <2>2, FramesHaveDocuments DEF SharedDocument
<1>2. CASE ~ Within({"annotated"})
  BY <1>2 DEF SharedDocument
<1> QED
  BY <1>1, <1>2

LEMMA ClassStep ==
    ASSUME TypeOK, GlobalIsLast, VisitClass
    PROVE  TypeOK' /\ Opens
<1>1. PICK name \in Name \cup {NoName}, alias \in Name \cup {NoName},
           parameters \in SUBSET Name :
        LET aliasKeys == {Type(n) : n \in Alias(alias)}
            first == {n \in Given(name) : AssignmentsOf(n) = 0}
            nameTypes == {Type(n) : n \in first}
            variables == {Variable(n) : n \in Given(name)}
        IN  /\ Walking
            /\ Construct(variables \cup aliasKeys \cup nameTypes,
                         {Type(n) : n \in parameters}, SharedDocument(alias))
            /\ assignments' =
                   Append(IF name = NoName THEN assignments ELSE Assigned(name),
                          NoAssignments)
            /\ Report(Repeated(variables \cup aliasKeys \cup nameTypes) \cup
                      ({environment_} \X
                          ((aliasKeys \cap nameTypes) \cup
                           {Variable(n) : n \in Given(name) \ first})))
            /\ ExposeGlobal(Given(name))
            /\ Push("environment", NoName, FALSE, 0)
            /\ UNCHANGED <<visits, registered, undefined>>
  BY DEF VisitClass
<1> DEFINE aliasKeys == {Type(n) : n \in Alias(alias)}
           first == {n \in Given(name) : AssignmentsOf(n) = 0}
           nameTypes == {Type(n) : n \in first}
           variables == {Variable(n) : n \in Given(name)}
           o == variables \cup aliasKeys \cup nameTypes
           k == {Type(n) : n \in parameters}
           d == SharedDocument(alias)
           a == IF name = NoName THEN assignments ELSE Assigned(name)
           r == Repeated(o) \cup
                ({environment_} \X ((aliasKeys \cap nameTypes) \cup
                                    {Variable(n) : n \in Given(name) \ first}))
<1>2. environment_ \in Environment
  BY <1>1, WalkingInEnvironment
<1>3. Given(name) \subseteq Name /\ Alias(alias) \subseteq Name
  BY DEF Given, Alias
<1>4. /\ variables \in SUBSET Key
      /\ aliasKeys \in SUBSET Key
      /\ nameTypes \in SUBSET Key
      /\ {Variable(n) : n \in Given(name) \ first} \in SUBSET Key
  BY <1>3, KeysOfNames
<1>5. o \in SUBSET Key /\ k \in SUBSET Key
  BY <1>4, KeysOfNames
<1>6. d \in Nat
  BY SharedDocumentType
<1>7. a \in [Environment -> [Name -> 0 .. 2]]
  <2>1. CASE name = NoName
    BY <2>1, TypesOf
  <2>2. CASE name # NoName
    BY <2>2, <1>2, AssignedType
  <2> QED BY <2>1, <2>2
<1>8. r \subseteq Environment \X Key
  BY <1>2, <1>4, <1>5 DEF Repeated
<1>9. multiple' \subseteq (Environment \cup {Len(enclosing) + 1}) \X Key
  <2> HIDE DEF r
  <2>1. multiple' = multiple \cup r
    BY <1>1 DEF Report, r
  <2> QED BY <2>1, <1>8, TypesOf
<1>10. DeclarationsOK'
  <2>1. ExposeGlobal(Given(name)) /\ Push("environment", NoName, FALSE, 0)
    BY <1>1
  <2> QED BY <2>1, <1>3, PushType, ExposeType DEF DeclarationsOK
<1>11. /\ Construct(o, k, d)
       /\ assignments' = Append(a, NoAssignments)
       /\ UNCHANGED <<visits, registered, undefined>>
  BY <1>1
<1> HIDE DEF o, k, d, a, r
<1> QED
  BY <1>2, <1>5, <1>6, <1>7, <1>9, <1>10, <1>11, OpeningStep

LEMMA FunctionStep ==
    ASSUME TypeOK, GlobalIsLast, VisitFunction
    PROVE  TypeOK' /\ Opens
<1>1. PICK name \in Name \cup {NoName}, alias \in Name \cup {NoName},
           parameters \in SUBSET Name, is_class \in BOOLEAN :
        LET aliasKeys == {Type(n) : n \in Alias(alias)}
            nameTypes == {Type(n) : n \in Given(name)}
            types == IF is_class THEN aliasKeys \cup nameTypes ELSE {}
            variables == {Variable(n) : n \in Given(name)}
            taken == {n \in Given(name) : is_class /\ AssignmentsOf(n) # 0}
        IN  /\ Walking
            /\ Construct(variables \cup types,
                         {Type(n) : n \in parameters}, SharedDocument(alias))
            /\ assignments' =
                   Append(IF name = NoName \/ taken # {} THEN assignments
                                                         ELSE Assigned(name),
                          NoAssignments)
            /\ Report(Repeated(variables \cup types) \cup
                      ({environment_} \X
                          ((types \cap aliasKeys \cap nameTypes) \cup
                           {Variable(n) : n \in taken})))
            /\ ExposeGlobal(Given(name))
            /\ Push("environment", NoName, FALSE, 0)
            /\ UNCHANGED <<visits, registered, undefined>>
  BY DEF VisitFunction
<1> DEFINE aliasKeys == {Type(n) : n \in Alias(alias)}
           nameTypes == {Type(n) : n \in Given(name)}
           types == IF is_class THEN aliasKeys \cup nameTypes ELSE {}
           variables == {Variable(n) : n \in Given(name)}
           taken == {n \in Given(name) : is_class /\ AssignmentsOf(n) # 0}
           o == variables \cup types
           k == {Type(n) : n \in parameters}
           d == SharedDocument(alias)
           a == IF name = NoName \/ taken # {} THEN assignments ELSE Assigned(name)
           r == Repeated(o) \cup
                ({environment_} \X ((types \cap aliasKeys \cap nameTypes) \cup
                                    {Variable(n) : n \in taken}))
<1>2. environment_ \in Environment
  BY <1>1, WalkingInEnvironment
<1>3. Given(name) \subseteq Name /\ Alias(alias) \subseteq Name
  BY DEF Given, Alias
<1>4. /\ variables \in SUBSET Key
      /\ aliasKeys \in SUBSET Key
      /\ nameTypes \in SUBSET Key
      /\ {Variable(n) : n \in taken} \in SUBSET Key
  BY <1>3, KeysOfNames
<1>5. types \in SUBSET Key /\ o \in SUBSET Key /\ k \in SUBSET Key
  BY <1>4, KeysOfNames
<1>6. d \in Nat
  BY SharedDocumentType
<1>7. a \in [Environment -> [Name -> 0 .. 2]]
  <2> HIDE DEF taken
  <2>1. CASE name = NoName \/ taken # {}
    BY <2>1, TypesOf
  <2>2. CASE ~ (name = NoName \/ taken # {})
    BY <2>2, <1>2, AssignedType
  <2> QED BY <2>1, <2>2
<1>8. r \subseteq Environment \X Key
  BY <1>2, <1>4, <1>5 DEF Repeated
<1>9. multiple' \subseteq (Environment \cup {Len(enclosing) + 1}) \X Key
  <2> HIDE DEF r
  <2>1. multiple' = multiple \cup r
    BY <1>1 DEF Report, r
  <2> QED BY <2>1, <1>8, TypesOf
<1>10. DeclarationsOK'
  <2>1. ExposeGlobal(Given(name)) /\ Push("environment", NoName, FALSE, 0)
    BY <1>1
  <2> QED BY <2>1, <1>3, PushType, ExposeType DEF DeclarationsOK
<1>11. /\ Construct(o, k, d)
       /\ assignments' = Append(a, NoAssignments)
       /\ UNCHANGED <<visits, registered, undefined>>
  BY <1>1
<1> HIDE DEF o, k, d, a, r
<1> QED
  BY <1>2, <1>5, <1>6, <1>7, <1>9, <1>10, <1>11, OpeningStep
LEMMA ReportType ==
    ASSUME TypeOK, NEW r \in SUBSET (Environment \X Key), Report(r)
    PROVE  multiple' \subseteq Environment \X Key
BY DEF TypeOK, Report

LEMMA RepeatedType ==
    ASSUME environment_ \in Environment, NEW keys \in SUBSET Key
    PROVE  Repeated(keys) \subseteq Environment \X Key
BY DEF Repeated

LEMMA TagStep ==
    ASSUME TypeOK, GlobalIsLast, BindTagParameter \/ BindTemplateTag
    PROVE  TypeOK' /\ Binds
<1>1. PICK k \in Key :
        /\ bound' = Bound({k})
        /\ Report(Repeated({k}))
        /\ UNCHANGED <<environment_, enclosing, document, assignments,
                       global_properties, rejected, frames, references>>
  BY KeysOfNames DEF BindTagParameter, BindTemplateTag
<1>2. environment_ \in Environment
  BY WalkingInEnvironment DEF BindTagParameter, BindTemplateTag, Within
<1>3. {k} \in SUBSET Key
  OBVIOUS
<1>4. multiple' \subseteq Environment \X Key
  BY <1>1, <1>2, <1>3, RepeatedType, ReportType
<1>5. DeclarationsOK'
  BY <1>1, TypesOf DEF DeclarationsOK
<1> QED
  BY <1>1, <1>2, <1>3, <1>4, <1>5, TypesOf, BindingStep

LEMMA FinishBindingStep ==
    ASSUME TypeOK, GlobalIsLast, FinishBinding
    PROVE  TypeOK' /\ Binds
<1> DEFINE n == Head(frames).name
<1>1. PICK known \in BOOLEAN :
        LET count == IF known THEN Counted(n) ELSE AssignmentsOf(n)
        IN  /\ Pop({"binding"})
            /\ bound' = Bound({Variable(n)})
            /\ assignments' = [assignments EXCEPT ![environment_][n] = count]
            /\ Report(Repeated({Variable(n)}) \cup
                   (IF count = 2 THEN {<<environment_, Variable(n)>>} ELSE {}))
            /\ ExposeGlobal({n})
            /\ UNCHANGED <<environment_, enclosing, document, references>>
  BY DEF FinishBinding
<1> DEFINE count == IF known THEN Counted(n) ELSE AssignmentsOf(n)
           r == Repeated({Variable(n)}) \cup
                   (IF count = 2 THEN {<<environment_, Variable(n)>>} ELSE {})
<1>2. environment_ \in Environment
  BY <1>1, WalkingInEnvironment DEF Pop
<1>3. n \in Name
  BY <1>1, PopType, FramesAreNamed
<1>4. Variable(n) \in Key /\ {Variable(n)} \in SUBSET Key /\ {n} \in SUBSET Name
  BY <1>3, KeysOfNames
<1>5. count \in 0 .. 2
  BY <1>2, <1>3, AssignedType
<1>6. assignments' \in [Environment -> [Name -> 0 .. 2]]
  <2>1. assignments' = [assignments EXCEPT ![environment_][n] = count]
    BY <1>1
  <2> HIDE DEF count, n
  <2> QED BY <2>1, <1>2, <1>3, <1>5, AssignedType
<1>7. multiple' \subseteq Environment \X Key
  <2>1. r \in SUBSET (Environment \X Key)
    <3>1. Repeated({Variable(n)}) \subseteq Environment \X Key
      BY <1>2, <1>4, RepeatedType
    <3>2. <<environment_, Variable(n)>> \in Environment \X Key
      BY <1>2, <1>4
    <3> QED BY <3>1, <3>2
  <2>2. Report(r)
    BY <1>1
  <2> HIDE DEF r
  <2> QED BY <2>1, <2>2, ReportType
<1>8. DeclarationsOK'
  <2>1. Pop({"binding"}) /\ ExposeGlobal({n})
    BY <1>1
  <2> HIDE DEF n
  <2> QED BY <2>1, <1>4, PopType, ExposeType DEF DeclarationsOK
<1>9. /\ bound' = Bound({Variable(n)})
      /\ UNCHANGED <<environment_, enclosing, document, references>>
  BY <1>1
<1> HIDE DEF n
<1> QED
  BY <1>2, <1>4, <1>6, <1>7, <1>8, <1>9, BindingStep

LEMMA AnnotatedBindingStep ==
    ASSUME TypeOK, GlobalIsLast, VisitAnnotatedBinding
    PROVE  TypeOK' /\ Binds
<1>1. PICK n \in Name, class \in BOOLEAN :
        /\ Within({"declaration"})
        /\ bound' = Bound({Variable(n)})
        /\ ExposeGlobal({n})
        /\ \/ /\ AssignmentsOf(n) = 2
              /\ Report({<<environment_, Variable(n)>>})
              /\ Pop({"declaration"})
           \/ /\ AssignmentsOf(n) < 2
              /\ Report(Repeated({Variable(n)}))
              /\ Push("annotated", n, class, Head(frames).document)
        /\ UNCHANGED <<environment_, enclosing, document, assignments,
                       references>>
  BY DEF VisitAnnotatedBinding
<1>2. environment_ \in Environment
  BY <1>1, WalkingInEnvironment DEF Within
<1>3. Variable(n) \in Key /\ {Variable(n)} \in SUBSET Key /\ {n} \in SUBSET Name
  BY KeysOfNames
<1>4. multiple' \subseteq Environment \X Key
  <2>1. {<<environment_, Variable(n)>>} \in SUBSET (Environment \X Key)
    BY <1>2, <1>3
  <2>2. Repeated({Variable(n)}) \in SUBSET (Environment \X Key)
    BY <1>2, <1>3, RepeatedType
  <2>3. CASE Report({<<environment_, Variable(n)>>})
    BY <2>1, <2>3, ReportType
  <2>4. CASE Report(Repeated({Variable(n)}))
    BY <2>2, <2>4, ReportType
  <2> QED BY <1>1, <2>3, <2>4
<1>5. frames' \in Seq(Frame)
  <2>1. CASE Pop({"declaration"})
    BY <2>1, PopType
  <2>2. CASE Push("annotated", n, class, Head(frames).document)
    <3>1. frames \in Seq(Frame) /\ frames # <<>>
      BY <1>1 DEF TypeOK, Within
    <3>2. Head(frames) \in Frame
      BY <3>1
    <3>3. Head(frames).document \in Nat
      BY <3>2, FramesHaveDocuments
    <3> QED BY <2>2, <3>3, PushType
  <2> QED BY <1>1, <2>1, <2>2
<1>6. DeclarationsOK'
  BY <1>1, <1>3, <1>5, ExposeType DEF DeclarationsOK
<1> QED
  BY <1>1, <1>2, <1>3, <1>4, <1>6, TypesOf, BindingStep

LEMMA FinishAnnotatedStep ==
    ASSUME TypeOK, GlobalIsLast, FinishAnnotatedBinding
    PROVE  TypeOK' /\ Binds
<1> DEFINE n == Head(frames).name
           types == IF Head(frames).class THEN {Type(n)} ELSE {}
<1>1. PICK known \in BOOLEAN :
        /\ Pop({"annotated"})
        /\ bound' = Bound(types)
        /\ Report(Repeated(types))
        /\ assignments' = IF known THEN Assigned(n) ELSE assignments
        /\ UNCHANGED <<environment_, enclosing, document,
                       global_properties, rejected, references>>
  BY DEF FinishAnnotatedBinding
<1>2. environment_ \in Environment
  BY <1>1, WalkingInEnvironment DEF Pop
<1>3. n \in Name
  BY <1>1, PopType, FramesAreNamed
<1>4. types \in SUBSET Key
  BY <1>3, KeysOfNames
<1>5. assignments' \in [Environment -> [Name -> 0 .. 2]]
  <2>1. Assigned(n) \in [Environment -> [Name -> 0 .. 2]]
    <3> HIDE DEF n
    <3> QED BY <1>2, <1>3, AssignedType
  <2> QED BY <1>1, <2>1, TypesOf
<1>6. multiple' \subseteq Environment \X Key
  <2> HIDE DEF types
  <2> QED BY <1>1, <1>2, <1>4, RepeatedType, ReportType
<1>7. DeclarationsOK'
  BY <1>1, PopType, TypesOf DEF DeclarationsOK
<1> HIDE DEF types
<1> QED
  BY <1>1, <1>2, <1>4, <1>5, <1>6, <1>7, BindingStep

LEMMA FrameStep ==
    ASSUME TypeOK,
           VisitBinding \/ VisitAnnotatedDeclaration \/ FinishAnnotatedDeclaration
    PROVE  TypeOK' /\ Rests
<1>1. UNCHANGED <<environment_, enclosing, document, declarations, references>>
  BY DEF VisitBinding, VisitAnnotatedDeclaration, FinishAnnotatedDeclaration
<1>2. frames' \in Seq(Frame)
  <2>1. CASE VisitBinding
    BY <2>1, PushType DEF VisitBinding
  <2>2. CASE VisitAnnotatedDeclaration
    <3>1. Push("declaration", NoName, FALSE, Len(enclosing) + 1)
      BY <2>2 DEF VisitAnnotatedDeclaration
    <3>2. Len(enclosing) + 1 \in Nat
      BY EnvironmentsAreNumbered
    <3> QED BY <3>1, <3>2, PushType
  <2>3. CASE FinishAnnotatedDeclaration
    BY <2>3, PopType DEF FinishAnnotatedDeclaration
  <2> QED BY <2>1, <2>2, <2>3
<1>3. DeclarationsOK'
  BY <1>1, <1>2, TypesOf DEF DeclarationsOK, declarations
<1> QED
  BY <1>1, <1>3, TypesOf, RestingStep DEF declarations

LEMMA AssignStep ==
    ASSUME TypeOK, AssignToReference
    PROVE  TypeOK' /\ Rests
<1>1. PICK v \in DOMAIN visits, e \in Environment :
        LET n == visits[v].key[2]
        IN  /\ visits[v].key = Variable(n)
            /\ assignments' = [assignments EXCEPT ![e][n] =
                                   IF @ = 2 THEN 2 ELSE @ + 1]
            /\ UNCHANGED <<environment_, enclosing, document, bound,
                           multiple, global_properties, rejected, frames,
                           references>>
  BY DEF AssignToReference
<1> DEFINE n == visits[v].key[2]
<1>2. n \in Name
  BY VisitsAreNumbered DEF Key
<1>3. assignments' \in [Environment -> [Name -> 0 .. 2]]
  <2>1. assignments' = [assignments EXCEPT ![e][n] = IF @ = 2 THEN 2 ELSE @ + 1]
    BY <1>1
  <2> HIDE DEF n
  <2>2. assignments \in [Environment -> [Name -> 0 .. 2]]
    BY TypesOf
  <2>3. (IF assignments[e][n] = 2 THEN 2 ELSE assignments[e][n] + 1) \in 0 .. 2
    BY <2>2, <1>2
  <2> QED BY <2>1, <2>2, <2>3, <1>2
<1>4. DeclarationsOK'
  BY <1>1, TypesOf DEF DeclarationsOK
<1> QED
  BY <1>1, <1>3, <1>4, TypesOf, RestingStep

LEMMA MemberStep ==
    ASSUME TypeOK, VisitGlobalMember
    PROVE  TypeOK' /\ Rests
<1>1. PICK n \in Name :
        /\ global_properties' = [global_properties EXCEPT ![n] = "member"]
        /\ UNCHANGED <<environment_, enclosing, document, bound, assignments,
                       multiple, rejected, frames, references>>
  BY DEF VisitGlobalMember
<1>2. DeclarationsOK'
  BY <1>1, TypesOf DEF DeclarationsOK
<1> QED
  BY <1>1, <1>2, TypesOf, RestingStep

LEMMA NameStep ==
    ASSUME TypeOK, ChainsNest, VisitName \/ RevisitName
    PROVE  TypeOK' /\ Looks
<1>1. CASE VisitName
  <2>1. PICK k \in Key : Look(Len(visits) + 1, k)
    BY <1>1 DEF VisitName
  <2>2. environment_ \in Environment
    BY <1>1 DEF VisitName, TypeOK
  <2>3. Len(visits) + 1 \in Nat
    BY VisitsAreNumbered
  <2> QED BY <2>1, <2>2, <2>3, LookingStep
<1>2. CASE RevisitName
  <2>1. PICK v \in DOMAIN visits : Look(visits[v].node, visits[v].key)
    BY <1>2 DEF RevisitName
  <2>2. environment_ \in Environment
    BY <1>2 DEF RevisitName
  <2> QED BY <2>1, <2>2, VisitsAreNumbered, LookingStep
<1> QED
  BY <1>1, <1>2

LEMMA StepKinds ==
    ASSUME TypeOK, ChainsNest, GlobalIsLast, [Next]_vars
    PROVE  /\ TypeOK'
           /\ Opens \/ Binds \/ Looks \/ Leaves \/ Rests
<1>1. CASE EnterEnvironment \/ EnterMember \/ EnterTags
  BY <1>1, EnterStep
<1>2. CASE VisitClass
  BY <1>2, ClassStep
<1>3. CASE VisitFunction
  BY <1>3, FunctionStep
<1>4. CASE LeaveEnvironment
  BY <1>4, LeavingStep
<1>5. CASE BindTagParameter \/ BindTemplateTag
  BY <1>5, TagStep
<1>6. CASE FinishBinding
  BY <1>6, FinishBindingStep
<1>7. CASE VisitAnnotatedBinding
  BY <1>7, AnnotatedBindingStep
<1>8. CASE FinishAnnotatedBinding
  BY <1>8, FinishAnnotatedStep
<1>9. CASE VisitBinding \/ VisitAnnotatedDeclaration \/ FinishAnnotatedDeclaration
  BY <1>9, FrameStep
<1>10. CASE AssignToReference
  BY <1>10, AssignStep
<1>11. CASE VisitGlobalMember
  BY <1>11, MemberStep
<1>12. CASE VisitName \/ RevisitName
  BY <1>12, NameStep
<1>13. CASE UNCHANGED vars
  BY <1>13, TypesOf, RestingStep DEF vars, references, DeclarationsOK
<1> QED
  BY <1>1, <1>2, <1>3, <1>4, <1>5, <1>6, <1>7, <1>8, <1>9, <1>10, <1>11,
     <1>12, <1>13 DEF Next

-----------------------------------------------------------------------------
(* Chains of environments. *)

LEMMA ChainsAreBounded ==
    ASSUME TypeOK, ChainsNest, NEW e \in Environment, NEW f \in enclosing[e]
    PROVE  /\ f \in Environment
           /\ e \in Nat /\ f \in Nat /\ f <= e
           /\ enclosing[f] \subseteq enclosing[e]
           /\ \A g \in enclosing[e] : g <= f => g \in enclosing[f]
<1>1. /\ enclosing[e] \subseteq Environment
      /\ e \in enclosing[e] /\ 1 \in enclosing[e]
      /\ enclosing[e] = enclosing[e] \cap (1 .. e)
      /\ enclosing[f] = enclosing[e] \cap (1 .. f)
  BY ChainsAreEnvironments
<1>2. e \in Nat /\ Environment \subseteq Nat
  BY EnvironmentsAreNumbered
<1>3. \A g \in enclosing[e] : g \in 1 .. e
  BY <1>1
<1> QED
  BY <1>1, <1>2, <1>3

LEMMA OpenedChains ==
    ASSUME TypeOK, ChainsNest, Opens
    PROVE  /\ Environment' = Environment \cup {Len(enclosing) + 1}
           /\ Len(enclosing) + 1 \notin Environment
           /\ \A e \in Environment : enclosing'[e] = enclosing[e]
           /\ enclosing'[Len(enclosing) + 1] =
                 enclosing[environment_] \cup {Len(enclosing) + 1}
           /\ \A e \in Environment :
                 forward_referenced'[e] = forward_referenced[e]
           /\ forward_referenced'[Len(enclosing) + 1] = {}
<1> DEFINE n == Len(enclosing)
<1>1. /\ n \in Nat
      /\ Environment = 1 .. n
      /\ enclosing \in [1 .. n -> SUBSET Nat]
      /\ environment_ \in 1 .. n
  BY EnvironmentsAreNumbered DEF Opens
<1>2. enclosing[environment_] \cup {n + 1} \in SUBSET Nat
  BY <1>1
<1>3. /\ enclosing' = Append(enclosing, enclosing[environment_] \cup {n + 1})
      /\ forward_referenced' = Append(forward_referenced, {})
  BY DEF Opens
<1>4. /\ enclosing' \in [1 .. n + 1 -> SUBSET Nat]
      /\ enclosing'[n + 1] = enclosing[environment_] \cup {n + 1}
      /\ \A e \in 1 .. n : enclosing'[e] = enclosing[e]
  <2> DEFINE S == SUBSET Nat
             x == enclosing[environment_] \cup {n + 1}
  <2>1. x \in S /\ enclosing \in [1 .. n -> S] /\ n \in Nat
    BY <1>1, <1>2
  <2>2. enclosing' = Append(enclosing, x)
    BY <1>3
  <2> HIDE DEF S, x, n
  <2>3. Append(enclosing, x) \in [1 .. n + 1 -> S]
    BY <2>1, AppendToList
  <2>5. Append(enclosing, x)[n + 1] = x
    BY <2>1, AppendToList
  <2>4. ASSUME NEW e \in 1 .. n
        PROVE  enclosing'[e] = enclosing[e]
    BY <2>1, <2>2, AppendToList
  <2> QED BY <2>2, <2>3, <2>4, <2>5 DEF S, x
<1>5. Environment' = 1 .. n + 1
  BY <1>1, <1>4, ListOfFunction DEF Environment
<1>6. /\ forward_referenced'[n + 1] = {}
      /\ \A e \in 1 .. n : forward_referenced'[e] = forward_referenced[e]
  <2>1. forward_referenced \in [1 .. n -> SUBSET DOMAIN visits]
    BY <1>1 DEF TypeOK
  <2> QED BY <2>1, <1>1, <1>3, AppendToList
<1> QED
  BY <1>1, <1>4, <1>5, <1>6

(* A chain is not changed by the environments opened later. *)
LEMMA ChainsStayNested ==
    ASSUME TypeOK, ChainsNest, Opens
    PROVE  ChainsNest'
<1> DEFINE n == Len(enclosing)
<1>1. /\ n \in Nat
      /\ Environment = 1 .. n
      /\ environment_ \in Environment
  BY EnvironmentsAreNumbered DEF Opens
<1>2. SUFFICES ASSUME NEW e \in Environment'
      PROVE  /\ {1, e} \subseteq enclosing'[e]
             /\ \A f \in enclosing'[e] :
                   /\ f \in Environment'
                   /\ enclosing'[f] = enclosing'[e] \cap (1 .. f)
  BY DEF ChainsNest
<1>3. CASE e \in Environment
  BY <1>3, OpenedChains, ChainsAreEnvironments
<1>4. CASE e = n + 1
  <2>1. /\ enclosing'[e] = enclosing[environment_] \cup {e}
        /\ enclosing[environment_] \subseteq Environment
        /\ {1, environment_} \subseteq enclosing[environment_]
    BY <1>1, <1>4, OpenedChains, ChainsAreEnvironments
  <2>2. ASSUME NEW f \in enclosing[environment_]
        PROVE  enclosing'[f] = enclosing'[e] \cap (1 .. f)
    <3>1. enclosing'[f] = enclosing[f] /\ f \in 1 .. n
      BY <2>1, <1>1, OpenedChains
    <3>2. enclosing[f] = enclosing[environment_] \cap (1 .. f)
      BY <1>1, ChainsAreEnvironments
    <3> QED BY <3>1, <3>2, <2>1, <1>1, <1>4
  <2>3. enclosing'[e] = enclosing'[e] \cap (1 .. e)
    BY <2>1, <1>1, <1>4
  <2> QED BY <2>1, <2>2, <2>3, <1>1, <1>4, OpenedChains
<1> QED
  BY <1>3, <1>4, OpenedChains

LEMMA ChainsStayPut ==
    ASSUME TypeOK, ChainsNest, Binds \/ Looks \/ Leaves \/ Rests
    PROVE  /\ UNCHANGED enclosing
           /\ Environment' = Environment
           /\ ChainsNest'
<1>1. UNCHANGED enclosing
  BY DEF Binds, Looks, Look, Leaves, Rests
<1> QED
  BY <1>1 DEF Environment, ChainsNest

(* The environment under the closing one on the stack. *)
LEMMA OuterOf ==
    ASSUME TypeOK, ChainsNest, environment_ \in Environment,
           NEW outer \in Innermost(enclosing[environment_] \ {environment_})
    PROVE  /\ environment_ # 1
           /\ outer \in Environment
           /\ outer \in enclosing[environment_]
           /\ enclosing[outer] = enclosing[environment_] \ {environment_}
           /\ \A f \in enclosing[outer] : f <= outer
<1>1. /\ outer \in enclosing[environment_] /\ outer # environment_
      /\ \A f \in enclosing[environment_] \ {environment_} : f <= outer
  BY DEF Innermost
<1>2. /\ outer \in Environment
      /\ outer \in Nat /\ environment_ \in Nat /\ outer <= environment_
      /\ enclosing[outer] \subseteq enclosing[environment_]
      /\ \A g \in enclosing[environment_] : g <= outer => g \in enclosing[outer]
  BY <1>1, ChainsAreBounded
<1>3. \A f \in enclosing[outer] : f \in Nat /\ f <= outer
  BY <1>2, ChainsAreBounded
<1>4. environment_ \notin enclosing[outer]
  BY <1>1, <1>2, <1>3
<1>5. outer \in 1 .. Len(enclosing)
  BY <1>2, EnvironmentsAreNumbered
<1> QED
  BY <1>1, <1>2, <1>3, <1>4, <1>5

(* The global environment has nothing around it. *)
LEMMA GlobalIsOutermost ==
    ASSUME TypeOK, ChainsNest, environment_ \in Environment
    PROVE  enclosing[environment_] \ {environment_} = {} <=> environment_ = 1
<1>1. 1 \in enclosing[environment_]
  BY ChainsAreEnvironments
<1>2. \A f \in enclosing[environment_] : f <= environment_ /\ f \in Environment
  BY ChainsAreBounded
<1>3. Environment \subseteq Nat \ {0}
  BY EnvironmentsAreNumbered
<1> QED
  BY <1>1, <1>2, <1>3

(* The innermost open environment is the current one. *)
LEMMA CurrentIsInnermost ==
    ASSUME TypeOK, ChainsNest, environment_ \in Environment
    PROVE  /\ IsOpen(environment_)
           /\ \A f : IsOpen(f) => f \in Environment /\ f <= environment_
<1>1. environment_ # 0
  BY EnvironmentsAreNumbered
<1> QED
  BY <1>1, ChainsAreEnvironments, ChainsAreBounded DEF IsOpen

-----------------------------------------------------------------------------
(* After the global environment nothing happens. *)

LEMMA FramesRestAtEnd ==
    ASSUME TypeOK, GlobalIsLast, environment_ = 0, [Next]_vars
    PROVE  UNCHANGED frames
<1>1. frames = <<>> /\ 0 \notin Environment
  BY EnvironmentsAreNumbered DEF GlobalIsLast
<1>2. ~ Walking /\ \A w : ~ Within(w) /\ ~ Pop(w)
  BY <1>1 DEF Walking, Within, Pop
<1> QED
  BY <1>1, <1>2
  DEF Next, vars, EnterEnvironment, EnterMember, EnterTags, BindTagParameter,
      VisitClass, VisitFunction, LeaveEnvironment, VisitBinding, FinishBinding,
      VisitAnnotatedDeclaration, FinishAnnotatedDeclaration,
      VisitAnnotatedBinding, FinishAnnotatedBinding, BindTemplateTag,
      VisitName, RevisitName, AssignToReference, VisitGlobalMember

LEMMA GlobalStaysLast ==
    ASSUME TypeOK, ChainsNest, GlobalIsLast, [Next]_vars
    PROVE  GlobalIsLast'
<1>1. 0 \notin Environment /\ Len(enclosing) + 1 # 0
  BY EnvironmentsAreNumbered
<1>2. CASE LeaveEnvironment
  <2>1. /\ environment_ \in Environment
        /\ ResolveForwardReferences(environment_)
    BY <1>2 DEF LeaveEnvironment, TypeOK
  <2>2. undefined = {}
    BY <1>1, <2>1 DEF GlobalIsLast
  <2>3. CASE environment_ = 1
    BY <1>2, <2>1, <2>2, <2>3, OuterOf
    DEF LeaveEnvironment, ResolveForwardReferences, GlobalIsLast
  <2>4. CASE environment_ # 1
    <3>1. PICK outer \in Innermost(enclosing[environment_] \ {environment_}) :
              environment_' = outer /\ undefined' = undefined
      BY <2>1, <2>4, GlobalIsOutermost DEF ResolveForwardReferences
    <3> QED BY <1>1, <2>1, <2>2, <3>1, OuterOf DEF GlobalIsLast
  <2> QED BY <2>3, <2>4
<1>3. CASE ~ LeaveEnvironment
  <2>1. UNCHANGED undefined /\ (environment_' = 0 <=> environment_ = 0)
    <3>1. CASE EnterEnvironment \/ EnterMember \/ EnterTags
      BY <3>1, <1>1, EnterStep DEF Opens
    <3>2. CASE VisitClass \/ VisitFunction
      BY <3>2, <1>1, ClassStep, FunctionStep DEF Opens
    <3> QED
      BY <1>1, <1>3, <3>1, <3>2
      DEF Next, vars, BindTagParameter, VisitBinding, FinishBinding, references,
          VisitAnnotatedDeclaration, FinishAnnotatedDeclaration,
          VisitAnnotatedBinding, FinishAnnotatedBinding, BindTemplateTag,
          VisitName, RevisitName, Look, AssignToReference, VisitGlobalMember
  <2> QED BY <2>1, FramesRestAtEnd DEF GlobalIsLast
<1> QED
  BY <1>2, <1>3

-----------------------------------------------------------------------------
(* The outcomes of the visits. *)

(* What is bound stays bound, and only the current environment binds more. *)
LEMMA BindersGrow ==
    ASSUME TypeOK, ChainsNest, Opens \/ Binds,
           NEW e \in Environment, NEW k \in Key
    PROVE  /\ Binders(e, k) \subseteq Binders(e, k)'
           /\ \A b \in Binders(e, k)' :
                 /\ b \in enclosing[e]
                 /\ b \in Binders(e, k) \/ b = environment_
<1>1. enclosing'[e] = enclosing[e]
  BY OpenedChains, ChainsStayPut
<1>2. \A f \in enclosing[e] : f \in Environment
  BY ChainsAreEnvironments
<1>3. /\ bound[environment_] \subseteq bound'[environment_]
      /\ \A f \in Environment \ {environment_} : bound'[f] = bound[f]
  BY DEF Opens, Binds
<1> QED
  BY <1>1, <1>2, <1>3 DEF Binders

LEMMA OutcomesStayOne ==
    ASSUME TypeOK, ChainsNest, OneOutcomePerVisit,
           Opens \/ Binds \/ Looks \/ Leaves \/ Rests
    PROVE  OneOutcomePerVisit'
<1>1. /\ registered \subseteq (DOMAIN visits) \X Environment
      /\ undefined \subseteq DOMAIN visits
      /\ forward_referenced \in [Environment -> SUBSET DOMAIN visits]
  BY DEF TypeOK
<1>2. CASE Opens
  <2>1. UNCHANGED <<visits, registered, undefined>>
    BY <1>2 DEF Opens
  <2>2. SUFFICES ASSUME NEW v \in DOMAIN visits
        PROVE  /\ IsRegistered(v)' <=> IsRegistered(v)
               /\ IsPending(v)' <=> IsPending(v)
               /\ \A e \in Environment' :
                     v \in forward_referenced'[e] =>
                        e \in Environment /\ v \in forward_referenced[e]
    BY <2>1, <1>1 DEF OneOutcomePerVisit
  <2> QED
    BY <2>1, <1>1, <1>2, OpenedChains DEF IsRegistered, IsPending
<1>3. CASE Binds \/ Rests
  BY <1>3, ChainsStayPut
  DEF Binds, Rests, references, OneOutcomePerVisit, IsRegistered, IsPending
<1>4. CASE Looks
  <2>1. PICK node \in Nat, k \in Key : Look(node, k)
    BY <1>4 DEF Looks
  <2> DEFINE v == Len(visits) + 1
  <2>2. /\ Len(visits) \in Nat
        /\ DOMAIN visits = 1 .. Len(visits)
        /\ DOMAIN visits' = 1 .. v
        /\ v \notin DOMAIN visits
    BY <2>1, VisitsAreNumbered DEF Look
  <2>3. Environment' = Environment /\ environment_ \in Environment
    BY <1>4, ChainsStayPut DEF Looks
  <2>4. \/ /\ forward_referenced' =
                  [forward_referenced EXCEPT ![environment_] = @ \cup {v}]
           /\ registered' = registered
        \/ \E e \in Environment :
              /\ registered' = registered \cup {<<v, e>>}
              /\ forward_referenced' = forward_referenced
    BY <2>1, <2>3, ChainsAreEnvironments DEF Look, Lookup, Innermost, Binders
  <2>5. undefined' = undefined
    BY <2>1 DEF Look
  <2> HIDE DEF v
  <2>6. DOMAIN visits' = (DOMAIN visits) \cup {v}
    BY <2>2 DEF v
  <2>7. SUFFICES ASSUME NEW w \in (DOMAIN visits) \cup {v}
        PROVE  /\ IsRegistered(w)' \/ IsPending(w)' \/ w \in undefined'
               /\ IsRegistered(w)' => ~ IsPending(w)' /\ w \notin undefined'
               /\ w \in undefined' => ~ IsPending(w)'
               /\ \A e, f \in Environment :
                     /\ <<w, e>> \in registered' /\ <<w, f>> \in registered'
                           => e = f
                     /\ w \in forward_referenced'[e] /\
                        w \in forward_referenced'[f] => e = f
    BY <2>3, <2>6 DEF OneOutcomePerVisit
  <2>8. CASE w = v
    <3>1. /\ ~ IsRegistered(v) /\ v \notin undefined
          /\ \A e \in Environment : v \notin forward_referenced[e]
          /\ \A e : <<v, e>> \notin registered
      BY <2>2, <1>1 DEF IsRegistered
    <3> QED
      BY <2>3, <2>4, <2>5, <2>8, <3>1, <1>1 DEF IsRegistered, IsPending
  <2>9. CASE w # v
    <3>1. w \in DOMAIN visits
      BY <2>9
    <3>2. /\ \A e : <<w, e>> \in registered' <=> <<w, e>> \in registered
          /\ \A e \in Environment :
                w \in forward_referenced'[e] <=> w \in forward_referenced[e]
      BY <2>3, <2>4, <2>9, <1>1
    <3>3. (IsRegistered(w)' <=> IsRegistered(w)) /\ (IsPending(w)' <=> IsPending(w))
      BY <2>3, <3>2 DEF IsRegistered, IsPending
    <3> QED
      BY <2>5, <3>1, <3>2, <3>3 DEF OneOutcomePerVisit
  <2> QED
    BY <2>8, <2>9
<1>5. CASE Leaves
  <2>1. /\ environment_ \in Environment
        /\ ResolveForwardReferences(environment_)
        /\ UNCHANGED visits
        /\ Environment' = Environment
    BY <1>5, ChainsStayPut DEF Leaves
  <2> DEFINE c == environment_
  <2>2. /\ Found(c) \cup NotFound(c) = forward_referenced[c]
        /\ Found(c) \cap NotFound(c) = {}
    BY DEF Found, NotFound
  <2>3. registered' = registered \cup {<<v, c>> : v \in Found(c)}
    BY <2>1 DEF ResolveForwardReferences
  <2>4. \/ /\ undefined' = undefined \cup NotFound(c)
           /\ forward_referenced' = [forward_referenced EXCEPT ![c] = {}]
        \/ \E o \in Environment \ {c} :
           /\ undefined' = undefined
           /\ forward_referenced' = [forward_referenced EXCEPT
                                        ![c] = {}, ![o] = @ \cup NotFound(c)]
    BY <2>1, OuterOf DEF ResolveForwardReferences, Innermost
  <2> HIDE DEF c
  <2>5. c \in Environment
    BY <2>1 DEF c
  <2>6. SUFFICES ASSUME NEW w \in DOMAIN visits
        PROVE  /\ IsRegistered(w)' \/ IsPending(w)' \/ w \in undefined'
               /\ IsRegistered(w)' => ~ IsPending(w)' /\ w \notin undefined'
               /\ w \in undefined' => ~ IsPending(w)'
               /\ \A e, f \in Environment :
                     /\ <<w, e>> \in registered' /\ <<w, f>> \in registered'
                           => e = f
                     /\ w \in forward_referenced'[e] /\
                        w \in forward_referenced'[f] => e = f
    BY <2>1 DEF OneOutcomePerVisit
  <2>7. /\ IsRegistered(w) \/ IsPending(w) \/ w \in undefined
        /\ IsRegistered(w) => ~ IsPending(w) /\ w \notin undefined
        /\ w \in undefined => ~ IsPending(w)
        /\ \A e, f \in Environment :
              /\ <<w, e>> \in registered /\ <<w, f>> \in registered => e = f
              /\ w \in forward_referenced[e] /\ w \in forward_referenced[f]
                    => e = f
    BY DEF OneOutcomePerVisit
  <2>8. CASE w \notin forward_referenced[c]
    <3>1. w \notin Found(c) /\ w \notin NotFound(c)
      BY <2>2, <2>8
    <3>2. /\ \A e : <<w, e>> \in registered' <=> <<w, e>> \in registered
          /\ w \in undefined' <=> w \in undefined
          /\ \A e \in Environment :
                w \in forward_referenced'[e] <=> w \in forward_referenced[e]
      BY <2>3, <2>4, <2>5, <2>8, <3>1, <1>1
    <3>3. (IsRegistered(w)' <=> IsRegistered(w)) /\ (IsPending(w)' <=> IsPending(w))
      BY <2>1, <3>2 DEF IsRegistered, IsPending
    <3> QED BY <2>7, <3>2, <3>3
  <2>9. CASE w \in forward_referenced[c]
    <3>1. /\ ~ IsRegistered(w) /\ w \notin undefined
          /\ \A e \in Environment : w \in forward_referenced[e] => e = c
          /\ \A e : <<w, e>> \notin registered
      BY <2>5, <2>7, <2>9, <1>1 DEF IsPending, IsRegistered
    <3>2. CASE w \in Found(c)
      <4>1. w \notin NotFound(c)
        BY <2>2, <3>2
      <4>2. /\ \A e : <<w, e>> \in registered' <=> e = c
            /\ w \notin undefined'
            /\ \A e \in Environment : w \notin forward_referenced'[e]
        BY <2>3, <2>4, <2>5, <3>1, <3>2, <4>1, <1>1
      <4> QED BY <2>1, <2>5, <4>2 DEF IsRegistered, IsPending
    <3>3. CASE w \in NotFound(c)
      <4>1. w \notin Found(c)
        BY <2>2, <3>3
      <4>2. \A e : <<w, e>> \notin registered'
        BY <2>3, <3>1, <4>1
      <4>3. \/ /\ w \in undefined'
               /\ \A e \in Environment : w \notin forward_referenced'[e]
            \/ /\ w \notin undefined'
               /\ \E o \in Environment : \A e \in Environment :
                     w \in forward_referenced'[e] <=> e = o
        BY <2>4, <2>5, <3>1, <3>3, <1>1
      <4> QED BY <2>1, <4>2, <4>3 DEF IsRegistered, IsPending
    <3> QED BY <2>2, <2>9, <3>2, <3>3
  <2> QED
    BY <2>8, <2>9
<1> QED
  BY <1>2, <1>3, <1>4, <1>5

LEMMA OutcomesStayInScope ==
    ASSUME TypeOK, ChainsNest, ResolvedInScope, PendingIsUnbound,
           Opens \/ Binds \/ Looks \/ Leaves \/ Rests
    PROVE  ResolvedInScope'
<1>1. /\ registered \subseteq (DOMAIN visits) \X Environment
      /\ forward_referenced \in [Environment -> SUBSET DOMAIN visits]
  BY DEF TypeOK
<1>2. \A v \in DOMAIN visits :
         visits[v].environment \in Environment /\ visits[v].key \in Key
  BY VisitsAreNumbered
<1>3. CASE Opens \/ Binds
  <2>1. UNCHANGED <<visits, registered>>
    BY <1>3 DEF Opens, Binds, references
  <2>2. SUFFICES ASSUME NEW v \in DOMAIN visits, NEW e, <<v, e>> \in registered
        PROVE  e \in Binders(visits[v].environment, visits[v].key)'
    BY <2>1 DEF ResolvedInScope
  <2>3. e \in Binders(visits[v].environment, visits[v].key)
    BY <2>2, <1>1 DEF ResolvedInScope
  <2>4. Binders(visits[v].environment, visits[v].key) \subseteq
           Binders(visits[v].environment, visits[v].key)'
    <3> DEFINE e0 == visits[v].environment
               k0 == visits[v].key
    <3>1. e0 \in Environment /\ k0 \in Key /\ UNCHANGED <<e0, k0>>
      BY <1>2, <2>1
    <3>2. /\ Binders(e0, k0) = {f \in enclosing[e0] : k0 \in bound[f]}
          /\ Binders(e0, k0)' = {f \in enclosing'[e0] : k0 \in bound'[f]}
      BY <3>1 DEF Binders
    <3> HIDE DEF e0, k0
    <3>3. enclosing'[e0] = enclosing[e0] /\ enclosing[e0] \subseteq Environment
      BY <1>3, <3>1, OpenedChains, ChainsStayPut, ChainsAreEnvironments
    <3>4. /\ bound[environment_] \subseteq bound'[environment_]
          /\ \A f \in Environment \ {environment_} : bound'[f] = bound[f]
      BY <1>3 DEF Opens, Binds
    <3>5. Binders(e0, k0) \subseteq Binders(e0, k0)'
      BY <3>2, <3>3, <3>4
    <3> QED BY <3>5 DEF e0, k0
  <2> QED BY <2>3, <2>4
<1>4. CASE Rests
  BY <1>4, ChainsStayPut DEF Rests, references, ResolvedInScope, Binders
<1>5. CASE Looks
  <2>1. PICK node \in Nat, k \in Key : Look(node, k)
    BY <1>5 DEF Looks
  <2> DEFINE v == Len(visits) + 1
  <2>2. /\ UNCHANGED <<enclosing, bound>>
        /\ visits'[v].environment = environment_ /\ visits'[v].key = k
        /\ \A w \in DOMAIN visits : visits'[w] = visits[w]
        /\ DOMAIN visits' = (DOMAIN visits) \cup {v}
        /\ v \notin DOMAIN visits
    BY <2>1, VisitsAreNumbered DEF Look, declarations
  <2>3. \/ registered' = registered
        \/ \E e \in Binders(environment_, k) : registered' = registered \cup {<<v, e>>}
    BY <2>1 DEF Look, Lookup, Innermost
  <2> HIDE DEF v
  <2> QED
    BY <2>2, <2>3, <1>1, ChainsStayPut, <1>5 DEF ResolvedInScope, Binders
<1>6. CASE Leaves
  <2>1. /\ UNCHANGED <<enclosing, bound, visits>>
        /\ environment_ \in Environment
        /\ registered' = registered \cup
                            {<<v, environment_>> : v \in Found(environment_)}
    BY <1>6 DEF Leaves, ResolveForwardReferences
  <2>2. ASSUME NEW v \in Found(environment_)
        PROVE  environment_ \in Binders(visits[v].environment, visits[v].key)
    BY <2>1 DEF Found, PendingIsUnbound, Innermost, Binders
  <2> QED
    BY <2>1, <2>2, <1>1, ChainsStayPut, <1>6 DEF ResolvedInScope, Binders
<1> QED
  BY <1>3, <1>4, <1>5, <1>6

(* Only the current environment can bind a name that waits, and not when it *)
(* waits further in.                                                        *)
LEMMA WaitingStaysUnbound ==
    ASSUME TypeOK, ChainsNest, PendingIsUnbound, Opens \/ Binds
    PROVE  PendingIsUnbound'
<1>1. forward_referenced \in [Environment -> SUBSET DOMAIN visits]
  BY DEF TypeOK
<1>2. environment_ \in Environment /\ UNCHANGED visits
  BY DEF Opens, Binds, references
<1>3. SUFFICES ASSUME NEW e \in Environment, NEW v \in forward_referenced[e]
      PROVE  /\ e \in Innermost({f \in enclosing[visits[v].environment] : IsOpen(f)})'
             /\ \A b \in Binders(visits[v].environment, visits[v].key)' : b <= e
  <2>1. CASE Opens
    BY <1>2, <1>3, <2>1, OpenedChains DEF PendingIsUnbound
  <2>2. CASE Binds
    BY <1>2, <1>3, <2>2, ChainsStayPut DEF PendingIsUnbound, Binds, references
  <2> QED BY <2>1, <2>2
<1> DEFINE e0 == visits[v].environment
           k0 == visits[v].key
<1>4. e0 \in Environment /\ k0 \in Key /\ UNCHANGED <<e0, k0>>
  BY <1>1, <1>2, VisitsAreNumbered
<1>5. /\ e \in enclosing[e0] /\ IsOpen(e)
      /\ \A f \in enclosing[e0] : IsOpen(f) => f <= e
      /\ \A b \in enclosing[e0] : k0 \in bound[b] => b <= e
  BY DEF PendingIsUnbound, Innermost, Binders
<1>6. /\ Innermost({f \in enclosing[e0] : IsOpen(f)})' =
            {g \in enclosing'[e0] : /\ IsOpen(g)'
                                   /\ \A f \in enclosing'[e0] : IsOpen(f)' => f <= g}
      /\ Binders(e0, k0)' = {f \in enclosing'[e0] : k0 \in bound'[f]}
  BY <1>4 DEF Innermost, Binders
<1> HIDE DEF e0, k0
<1>7. enclosing'[e0] = enclosing[e0] /\ enclosing[e0] \subseteq Environment
  BY <1>4, OpenedChains, ChainsStayPut, ChainsAreEnvironments
<1>8. \A f \in Environment : IsOpen(f)' <=> IsOpen(f)
  <2>1. CASE Opens
    <3>1. /\ environment_' = Len(enclosing) + 1
          /\ environment_' # 0 /\ environment_ # 0
          /\ environment_' \notin Environment
      BY <2>1, EnvironmentsAreNumbered DEF Opens
    <3> QED BY <2>1, <3>1, OpenedChains DEF IsOpen
  <2>2. CASE Binds
    BY <2>2, ChainsStayPut DEF Binds, IsOpen
  <2> QED BY <2>1, <2>2
<1>9. \A b \in enclosing[e0] : k0 \in bound'[b] => b <= e
  <2>1. IsOpen(environment_)
    BY <1>2, CurrentIsInnermost
  <2>2. \A b \in Environment \ {environment_} : bound'[b] = bound[b]
    BY DEF Opens, Binds
  <2> QED BY <1>5, <1>7, <2>1, <2>2
<1>10. /\ e \in Innermost({f \in enclosing[e0] : IsOpen(f)})'
       /\ \A b \in Binders(e0, k0)' : b <= e
  BY <1>5, <1>6, <1>7, <1>8, <1>9
<1> QED
  BY <1>10 DEF e0, k0

LEMMA LookedUpIsUnbound ==
    ASSUME TypeOK, ChainsNest, PendingIsUnbound, Looks
    PROVE  PendingIsUnbound'
<1>1. PICK node \in Nat, k \in Key : Look(node, k)
  BY DEF Looks
<1>2. /\ forward_referenced \in [Environment -> SUBSET DOMAIN visits]
      /\ environment_ \in Environment
  BY DEF TypeOK, Looks
<1> DEFINE v == Len(visits) + 1
<1>3. /\ UNCHANGED <<environment_, enclosing, bound>>
      /\ visits'[v].environment = environment_ /\ visits'[v].key = k
      /\ \A w \in DOMAIN visits : visits'[w] = visits[w]
  BY <1>1, VisitsAreNumbered DEF Look, declarations
<1>4. \/ UNCHANGED forward_referenced
      \/ /\ Binders(environment_, k) = {}
         /\ forward_referenced' =
                [forward_referenced EXCEPT ![environment_] = @ \cup {v}]
  BY <1>1 DEF Look
<1>5. Environment' = Environment
  BY ChainsStayPut
<1>6. SUFFICES ASSUME NEW e \in Environment, NEW w \in forward_referenced'[e]
      PROVE  /\ e \in Innermost({f \in enclosing[visits'[w].environment] : IsOpen(f)})
             /\ \A b \in Binders(visits'[w].environment, visits'[w].key) : b <= e
  BY <1>3, <1>5, <1>6 DEF PendingIsUnbound, Innermost, Binders, IsOpen
<1> HIDE DEF v
<1>7. CASE w \in forward_referenced[e]
  BY <1>2, <1>3, <1>7 DEF PendingIsUnbound
<1>8. CASE w \notin forward_referenced[e]
  <2>1. e = environment_ /\ w = v /\ Binders(environment_, k) = {}
    BY <1>2, <1>4, <1>6, <1>8
  <2>2. e \in Innermost({f \in enclosing[environment_] : IsOpen(f)})
    BY <1>2, <2>1, CurrentIsInnermost, ChainsAreEnvironments DEF Innermost
  <2> QED BY <1>3, <2>1, <2>2
<1> QED
  BY <1>7, <1>8

(* What is handed outwards waits in the environment that is innermost then. *)
LEMMA HandedOutIsUnbound ==
    ASSUME TypeOK, ChainsNest, PendingIsUnbound, Leaves
    PROVE  PendingIsUnbound'
<1>1. /\ forward_referenced \in [Environment -> SUBSET DOMAIN visits]
      /\ environment_ \in Environment
      /\ UNCHANGED <<enclosing, bound, visits>>
      /\ Environment' = Environment
      /\ ResolveForwardReferences(environment_)
  BY ChainsStayPut DEF TypeOK, Leaves
<1> DEFINE c == environment_
<1>2. ASSUME NEW e \in Environment, NEW v \in forward_referenced[e]
      PROVE  /\ visits[v].environment \in Environment
             /\ e \in enclosing[visits[v].environment]
             /\ e \in enclosing[c]
             /\ \A b \in Binders(visits[v].environment, visits[v].key) : b <= e
             /\ \A b \in enclosing[visits[v].environment] : IsOpen(b) => b <= e
  BY <1>1, <1>2, VisitsAreNumbered DEF PendingIsUnbound, Innermost, IsOpen
<1>3. CASE enclosing[c] \ {c} = {} /\ forward_referenced' = [forward_referenced EXCEPT ![c] = {}]
  <2>1. \A e \in Environment : forward_referenced'[e] = {}
    <3> SUFFICES ASSUME NEW e \in Environment, NEW v \in forward_referenced'[e]
                 PROVE  FALSE
      OBVIOUS
    <3>1. e # c /\ v \in forward_referenced[e]
      BY <1>1, <1>3
    <3>2. e \in enclosing[c]
      BY <3>1, <1>2
    <3> QED BY <3>1, <3>2, <1>3
  <2> QED BY <1>1, <2>1 DEF PendingIsUnbound
<1>4. ASSUME NEW o \in Innermost(enclosing[c] \ {c}),
             environment_' = o,
             forward_referenced' = [forward_referenced EXCEPT
                                      ![c] = {}, ![o] = @ \cup NotFound(c)]
      PROVE  PendingIsUnbound'
  <2>1. /\ o \in Environment /\ o \in enclosing[c]
        /\ enclosing[o] = enclosing[c] \ {c}
        /\ \A f \in enclosing[o] : f <= o
    BY <1>1, <1>4, OuterOf
  <2>2. \A f : IsOpen(f)' <=> f \in enclosing[c] \ {c}
    BY <1>1, <1>4, <2>1, EnvironmentsAreNumbered DEF IsOpen
  <2>3. \A f : f \in enclosing[c] => IsOpen(f)
    BY <1>1, EnvironmentsAreNumbered DEF IsOpen
  <2>4. SUFFICES ASSUME NEW e \in Environment, NEW v \in forward_referenced'[e]
        PROVE  /\ e \in enclosing[visits[v].environment] /\ IsOpen(e)'
               /\ \A f \in enclosing[visits[v].environment] : IsOpen(f)' => f <= e
               /\ \A b \in Binders(visits[v].environment, visits[v].key) : b <= e
    BY <1>1, <2>4 DEF PendingIsUnbound, Innermost, Binders
  <2>5. CASE v \in forward_referenced[e] /\ e # c
    BY <1>2, <2>2, <2>3, <2>5
  <2>6. CASE e = o /\ v \in NotFound(c)
    <3>1. v \in forward_referenced[c] /\ visits[v].key \notin bound[c]
      BY <2>6 DEF NotFound, Found
    <3> DEFINE e0 == visits[v].environment
    <3>2. /\ e0 \in Environment /\ c \in enclosing[e0]
          /\ \A b \in Binders(e0, visits[v].key) : b <= c
      BY <1>1, <1>2, <3>1
    <3> HIDE DEF e0
    <3>3. /\ enclosing[c] \subseteq enclosing[e0]
          /\ \A g \in enclosing[e0] : g <= c => g \in enclosing[c]
      BY <3>2, ChainsAreBounded
    <3>4. \A b \in Binders(e0, visits[v].key) : b \in enclosing[o]
      BY <2>1, <3>1, <3>2, <3>3 DEF Binders
    <3> QED BY <2>1, <2>2, <2>6, <3>3, <3>4 DEF e0
  <2> QED
    BY <1>1, <1>4, <2>1, <2>4, <2>5, <2>6
<1> QED
  BY <1>1, <1>3, <1>4 DEF ResolveForwardReferences

LEMMA UndefinedStaysUnbound ==
    ASSUME TypeOK, ChainsNest, GlobalIsLast, UndefinedIsUnbound, PendingIsUnbound,
           Opens \/ Binds \/ Looks \/ Leaves \/ Rests
    PROVE  UndefinedIsUnbound'
<1>1. 0 \notin Environment
  BY EnvironmentsAreNumbered
<1>2. CASE Opens \/ Binds \/ Looks
  <2>1. undefined = {} /\ undefined' = undefined
    BY <1>1, <1>2 DEF Opens, Binds, Looks, Look, references, GlobalIsLast
  <2> QED BY <2>1 DEF UndefinedIsUnbound
<1>3. CASE Rests
  BY <1>3 DEF Rests, references, UndefinedIsUnbound, Binders
<1>4. CASE Leaves
  <2>1. /\ undefined = {}
        /\ environment_ \in Environment
        /\ UNCHANGED <<enclosing, bound, visits>>
        /\ ResolveForwardReferences(environment_)
    BY <1>1, <1>4 DEF Leaves, GlobalIsLast
  <2>2. \/ undefined' = {}
        \/ environment_ = 1 /\ undefined' = NotFound(environment_)
    BY <2>1, GlobalIsOutermost DEF ResolveForwardReferences
  <2>3. ASSUME environment_ = 1, NEW v \in NotFound(environment_)
        PROVE  Binders(visits[v].environment, visits[v].key) = {}
    <3>1. v \in forward_referenced[1] /\ visits[v].key \notin bound[1]
      BY <2>3 DEF NotFound, Found
    <3>2. \A b \in Binders(visits[v].environment, visits[v].key) : b <= 1
      BY <2>1, <2>3, <3>1 DEF PendingIsUnbound
    <3>3. visits[v].environment \in Environment
      BY <2>1, <2>3, <3>1, VisitsAreNumbered DEF TypeOK
    <3>4. enclosing[visits[v].environment] \subseteq Environment
      BY <3>3, ChainsAreEnvironments
    <3>5. \A b \in Binders(visits[v].environment, visits[v].key) : b = 1
      BY <3>2, <3>4, EnvironmentsAreNumbered DEF Binders
    <3> QED BY <3>1, <3>5 DEF Binders
  <2> QED
    BY <2>1, <2>2, <2>3 DEF UndefinedIsUnbound, Binders
<1> QED
  BY <1>2, <1>3, <1>4

-----------------------------------------------------------------------------
(* The theorems. *)

LEMMA InitInvariant ==
    ASSUME Init
    PROVE  TypeOK /\ Inv
<1>1. Environment = {1} /\ enclosing = <<{1}>> /\ enclosing[1] = {1}
  BY DEF Init, Environment
<1>2. DOMAIN visits = {} /\ undefined = {} /\ registered = {} /\ environment_ = 1
  BY DEF Init
<1>3. /\ {Type(n) : n \in PrimitiveTypes} \cup {Variable(GlobalName)} \in SUBSET Key
      /\ [NoAssignments EXCEPT ![GlobalName] = 1] \in [Name -> 0 .. 2]
  BY NameAssumption, KeysOfNames DEF NoAssignments
<1>4. TypeOK
  <2>1. /\ enclosing \in Seq(SUBSET Nat)
        /\ environment_ \in Environment \cup {0}
        /\ document \in [Environment -> Nat]
        /\ bound \in [Environment -> SUBSET Key]
    BY <1>1, <1>2, <1>3 DEF Init
  <2>2. assignments \in [Environment -> [Name -> 0 .. 2]]
    <3> DEFINE row == [NoAssignments EXCEPT ![GlobalName] = 1]
    <3>1. assignments = <<row>>
      BY DEF Init
    <3> HIDE DEF row
    <3> QED BY <1>1, <1>3, <3>1 DEF row
  <2>3. /\ forward_referenced \in [Environment -> SUBSET DOMAIN visits]
        /\ frames \in Seq(Frame)
        /\ visits \in Seq([node : Nat, key : Key, environment : Environment])
        /\ registered \subseteq (DOMAIN visits) \X Environment
        /\ undefined \subseteq DOMAIN visits
        /\ multiple \subseteq Environment \X Key
        /\ global_properties \in [Name -> {"none", "variable", "member"}]
        /\ rejected \subseteq Name
    BY <1>1, <1>2 DEF Init
  <2> QED BY <2>1, <2>2, <2>3 DEF TypeOK
<1>5. ChainsNest
  BY <1>1 DEF ChainsNest
<1>6. GlobalIsLast /\ OneOutcomePerVisit /\ ResolvedInScope /\ UndefinedIsUnbound
  BY <1>2 DEF GlobalIsLast, OneOutcomePerVisit, ResolvedInScope, UndefinedIsUnbound
<1>7. PendingIsUnbound
  BY <1>1 DEF Init, PendingIsUnbound
<1> QED
  BY <1>4, <1>5, <1>6, <1>7 DEF Inv

LEMMA NextInvariant ==
    ASSUME TypeOK, Inv, [Next]_vars
    PROVE  TypeOK' /\ Inv'
<1>1. /\ ChainsNest /\ GlobalIsLast /\ OneOutcomePerVisit
      /\ ResolvedInScope /\ UndefinedIsUnbound /\ PendingIsUnbound
  BY DEF Inv
<1>2. TypeOK' /\ (Opens \/ Binds \/ Looks \/ Leaves \/ Rests)
  BY <1>1, StepKinds
<1>3. ChainsNest'
  BY <1>1, <1>2, ChainsStayNested, ChainsStayPut
<1>4. GlobalIsLast'
  BY <1>1, GlobalStaysLast
<1>5. OneOutcomePerVisit'
  BY <1>1, <1>2, OutcomesStayOne
<1>6. ResolvedInScope'
  BY <1>1, <1>2, OutcomesStayInScope
<1>7. UndefinedIsUnbound'
  BY <1>1, <1>2, UndefinedStaysUnbound
<1>8. PendingIsUnbound'
  <2>1. CASE Rests
    BY <1>1, <2>1, ChainsStayPut
    DEF Rests, references, PendingIsUnbound, Binders, IsOpen, Innermost
  <2> QED
    BY <1>1, <1>2, <2>1, WaitingStaysUnbound, LookedUpIsUnbound, HandedOutIsUnbound
<1> QED
  BY <1>2, <1>3, <1>4, <1>5, <1>6, <1>7, <1>8 DEF Inv

(* Every state of the resolver is of its type: every handler, at any depth  *)
(* of nesting, leaves the environments and the lists that name them in step. *)
THEOREM TypeCorrect == Spec => []TypeOK
<1>1. Init => TypeOK /\ Inv
  BY InitInvariant
<1>2. TypeOK /\ Inv /\ [Next]_vars => TypeOK' /\ Inv'
  BY NextInvariant
<1> QED
  BY <1>1, <1>2, PTL DEF Spec

(* The inductive invariant: what NameResolver's lists and chains of         *)
(* environments keep to between any two steps of the walk.                  *)
THEOREM InvCorrect == Spec => []Inv
<1>1. Init => TypeOK /\ Inv
  BY InitInvariant
<1>2. TypeOK /\ Inv /\ [Next]_vars => TypeOK' /\ Inv'
  BY NextInvariant
<1> QED
  BY <1>1, <1>2, PTL DEF Spec

(* No name is lost or settled twice on its way through the destructors.     *)
THEOREM OutcomesCorrect == Spec => []OneOutcomePerVisit
<1>1. Inv => OneOutcomePerVisit
  BY DEF Inv
<1> QED
  BY <1>1, InvCorrect, PTL

(* What a name is resolved to binds it, around the place it is used at.     *)
THEOREM ResolvedCorrect == Spec => []ResolvedInScope
<1>1. Inv => ResolvedInScope
  BY DEF Inv
<1> QED
  BY <1>1, InvCorrect, PTL

(* No name that is bound around its place, even later, is reported          *)
(* undefined.                                                               *)
THEOREM UndefinedCorrect == Spec => []UndefinedIsUnbound
<1>1. Inv => UndefinedIsUnbound
  BY DEF Inv
<1> QED
  BY <1>1, InvCorrect, PTL

(* A name waits at the innermost open environment, and was bound nowhere    *)
(* further in.                                                              *)
THEOREM PendingCorrect == Spec => []PendingIsUnbound
<1>1. Inv => PendingIsUnbound
  BY DEF Inv
<1> QED
  BY <1>1, InvCorrect, PTL

(* When the resolver is destroyed every name is resolved or reported: the   *)
(* last destructor leaves nothing in any list.                              *)
THEOREM NothingPendingCorrect == Spec => []NothingPendingAtEnd
<1>1. TypeOK /\ Inv => NothingPendingAtEnd
  <2> SUFFICES ASSUME TypeOK, Inv, environment_ = 0, NEW v \in DOMAIN visits
               PROVE  IsRegistered(v) \/ v \in undefined
    BY DEF NothingPendingAtEnd
  <2>1. ~ IsPending(v)
    BY DEF Inv, PendingIsUnbound, IsPending, Innermost, IsOpen
  <2> QED BY <2>1 DEF Inv, OneOutcomePerVisit
<1> QED
  BY <1>1, TypeCorrect, InvCorrect, PTL

-----------------------------------------------------------------------------
(* The refinement. *)

OpenScopes == {e \in Environment : IsOpen(e)}
Uses == [v \in DOMAIN visits |->
            [key |-> visits[v].key, environment |-> visits[v].environment]]

LEMMA OpenScopesOf ==
    ASSUME TypeOK, ChainsNest, environment_ \in Environment
    PROVE  OpenScopes = enclosing[environment_]
BY EnvironmentsAreNumbered, ChainsAreEnvironments DEF OpenScopes, IsOpen

LEMMA CurrentScope ==
    ASSUME TypeOK, ChainsNest, environment_ \in Environment
    PROVE  environment_ \in Scopes!Innermost(OpenScopes)
BY OpenScopesOf, CurrentIsInnermost DEF OpenScopes, Scopes!Innermost

LEMMA InitScopes ==
    ASSUME Init
    PROVE  Scopes!Init
<1>1. Environment = {1} /\ enclosing = <<{1}>> /\ enclosing[1] = {1} /\ environment_ = 1
  BY DEF Init, Environment
<1>2. OpenScopes = {1}
  BY <1>1 DEF OpenScopes, IsOpen
<1>3. Uses = <<>> /\ registered = {} /\ undefined = {}
  BY DEF Init, Uses
<1>4. {Type(n) : n \in PrimitiveTypes} \cup {Variable(GlobalName)} \in SUBSET Key
  BY NameAssumption, KeysOfNames
<1>5. \E keys \in SUBSET Key : bound = <<keys>>
  BY <1>4 DEF Init
<1> QED
  BY <1>1, <1>2, <1>3, <1>5 DEF Scopes!Init, OpenScopes, Uses

(* Two lists of bindings that agree everywhere are one. *)
LEMMA BoundIsExtended ==
    ASSUME NEW n \in Nat, NEW b \in [1 .. n -> SUBSET Key],
           NEW c \in [1 .. n + 1 -> SUBSET Key], NEW k, k = c[n + 1],
           \A e \in 1 .. n : c[e] = b[e]
    PROVE  c = Append(b, k)
<1> DEFINE S == SUBSET Key
           a == Append(b, k)
<1>1. k \in S /\ b \in [1 .. n -> S] /\ c \in [1 .. n + 1 -> S]
  <2>1. n + 1 \in 1 .. n + 1
    OBVIOUS
  <2> QED BY <2>1
<1> HIDE DEF S
<1>2. a \in [1 .. n + 1 -> S]
  BY <1>1, AppendToList
<1>3. a[n + 1] = k
  BY <1>1, AppendToList
<1>4. ASSUME NEW e \in 1 .. n
      PROVE  a[e] = b[e]
  BY <1>1, AppendToList
<1> HIDE DEF a
<1>5. \A e \in 1 .. n + 1 : a[e] = c[e]
  BY <1>3, <1>4
<1>6. a = c
  BY <1>1, <1>2, <1>5
<1> QED
  BY <1>6 DEF a

LEMMA OpenRefines ==
    ASSUME TypeOK, ChainsNest, Opens
    PROVE  Scopes!Open
<1> DEFINE n == Len(enclosing)
           c == environment_
           outerKeys == bound'[environment_]
           keys == bound'[n + 1]
<1>1. /\ n \in Nat
      /\ Environment = 1 .. n
      /\ c \in Environment
  BY EnvironmentsAreNumbered DEF Opens
<1>2. /\ bound \in [1 .. n -> SUBSET Key]
      /\ bound' \in [1 .. n + 1 -> SUBSET Key]
      /\ bound[c] \subseteq bound'[c]
      /\ \A e \in Environment \ {c} : bound'[e] = bound[e]
      /\ environment_' = n + 1
      /\ enclosing' = Append(enclosing, enclosing[c] \cup {n + 1})
      /\ UNCHANGED <<visits, registered, undefined>>
  BY <1>1 DEF TypeOK, Opens
<1>3. outerKeys \in SUBSET Key /\ keys \in SUBSET Key
  BY <1>1, <1>2
<1>4. bound' = Append([bound EXCEPT ![c] = @ \cup outerKeys], keys)
  <2> DEFINE b == [bound EXCEPT ![c] = @ \cup outerKeys]
  <2>1. b \in [1 .. n -> SUBSET Key] /\ \A e \in 1 .. n : bound'[e] = b[e]
    BY <1>1, <1>2, <1>3
  <2>2. /\ n \in Nat /\ keys = bound'[n + 1]
        /\ bound' \in [1 .. n + 1 -> SUBSET Key]
    BY <1>1, <1>2
  <2> HIDE DEF b, n, keys
  <2>3. bound' = Append(b, keys)
    BY <2>1, <2>2, BoundIsExtended
  <2> QED BY <2>3 DEF b
<1>5. OpenScopes' = OpenScopes \cup {n + 1}
  <2>1. environment_' # 0 /\ environment_' \in Environment'
    BY <1>1, <1>2, OpenedChains
  <2>2. OpenScopes' = {e \in Environment' : e \in enclosing'[n + 1]}
    BY <1>2, <2>1 DEF OpenScopes, IsOpen
  <2>3. enclosing'[n + 1] = enclosing[c] \cup {n + 1} /\ n + 1 \in Environment'
    BY OpenedChains
  <2>4. enclosing[c] \subseteq Environment' /\ OpenScopes = enclosing[c]
    BY <1>1, OpenedChains, ChainsAreEnvironments, OpenScopesOf
  <2> QED BY <2>2, <2>3, <2>4
<1>6. Uses' = Uses
  BY <1>2 DEF Uses
<1>7. c \in Scopes!Innermost(OpenScopes)
  BY <1>1, CurrentScope
<1> HIDE DEF n, c, outerKeys, keys
<1> QED
  BY <1>2, <1>3, <1>4, <1>5, <1>6, <1>7 DEF Scopes!Open, OpenScopes, Uses, n

LEMMA BindRefines ==
    ASSUME TypeOK, ChainsNest, Binds
    PROVE  Scopes!Bind
<1>1. /\ environment_ \in Environment
      /\ bound \in [Environment -> SUBSET Key]
      /\ bound' \in [Environment -> SUBSET Key]
      /\ bound[environment_] \subseteq bound'[environment_]
      /\ \A e \in Environment \ {environment_} : bound'[e] = bound[e]
      /\ UNCHANGED <<environment_, enclosing, visits, registered, undefined>>
  BY DEF Binds, TypeOK, references
<1>2. bound' = [bound EXCEPT ![environment_] = @ \cup bound'[environment_]]
  BY <1>1
<1>3. bound'[environment_] \in SUBSET Key
  BY <1>1
<1>4. UNCHANGED <<OpenScopes, Uses>>
  BY <1>1 DEF OpenScopes, Uses, IsOpen, Environment
<1>5. environment_ \in Scopes!Innermost(OpenScopes)
  BY <1>1, CurrentScope
<1> QED
  BY <1>1, <1>2, <1>3, <1>4, <1>5 DEF Scopes!Bind, OpenScopes, Uses

LEMMA UseRefines ==
    ASSUME TypeOK, ChainsNest, Looks
    PROVE  Scopes!Use
<1>1. PICK node \in Nat, k \in Key : Look(node, k)
  BY DEF Looks
<1>2. environment_ \in Environment
  BY DEF Looks
<1> DEFINE v == Len(visits) + 1
           use == [key |-> k, environment |-> environment_]
           S == [key : Key, environment : Environment]
<1>3. /\ Len(visits) \in Nat
      /\ DOMAIN visits = 1 .. Len(visits)
      /\ DOMAIN visits' = 1 .. v
      /\ visits'[v].environment = environment_ /\ visits'[v].key = k
      /\ \A w \in DOMAIN visits : visits'[w] = visits[w]
  BY <1>1, VisitsAreNumbered DEF Look
<1>4. Uses \in [1 .. Len(visits) -> S] /\ Len(Uses) = Len(visits)
  <2>1. Uses \in [1 .. Len(visits) -> S]
    BY <1>3, VisitsAreNumbered DEF Uses
  <2> HIDE DEF S
  <2> QED BY <2>1, <1>3, ListOfFunction
<1>5. Uses' = Append(Uses, use)
  <2> DEFINE a == Append(Uses, use)
             u == Uses
             n == Len(visits)
  <2>1. use \in S /\ n \in Nat /\ u \in [1 .. n -> S]
    BY <1>2, <1>3, <1>4
  <2>2. a = Append(u, use)
    OBVIOUS
  <2>3. /\ \A w \in 1 .. n : Uses'[w] = u[w]
        /\ Uses'[n + 1] = use
        /\ Uses' = [w \in 1 .. n + 1 |-> Uses'[w]]
    BY <1>3 DEF Uses
  <2> HIDE DEF S, u, n, use, a
  <2>4. a \in [1 .. n + 1 -> S]
    BY <2>1, <2>2, AppendToList
  <2>5. a[n + 1] = use
    BY <2>1, <2>2, AppendToList
  <2>6. ASSUME NEW w \in 1 .. n
        PROVE  a[w] = u[w]
    BY <2>1, <2>2, AppendToList
  <2>7. \A w \in 1 .. n + 1 : a[w] = Uses'[w]
    BY <2>1, <2>3, <2>5, <2>6
  <2>8. Uses' = a
    BY <2>3, <2>4, <2>7
  <2> QED BY <2>8 DEF a
<1>6. UNCHANGED <<environment_, enclosing, bound, undefined, OpenScopes>>
  BY <1>1 DEF Look, declarations, OpenScopes, IsOpen, Environment
<1>7. environment_ \in Scopes!Innermost(OpenScopes)
  BY <1>2, CurrentScope
<1>8. \/ Scopes!Binders(environment_, k) = {} /\ UNCHANGED registered
      \/ \E b \in Scopes!Innermost(Scopes!Binders(environment_, k)) :
            registered' = registered \cup {<<Len(Uses) + 1, b>>}
  BY <1>1, <1>4
  DEF Look, Lookup, Binders, Innermost, Scopes!Innermost, Scopes!Binders
<1> QED
  BY <1>5, <1>6, <1>7, <1>8 DEF Scopes!Use, OpenScopes, Uses

(* What waits anywhere in the closing environment is in its lists: they     *)
(* stand for the uses that LexicalScopes finds unsettled.                   *)
LEMMA ListsAreWaiting ==
    ASSUME TypeOK, Inv, environment_ \in Environment
    PROVE  Scopes!WaitingIn(environment_) = forward_referenced[environment_]
<1> DEFINE c == environment_
<1>1. forward_referenced \in [Environment -> SUBSET DOMAIN visits]
  BY DEF TypeOK
<1>2. DOMAIN Uses = DOMAIN visits /\ \A v \in DOMAIN visits : Uses[v].environment = visits[v].environment
  BY DEF Uses
<1>3. \A v \in DOMAIN visits : Scopes!Unsettled(v) <=> v \notin undefined /\ ~ IsRegistered(v)
  BY DEF Scopes!Unsettled, Scopes!Scope, IsRegistered, Environment
<1>4. Scopes!WaitingIn(c) =
        {v \in DOMAIN visits : /\ c \in enclosing[visits[v].environment]
                               /\ v \notin undefined /\ ~ IsRegistered(v)}
  BY <1>2, <1>3 DEF Scopes!WaitingIn, Uses
<1>5. ASSUME NEW v \in forward_referenced[c]
      PROVE  v \in Scopes!WaitingIn(c)
  <2>1. v \in DOMAIN visits /\ IsPending(v)
    BY <1>1 DEF IsPending
  <2>2. c \in enclosing[visits[v].environment]
    BY DEF Inv, PendingIsUnbound, Innermost
  <2>3. v \notin undefined /\ ~ IsRegistered(v)
    BY <2>1 DEF Inv, OneOutcomePerVisit
  <2> QED BY <1>4, <2>1, <2>2, <2>3
<1>6. ASSUME NEW v \in Scopes!WaitingIn(c)
      PROVE  v \in forward_referenced[c]
  <2>1. /\ v \in DOMAIN visits /\ c \in enclosing[visits[v].environment]
        /\ v \notin undefined /\ ~ IsRegistered(v)
    BY <1>4
  <2>2. PICK g \in Environment : v \in forward_referenced[g]
    BY <2>1 DEF Inv, OneOutcomePerVisit, IsPending
  <2>3. IsOpen(g) /\ \A f \in enclosing[visits[v].environment] : IsOpen(f) => f <= g
    BY <2>2 DEF Inv, PendingIsUnbound, Innermost
  <2>4. IsOpen(c) /\ g <= c
    BY <2>3, CurrentIsInnermost DEF Inv
  <2>5. c <= g /\ c \in Nat /\ g \in Nat
    BY <2>1, <2>3, <2>4, EnvironmentsAreNumbered
  <2> QED BY <2>2, <2>4, <2>5
<1> QED
  BY <1>5, <1>6

LEMMA CloseRefines ==
    ASSUME TypeOK, Inv, Leaves
    PROVE  Scopes!Close
<1> DEFINE c == environment_
           found == {u \in Scopes!WaitingIn(c) : Uses[u].key \in bound[c]}
<1>1. /\ c \in Environment /\ ChainsNest
      /\ ResolveForwardReferences(c)
      /\ UNCHANGED <<enclosing, bound, visits>>
      /\ forward_referenced \in [Environment -> SUBSET DOMAIN visits]
  BY DEF Leaves, Inv, TypeOK
<1>2. found = Found(c) /\ Scopes!WaitingIn(c) \ found = NotFound(c)
  BY <1>1, ListsAreWaiting DEF Found, NotFound, Uses
<1>3. registered' = registered \cup {<<u, c>> : u \in found}
  BY <1>1, <1>2 DEF ResolveForwardReferences
<1>4. undefined' = IF c = 1 THEN undefined \cup (Scopes!WaitingIn(c) \ found)
                            ELSE undefined
  <2>1. CASE c = 1
    BY <1>1, <1>2, <2>1, OuterOf DEF ResolveForwardReferences
  <2>2. CASE c # 1
    BY <1>1, <1>2, <2>2, GlobalIsOutermost DEF ResolveForwardReferences
  <2> QED BY <2>1, <2>2
<1>5. OpenScopes' = OpenScopes \ {c}
  <2>1. OpenScopes = enclosing[c] /\ enclosing[c] \subseteq Environment
    BY <1>1, OpenScopesOf, ChainsAreEnvironments
  <2>2. OpenScopes' = {e \in Environment : environment_' # 0 /\ e \in enclosing[environment_']}
    BY <1>1 DEF OpenScopes, IsOpen, Environment
  <2>3. CASE environment_' = 0 /\ enclosing[c] \ {c} = {}
    BY <2>1, <2>2, <2>3
  <2>4. ASSUME NEW o \in Innermost(enclosing[c] \ {c}), environment_' = o
        PROVE  OpenScopes' = OpenScopes \ {c}
    <3>1. enclosing[o] = enclosing[c] \ {c} /\ o \in Environment
      BY <1>1, <2>4, OuterOf
    <3>2. o # 0
      BY <3>1, EnvironmentsAreNumbered
    <3> QED BY <2>1, <2>2, <2>4, <3>1, <3>2
  <2> QED BY <1>1, <2>3, <2>4 DEF ResolveForwardReferences
<1>6. Uses' = Uses
  BY <1>1 DEF Uses
<1>7. c \in Scopes!Innermost(OpenScopes)
  BY <1>1, CurrentScope
<1> QED
  BY <1>1, <1>3, <1>4, <1>5, <1>6, <1>7 DEF Scopes!Close, OpenScopes, Uses

(* The lists of forward references implement lexical scoping: every use is  *)
(* settled by the innermost scope that binds its key at the moment          *)
(* LexicalScopes names, and only what no scope settles becomes undefined.   *)
THEOREM ScopesImplemented == Spec => ImplementsScopes
<1>1. Init => Scopes!Init
  BY InitScopes
<1>2. TypeOK /\ Inv /\ [Next]_vars => [Scopes!Next]_(Scopes!vars)
  <2> SUFFICES ASSUME TypeOK, Inv, [Next]_vars
               PROVE  Scopes!Next \/ UNCHANGED Scopes!vars
    OBVIOUS
  <2>1. ChainsNest /\ GlobalIsLast
    BY DEF Inv
  <2>2. CASE Rests
    BY <2>2 DEF Rests, references, Scopes!vars, IsOpen, Environment
  <2> QED
    BY <2>1, <2>2, StepKinds, OpenRefines, BindRefines, UseRefines, CloseRefines
    DEF Scopes!Next
<1> QED
  BY <1>1, <1>2, TypeCorrect, InvCorrect, PTL DEF Spec, ImplementsScopes, Scopes!Spec

-----------------------------------------------------------------------------
(***************************************************************************)
(* Proofs about the variables of the global environment and the properties *)
(* of the global object, for every set of names and every walk.            *)
(*                                                                         *)
(* A variable is bound in the current environment, and shared with the     *)
(* global object when that is the global one.  Every handler that binds    *)
(* a variable checks this, except the one that binds the names of @param   *)
(* tags: those stay apart because a document is visited in an environment  *)
(* of its own.  That the current environment is never the global one under *)
(* such a handler is a fact about the whole stack of handlers: leaving     *)
(* them one by one must lead out to the global environment exactly when no *)
(* handler that opened an environment is left.  FramesUnwind states it.    *)
(***************************************************************************)
(* The handlers that construct an environment and destroy it at their end. *)
Opening == {"environment", "tags"}

(* home is the environment each unfinished handler runs in, the innermost  *)
(* first: that of the next one is the outer environment if the handler has *)
(* constructed its own, and the same environment if it has not.            *)
Unwinds(home) ==
    /\ home[1] = environment_
    /\ home[Len(frames) + 1] = 1
    /\ \A i \in 1 .. Len(frames) :
          IF frames[i].work \in Opening
          THEN /\ home[i] # 1
               /\ home[i + 1] \in Innermost(enclosing[home[i]] \ {home[i]})
          ELSE home[i + 1] = home[i]

FramesUnwind ==
    environment_ # 0 =>
        \E home \in [1 .. Len(frames) + 1 -> Environment] : Unwinds(home)

(* The property of the global object keeps the owner of its first value:   *)
(* it is shared with a variable only if the global environment has one,    *)
(* and only a variable of a property that was a member is turned away.     *)
GlobalVariables == {n \in Name : Variable(n) \in bound[1]}

PropertiesHaveOwners ==
    /\ \A n \in Name : global_properties[n] = "variable" => n \in GlobalVariables
    /\ \A n \in rejected : global_properties[n] = "member" /\ n \in GlobalVariables

GlobalsInv == FramesUnwind /\ PropertiesHaveOwners /\ GlobalVariablesAreProperties

-----------------------------------------------------------------------------
(* The stack of unfinished handlers. *)

LEMMA FramesAreNumbered ==
    ASSUME TypeOK
    PROVE  /\ Len(frames) \in Nat
           /\ frames # <<>> => Len(frames) >= 1 /\ Head(frames) = frames[1]
           /\ frames = <<>> => Len(frames) = 0
<1>1. frames \in Seq(Frame)
  BY DEF TypeOK
<1> QED
  BY <1>1

LEMMA PushedFrames ==
    ASSUME TypeOK, NEW work, NEW name, NEW class, NEW d, Push(work, name, class, d)
    PROVE  /\ Len(frames') = Len(frames) + 1
           /\ frames'[1].work = work
           /\ \A i \in 1 .. Len(frames) : frames'[i + 1] = frames[i]
<1> DEFINE frame == [work |-> work, name |-> name, class |-> class, document |-> d]
           S == Frame \cup {frame}
<1>1. frames \in Seq(S)
  <2>1. frames \in Seq(Frame)
    BY DEF TypeOK
  <2> HIDE DEF frame
  <2> QED BY <2>1
<1>2. <<frame>> \in Seq(S) /\ Len(<<frame>>) = 1 /\ <<frame>>[1] = frame
  <2> HIDE DEF frame
  <2> QED OBVIOUS
<1>3. frames' = <<frame>> \o frames
  BY DEF Push
<1>4. frame.work = work
  OBVIOUS
<1> HIDE DEF S, frame
<1>5. /\ Len(frames') = Len(frames) + 1
      /\ frames'[1] = frame
      /\ \A i \in 1 .. Len(frames) : frames'[i + 1] = frames[i]
  BY <1>1, <1>2, <1>3
<1> QED
  BY <1>4, <1>5

LEMMA PoppedFrames ==
    ASSUME TypeOK, NEW work, Pop(work)
    PROVE  /\ Len(frames) >= 1 /\ Len(frames') = Len(frames) - 1
           /\ frames[1].work \in work
           /\ \A i \in 1 .. Len(frames') : frames'[i] = frames[i + 1]
<1>1. frames \in Seq(Frame) /\ frames # <<>>
  BY DEF TypeOK, Pop
<1>2. frames' = Tail(frames) /\ Head(frames).work \in work
  BY DEF Pop
<1> QED
  BY <1>1, <1>2

(* The innermost handler runs in the current environment. *)
LEMMA InnermostUnwinds ==
    ASSUME NEW home, Unwinds(home), Len(frames) \in Nat, Len(frames) >= 1
    PROVE  /\ home[1] = environment_
           /\ frames[1].work \in Opening =>
                 /\ environment_ # 1
                 /\ home[2] \in Innermost(enclosing[environment_] \ {environment_})
           /\ frames[1].work \notin Opening => home[2] = environment_
<1>1. 1 \in 1 .. Len(frames) /\ 1 + 1 = 2
  OBVIOUS
<1>2. home[1] = environment_
  BY DEF Unwinds
<1>3. IF frames[1].work \in Opening
      THEN /\ home[1] # 1
           /\ home[1 + 1] \in Innermost(enclosing[home[1]] \ {home[1]})
      ELSE home[1 + 1] = home[1]
  BY <1>1 DEF Unwinds
<1> QED
  BY <1>1, <1>2, <1>3

(* A handler is entered, in an environment of its own or the current one. *)
LEMMA PushUnwinds ==
    ASSUME TypeOK, FramesUnwind, environment_ \in Environment,
           NEW work, NEW name, NEW class, NEW d, Push(work, name, class, d),
           Environment \subseteq Environment', environment_' \in Environment',
           \A e \in Environment : enclosing'[e] = enclosing[e],
           IF work \in Opening
           THEN /\ environment_' # 1
                /\ environment_ \in
                      Innermost(enclosing'[environment_'] \ {environment_'})
           ELSE environment_' = environment_
    PROVE  FramesUnwind'
<1> DEFINE n == Len(frames)
<1>0. PICK c : c = environment_'
  OBVIOUS
<1>1. /\ n \in Nat /\ Len(frames') = n + 1
      /\ frames'[1].work = work
      /\ \A i \in 1 .. n : frames'[i + 1] = frames[i]
  BY FramesAreNumbered, PushedFrames
<1>2. environment_ # 0
  BY EnvironmentsAreNumbered
<1>3. PICK home \in [1 .. n + 1 -> Environment] : Unwinds(home)
  BY <1>2 DEF FramesUnwind
<1>4. /\ home[1] = environment_
      /\ home[n + 1] = 1
      /\ \A i \in 1 .. n :
            IF frames[i].work \in Opening
            THEN /\ home[i] # 1
                 /\ home[i + 1] \in Innermost(enclosing[home[i]] \ {home[i]})
            ELSE home[i + 1] = home[i]
  BY <1>3 DEF Unwinds
<1>d. PICK further : further = [i \in 1 .. n + 2 |-> IF i = 1 THEN c ELSE home[i - 1]]
  OBVIOUS
<1>5. further \in [1 .. n + 2 -> Environment']
  BY <1>0, <1>1, <1>d
<1>6. further[1] = c /\ \A i \in 1 .. n + 1 : further[i + 1] = home[i]
  BY <1>1, <1>d
<1>7. ASSUME NEW i \in 1 .. n + 1
      PROVE  IF frames'[i].work \in Opening
             THEN /\ further[i] # 1
                  /\ further[i + 1] \in
                        Innermost(enclosing'[further[i]] \ {further[i]})
             ELSE further[i + 1] = further[i]
  <2>1. CASE i = 1
    <3>1. further[i] = c /\ further[i + 1] = environment_
      BY <1>1, <1>4, <1>6, <2>1
    <3> QED BY <1>0, <1>1, <2>1, <3>1
  <2>2. CASE i # 1
    <3>1. PICK j \in 1 .. n : i = j + 1
      <4>1. i - 1 \in 1 .. n /\ i = (i - 1) + 1
        BY <1>1, <2>2
      <4> QED BY <4>1
    <3>2. /\ frames'[i] = frames[j]
          /\ further[i] = home[j] /\ further[i + 1] = home[j + 1]
      BY <1>1, <1>6, <3>1
    <3>3. home[j] \in Environment
      BY <1>1
    <3> QED BY <1>4, <3>2, <3>3
  <2> QED BY <2>1, <2>2
<1>8. Unwinds(further)'
  <2>1. further[1] = environment_' /\ further[Len(frames') + 1] = 1
    BY <1>0, <1>1, <1>4, <1>6
  <2>2. 1 .. Len(frames') = 1 .. n + 1
    BY <1>1
  <2> HIDE DEF n
  <2> QED BY <1>7, <2>1, <2>2 DEF Unwinds, Innermost
<1>9. further \in [1 .. Len(frames') + 1 -> Environment']
  <2>1. Len(frames') + 1 = n + 2
    BY <1>1
  <2> QED BY <1>5, <2>1
<1> QED
  BY <1>8, <1>9 DEF FramesUnwind

(* A handler ends; with its own environment, the outer one is current. *)
LEMMA PopUnwinds ==
    ASSUME TypeOK, ChainsNest, FramesUnwind, environment_ \in Environment,
           NEW work, Pop(work), UNCHANGED enclosing,
           IF work \subseteq Opening
           THEN environment_' \in Innermost(enclosing[environment_] \ {environment_})
           ELSE work \cap Opening = {} /\ UNCHANGED environment_
    PROVE  FramesUnwind'
<1> DEFINE n == Len(frames)
<1>1. /\ n \in Nat /\ n >= 1 /\ Len(frames') = n - 1
      /\ frames[1].work \in work
      /\ \A i \in 1 .. n - 1 : frames'[i] = frames[i + 1]
  BY FramesAreNumbered, PoppedFrames
<1>2. environment_ # 0
  BY EnvironmentsAreNumbered
<1>3. PICK home \in [1 .. n + 1 -> Environment] : Unwinds(home)
  BY <1>2 DEF FramesUnwind
<1>4. /\ home[1] = environment_
      /\ home[n + 1] = 1
      /\ \A i \in 1 .. n :
            IF frames[i].work \in Opening
            THEN /\ home[i] # 1
                 /\ home[i + 1] \in Innermost(enclosing[home[i]] \ {home[i]})
            ELSE home[i + 1] = home[i]
  BY <1>3 DEF Unwinds
<1>d. PICK rest : rest = [i \in 1 .. n |-> home[i + 1]]
  OBVIOUS
<1>5. /\ rest \in [1 .. n -> Environment]
      /\ \A i \in 1 .. n : rest[i] = home[i + 1]
  BY <1>1, <1>d
<1>6. home[2] = environment_'
  <2>1. CASE work \subseteq Opening
    <3>1. home[2] \in Innermost(enclosing[environment_] \ {environment_})
      BY <1>1, <1>3, <2>1, InnermostUnwinds
    <3>2. home[2] \in Nat /\ environment_' \in Nat
      BY <3>1, <2>1, OuterOf, EnvironmentsAreNumbered
    <3> QED BY <3>1, <3>2, <2>1 DEF Innermost
  <2>2. CASE ~ (work \subseteq Opening)
    BY <1>1, <1>3, <2>2, InnermostUnwinds
  <2> QED BY <2>1, <2>2
<1>7. ASSUME NEW i \in 1 .. n - 1
      PROVE  IF frames'[i].work \in Opening
             THEN /\ rest[i] # 1
                  /\ rest[i + 1] \in Innermost(enclosing[rest[i]] \ {rest[i]})
             ELSE rest[i + 1] = rest[i]
  <2>1. PICK j \in 1 .. n : j = i + 1
    BY <1>1
  <2>2. frames'[i] = frames[j] /\ rest[i] = home[j] /\ rest[i + 1] = home[j + 1]
    BY <1>1, <1>5, <2>1
  <2> QED BY <1>4, <2>2
<1>8. rest[1] = environment_' /\ rest[n] = 1
  BY <1>1, <1>4, <1>5, <1>6
<1>9. Unwinds(rest)'
  <2>1. rest[Len(frames') + 1] = 1
    BY <1>1, <1>8
  <2> HIDE DEF n
  <2> QED BY <1>1, <1>7, <1>8, <2>1 DEF Unwinds, Innermost
<1>10. rest \in [1 .. Len(frames') + 1 -> Environment']
  <2>1. Len(frames') + 1 = n /\ Environment' = Environment
    BY <1>1 DEF Environment
  <2> QED BY <1>5, <2>1
<1> QED
  BY <1>9, <1>10 DEF FramesUnwind

(* What a step leaves of the stack does not change how it unwinds. *)
LEMMA RestUnwinds ==
    ASSUME FramesUnwind, UNCHANGED <<environment_, enclosing, frames>>
    PROVE  FramesUnwind'
BY DEF FramesUnwind, Unwinds, Innermost, Environment

(* The names of @param tags are never bound in the global environment. *)
LEMMA TagsAreInner ==
    ASSUME TypeOK, FramesUnwind, environment_ \in Environment, Within({"tags"})
    PROVE  environment_ # 1
<1>1. Len(frames) >= 1 /\ Len(frames) \in Nat /\ frames[1].work = "tags"
  BY FramesAreNumbered DEF Within
<1>2. environment_ # 0
  BY EnvironmentsAreNumbered
<1>3. PICK home \in [1 .. Len(frames) + 1 -> Environment] : Unwinds(home)
  BY <1>2 DEF FramesUnwind
<1> QED
  BY <1>1, <1>3, InnermostUnwinds DEF Opening

-----------------------------------------------------------------------------
(* The variables of the global environment. *)

LEMMA KeysDiffer ==
    /\ \A m, n : Variable(m) = Variable(n) => m = n
    /\ \A m, n : Variable(m) # Type(n)
BY DEF Variable, Type

NamesIn(keys) == {n \in Name : Variable(n) \in keys}

(* The step binds the variables names, in the global environment if that is *)
(* the current one.                                                         *)
Declares(names) ==
    GlobalVariables' = IF environment_ = 1 THEN GlobalVariables \cup names
                                           ELSE GlobalVariables

(* As far as the global object is concerned there are three kinds of steps: *)
(* variables are declared and exposed, a member is added, nothing happens.  *)
Exposes == \E names \in SUBSET Name : Declares(names) /\ ExposeGlobal(names)

AddsMember ==
    /\ GlobalVariables' = GlobalVariables
    /\ \E n \in Name :
          /\ global_properties[n] = "none"
          /\ global_properties' = [global_properties EXCEPT ![n] = "member"]
    /\ UNCHANGED rejected

KeepsGlobals ==
    /\ GlobalVariables' = GlobalVariables
    /\ UNCHANGED <<global_properties, rejected>>

LEMMA BoundDeclares ==
    ASSUME TypeOK, environment_ \in Environment,
           NEW keys \in SUBSET Key, bound' = Bound(keys)
    PROVE  Declares(NamesIn(keys))
<1>1. bound'[environment_] = bound[environment_] \cup keys
  BY BoundType
<1>2. environment_ # 1 => bound'[1] = bound[1]
  <2>1. 1 \in Environment
    BY EnvironmentsAreNumbered
  <2> QED BY <2>1, BoundType
<1> QED
  BY <1>1, <1>2 DEF Declares, GlobalVariables, NamesIn

LEMMA ConstructDeclares ==
    ASSUME TypeOK, environment_ \in Environment,
           NEW o \in SUBSET Key, NEW k \in SUBSET Key, NEW d, Construct(o, k, d)
    PROVE  Declares(NamesIn(o))
<1>1. PICK n \in Nat : n = Len(enclosing)
  BY EnvironmentsAreNumbered
<1>2. Environment = 1 .. n /\ 1 \in 1 .. n
  BY <1>1, EnvironmentsAreNumbered
<1>3. PICK b : b = Bound(o)
  OBVIOUS
<1>4. /\ b \in [1 .. n -> SUBSET Key]
      /\ b[environment_] = bound[environment_] \cup o
      /\ environment_ # 1 => b[1] = bound[1]
  BY <1>2, <1>3, BoundType
<1>5. bound' = Append(b, k)
  BY <1>3 DEF Construct
<1>6. PICK S : S = SUBSET Key
  OBVIOUS
<1>7. Append(b, k)[1] = b[1]
  BY <1>2, <1>4, <1>6, AppendToList
<1> QED
  BY <1>4, <1>5, <1>7 DEF Declares, GlobalVariables, NamesIn

(* The property editor keeps the owner of every property it has. *)
LEMMA ExposedGlobals ==
    ASSUME TypeOK, PropertiesHaveOwners, GlobalVariablesAreProperties, Exposes
    PROVE  PropertiesHaveOwners' /\ GlobalVariablesAreProperties'
<1>1. PICK names \in SUBSET Name : Declares(names) /\ ExposeGlobal(names)
  BY DEF Exposes
<1> DEFINE new == {n \in names : environment_ = 1 /\ n \notin GlobalVariables}
           free == {n \in new : global_properties[n] = "none"}
<1>2. GlobalVariables' = GlobalVariables \cup new
  BY <1>1 DEF Declares
<1>3. /\ \A n \in free : global_properties'[n] = "variable"
      /\ \A n \in Name \ free : global_properties'[n] = global_properties[n]
      /\ rejected' = rejected \cup (new \ free)
  BY <1>1 DEF ExposeGlobal, GlobalVariables
<1>4. /\ \A n \in Name : global_properties[n] \in {"none", "variable", "member"}
      /\ rejected \subseteq Name /\ free \subseteq new /\ new \subseteq Name
  BY DEF TypeOK
<1>5. \A n \in new : n \notin GlobalVariables /\ global_properties[n] # "variable"
  BY DEF PropertiesHaveOwners
<1>6. \A n \in GlobalVariables :
         /\ n \in Name
         /\ global_properties[n] = IF n \in rejected THEN "member" ELSE "variable"
  BY DEF GlobalVariables, GlobalVariablesAreProperties
<1>7. /\ \A n \in Name : global_properties[n] = "variable" => n \in GlobalVariables
      /\ \A n \in rejected : global_properties[n] = "member" /\ n \in GlobalVariables
  BY DEF PropertiesHaveOwners
<1>8. \A n \in new : n \in free \/ global_properties[n] = "member"
  BY <1>4, <1>5
<1> HIDE DEF new, free
<1>9. PropertiesHaveOwners'
  <2>1. \A n \in Name : global_properties'[n] = "variable" => n \in GlobalVariables'
    BY <1>2, <1>3, <1>4, <1>7
  <2>2. ASSUME NEW n \in rejected'
        PROVE  global_properties'[n] = "member" /\ n \in GlobalVariables'
    <3>1. n \notin free
      BY <1>3, <1>4, <1>5, <1>7, <2>2
    <3> QED BY <1>2, <1>3, <1>4, <1>7, <1>8, <2>2, <3>1
  <2> QED BY <2>1, <2>2 DEF PropertiesHaveOwners
<1>10. GlobalVariablesAreProperties'
  <2>1. SUFFICES ASSUME NEW n \in Name, n \in GlobalVariables'
                 PROVE  global_properties'[n] =
                            IF n \in rejected' THEN "member" ELSE "variable"
    BY DEF GlobalVariables, GlobalVariablesAreProperties
  <2>2. CASE n \in free
    BY <1>3, <1>4, <1>5, <1>7, <2>2
  <2>3. CASE n \in new \ free
    BY <1>3, <1>4, <1>8, <2>3
  <2>4. CASE n \notin new
    BY <1>2, <1>3, <1>4, <1>6, <2>1, <2>4
  <2> QED BY <2>2, <2>3, <2>4
<1> QED
  BY <1>9, <1>10

LEMMA MemberedGlobals ==
    ASSUME TypeOK, PropertiesHaveOwners, GlobalVariablesAreProperties, AddsMember
    PROVE  PropertiesHaveOwners' /\ GlobalVariablesAreProperties'
<1>1. PICK m \in Name :
         /\ global_properties[m] = "none"
         /\ global_properties' = [global_properties EXCEPT ![m] = "member"]
  BY DEF AddsMember
<1>2. /\ \A n \in Name \ {m} : global_properties'[n] = global_properties[n]
      /\ global_properties'[m] = "member"
      /\ rejected' = rejected /\ rejected \subseteq Name
      /\ GlobalVariables' = GlobalVariables
  BY <1>1 DEF TypeOK, AddsMember
<1>3. m \notin GlobalVariables /\ m \notin rejected
  BY <1>1 DEF GlobalVariables, GlobalVariablesAreProperties, PropertiesHaveOwners
<1>4. PropertiesHaveOwners'
  BY <1>2, <1>3 DEF PropertiesHaveOwners
<1>5. GlobalVariablesAreProperties'
  <2>1. SUFFICES ASSUME NEW n \in Name, n \in GlobalVariables'
                 PROVE  global_properties'[n] =
                            IF n \in rejected' THEN "member" ELSE "variable"
    BY DEF GlobalVariables, GlobalVariablesAreProperties
  <2>2. n # m /\ Variable(n) \in bound[1]
    BY <1>2, <1>3, <2>1 DEF GlobalVariables
  <2> QED BY <1>2, <2>2 DEF GlobalVariablesAreProperties
<1> QED
  BY <1>4, <1>5

LEMMA KeptGlobals ==
    ASSUME PropertiesHaveOwners, GlobalVariablesAreProperties, KeepsGlobals
    PROVE  PropertiesHaveOwners' /\ GlobalVariablesAreProperties'
<1>1. \A n \in Name : Variable(n) \in bound'[1] <=> Variable(n) \in bound[1]
  BY DEF KeepsGlobals, GlobalVariables
<1> QED
  BY <1>1 DEF KeepsGlobals, PropertiesHaveOwners, GlobalVariablesAreProperties

-----------------------------------------------------------------------------
(* Every action unwinds, and is of one of the three kinds. *)

GlobalsStep == Exposes \/ AddsMember \/ KeepsGlobals

LEMMA NoVariables ==
    /\ NamesIn({}) = {}
    /\ \A n : NamesIn({Type(n)}) = {}
    /\ \A n \in Name : NamesIn({Variable(n)}) = {n}
BY KeysDiffer DEF NamesIn

LEMMA NothingDeclared ==
    ASSUME Declares({}), UNCHANGED <<global_properties, rejected>>
    PROVE  GlobalsStep
<1>1. GlobalVariables' = GlobalVariables
  BY DEF Declares
<1> QED
  BY <1>1 DEF GlobalsStep, KeepsGlobals

LEMMA VariablesStay ==
    ASSUME UNCHANGED <<bound, global_properties, rejected>>
    PROVE  GlobalsStep
BY DEF GlobalsStep, KeepsGlobals, GlobalVariables

(* A handler that constructs an environment and is entered in it. *)
LEMMA ConstructUnwinds ==
    ASSUME TypeOK, ChainsNest, FramesUnwind, Opens, NEW work \in Opening,
           Push(work, NoName, FALSE, 0)
    PROVE  FramesUnwind'
<1> DEFINE e == Len(enclosing) + 1
<1>1. /\ environment_ \in Environment /\ environment_' = e
      /\ Environment' = Environment \cup {e}
      /\ e \notin Environment
      /\ \A f \in Environment : enclosing'[f] = enclosing[f]
      /\ enclosing'[e] = enclosing[environment_] \cup {e}
  BY OpenedChains DEF Opens
<1>2. e # 1
  BY <1>1, EnvironmentsAreNumbered
<1>3. enclosing'[e] \ {e} = enclosing[environment_]
  BY <1>1, ChainsAreEnvironments
<1>4. environment_ \in Innermost(enclosing[environment_])
  <2>1. environment_ \in enclosing[environment_]
    BY <1>1, ChainsAreEnvironments
  <2>2. \A f \in enclosing[environment_] : f <= environment_
    BY <1>1, ChainsAreBounded
  <2> QED BY <2>1, <2>2 DEF Innermost
<1> HIDE DEF e
<1> QED
  BY <1>1, <1>2, <1>3, <1>4, PushUnwinds

(* A handler that is entered, or ends, in the environment it was met in. *)
LEMMA PushInPlace ==
    ASSUME TypeOK, FramesUnwind, environment_ \in Environment,
           NEW work, work \notin Opening, NEW name, NEW class, NEW d,
           Push(work, name, class, d), UNCHANGED <<environment_, enclosing>>
    PROVE  FramesUnwind'
<1>1. Environment' = Environment
  BY DEF Environment
<1> QED
  BY <1>1, PushUnwinds

LEMMA EnterGlobals ==
    ASSUME TypeOK, ChainsNest, GlobalIsLast, FramesUnwind,
           EnterEnvironment \/ EnterMember \/ EnterTags
    PROVE  FramesUnwind' /\ GlobalsStep
<1>1. environment_ \in Environment
  BY WalkingInEnvironment DEF EnterEnvironment, EnterMember, EnterTags
<1>2. Opens
  BY EnterStep
<1>3. PICK work \in Opening : Push(work, NoName, FALSE, 0)
  BY DEF EnterEnvironment, EnterMember, EnterTags, Opening
<1>4. PICK k, d : k \in SUBSET Key /\ Construct({}, k, d)
  <2>1. CASE EnterEnvironment \/ EnterTags
    BY <2>1 DEF EnterEnvironment, EnterTags
  <2>2. CASE EnterMember
    <3>1. PICK c \in SUBSET {Type(n) : n \in Name},
               t \in SUBSET {Type(n) : n \in Name} : Construct({}, c \cup t, 0)
      BY <2>2 DEF EnterMember
    <3>2. c \cup t \in SUBSET Key
      BY KeysOfNames
    <3> QED BY <3>1, <3>2
  <2> QED BY <2>1, <2>2
<1>5. UNCHANGED <<global_properties, rejected>>
  BY DEF EnterEnvironment, EnterMember, EnterTags
<1>6. Declares({})
  <2>1. {} \in SUBSET Key
    OBVIOUS
  <2> QED BY <1>1, <1>4, <2>1, ConstructDeclares, NoVariables
<1> QED
  BY <1>2, <1>3, <1>5, <1>6, ConstructUnwinds, NothingDeclared

LEMMA VisitClassGlobals ==
    ASSUME TypeOK, ChainsNest, GlobalIsLast, FramesUnwind,
           VisitClass \/ VisitFunction
    PROVE  FramesUnwind' /\ GlobalsStep
<1>1. environment_ \in Environment
  BY WalkingInEnvironment DEF VisitClass, VisitFunction
<1>2. Opens
  BY ClassStep, FunctionStep
<1>3. PICK name, types, k, d :
        /\ name \in Name \cup {NoName}
        /\ types \in SUBSET {Type(n) : n \in Name}
        /\ k \in SUBSET Key
        /\ Construct({Variable(n) : n \in Given(name)} \cup types, k, d)
        /\ ExposeGlobal(Given(name))
        /\ Push("environment", NoName, FALSE, 0)
  <2>1. CASE VisitClass
    <3>1. PICK name \in Name \cup {NoName}, alias \in Name \cup {NoName},
               parameters \in SUBSET Name :
            LET aliasKeys == {Type(n) : n \in Alias(alias)}
                first == {n \in Given(name) : AssignmentsOf(n) = 0}
                nameTypes == {Type(n) : n \in first}
                variables == {Variable(n) : n \in Given(name)}
            IN  /\ Construct(variables \cup aliasKeys \cup nameTypes,
                             {Type(n) : n \in parameters}, SharedDocument(alias))
                /\ ExposeGlobal(Given(name))
                /\ Push("environment", NoName, FALSE, 0)
      BY <2>1 DEF VisitClass
    <3> DEFINE first == {n \in Given(name) : AssignmentsOf(n) = 0}
               types == {Type(n) : n \in Alias(alias)} \cup {Type(n) : n \in first}
               o == {Variable(n) : n \in Given(name)}
               k == {Type(n) : n \in parameters}
    <3>2. types \in SUBSET {Type(n) : n \in Name}
      BY DEF Given, Alias
    <3>3. k \in SUBSET Key
      BY KeysOfNames
    <3>4. /\ Construct(o \cup types, k, SharedDocument(alias))
          /\ ExposeGlobal(Given(name))
          /\ Push("environment", NoName, FALSE, 0)
      <4>1. o \cup types = o \cup {Type(n) : n \in Alias(alias)}
                             \cup {Type(n) : n \in first}
        OBVIOUS
      <4> QED BY <3>1, <4>1
    <3> HIDE DEF types, k
    <3> QED BY <3>2, <3>3, <3>4
  <2>2. CASE VisitFunction
    <3>1. PICK name \in Name \cup {NoName}, alias \in Name \cup {NoName},
               parameters \in SUBSET Name, is_class \in BOOLEAN :
            LET aliasKeys == {Type(n) : n \in Alias(alias)}
                nameTypes == {Type(n) : n \in Given(name)}
                types == IF is_class THEN aliasKeys \cup nameTypes ELSE {}
                variables == {Variable(n) : n \in Given(name)}
            IN  /\ Construct(variables \cup types,
                             {Type(n) : n \in parameters}, SharedDocument(alias))
                /\ ExposeGlobal(Given(name))
                /\ Push("environment", NoName, FALSE, 0)
      BY <2>2 DEF VisitFunction
    <3> DEFINE types == IF is_class
                        THEN {Type(n) : n \in Alias(alias)} \cup
                             {Type(n) : n \in Given(name)}
                        ELSE {}
               k == {Type(n) : n \in parameters}
    <3>2. types \in SUBSET {Type(n) : n \in Name}
      BY DEF Given, Alias
    <3>3. k \in SUBSET Key
      BY KeysOfNames
    <3>4. /\ Construct({Variable(n) : n \in Given(name)} \cup types, k,
                       SharedDocument(alias))
          /\ ExposeGlobal(Given(name))
          /\ Push("environment", NoName, FALSE, 0)
      BY <3>1
    <3> HIDE DEF types, k
    <3> QED BY <3>2, <3>3, <3>4
  <2> QED BY <2>1, <2>2
<1>4. FramesUnwind'
  BY <1>2, <1>3, ConstructUnwinds DEF Opening
<1>5. Given(name) \in SUBSET Name
  BY <1>3 DEF Given
<1>6. NamesIn({Variable(n) : n \in Given(name)} \cup types) = Given(name)
  BY <1>3, <1>5, KeysDiffer DEF NamesIn
<1>7. {Variable(n) : n \in Given(name)} \cup types \in SUBSET Key
  BY <1>3, <1>5, KeysOfNames
<1>8. Declares(Given(name))
  BY <1>1, <1>3, <1>6, <1>7, ConstructDeclares
<1> QED
  BY <1>3, <1>4, <1>5, <1>8 DEF GlobalsStep, Exposes

LEMMA LeaveGlobals ==
    ASSUME TypeOK, ChainsNest, FramesUnwind, LeaveEnvironment
    PROVE  FramesUnwind' /\ GlobalsStep
<1>1. /\ environment_ \in Environment
      /\ ResolveForwardReferences(environment_)
      /\ UNCHANGED <<enclosing, bound, global_properties, rejected>>
  BY DEF LeaveEnvironment, TypeOK, declarations
<1>2. \/ environment_' = 0
      \/ environment_' \in Innermost(enclosing[environment_] \ {environment_})
  BY <1>1 DEF ResolveForwardReferences
<1>3. CASE environment_' = 0
  BY <1>1, <1>3, VariablesStay DEF FramesUnwind
<1>4. CASE environment_' \in Innermost(enclosing[environment_] \ {environment_})
  <2>1. environment_ # 1
    BY <1>1, <1>4, OuterOf
  <2>2. Pop({"environment", "tags"})
    BY <2>1 DEF LeaveEnvironment
  <2>3. {"environment", "tags"} \subseteq Opening
    BY DEF Opening
  <2> QED BY <1>1, <1>4, <2>2, <2>3, PopUnwinds, VariablesStay
<1> QED
  BY <1>2, <1>3, <1>4

LEMMA BindTagGlobals ==
    ASSUME TypeOK, ChainsNest, GlobalIsLast, FramesUnwind,
           BindTagParameter \/ BindTemplateTag
    PROVE  FramesUnwind' /\ GlobalsStep
<1>1. /\ environment_ \in Environment
      /\ UNCHANGED <<environment_, enclosing, frames, global_properties, rejected>>
  BY WalkingInEnvironment DEF BindTagParameter, BindTemplateTag, Within
<1>2. FramesUnwind'
  BY <1>1, RestUnwinds
<1>3. CASE BindTagParameter
  <2>1. PICK n \in Name : Within({"tags"}) /\ bound' = Bound({Variable(n)})
    BY <1>3 DEF BindTagParameter
  <2>2. environment_ # 1
    BY <1>1, <2>1, TagsAreInner
  <2>3. Declares({n})
    <3>1. {Variable(n)} \in SUBSET Key
      BY KeysOfNames
    <3> QED BY <1>1, <2>1, <3>1, BoundDeclares, NoVariables
  <2>4. Declares({})
    BY <2>2, <2>3 DEF Declares
  <2> QED BY <1>1, <1>2, <2>4, NothingDeclared
<1>4. CASE BindTemplateTag
  <2>1. PICK n \in Name : bound' = Bound({Type(n)})
    BY <1>4 DEF BindTemplateTag
  <2>2. {Type(n)} \in SUBSET Key
    BY KeysOfNames
  <2>3. Declares({})
    BY <1>1, <2>1, <2>2, BoundDeclares, NoVariables
  <2> QED BY <1>1, <1>2, <2>3, NothingDeclared
<1> QED
  BY <1>3, <1>4

LEMMA BindingGlobals ==
    ASSUME TypeOK, ChainsNest, GlobalIsLast, FramesUnwind,
           FinishBinding \/ VisitAnnotatedBinding
    PROVE  FramesUnwind' /\ GlobalsStep
<1>1. /\ environment_ \in Environment
      /\ UNCHANGED <<environment_, enclosing>>
  BY WalkingInEnvironment
  DEF FinishBinding, VisitAnnotatedBinding, Within, Pop
<1>2. PICK n \in Name : bound' = Bound({Variable(n)}) /\ ExposeGlobal({n})
  <2>1. CASE FinishBinding
    <3>1. /\ Pop({"binding"})
          /\ bound' = Bound({Variable(Head(frames).name)})
          /\ ExposeGlobal({Head(frames).name})
      BY <2>1 DEF FinishBinding
    <3>2. Head(frames).name \in Name
      BY <3>1, PopType, FramesAreNamed
    <3> QED BY <3>1, <3>2
  <2>2. CASE VisitAnnotatedBinding
    BY <2>2 DEF VisitAnnotatedBinding
  <2> QED BY <2>1, <2>2
<1>3. FramesUnwind'
  <2>1. CASE Pop({"binding"}) \/ Pop({"declaration"})
    <3>1. PICK w \in {"binding", "declaration"} : Pop({w})
      BY <2>1
    <3>2. ~ ({w} \subseteq Opening) /\ {w} \cap Opening = {}
      BY <3>1 DEF Opening
    <3> QED BY <1>1, <3>1, <3>2, PopUnwinds
  <2>2. ASSUME NEW m \in Name, NEW class \in BOOLEAN,
               Push("annotated", m, class, Head(frames).document)
        PROVE  FramesUnwind'
    <3>1. "annotated" \notin Opening
      BY DEF Opening
    <3> QED BY <1>1, <2>2, <3>1, PushInPlace
  <2> QED BY <2>1, <2>2 DEF FinishBinding, VisitAnnotatedBinding
<1>4. {Variable(n)} \in SUBSET Key /\ {n} \in SUBSET Name
  BY KeysOfNames
<1>5. Declares({n})
  BY <1>1, <1>2, <1>4, BoundDeclares, NoVariables
<1> QED
  BY <1>2, <1>3, <1>4, <1>5 DEF GlobalsStep, Exposes

LEMMA FinishAnnotatedGlobals ==
    ASSUME TypeOK, ChainsNest, GlobalIsLast, FramesUnwind, FinishAnnotatedBinding
    PROVE  FramesUnwind' /\ GlobalsStep
<1> DEFINE n == Head(frames).name
           types == IF Head(frames).class THEN {Type(n)} ELSE {}
<1>1. /\ Pop({"annotated"})
      /\ bound' = Bound(types)
      /\ UNCHANGED <<environment_, enclosing, global_properties, rejected>>
  BY DEF FinishAnnotatedBinding
<1>2. environment_ \in Environment
  BY <1>1, WalkingInEnvironment DEF Pop
<1>3. FramesUnwind'
  <2>1. ~ ({"annotated"} \subseteq Opening) /\ {"annotated"} \cap Opening = {}
    BY DEF Opening
  <2> QED BY <1>1, <1>2, <2>1, PopUnwinds
<1>4. n \in Name
  BY <1>1, PopType, FramesAreNamed
<1>5. types \in SUBSET Key /\ NamesIn(types) = {}
  BY <1>4, KeysOfNames, NoVariables
<1> HIDE DEF types
<1>6. Declares({})
  BY <1>1, <1>2, <1>5, BoundDeclares
<1> QED
  BY <1>1, <1>3, <1>6, NothingDeclared

LEMMA FrameGlobals ==
    ASSUME TypeOK, ChainsNest, GlobalIsLast, FramesUnwind,
           VisitBinding \/ VisitAnnotatedDeclaration \/ FinishAnnotatedDeclaration
    PROVE  FramesUnwind' /\ GlobalsStep
<1>1. UNCHANGED <<environment_, enclosing, bound, global_properties, rejected>>
  BY DEF VisitBinding, VisitAnnotatedDeclaration, FinishAnnotatedDeclaration,
         declarations
<1>2. environment_ \in Environment
  BY WalkingInEnvironment
  DEF VisitBinding, VisitAnnotatedDeclaration, FinishAnnotatedDeclaration, Pop
<1>3. FramesUnwind'
  <2>1. CASE VisitBinding
    <3>1. "binding" \notin Opening /\ \E n \in Name : Push("binding", n, FALSE, 0)
      BY <2>1 DEF VisitBinding, Opening
    <3> QED BY <1>1, <1>2, <3>1, PushInPlace
  <2>2. CASE VisitAnnotatedDeclaration
    <3>1. /\ "declaration" \notin Opening
          /\ Push("declaration", NoName, FALSE, Len(enclosing) + 1)
      BY <2>2 DEF VisitAnnotatedDeclaration, Opening
    <3> QED BY <1>1, <1>2, <3>1, PushInPlace
  <2>3. CASE FinishAnnotatedDeclaration
    <3>1. Pop({"declaration"})
      BY <2>3 DEF FinishAnnotatedDeclaration
    <3>2. ~ ({"declaration"} \subseteq Opening) /\ {"declaration"} \cap Opening = {}
      BY DEF Opening
    <3> QED BY <1>1, <1>2, <3>1, <3>2, PopUnwinds
  <2> QED BY <2>1, <2>2, <2>3
<1> QED
  BY <1>1, <1>3, VariablesStay

LEMMA UseGlobals ==
    ASSUME FramesUnwind, VisitName \/ RevisitName \/ AssignToReference
    PROVE  FramesUnwind' /\ GlobalsStep
<1>1. UNCHANGED <<environment_, enclosing, frames, bound, global_properties, rejected>>
  BY DEF VisitName, RevisitName, AssignToReference, Look, declarations
<1> QED
  BY <1>1, RestUnwinds, VariablesStay

LEMMA VisitMemberGlobals ==
    ASSUME FramesUnwind, VisitGlobalMember
    PROVE  FramesUnwind' /\ GlobalsStep
<1>1. PICK n \in Name :
        /\ global_properties[n] = "none"
        /\ global_properties' = [global_properties EXCEPT ![n] = "member"]
        /\ UNCHANGED <<environment_, enclosing, frames, bound, rejected>>
  BY DEF VisitGlobalMember
<1>2. GlobalVariables' = GlobalVariables
  BY <1>1 DEF GlobalVariables
<1> QED
  BY <1>1, <1>2, RestUnwinds DEF GlobalsStep, AddsMember

LEMMA NextGlobals ==
    ASSUME TypeOK, Inv, FramesUnwind, [Next]_vars
    PROVE  FramesUnwind' /\ GlobalsStep
<1>1. ChainsNest /\ GlobalIsLast
  BY DEF Inv
<1>2. CASE EnterEnvironment \/ EnterMember \/ EnterTags
  BY <1>1, <1>2, EnterGlobals
<1>3. CASE VisitClass \/ VisitFunction
  BY <1>1, <1>3, VisitClassGlobals
<1>4. CASE LeaveEnvironment
  BY <1>1, <1>4, LeaveGlobals
<1>5. CASE BindTagParameter \/ BindTemplateTag
  BY <1>1, <1>5, BindTagGlobals
<1>6. CASE FinishBinding \/ VisitAnnotatedBinding
  BY <1>1, <1>6, BindingGlobals
<1>7. CASE FinishAnnotatedBinding
  BY <1>1, <1>7, FinishAnnotatedGlobals
<1>8. CASE VisitBinding \/ VisitAnnotatedDeclaration \/ FinishAnnotatedDeclaration
  BY <1>1, <1>8, FrameGlobals
<1>9. CASE VisitName \/ RevisitName \/ AssignToReference
  BY <1>9, UseGlobals
<1>10. CASE VisitGlobalMember
  BY <1>10, VisitMemberGlobals
<1>11. CASE UNCHANGED vars
  BY <1>11, RestUnwinds, VariablesStay DEF vars
<1> QED
  BY <1>2, <1>3, <1>4, <1>5, <1>6, <1>7, <1>8, <1>9, <1>10, <1>11 DEF Next

LEMMA InitGlobals ==
    ASSUME Init
    PROVE  GlobalsInv
<1>1. /\ environment_ = 1 /\ frames = <<>> /\ Len(frames) = 0
      /\ Environment = {1} /\ rejected = {}
  BY DEF Init, Environment
<1>2. FramesUnwind
  <2>1. PICK home : home = [i \in 1 .. 1 |-> 1]
    OBVIOUS
  <2>2. home \in [1 .. Len(frames) + 1 -> Environment] /\ Unwinds(home)
    BY <1>1, <2>1 DEF Unwinds
  <2> QED BY <2>2 DEF FramesUnwind
<1>3. \A n \in Name : Variable(n) \in bound[1] <=> n = GlobalName
  BY NameAssumption, KeysDiffer DEF Init
<1>4. \A n \in Name : global_properties[n] = IF n = GlobalName THEN "variable" ELSE "none"
  BY DEF Init
<1>5. PropertiesHaveOwners /\ GlobalVariablesAreProperties
  BY <1>1, <1>3, <1>4
  DEF PropertiesHaveOwners, GlobalVariables, GlobalVariablesAreProperties
<1> QED
  BY <1>2, <1>5 DEF GlobalsInv

-----------------------------------------------------------------------------
(* Whenever the walk has unfinished handlers, ending them one by one leads  *)
(* through the outer environments and, with the last, to the global one: no *)
(* LocalEnvironment is destroyed too early or too late.                     *)
THEOREM FramesCorrect == Spec => []FramesUnwind
<1>1. Init => FramesUnwind
  BY InitGlobals DEF GlobalsInv
<1>2. TypeOK /\ Inv /\ FramesUnwind /\ [Next]_vars => FramesUnwind'
  BY NextGlobals
<1> QED
  BY <1>1, <1>2, TypeCorrect, InvCorrect, PTL DEF Spec

(* A variable that BindVariable binds in the global environment is a        *)
(* property of the global object with the variable's data; only where       *)
(* global.n came first the property keeps its own, and then the editor has  *)
(* turned the variable away.                                                *)
THEOREM GlobalsCorrect == Spec => []GlobalVariablesAreProperties
<1>1. Init => GlobalsInv
  BY InitGlobals
<1>2. TypeOK /\ Inv /\ GlobalsInv /\ [Next]_vars => GlobalsInv'
  BY NextGlobals, ExposedGlobals, MemberedGlobals, KeptGlobals
  DEF GlobalsInv, GlobalsStep
<1>3. GlobalsInv => GlobalVariablesAreProperties
  BY DEF GlobalsInv
<1> QED
  BY <1>1, <1>2, <1>3, TypeCorrect, InvCorrect, PTL DEF Spec
=============================================================================
