---------------------------- MODULE ClassTreeProofs ----------------------------
(***************************************************************************)
(* Theorems about ClassTree, for every set of classes, every choice of     *)
(* heritage and any number of definitions.                                 *)
(***************************************************************************)
EXTENDS ClassTree, ClassListsProofs

(* The bases a definition waits for are classes of the program.            *)
LEMMA OriginsAreClasses ==
  ASSUME NEW s \in Seq(ClassValue)
  PROVE  OriginsOf(s) \subseteq Class
<1>1. \A c \in ClassValue : OriginOf(c) \in Class
  BY DEF ClassValue, OriginOf, ConstructedClass, Class
<1>2. Range(s) \subseteq ClassValue
  BY DEF Range
<1> QED BY <1>1, <1>2 DEF OriginsOf

(* FinalizeClass gives a list to its class and to constructed classes, and *)
(* to no other class of the program.                                       *)
LEMMA ListsFinalizingDomain ==
  ASSUME NEW lists, NEW bases_of, NEW c
  PROVE  /\ DOMAIN lists \cup {c} \subseteq DOMAIN ListsFinalizing(lists, bases_of, c)
         /\ \A k \in DOMAIN ListsFinalizing(lists, bases_of, c) :
              k \in DOMAIN lists \/ k = c \/ k \in ConstructedClass
<1> DEFINE classes == BreadthFirstClassList(bases_of, c)
           constructed == {k \in Range(classes) : k \notin Class}
           new == Constructions(lists, constructed \ DOMAIN lists)
<1>1. new \subseteq ConstructedClass
  BY DEF Constructions
<1>2. DOMAIN FinalizeMissing(lists, constructed) = DOMAIN lists \cup new
  BY DEF FinalizeMissing
<1>3. DOMAIN ListsFinalizing(lists, bases_of, c) = DOMAIN lists \cup new \cup {c}
  BY <1>2 DEF ListsFinalizing, SetClassList
<1> QED BY <1>1, <1>3

(* ProcessClassReference and Build give lists to constructed classes only. *)
LEMMA FinalizeConstructedClassDomain ==
  ASSUME NEW lists, NEW k \in ConstructedClass
  PROVE  /\ DOMAIN lists \subseteq DOMAIN FinalizeConstructedClass(lists, k)
         /\ \A c \in DOMAIN FinalizeConstructedClass(lists, k) :
              c \in DOMAIN lists \/ c \in ConstructedClass
<1> DEFINE named == {c \in Range(ConstructedClassList(lists, k)) : c \notin Class /\ c # k}
           new == Constructions(lists, named \ DOMAIN lists)
<1>1. new \subseteq ConstructedClass
  BY DEF Constructions
<1>2. DOMAIN FinalizeMissing(lists, named) = DOMAIN lists \cup new
  BY DEF FinalizeMissing
<1>3. DOMAIN FinalizeConstructedClass(lists, k) = DOMAIN lists \cup new \cup {k}
  BY <1>2 DEF FinalizeConstructedClass, SetClassList
<1> QED BY <1>1, <1>3

-----------------------------------------------------------------------------
(* What a step does to the set of finalized classes.                       *)

LEMMA FinalizeClassFinalizes ==
  ASSUME TypeOK, NEW c \in Class, NEW bases_of, FinalizeClass(c, bases_of)
  PROVE  /\ Finalized' = Finalized \cup {c}
         /\ DOMAIN class_list' \subseteq ClassValue
         /\ nodes' = nodes \ {c}
<1>1. class_list' = ListsFinalizing(class_list, bases_of, c) /\ nodes' = nodes \ {c}
  BY DEF FinalizeClass
<1>2. /\ DOMAIN class_list \cup {c} \subseteq DOMAIN class_list'
      /\ \A k \in DOMAIN class_list' :
           k \in DOMAIN class_list \/ k = c \/ k \in ConstructedClass
  BY <1>1, ListsFinalizingDomain
<1>3. \A d \in Class : d \notin ConstructedClass
  BY ClassAssumption
<1>4. Finalized' = Finalized \cup {c}
  BY <1>2, <1>3 DEF Finalized
<1>5. DOMAIN class_list' \subseteq ClassValue
  BY <1>2 DEF TypeOK, ClassValue
<1> QED BY <1>1, <1>4, <1>5

LEMMA FinalizeConstructedKeepsFinalized ==
  ASSUME TypeOK, NEW k \in ConstructedClass,
         class_list' = FinalizeConstructedClass(class_list, k)
  PROVE  /\ Finalized' = Finalized
         /\ DOMAIN class_list' \subseteq ClassValue
<1>1. /\ DOMAIN class_list \subseteq DOMAIN class_list'
      /\ \A c \in DOMAIN class_list' : c \in DOMAIN class_list \/ c \in ConstructedClass
  BY FinalizeConstructedClassDomain
<1>2. \A d \in Class : d \notin ConstructedClass
  BY ClassAssumption
<1>3. Finalized' = Finalized
  BY <1>1, <1>2 DEF Finalized
<1>4. DOMAIN class_list' \subseteq ClassValue
  BY <1>1 DEF TypeOK, ClassValue
<1> QED BY <1>3, <1>4

-----------------------------------------------------------------------------
FrameType == [clazz : Class, successors : SUBSET Class]

LEMMA FrameTyped ==
  ASSUME edges \subseteq Class \X Class, NEW c \in Class
  PROVE  Frame(c) \in FrameType
BY DEF Frame, FrameType, Successors

(* Returning from a call leaves the other calls as they were.              *)
LEMMA FrontProperties ==
  ASSUME NEW S, NEW s \in Seq(S), s # <<>>
  PROVE  /\ SubSeq(s, 1, Len(s) - 1) \in Seq(S)
         /\ Len(SubSeq(s, 1, Len(s) - 1)) = Len(s) - 1
         /\ \A i \in 1 .. Len(s) - 1 : SubSeq(s, 1, Len(s) - 1)[i] = s[i]
<1>1. Len(s) \in Nat \ {0} /\ Len(s) - 1 - 1 + 1 = Len(s) - 1
  OBVIOUS
<1>2. Len(s) - 1 \in Int /\ \A i \in 1 .. Len(s) - 1 : s[i] \in S
  BY <1>1
<1>3. /\ SubSeq(s, 1, Len(s) - 1) \in Seq(S)
      /\ Len(SubSeq(s, 1, Len(s) - 1))
           = IF 1 <= Len(s) - 1 THEN Len(s) - 1 - 1 + 1 ELSE 0
      /\ \A i \in 1 .. Len(s) - 1 - 1 + 1 : SubSeq(s, 1, Len(s) - 1)[i] = s[1 + i - 1]
  BY <1>2, SubSeqProperties
<1>4. \A i \in 1 .. Len(s) - 1 : SubSeq(s, 1, Len(s) - 1)[i] = s[i]
  BY <1>1
<1>5. Len(SubSeq(s, 1, Len(s) - 1)) = Len(s) - 1
  BY <1>1, <1>3
<1> QED BY <1>3, <1>4, <1>5

(* Every variable keeps its type.                                          *)
THEOREM TypeCorrect == Spec => []TypeOK
<1>1. Init => TypeOK
  BY DEF Init, TypeOK, Processed
<1>2. ASSUME TypeOK, [Next]_vars
      PROVE  TypeOK'
  <2> USE <1>2
  <2>1. ASSUME NEW c \in Class, NEW bs \in HeritageChoices,
               ProcessClassDefinition(c, bs)
        PROVE  TypeOK'
    <3> DEFINE heritage_ == [d \in Processed \cup {c} |->
                               IF d = c THEN bs ELSE heritage[d]]
               pending == OriginsOf(bs) \ Finalized
    <3>1. heritage' = heritage_ /\ Processed' = Processed \cup {c}
      BY <2>1 DEF ProcessClassDefinition, Processed
    <3>2. bs \in Seq(ClassValue) /\ pending \subseteq Class
      BY ChoicesAssumption, OriginsAreClasses
    <3>3. heritage' \in [Processed' -> Seq(ClassValue)] /\ Processed' \subseteq Class
      BY <3>1, <3>2 DEF TypeOK
    <3>4. CASE pending = {}
      <4>1. FinalizeClass(c, heritage_) /\ stack' = <<Frame(c)>> /\ edges' = edges
        BY <2>1, <3>4 DEF ProcessClassDefinition
      <4>2. Frame(c) \in FrameType
        BY FrameTyped DEF TypeOK
      <4>3. stack' \in Seq(FrameType)
        BY <4>1, <4>2
      <4>4. DOMAIN class_list' \subseteq ClassValue /\ nodes' \subseteq Class
        BY <4>1, FinalizeClassFinalizes DEF TypeOK
      <4> QED BY <2>1, <3>3, <4>1, <4>3, <4>4 DEF TypeOK, FrameType, ProcessClassDefinition
    <3>5. CASE pending # {}
      <4>1. /\ nodes' = nodes \cup pending \cup {c}
            /\ edges' = edges \cup (pending \X {c})
            /\ UNCHANGED <<class_list, stack, pending_constructed_classes, phase, errors>>
        BY <2>1, <3>5 DEF ProcessClassDefinition
      <4>2. nodes' \subseteq Class /\ edges' \subseteq Class \X Class
        BY <3>2, <4>1 DEF TypeOK
      <4> QED BY <3>3, <4>1, <4>2 DEF TypeOK
    <3> QED BY <3>4, <3>5
  <2>2. ASSUME NEW k \in ReferenceChoices, ProcessClassReference(k)
        PROVE  TypeOK'
    <3>1. k \in ConstructedClass
      BY ChoicesAssumption
    <3>2. DOMAIN class_list' \subseteq ClassValue
      BY <2>2, <3>1, FinalizeConstructedKeepsFinalized DEF ProcessClassReference, TypeOK
    <3> QED BY <2>2, <3>1, <3>2 DEF ProcessClassReference, TypeOK, Processed
  <2>3. CASE ReleaseSuccessor
    <3> DEFINE n == Len(stack)
               top == stack[n]
    <3>1. n \in 1 .. Len(stack) /\ stack \in Seq(FrameType) /\ top \in FrameType
      <4>1. stack # <<>> /\ stack \in Seq(FrameType)
        BY <2>3 DEF ReleaseSuccessor, TypeOK, FrameType
      <4> QED BY <4>1
    <3>2. PICK d \in top.successors :
            /\ edges' = EdgesWithout(top.clazz, d)
            /\ IF HasPredecessor(edges', d)
               THEN stack' = StackPast(d) /\ UNCHANGED <<class_list, nodes>>
               ELSE /\ FinalizeClass(d, heritage)
                    /\ stack' = Append(StackPast(d), Frame(d))
      BY <2>3 DEF ReleaseSuccessor
    <3>3. d \in Class
      BY <3>1, <3>2 DEF FrameType
    <3>4. StackPast(d) \in Seq(FrameType)
      BY <3>1 DEF StackPast, FrameType
    <3>5. stack' \in Seq(FrameType)
      BY <3>2, <3>3, <3>4, FrameTyped DEF TypeOK
    <3>6. DOMAIN class_list' \subseteq ClassValue /\ nodes' \subseteq Class
      BY <3>2, <3>3, FinalizeClassFinalizes DEF TypeOK
    <3>7. edges' \subseteq Class \X Class
      BY <3>2 DEF EdgesWithout, TypeOK
    <3> QED BY <2>3, <3>5, <3>6, <3>7 DEF ReleaseSuccessor, TypeOK, FrameType, Processed
  <2>4. CASE ReturnFromFinalizeClass
    <3>1. stack \in Seq(FrameType) /\ stack # <<>>
      BY <2>4 DEF ReturnFromFinalizeClass, TypeOK, FrameType
    <3>2. stack' \in Seq(FrameType)
      BY <2>4, <3>1, FrontProperties DEF ReturnFromFinalizeClass
    <3> QED BY <2>4, <3>2 DEF ReturnFromFinalizeClass, TypeOK, FrameType, Processed
  <2>5. CASE Build
    BY <2>5 DEF Build, TypeOK, Processed
  <2>6. CASE SweepNodes
    <3>1. CASE \E c \in nodes : FinalizeClass(c, heritage) /\ stack' = <<Frame(c)>>
      <4>1. PICK c \in nodes : FinalizeClass(c, heritage) /\ stack' = <<Frame(c)>>
        BY <3>1
      <4>2. Frame(c) \in FrameType
        BY FrameTyped DEF TypeOK
      <4>3. stack' \in Seq(FrameType)
        BY <4>1, <4>2
      <4>4. DOMAIN class_list' \subseteq ClassValue /\ nodes' \subseteq Class
        BY <4>1, FinalizeClassFinalizes DEF TypeOK
      <4> QED BY <2>6, <4>3, <4>4 DEF SweepNodes, TypeOK, FrameType, Processed
    <3>2. CASE UNCHANGED <<class_list, nodes, stack>>
      BY <2>6, <3>2 DEF SweepNodes, TypeOK, Processed
    <3> QED BY <2>6, <3>1, <3>2 DEF SweepNodes
  <2>7. CASE FinalizePendingConstructedClass
    <3>1. DOMAIN class_list' \subseteq ClassValue
      BY <2>7, FinalizeConstructedKeepsFinalized
      DEF FinalizePendingConstructedClass, TypeOK
    <3> QED BY <2>7, <3>1 DEF FinalizePendingConstructedClass, TypeOK, Processed
  <2>8. CASE ValidateClassTree
    <3>1. errors' \subseteq [code : {"UNDEFINED_CLASS", "CYCLE"}, classes : SUBSET Class]
      BY <2>8 DEF ValidateClassTree, TypeOK, UndefinedClassError, CycleError,
                  UndefinedNodes, CycleEdges
    <3> QED BY <2>8, <3>1 DEF ValidateClassTree, TypeOK, Processed
  <2>9. CASE UNCHANGED vars
    BY <2>9 DEF vars, TypeOK, Processed
  <2> QED BY <2>1, <2>2, <2>3, <2>4, <2>5, <2>6, <2>7, <2>8, <2>9 DEF Next
<1> QED BY <1>1, <1>2, PTL DEF Spec

-----------------------------------------------------------------------------
(* The inductive invariant.                                                *)

(* A class all of whose bases are finalized has no incoming edge but from  *)
(* calls in progress; so when none is in progress nothing is ready.        *)
LEMMA NothingIsReady ==
  ASSUME TypeOK, Inv, stack = <<>>
  PROVE  \A c \in Class : ~ CanFinalize(c)
<1>1. SUFFICES ASSUME NEW c \in Class, CanFinalize(c) PROVE FALSE
  OBVIOUS
<1>2. c \in Waiting /\ OriginsOf(heritage[c]) \subseteq Finalized
  BY <1>1 DEF CanFinalize, Waiting
<1>3. PICK e \in edges : e[2] = c
  BY <1>2 DEF Inv, WaitingHaveEdges, HasPredecessor
<1>4. e[1] \in OnStack
  BY <1>2, <1>3 DEF Inv, EdgesAreJustified
<1> QED BY <1>1, <1>4 DEF OnStack

(* The successors of t in a graph are what its edges lead to.              *)
LEMMA EdgeTargets ==
  ASSUME NEW graph, graph \subseteq Class \X Class, NEW t, NEW d
  PROVE  d \in {e[2] : e \in {f \in graph : f[1] = t}} <=> <<t, d>> \in graph
<1>1. ASSUME d \in {e[2] : e \in {f \in graph : f[1] = t}}
      PROVE  <<t, d>> \in graph
  <2>1. PICK e \in graph : e[1] = t /\ e[2] = d
    BY <1>1
  <2>2. e = <<e[1], e[2]>>
    BY <2>1
  <2> QED BY <2>1, <2>2
<1>2. ASSUME <<t, d>> \in graph
      PROVE  d \in {e[2] : e \in {f \in graph : f[1] = t}}
  <2>1. <<t, d>>[1] = t /\ <<t, d>>[2] = d
    OBVIOUS
  <2>2. <<t, d>> \in {f \in graph : f[1] = t}
    BY <1>2, <2>1
  <2> QED BY <2>1, <2>2
<1> QED BY <1>1, <1>2

(* Finalizing c, whose bases are finalized and which no edge enters, with  *)
(* its call now the innermost, keeps the invariant.  `before' is the rest  *)
(* of the stack; an edge may have been removed on the way.                 *)
LEMMA FinalizeKeepsInv ==
  ASSUME TypeOK, Inv, NEW c \in Class, c \notin Finalized,
         NEW before \in Seq(FrameType),
         NEW bases_of,
         FinalizeClass(c, bases_of),
         stack' = Append(before, Frame(c)),
         Processed' = Processed \cup {c},
         \A d \in Processed : heritage'[d] = heritage[d],
         OriginsOf(heritage'[c]) \subseteq Finalized,
         edges' \subseteq edges,
         \A e \in edges : e \notin edges' => e[2] = c /\ e[1] \in Finalized,
         \A e \in edges' : e[2] # c,
         Len(before) = Len(stack),
         \A i \in DOMAIN stack :
           /\ before[i].clazz = stack[i].clazz
           /\ before[i].successors =
                {d \in stack[i].successors : <<stack[i].clazz, d>> \in edges'}
  PROVE  /\ FinalizedFollowBases' /\ WaitingHaveEdges' /\ EdgesAreJustified'
         /\ FramesFollowGraph' /\ NodesAreNeeded'
<1>1. /\ Finalized' = Finalized \cup {c}
      /\ nodes' = nodes \ {c}
  BY FinalizeClassFinalizes
<1>2. Waiting' = Waiting \ {c}
  BY <1>1 DEF Waiting
<1>3. /\ Len(stack') = Len(stack) + 1
      /\ stack'[Len(stack) + 1] = Frame(c)
      /\ \A i \in 1 .. Len(stack) : stack'[i] = before[i]
  OBVIOUS
<1>4. stack \in Seq(FrameType) /\ Len(stack) \in Nat
  BY DEF TypeOK, FrameType
<1>5. DOMAIN stack = 1 .. Len(stack)
  BY <1>4
<1>6. stack' \in Seq(FrameType)
  BY FrameTyped DEF TypeOK
<1>7. DOMAIN stack' = 1 .. Len(stack) + 1
  BY <1>3, <1>6
<1>8. OnStack \cup {c} \subseteq OnStack'
  <2>1. \A i \in DOMAIN stack : i \in DOMAIN stack' /\ stack'[i].clazz = stack[i].clazz
    BY <1>3, <1>4, <1>5, <1>7
  <2>2. Len(stack) + 1 \in DOMAIN stack' /\ stack'[Len(stack) + 1].clazz = c
    BY <1>3, <1>4, <1>7 DEF Frame
  <2> QED BY <2>1, <2>2 DEF OnStack
<1>9. FinalizedFollowBases'
  BY <1>1 DEF Inv, FinalizedFollowBases
<1>10. WaitingHaveEdges'
  <2>1. SUFFICES ASSUME NEW d \in Waiting'
                 PROVE  /\ \A b \in Pending(d)' : <<b, d>> \in edges'
                        /\ HasPredecessor(edges', d)
    BY DEF WaitingHaveEdges
  <2>2. d \in Waiting /\ d # c /\ heritage'[d] = heritage[d]
    BY <1>2 DEF Waiting
  <2>3. Pending(d)' \subseteq Pending(d)
    BY <1>1, <2>2 DEF Pending
  <2>4. \A b \in Pending(d) : <<b, d>> \in edges'
    BY <2>2 DEF Inv, WaitingHaveEdges
  <2>5. PICK e \in edges : e[2] = d
    BY <2>2 DEF Inv, WaitingHaveEdges, HasPredecessor
  <2>6. e \in edges'
    BY <2>2, <2>5
  <2> QED BY <2>3, <2>4, <2>5, <2>6 DEF HasPredecessor
<1>11. EdgesAreJustified'
  <2>1. SUFFICES ASSUME NEW e \in edges'
                 PROVE  /\ e[2] \in Waiting'
                        /\ e[1] \in OriginsOf(heritage'[e[2]])
                        /\ e[1] \in Finalized' => e[1] \in OnStack'
                        /\ e[1] \in nodes' \cup Finalized'
    BY DEF EdgesAreJustified
  <2>2. /\ e[2] \in Waiting /\ e[1] \in OriginsOf(heritage[e[2]])
        /\ e[1] \in Finalized => e[1] \in OnStack
        /\ e[1] \in nodes \cup Finalized
    BY DEF Inv, EdgesAreJustified
  <2>3. heritage'[e[2]] = heritage[e[2]]
    BY <2>2 DEF Waiting
  <2> QED BY <1>1, <1>2, <1>8, <2>2, <2>3
<1>12. FramesFollowGraph'
  <2>1. \A i \in 1 .. Len(stack) :
          /\ stack'[i].clazz = stack[i].clazz
          /\ stack'[i].clazz \in Finalized
          /\ stack'[i].successors = {e[2] : e \in {f \in edges' : f[1] = stack[i].clazz}}
    <3>1. SUFFICES ASSUME NEW i \in 1 .. Len(stack)
                   PROVE  /\ stack'[i].clazz = stack[i].clazz
                          /\ stack'[i].clazz \in Finalized
                          /\ stack'[i].successors =
                               {e[2] : e \in {f \in edges' : f[1] = stack[i].clazz}}
      OBVIOUS
    <3>2. /\ stack'[i].clazz = stack[i].clazz
          /\ stack'[i].successors =
               {d \in stack[i].successors : <<stack[i].clazz, d>> \in edges'}
          /\ stack[i].clazz \in Finalized
          /\ stack[i].successors = Successors(stack[i].clazz)
      BY <1>3, <1>5 DEF Inv, FramesFollowGraph
    <3>3. edges \subseteq Class \X Class
      BY DEF TypeOK
    <3>4. ASSUME NEW t
          PROVE  {d \in Successors(t) : <<t, d>> \in edges'}
                    = {e[2] : e \in {f \in edges' : f[1] = t}}
      <4>1. \A d : d \in Successors(t) <=> <<t, d>> \in edges
          BY <3>3, EdgeTargets DEF Successors
      <4>2. \A d : d \in {e[2] : e \in {f \in edges' : f[1] = t}} <=> <<t, d>> \in edges'
        BY <3>3, EdgeTargets
      <4> QED BY <4>1, <4>2
    <3> QED BY <3>2, <3>4
  <2>2. /\ stack'[Len(stack) + 1].clazz = c
        /\ stack'[Len(stack) + 1].successors = {e[2] : e \in {f \in edges' : f[1] = c}}
    <3>1. {e[2] : e \in {f \in edges' : f[1] = c}} = Successors(c)
      <4>1. \A e \in edges : e[1] = c => e \in edges'
        OBVIOUS
      <4> QED BY <4>1 DEF Successors
    <3> QED BY <1>3, <3>1 DEF Frame
  <2>3. \A i \in 1 .. Len(stack), j \in 1 .. Len(stack) :
          stack[j].clazz = stack[i].clazz => j = i
    BY <1>5 DEF Inv, FramesFollowGraph
  <2>4. ASSUME NEW i \in DOMAIN stack'
        PROVE  /\ stack'[i].clazz \in Finalized'
               /\ stack'[i].successors = {e[2] : e \in {f \in edges' : f[1] = stack'[i].clazz}}
               /\ \A j \in DOMAIN stack' : stack'[j].clazz = stack'[i].clazz => j = i
    <3>1. CASE i \in 1 .. Len(stack)
      BY <1>1, <1>4, <1>7, <2>1, <2>2, <2>3, <3>1
    <3>2. CASE i = Len(stack) + 1
      BY <1>1, <1>4, <1>7, <2>1, <2>2, <3>2
    <3> QED BY <1>4, <1>7, <3>1, <3>2
  <2> QED BY <2>4 DEF FramesFollowGraph, Successors
<1>13. NodesAreNeeded'
  <2>1. /\ nodes' \cap Finalized' = {} /\ Waiting' \subseteq nodes'
    BY <1>1, <1>2 DEF Inv, NodesAreNeeded
  <2>2. ASSUME NEW n \in nodes', n \notin Waiting'
        PROVE  \E e \in edges' : e[1] = n
    <3>1. n \in nodes /\ n \notin Waiting /\ n \notin Finalized
      BY <1>1, <1>2, <2>2 DEF Inv, NodesAreNeeded
    <3>2. PICK e \in edges : e[1] = n
      BY <3>1 DEF Inv, NodesAreNeeded
    <3>3. e \in edges'
      BY <3>1, <3>2
    <3> QED BY <3>2, <3>3
  <2> QED BY <2>1, <2>2 DEF NodesAreNeeded
<1> QED BY <1>9, <1>10, <1>11, <1>12, <1>13

(* One turn of the loop of FinalizeClass: the edge it removes was there,   *)
(* and every copy of successors loses exactly what the graph loses.        *)
LEMMA ReleaseFollowsGraph ==
  ASSUME TypeOK, Inv, stack # <<>>,
         NEW d \in stack[Len(stack)].successors,
         edges' = EdgesWithout(stack[Len(stack)].clazz, d)
  PROVE  /\ Len(stack) \in DOMAIN stack
         /\ stack[Len(stack)].clazz \in Finalized
         /\ <<stack[Len(stack)].clazz, d>> \in edges
         /\ d \in Waiting
         /\ StackPast(d) \in Seq(FrameType)
         /\ Len(StackPast(d)) = Len(stack)
         /\ \A i \in DOMAIN stack :
              /\ StackPast(d)[i].clazz = stack[i].clazz
              /\ StackPast(d)[i].successors =
                   {x \in stack[i].successors : <<stack[i].clazz, x>> \in edges'}
<1> DEFINE n == Len(stack)
           t == stack[n].clazz
<1>1. stack \in Seq(FrameType)
  BY DEF TypeOK, FrameType
<1>2. n \in DOMAIN stack /\ n \in Nat /\ DOMAIN stack = 1 .. n
  BY <1>1
<1>3. stack[n] \in FrameType
  BY <1>1, <1>2
<1>4. t \in Finalized /\ stack[n].successors = Successors(t)
  BY <1>2 DEF Inv, FramesFollowGraph
<1>5. edges \subseteq Class \X Class
  BY DEF TypeOK
<1>6. <<t, d>> \in edges
  BY <1>4, <1>5, EdgeTargets DEF Successors
<1>7. d \in Waiting
  BY <1>6 DEF Inv, EdgesAreJustified
<1>8. StackPast(d) \in Seq(FrameType) /\ Len(StackPast(d)) = Len(stack)
  BY <1>1, <1>2, <1>3 DEF StackPast, FrameType
<1>9. ASSUME NEW i \in DOMAIN stack
      PROVE  /\ StackPast(d)[i].clazz = stack[i].clazz
             /\ StackPast(d)[i].successors =
                  {x \in stack[i].successors : <<stack[i].clazz, x>> \in edges'}
  <2>1. \A x : x \in stack[i].successors <=> <<stack[i].clazz, x>> \in edges
    <3>1. stack[i].successors = Successors(stack[i].clazz)
      BY DEF Inv, FramesFollowGraph
    <3> QED BY <3>1, <1>5, EdgeTargets DEF Successors
  <2>2. CASE i = n
    <3>1. /\ StackPast(d)[i].clazz = t
          /\ StackPast(d)[i].successors = stack[n].successors \ {d}
      BY <1>1, <1>2, <2>2 DEF StackPast
    <3>2. \A x : <<t, x>> \in edges' <=> <<t, x>> \in edges /\ x # d
      BY DEF EdgesWithout
    <3>3. \A x : x \in StackPast(d)[i].successors <=>
                   x \in stack[i].successors /\ <<stack[i].clazz, x>> \in edges'
      BY <2>1, <2>2, <3>1, <3>2
    <3> QED BY <2>2, <3>1, <3>3
  <2>3. CASE i # n
    <3>1. StackPast(d)[i] = stack[i]
      BY <1>1, <1>2, <2>3 DEF StackPast
    <3>2. stack[i].clazz # t
      BY <1>2, <2>3 DEF Inv, FramesFollowGraph
    <3>3. \A x : <<stack[i].clazz, x>> \in edges' <=> <<stack[i].clazz, x>> \in edges
      BY <3>2 DEF EdgesWithout
    <3> QED BY <2>1, <3>1, <3>3
  <2> QED BY <2>2, <2>3
<1> QED BY <1>2, <1>4, <1>6, <1>7, <1>8, <1>9

(* When d has no edge left but had one from t, all its bases are finalized. *)
LEMMA ReleasedIsReady ==
  ASSUME TypeOK, Inv, NEW d \in Waiting, NEW t \in Finalized,
         ~ HasPredecessor(EdgesWithout(t, d), d)
  PROVE  OriginsOf(heritage[d]) \subseteq Finalized
<1>1. SUFFICES ASSUME NEW b \in OriginsOf(heritage[d]), b \notin Finalized
               PROVE  FALSE
  OBVIOUS
<1>2. <<b, d>> \in edges
  BY <1>1 DEF Inv, WaitingHaveEdges, Pending
<1>3. <<b, d>> \in EdgesWithout(t, d) /\ <<b, d>>[2] = d
  BY <1>1, <1>2 DEF EdgesWithout
<1> QED BY <1>3 DEF HasPredecessor

-----------------------------------------------------------------------------
(* Each action keeps the invariant.                                        *)

GraphInv ==
  /\ FinalizedFollowBases /\ WaitingHaveEdges /\ EdgesAreJustified
  /\ FramesFollowGraph /\ NodesAreNeeded

LEMMA DefinitionKeepsInv ==
  ASSUME TypeOK, Inv, NEW c \in Class, NEW bs \in HeritageChoices,
         ProcessClassDefinition(c, bs)
  PROVE  Inv'
<1> DEFINE heritage_ == [d \in Processed \cup {c} |->
                           IF d = c THEN bs ELSE heritage[d]]
           pending == OriginsOf(bs) \ Finalized
<1>1. /\ phase = "process" /\ phase' = phase /\ stack = <<>> /\ c \notin Processed
      /\ heritage' = heritage_
  BY DEF ProcessClassDefinition
<1>2. /\ Processed' = Processed \cup {c}
      /\ heritage'[c] = bs
      /\ \A d \in Processed : heritage'[d] = heritage[d]
  BY <1>1 DEF Processed
<1>3. c \notin Finalized /\ c \notin Waiting
  BY <1>1 DEF Inv, FinalizedFollowBases, Waiting
<1>4. pending \subseteq Class
  BY ChoicesAssumption, OriginsAreClasses
<1>5. ErrorsFollowGraph'
  BY <1>1 DEF ErrorsFollowGraph
<1>6. CASE pending = {}
  <2>1. /\ FinalizeClass(c, heritage_) /\ stack' = <<Frame(c)>> /\ edges' = edges
    BY <1>6 DEF ProcessClassDefinition
  <2>2. \A e \in edges' : e[2] # c
    BY <1>3, <2>1 DEF Inv, EdgesAreJustified
  <2>3. stack' = Append(stack, Frame(c)) /\ stack \in Seq(FrameType) /\ DOMAIN stack = {}
    BY <1>1, <2>1
  <2>4. OriginsOf(heritage'[c]) \subseteq Finalized
    BY <1>2, <1>6
  <2>5. GraphInv'
    BY <1>2, <1>3, <2>1, <2>2, <2>3, <2>4, FinalizeKeepsInv DEF GraphInv
  <2> QED BY <1>5, <2>5 DEF Inv, GraphInv
<1>7. CASE pending # {}
  <2>1. /\ nodes' = nodes \cup pending \cup {c}
        /\ edges' = edges \cup (pending \X {c})
        /\ class_list' = class_list /\ stack' = stack
    BY <1>7 DEF ProcessClassDefinition
  <2>2. Finalized' = Finalized /\ Waiting' = Waiting \cup {c} /\ OnStack' = OnStack
    BY <1>2, <1>3, <2>1 DEF Waiting, Finalized, OnStack
  <2>3. FinalizedFollowBases'
    BY <1>2, <2>2 DEF Inv, FinalizedFollowBases
  <2>4. WaitingHaveEdges'
    <3>1. ASSUME NEW d \in Waiting
          PROVE  /\ \A b \in Pending(d)' : <<b, d>> \in edges'
                 /\ HasPredecessor(edges', d)
      <4>1. heritage'[d] = heritage[d]
        BY <1>2 DEF Waiting
      <4>2. Pending(d)' = Pending(d)
        BY <2>2, <4>1 DEF Pending
      <4> QED BY <2>1, <4>2 DEF Inv, WaitingHaveEdges, HasPredecessor
    <3>2. /\ \A b \in Pending(c)' : <<b, c>> \in edges'
          /\ HasPredecessor(edges', c)
      <4>1. Pending(c)' = pending
        BY <1>2, <2>2 DEF Pending
      <4>2. \A b \in pending : <<b, c>> \in edges' /\ <<b, c>>[2] = c
        BY <2>1
      <4> QED BY <1>7, <4>1, <4>2 DEF HasPredecessor
    <3> QED BY <2>2, <3>1, <3>2 DEF WaitingHaveEdges
  <2>5. EdgesAreJustified'
    <3>1. SUFFICES ASSUME NEW e \in edges'
                   PROVE  /\ e[2] \in Waiting'
                          /\ e[1] \in OriginsOf(heritage'[e[2]])
                          /\ e[1] \in Finalized' => e[1] \in OnStack'
                          /\ e[1] \in nodes' \cup Finalized'
      BY DEF EdgesAreJustified
    <3>2. CASE e \in edges
      <4>1. /\ e[2] \in Waiting /\ e[1] \in OriginsOf(heritage[e[2]])
            /\ e[1] \in Finalized => e[1] \in OnStack
            /\ e[1] \in nodes \cup Finalized
        BY <3>2 DEF Inv, EdgesAreJustified
      <4>2. heritage'[e[2]] = heritage[e[2]]
        BY <1>2, <4>1 DEF Waiting
      <4> QED BY <2>1, <2>2, <4>1, <4>2
    <3>3. CASE e \in pending \X {c}
      <4>1. e[1] \in pending /\ e[2] = c
        BY <3>3
      <4> QED BY <1>2, <2>1, <2>2, <4>1
    <3> QED BY <2>1, <3>2, <3>3
  <2>6. FramesFollowGraph'
    BY <1>1, <2>1 DEF FramesFollowGraph
  <2>7. NodesAreNeeded'
    <3>1. nodes' \cap Finalized' = {} /\ Waiting' \subseteq nodes'
      BY <1>3, <2>1, <2>2 DEF Inv, NodesAreNeeded
    <3>2. ASSUME NEW n \in nodes', n \notin Waiting'
          PROVE  \E e \in edges' : e[1] = n
      <4>1. CASE n \in nodes
        BY <2>1, <2>2, <3>2, <4>1 DEF Inv, NodesAreNeeded
      <4>2. CASE n \in pending
        <5>1. <<n, c>> \in edges' /\ <<n, c>>[1] = n
          BY <2>1, <4>2
        <5> QED BY <5>1
      <4> QED BY <2>1, <2>2, <3>2, <4>1, <4>2
    <3> QED BY <3>1, <3>2 DEF NodesAreNeeded
  <2> QED BY <1>5, <2>3, <2>4, <2>5, <2>6, <2>7 DEF Inv
<1> QED BY <1>6, <1>7

LEMMA ReleaseKeepsInv ==
  ASSUME TypeOK, Inv, ReleaseSuccessor
  PROVE  Inv'
<1> DEFINE n == Len(stack)
           t == stack[n].clazz
<1>1. stack # <<>> /\ UNCHANGED <<heritage, phase, errors>>
  BY DEF ReleaseSuccessor
<1>2. PICK d \in stack[n].successors :
        /\ edges' = EdgesWithout(t, d)
        /\ IF HasPredecessor(EdgesWithout(t, d), d)
           THEN stack' = StackPast(d) /\ UNCHANGED <<class_list, nodes>>
           ELSE /\ FinalizeClass(d, heritage)
                /\ stack' = Append(StackPast(d), Frame(d))
  BY DEF ReleaseSuccessor
<1>3. /\ n \in DOMAIN stack /\ t \in Finalized /\ <<t, d>> \in edges /\ d \in Waiting
      /\ StackPast(d) \in Seq(FrameType) /\ Len(StackPast(d)) = n
      /\ \A i \in DOMAIN stack :
           /\ StackPast(d)[i].clazz = stack[i].clazz
           /\ StackPast(d)[i].successors =
                {x \in stack[i].successors : <<stack[i].clazz, x>> \in edges'}
  BY <1>1, <1>2, ReleaseFollowsGraph
<1>4. /\ Processed' = Processed /\ edges' \subseteq edges
      /\ d \in Class /\ d \notin Finalized /\ d \in Processed
  BY <1>1, <1>2, <1>3 DEF Processed, EdgesWithout, Waiting, TypeOK
<1>5. \A e \in edges : e \notin edges' => e = <<t, d>>
  BY <1>2 DEF EdgesWithout
<1>6. ErrorsFollowGraph'
  BY <1>1 DEF Inv, ErrorsFollowGraph
<1>7. CASE HasPredecessor(edges', d)
  <2>1. stack' = StackPast(d) /\ class_list' = class_list /\ nodes' = nodes
    BY <1>2, <1>7
  <2>2. Finalized' = Finalized /\ Waiting' = Waiting
    BY <1>4, <2>1 DEF Finalized, Waiting
  <2>3. DOMAIN stack' = DOMAIN stack
    BY <1>3, <2>1 DEF TypeOK
  <2>4. \A i \in DOMAIN stack : stack'[i].clazz = stack[i].clazz
    BY <1>3, <2>1
  <2>5. OnStack' = OnStack
    BY <2>3, <2>4 DEF OnStack
  <2>6. FinalizedFollowBases'
    BY <1>1, <1>4, <2>2 DEF Inv, FinalizedFollowBases
  <2>7. WaitingHaveEdges'
    <3>1. SUFFICES ASSUME NEW x \in Waiting
                   PROVE  /\ \A b \in Pending(x)' : <<b, x>> \in edges'
                          /\ HasPredecessor(edges', x)
      BY <2>2 DEF WaitingHaveEdges
    <3>2. Pending(x)' = Pending(x)
      BY <1>1, <2>2 DEF Pending
    <3>3. \A b \in Pending(x) : <<b, x>> \in edges'
      <4>1. SUFFICES ASSUME NEW b \in Pending(x) PROVE <<b, x>> \in edges'
        OBVIOUS
      <4>2. <<b, x>> \in edges /\ b # t
        BY <1>3 DEF Inv, WaitingHaveEdges, Pending
      <4> QED BY <1>5, <4>2
    <3>4. HasPredecessor(edges', x)
      <4>1. CASE x = d
        BY <1>7, <4>1
      <4>2. CASE x # d
        BY <1>5, <4>2 DEF Inv, WaitingHaveEdges, HasPredecessor
      <4> QED BY <4>1, <4>2
    <3> QED BY <3>2, <3>3, <3>4
  <2>8. EdgesAreJustified'
    BY <1>1, <1>4, <2>1, <2>2, <2>5 DEF Inv, EdgesAreJustified
  <2>9. FramesFollowGraph'
    <3>1. SUFFICES ASSUME NEW i \in DOMAIN stack
                   PROVE  /\ stack'[i].clazz \in Finalized'
                          /\ stack'[i].successors =
                               {e[2] : e \in {f \in edges' : f[1] = stack'[i].clazz}}
                          /\ \A j \in DOMAIN stack : stack'[j].clazz = stack'[i].clazz => j = i
      BY <2>3 DEF FramesFollowGraph, Successors
    <3>2. /\ stack[i].clazz \in Finalized
          /\ stack[i].successors = Successors(stack[i].clazz)
          /\ \A j \in DOMAIN stack : stack[j].clazz = stack[i].clazz => j = i
      BY DEF Inv, FramesFollowGraph
    <3>3. edges \subseteq Class \X Class /\ edges' \subseteq Class \X Class
      BY <1>4 DEF TypeOK
    <3>4. \A x : x \in stack[i].successors <=> <<stack[i].clazz, x>> \in edges
      BY <3>2, <3>3, EdgeTargets DEF Successors
    <3>5. \A x : x \in {e[2] : e \in {f \in edges' : f[1] = stack[i].clazz}}
                  <=> <<stack[i].clazz, x>> \in edges'
      BY <3>3, EdgeTargets
    <3>6. \A x : x \in stack'[i].successors
                  <=> x \in {e[2] : e \in {f \in edges' : f[1] = stack[i].clazz}}
      BY <1>3, <1>4, <2>1, <3>4, <3>5
    <3>7. stack'[i].successors = {e[2] : e \in {f \in edges' : f[1] = stack[i].clazz}}
      <4>1. stack'[i].successors = {x \in stack[i].successors : <<stack[i].clazz, x>> \in edges'}
        BY <1>3, <2>1
      <4> QED BY <3>6, <4>1
    <3> QED BY <2>2, <2>4, <3>2, <3>7
  <2>10. NodesAreNeeded'
    <3>1. ASSUME NEW m \in nodes, m \notin Waiting
          PROVE  \E e \in edges' : e[1] = m
      <4>1. PICK e \in edges : e[1] = m
        BY <3>1 DEF Inv, NodesAreNeeded
      <4>2. m # t
        BY <1>3 DEF Inv, NodesAreNeeded
      <4> QED BY <1>5, <4>1, <4>2
    <3> QED BY <2>1, <2>2, <3>1 DEF Inv, NodesAreNeeded
  <2> QED BY <1>6, <2>6, <2>7, <2>8, <2>9, <2>10 DEF Inv
<1>8. CASE ~ HasPredecessor(edges', d)
  <2>1. FinalizeClass(d, heritage) /\ stack' = Append(StackPast(d), Frame(d))
    BY <1>2, <1>8
  <2>2. OriginsOf(heritage[d]) \subseteq Finalized
    BY <1>2, <1>3, <1>8, ReleasedIsReady
  <2>3. \A e \in edges : e \notin edges' => e[2] = d /\ e[1] \in Finalized
    BY <1>3, <1>5
  <2>4. \A e \in edges' : e[2] # d
    BY <1>8 DEF HasPredecessor
  <2>5. /\ Processed' = Processed \cup {d}
        /\ \A x \in Processed : heritage'[x] = heritage[x]
        /\ OriginsOf(heritage'[d]) \subseteq Finalized
    BY <1>1, <1>4, <2>2
  <2> DEFINE before == StackPast(d)
  <2>6. /\ before \in Seq(FrameType) /\ Len(before) = Len(stack)
        /\ stack' = Append(before, Frame(d))
        /\ \A i \in DOMAIN stack :
             /\ before[i].clazz = stack[i].clazz
             /\ before[i].successors =
                  {x \in stack[i].successors : <<stack[i].clazz, x>> \in edges'}
    BY <1>3, <2>1
  <2> HIDE DEF before
  <2>7. GraphInv'
    BY <1>4, <2>1, <2>3, <2>4, <2>5, <2>6, FinalizeKeepsInv DEF GraphInv
  <2> QED BY <1>6, <2>7 DEF Inv, GraphInv
<1> QED BY <1>7, <1>8

LEMMA ReturnKeepsInv ==
  ASSUME TypeOK, Inv, ReturnFromFinalizeClass
  PROVE  Inv'
<1> DEFINE n == Len(stack)
           t == stack[n].clazz
<1>1. /\ stack # <<>> /\ stack[n].successors = {}
      /\ stack' = SubSeq(stack, 1, n - 1)
      /\ UNCHANGED <<heritage, class_list, nodes, edges, phase, errors>>
  BY DEF ReturnFromFinalizeClass
<1>2. stack \in Seq(FrameType)
  BY DEF TypeOK, FrameType
<1>3. /\ stack' \in Seq(FrameType) /\ Len(stack') = n - 1
      /\ \A i \in 1 .. n - 1 : stack'[i] = stack[i]
  BY <1>1, <1>2, FrontProperties
<1>4. n \in Nat /\ n \in DOMAIN stack /\ DOMAIN stack = 1 .. n /\ DOMAIN stack' = 1 .. n - 1
  BY <1>1, <1>2, <1>3
<1>5. /\ Finalized' = Finalized /\ Processed' = Processed /\ Waiting' = Waiting
      /\ \A d : Pending(d)' = Pending(d)
  BY <1>1 DEF Finalized, Processed, Waiting, Pending
<1>6. \A e \in edges : e[1] # t
  <2>1. Successors(t) = {}
    BY <1>1, <1>4 DEF Inv, FramesFollowGraph
  <2> QED BY <2>1 DEF Successors
<1>7. \A c \in OnStack : c # t => c \in OnStack'
  <2>1. SUFFICES ASSUME NEW i \in DOMAIN stack, stack[i].clazz # t
                 PROVE  stack[i].clazz \in OnStack'
    BY DEF OnStack
  <2>2. i \in 1 .. n - 1
    BY <1>4, <2>1
  <2>3. i \in DOMAIN stack' /\ stack'[i].clazz = stack[i].clazz
    BY <1>3, <1>4, <2>2
  <2> QED BY <2>3 DEF OnStack
<1>8. EdgesAreJustified'
  BY <1>1, <1>5, <1>6, <1>7 DEF Inv, EdgesAreJustified
<1>9. FramesFollowGraph'
  <2>1. SUFFICES ASSUME NEW i \in DOMAIN stack'
                 PROVE  /\ stack'[i].clazz \in Finalized'
                        /\ stack'[i].successors =
                             {e[2] : e \in {f \in edges' : f[1] = stack'[i].clazz}}
                        /\ \A j \in DOMAIN stack' : stack'[j].clazz = stack'[i].clazz => j = i
    BY DEF FramesFollowGraph, Successors
  <2>2. DOMAIN stack' \subseteq DOMAIN stack
    BY <1>4
  <2>3. \A j \in DOMAIN stack' : stack'[j] = stack[j]
    BY <1>3, <1>4
  <2>4. /\ stack[i].clazz \in Finalized
        /\ stack[i].successors = Successors(stack[i].clazz)
        /\ \A j \in DOMAIN stack : stack[j].clazz = stack[i].clazz => j = i
    BY <2>2 DEF Inv, FramesFollowGraph
  <2> QED BY <1>1, <1>5, <2>2, <2>3, <2>4 DEF Successors
<1>10. NodesAreNeeded' /\ WaitingHaveEdges' /\ FinalizedFollowBases'
  BY <1>1, <1>5 DEF Inv, NodesAreNeeded, WaitingHaveEdges, FinalizedFollowBases, HasPredecessor
<1>11. ErrorsFollowGraph'
  <2>1. stack # <<>> => phase \notin {"construct", "validate", "built"}
    BY DEF Inv, ErrorsFollowGraph
  <2> QED BY <1>1, <2>1 DEF ErrorsFollowGraph
<1> QED BY <1>8, <1>9, <1>10, <1>11 DEF Inv

(* The steps that finalize no class of the program and leave the graph.    *)
LEMMA GraphUnchanged ==
  ASSUME Inv, Finalized' = Finalized, UNCHANGED <<heritage, nodes, edges, stack>>
  PROVE  GraphInv'
<1>1. /\ Processed' = Processed /\ Waiting' = Waiting /\ OnStack' = OnStack
      /\ \A d : Pending(d)' = Pending(d)
  BY DEF Processed, Waiting, Pending, OnStack
<1>2. FinalizedFollowBases' /\ WaitingHaveEdges' /\ NodesAreNeeded'
  BY <1>1 DEF Inv, FinalizedFollowBases, WaitingHaveEdges, NodesAreNeeded, HasPredecessor
<1>3. EdgesAreJustified' /\ FramesFollowGraph'
  BY <1>1 DEF Inv, EdgesAreJustified, FramesFollowGraph, Successors
<1> QED BY <1>2, <1>3 DEF GraphInv

(* The first loop of Build never finds a class to finalize.                *)
LEMMA SweepFindsNothing ==
  ASSUME TypeOK, Inv, SweepNodes
  PROVE  /\ phase = "sweep" /\ phase' = "construct" /\ stack = <<>>
         /\ UNCHANGED <<heritage, class_list, nodes, edges, stack, errors>>
<1>1. phase = "sweep" /\ stack = <<>> /\ UNCHANGED <<heritage, edges, errors>>
  BY DEF SweepNodes
<1>2. {c \in nodes : CanFinalize(c)} = {}
  BY <1>1, NothingIsReady DEF TypeOK
<1> QED BY <1>1, <1>2 DEF SweepNodes

LEMMA StepKeepsInv ==
  ASSUME TypeOK, Inv, [Next]_vars
  PROVE  Inv'
<1>1. CASE \E c \in Class, bs \in HeritageChoices : ProcessClassDefinition(c, bs)
  BY <1>1, DefinitionKeepsInv
<1>2. ASSUME NEW k \in ReferenceChoices, ProcessClassReference(k)
      PROVE  Inv'
  <2>1. k \in ConstructedClass
    BY ChoicesAssumption
  <2>2. Finalized' = Finalized
    BY <1>2, <2>1, FinalizeConstructedKeepsFinalized DEF ProcessClassReference, Finalized
  <2>3. GraphInv'
    BY <1>2, <2>2, GraphUnchanged DEF ProcessClassReference
  <2>4. ErrorsFollowGraph'
    BY <1>2 DEF ProcessClassReference, ErrorsFollowGraph
  <2> QED BY <2>3, <2>4 DEF Inv, GraphInv
<1>3. CASE ReleaseSuccessor
  BY <1>3, ReleaseKeepsInv
<1>4. CASE ReturnFromFinalizeClass
  BY <1>4, ReturnKeepsInv
<1>5. CASE Build
  <2>1. GraphInv'
    BY <1>5, GraphUnchanged DEF Build, Finalized
  <2> QED BY <1>5, <2>1 DEF Build, Inv, GraphInv, ErrorsFollowGraph
<1>6. CASE SweepNodes
  <2>1. GraphInv' /\ phase' = "construct" /\ stack' = <<>>
    BY <1>6, SweepFindsNothing, GraphUnchanged DEF Finalized
  <2> QED BY <2>1 DEF Inv, GraphInv, ErrorsFollowGraph
<1>7. CASE FinalizePendingConstructedClass
  <2>1. Finalized' = Finalized
    <3>1. CASE UNCHANGED class_list
      BY <3>1 DEF Finalized
    <3>2. CASE \E k \in pending_constructed_classes :
                 class_list' = FinalizeConstructedClass(class_list, k)
      BY <3>2, FinalizeConstructedKeepsFinalized DEF TypeOK
    <3> QED BY <1>7, <3>1, <3>2 DEF FinalizePendingConstructedClass
  <2>2. GraphInv'
    BY <1>7, <2>1, GraphUnchanged DEF FinalizePendingConstructedClass
  <2>3. ErrorsFollowGraph'
    BY <1>7 DEF FinalizePendingConstructedClass, Inv, ErrorsFollowGraph
  <2> QED BY <2>2, <2>3 DEF Inv, GraphInv
<1>8. CASE ValidateClassTree
  <2>1. GraphInv'
    BY <1>8, GraphUnchanged DEF ValidateClassTree, Finalized
  <2>2. UndefinedNodes' = UndefinedNodes /\ CycleEdges' = CycleEdges
    BY <1>8 DEF ValidateClassTree, UndefinedNodes, CycleEdges, Processed
  <2>3. ErrorsFollowGraph'
    BY <1>8, <2>2 DEF ValidateClassTree, Inv, ErrorsFollowGraph
  <2> QED BY <2>1, <2>3 DEF Inv, GraphInv
<1>9. CASE UNCHANGED vars
  <2>1. GraphInv'
    BY <1>9, GraphUnchanged DEF vars, Finalized
  <2>2. UndefinedNodes' = UndefinedNodes /\ CycleEdges' = CycleEdges
    BY <1>9 DEF vars, UndefinedNodes, CycleEdges, Processed
  <2>3. ErrorsFollowGraph'
    BY <1>9, <2>2 DEF vars, Inv, ErrorsFollowGraph
  <2> QED BY <2>1, <2>3 DEF Inv, GraphInv
<1> QED BY <1>1, <1>2, <1>3, <1>4, <1>5, <1>6, <1>7, <1>8, <1>9 DEF Next

THEOREM InvCorrect == Spec => [](TypeOK /\ Inv)
<1>1. Init => Inv
  BY DEF Init, Inv, FinalizedFollowBases, WaitingHaveEdges, EdgesAreJustified,
         FramesFollowGraph, NodesAreNeeded, ErrorsFollowGraph, Finalized, Waiting, Processed
<1>2. TypeOK /\ Inv /\ [Next]_vars => Inv'
  BY StepKeepsInv
<1> QED BY <1>1, <1>2, TypeCorrect, PTL DEF Spec

-----------------------------------------------------------------------------
(* What follows from the invariant in every state.                         *)

(* The edges between two calls are the bases that are waited for.          *)
THEOREM EdgesCorrect == Spec => []EdgesTrackPendingBases
<1>1. ASSUME TypeOK, Inv, stack = <<>>, NEW d \in Waiting
      PROVE  /\ Pending(d) # {}
             /\ {e[1] : e \in {f \in edges : f[2] = d}} = Pending(d)
  <2>1. \A e \in edges : e[2] = d => e[1] \in Pending(d)
    BY <1>1 DEF Inv, EdgesAreJustified, Pending, OnStack
  <2>2. \A b \in Pending(d) : \E e \in edges : e[2] = d /\ e[1] = b
    <3>1. SUFFICES ASSUME NEW b \in Pending(d)
                   PROVE  \E e \in edges : e[2] = d /\ e[1] = b
      OBVIOUS
    <3>2. <<b, d>> \in edges /\ <<b, d>>[1] = b /\ <<b, d>>[2] = d
      BY <1>1 DEF Inv, WaitingHaveEdges
    <3> QED BY <3>2
  <2>3. \E e \in edges : e[2] = d
    BY <1>1 DEF Inv, WaitingHaveEdges, HasPredecessor
  <2> QED BY <2>1, <2>2, <2>3
<1>2. TypeOK /\ Inv => EdgesTrackPendingBases
  BY <1>1 DEF EdgesTrackPendingBases, Inv, EdgesAreJustified
<1> QED BY <1>2, InvCorrect, PTL

(* A call leaves nothing ready behind.                                     *)
THEOREM NothingReadyCorrect == Spec => []NothingReadyBetweenCalls
<1>1. TypeOK /\ Inv => NothingReadyBetweenCalls
  BY NothingIsReady DEF NothingReadyBetweenCalls
<1> QED BY <1>1, InvCorrect, PTL

(* RemoveEdge is only told to remove edges that are there.                 *)
THEOREM SuccessorCopyCorrect == Spec => []SuccessorCopyNeverStale
<1>1. Inv => SuccessorCopyNeverStale
  BY DEF Inv, FramesFollowGraph, SuccessorCopyNeverStale
<1> QED BY <1>1, InvCorrect, PTL

(* The graph holds what ValidateClassTree must look at.                    *)
THEOREM GraphCorrect == Spec => []GraphHoldsWhatWaits
<1>1. ASSUME Inv, NEW d \in Waiting
      PROVE  Pending(d) \subseteq nodes
  <2>1. SUFFICES ASSUME NEW b \in Pending(d) PROVE b \in nodes
    OBVIOUS
  <2>2. <<b, d>> \in edges /\ <<b, d>>[1] = b /\ b \notin Finalized
    BY <1>1 DEF Inv, WaitingHaveEdges, Pending
  <2> QED BY <1>1, <2>2 DEF Inv, EdgesAreJustified
<1>2. Inv => GraphHoldsWhatWaits
  BY <1>1 DEF GraphHoldsWhatWaits, Inv, NodesAreNeeded
<1> QED BY <1>2, InvCorrect, PTL

(* Which classes Build reports as undefined.                               *)
THEOREM UndefinedCorrect == Spec => []UndefinedBasesReportedExactly
<1>1. ASSUME TypeOK, Inv, phase = "built"
      PROVE  Reported("UNDEFINED_CLASS") =
               {{b} : b \in {a \in Class \ Processed : \E d \in Processed : Waits(d, a)}}
  <2>1. errors = {UndefinedClassError(c) : c \in UndefinedNodes}
                   \cup {CycleError(e[1], e[2]) : e \in CycleEdges}
    BY <1>1 DEF Inv, ErrorsFollowGraph
  <2>2. Reported("UNDEFINED_CLASS") = {{c} : c \in UndefinedNodes}
    <3>1. \A c : /\ UndefinedClassError(c).code = "UNDEFINED_CLASS"
                 /\ UndefinedClassError(c).classes = {c}
      BY DEF UndefinedClassError
    <3>2. \A b, d : CycleError(b, d).code # "UNDEFINED_CLASS"
      BY DEF CycleError
    <3> DEFINE undefined == {UndefinedClassError(c) : c \in UndefinedNodes}
               cycles == {CycleError(e[1], e[2]) : e \in CycleEdges}
    <3>3. \A f \in undefined : f.code = "UNDEFINED_CLASS"
      BY <3>1
    <3>4. \A f \in cycles : f.code # "UNDEFINED_CLASS"
      BY <3>2
    <3>5. {f \in errors : f.code = "UNDEFINED_CLASS"} = undefined
      <4> HIDE DEF undefined, cycles
      <4> QED BY <2>1, <3>3, <3>4 DEF undefined, cycles
    <3>6. {e.classes : e \in undefined} = {{c} : c \in UndefinedNodes}
      <4>1. \A x : x \in {e.classes : e \in undefined} =>
                     x \in {{c} : c \in UndefinedNodes}
        BY <3>1
      <4>2. ASSUME NEW c \in UndefinedNodes
            PROVE  {c} \in {e.classes : e \in undefined}
        <5>1. UndefinedClassError(c) \in undefined
          OBVIOUS
        <5> HIDE DEF undefined
        <5> QED BY <3>1, <5>1
      <4> QED BY <4>1, <4>2
    <3> QED BY <3>5, <3>6 DEF Reported
  <2>3. \A n \in UndefinedNodes : \E d \in Processed : Waits(d, n)
    <3>1. SUFFICES ASSUME NEW n \in UndefinedNodes
                   PROVE  \E d \in Processed : Waits(d, n)
      OBVIOUS
    <3>2. n \in nodes /\ n \notin Waiting
      BY DEF UndefinedNodes, Waiting
    <3>3. PICK e \in edges : e[1] = n
      BY <1>1, <3>2 DEF Inv, NodesAreNeeded
    <3> QED BY <1>1, <3>3 DEF Inv, EdgesAreJustified, Waiting, Waits
  <2>4. ASSUME NEW a \in Class \ Processed, NEW d \in Processed, Waits(d, a)
        PROVE  a \in UndefinedNodes
    <3>1. a \notin Finalized /\ d \notin Finalized
      BY <1>1, <2>4 DEF Inv, FinalizedFollowBases, Waits
    <3>2. d \in Waiting /\ a \in Pending(d)
      BY <2>4, <3>1 DEF Waiting, Pending, Waits
    <3>3. <<a, d>> \in edges /\ <<a, d>>[1] = a
      BY <1>1, <3>2 DEF Inv, WaitingHaveEdges
    <3>4. a \in nodes
      BY <1>1, <3>1, <3>3 DEF Inv, EdgesAreJustified
    <3> QED BY <3>4 DEF UndefinedNodes
  <2>5. UndefinedNodes \subseteq Class \ Processed
    BY <1>1 DEF TypeOK, UndefinedNodes
  <2>6. UndefinedNodes = {a \in Class \ Processed : \E d \in Processed : Waits(d, a)}
    BY <2>3, <2>4, <2>5
  <2> QED BY <2>2, <2>6
<1>2. TypeOK /\ Inv => UndefinedBasesReportedExactly
  BY <1>1 DEF UndefinedBasesReportedExactly
<1> QED BY <1>2, InvCorrect, PTL

-----------------------------------------------------------------------------
(* The builder implements the class hierarchy.                             *)

Bases == [c \in Processed |-> OriginsOf(heritage[c])]
Verdict == IF phase # "built" THEN "open"
           ELSE IF errors = {} THEN "clean" ELSE "errors"

(* Between two calls the hierarchy is at rest.                             *)
LEMMA RestBetweenCalls ==
  ASSUME TypeOK, Inv, stack = <<>>
  PROVE  Hierarchy!AtRest
<1>1. SUFFICES ASSUME NEW c \in Class, Hierarchy!Ready(c) PROVE FALSE
  BY DEF Hierarchy!AtRest
<1>2. c \in Processed /\ c \notin Finalized /\ OriginsOf(heritage[c]) \subseteq Finalized
  BY <1>1 DEF Hierarchy!Ready, Hierarchy!Defined
<1>3. Finalized \subseteq Processed
  BY DEF Inv, FinalizedFollowBases
<1>4. CanFinalize(c)
  BY <1>2, <1>3 DEF CanFinalize
<1> QED BY <1>4, NothingIsReady

(* A class that becomes finalized is ready to be.                          *)
LEMMA StepFinalizes ==
  ASSUME TypeOK, Inv, [Next]_vars
  PROVE  \A c \in Finalized' \ Finalized :
           /\ c \in Processed'
           /\ OriginsOf(heritage'[c]) \subseteq Finalized
<1>1. ASSUME NEW c \in Class, NEW bs \in HeritageChoices, ProcessClassDefinition(c, bs),
             NEW d \in Finalized' \ Finalized
      PROVE  d \in Processed' /\ OriginsOf(heritage'[d]) \subseteq Finalized
  <2>1. /\ heritage' = [x \in Processed \cup {c} |-> IF x = c THEN bs ELSE heritage[x]]
        /\ IF OriginsOf(bs) \ Finalized = {} THEN FinalizeClass(c, heritage')
                                             ELSE class_list' = class_list
    BY <1>1 DEF ProcessClassDefinition
  <2>2. OriginsOf(bs) \subseteq Finalized /\ Finalized' = Finalized \cup {c}
    BY <1>1, <2>1, FinalizeClassFinalizes DEF Finalized
  <2>3. d = c /\ c \in Processed' /\ heritage'[c] = bs
    BY <1>1, <2>1, <2>2 DEF Processed
  <2> QED BY <2>2, <2>3
<1>2. ASSUME ReleaseSuccessor, NEW d \in Finalized' \ Finalized
      PROVE  d \in Processed' /\ OriginsOf(heritage'[d]) \subseteq Finalized
  <2> DEFINE t == stack[Len(stack)].clazz
  <2>1. stack # <<>> /\ heritage' = heritage
    BY <1>2 DEF ReleaseSuccessor
  <2>2. PICK s \in stack[Len(stack)].successors :
          /\ edges' = EdgesWithout(t, s)
          /\ IF HasPredecessor(EdgesWithout(t, s), s)
             THEN UNCHANGED class_list ELSE FinalizeClass(s, heritage)
    BY <1>2 DEF ReleaseSuccessor
  <2>3. t \in Finalized /\ s \in Waiting
    BY <2>1, <2>2, ReleaseFollowsGraph
  <2>4. s \in Class
    BY <2>3 DEF Waiting, TypeOK
  <2>5. ~ HasPredecessor(EdgesWithout(t, s), s) /\ d = s
    BY <1>2, <2>2, <2>4, FinalizeClassFinalizes DEF Finalized
  <2>6. OriginsOf(heritage[s]) \subseteq Finalized
    BY <2>3, <2>5, ReleasedIsReady
  <2> QED BY <2>1, <2>3, <2>5, <2>6 DEF Waiting, Processed
<1>3. ASSUME NEW k \in ReferenceChoices, ProcessClassReference(k)
      PROVE  Finalized' = Finalized
  BY <1>3, ChoicesAssumption, FinalizeConstructedKeepsFinalized
  DEF ProcessClassReference, Finalized
<1>4. ASSUME FinalizePendingConstructedClass
      PROVE  Finalized' = Finalized
  <2>1. CASE UNCHANGED class_list
    BY <2>1 DEF Finalized
  <2>2. CASE \E k \in pending_constructed_classes :
               class_list' = FinalizeConstructedClass(class_list, k)
    BY <2>2, FinalizeConstructedKeepsFinalized DEF TypeOK
  <2> QED BY <1>4, <2>1, <2>2 DEF FinalizePendingConstructedClass
<1>5. SweepNodes => Finalized' = Finalized
  BY SweepFindsNothing DEF Finalized
<1>6. ReturnFromFinalizeClass \/ Build \/ ValidateClassTree \/ UNCHANGED vars
        => Finalized' = Finalized
  BY DEF ReturnFromFinalizeClass, Build, ValidateClassTree, vars, Finalized
<1> QED BY <1>1, <1>2, <1>3, <1>4, <1>5, <1>6 DEF Next

(* The DCHECK at the head of FinalizeClass never fires.                    *)
THEOREM FinalizeReadyCorrect == Spec => FinalizedOnlyWhenReady
<1>1. ASSUME TypeOK, Inv, [Next]_vars
      PROVE  [\A c \in Finalized' \ Finalized :
                c \in Processed' /\ OriginsOf(heritage'[c]) \subseteq Finalized]_vars
  BY <1>1, StepFinalizes
<1> QED BY <1>1, InvCorrect, PTL DEF Spec, FinalizedOnlyWhenReady

(* An error is reported exactly when a definition is left waiting.         *)
LEMMA ErrorsMeanWaiting ==
  ASSUME TypeOK, Inv, stack = <<>>
  PROVE  Processed \subseteq Finalized <=> UndefinedNodes = {} /\ CycleEdges = {}
<1>1. ASSUME Processed \subseteq Finalized
      PROVE  UndefinedNodes = {} /\ CycleEdges = {}
  <2>1. Waiting = {}
    BY <1>1 DEF Waiting
  <2>2. edges = {}
    BY <2>1 DEF Inv, EdgesAreJustified
  <2>3. nodes = {}
    BY <2>1, <2>2 DEF Inv, NodesAreNeeded
  <2> QED BY <2>2, <2>3 DEF UndefinedNodes, CycleEdges
<1>2. ASSUME NEW d \in Processed, d \notin Finalized
      PROVE  UndefinedNodes # {} \/ CycleEdges # {}
  <2>1. PICK e \in edges : e[2] = d
    BY <1>2 DEF Inv, WaitingHaveEdges, HasPredecessor, Waiting
  <2>2. e[1] \in nodes
    BY DEF Inv, EdgesAreJustified, OnStack
  <2> QED BY <2>1, <2>2 DEF UndefinedNodes, CycleEdges
<1> QED BY <1>1, <1>2

(* A step that leaves definitions, finalized classes and verdict alone.    *)
LEMMA StutterRefines ==
  ASSUME UNCHANGED heritage, Finalized' = Finalized, Verdict' = Verdict
  PROVE  UNCHANGED Hierarchy!vars
<1>1. Bases' = Bases
  BY DEF Bases, Processed
<1> QED BY <1>1 DEF Hierarchy!vars, Bases, Verdict

LEMMA DefinitionRefines ==
  ASSUME TypeOK, Inv, NEW c \in Class, NEW bs \in HeritageChoices,
         ProcessClassDefinition(c, bs)
  PROVE  Hierarchy!Define(c, OriginsOf(bs))
<1>1. /\ phase = "process" /\ phase' = "process" /\ stack = <<>> /\ c \notin Processed
      /\ heritage' = [d \in Processed \cup {c} |-> IF d = c THEN bs ELSE heritage[d]]
      /\ IF OriginsOf(bs) \ Finalized = {} THEN FinalizeClass(c, heritage')
                                           ELSE class_list' = class_list
  BY DEF ProcessClassDefinition
<1>2. Hierarchy!AtRest
  BY <1>1, RestBetweenCalls
<1>3. Processed' = Processed \cup {c}
  BY <1>1 DEF Processed
<1>4. Bases' = [d \in Processed \cup {c} |-> IF d = c THEN OriginsOf(bs) ELSE Bases[d]]
  BY <1>1, <1>3 DEF Bases
<1>5. Finalized' = IF OriginsOf(bs) \subseteq Finalized THEN Finalized \cup {c} ELSE Finalized
  <2>1. CASE OriginsOf(bs) \subseteq Finalized
    BY <1>1, <2>1, FinalizeClassFinalizes
  <2>2. CASE ~ (OriginsOf(bs) \subseteq Finalized)
    BY <1>1, <2>2 DEF Finalized
  <2> QED BY <2>1, <2>2
<1>6. DOMAIN Bases = Processed
  BY DEF Bases
<1> QED BY <1>1, <1>2, <1>4, <1>5, <1>6 DEF Hierarchy!Define, Hierarchy!Defined, Bases

LEMMA ReleaseRefines ==
  ASSUME TypeOK, Inv, ReleaseSuccessor
  PROVE  (\E d \in Class : Hierarchy!Finalize(d)) \/ UNCHANGED Hierarchy!vars
<1> DEFINE t == stack[Len(stack)].clazz
<1>1. stack # <<>> /\ UNCHANGED <<heritage, phase, errors>>
  BY DEF ReleaseSuccessor
<1>2. PICK d \in stack[Len(stack)].successors :
        /\ edges' = EdgesWithout(t, d)
        /\ IF HasPredecessor(EdgesWithout(t, d), d)
           THEN UNCHANGED class_list ELSE FinalizeClass(d, heritage)
  BY DEF ReleaseSuccessor
<1>3. t \in Finalized /\ d \in Waiting /\ d \in Class
  BY <1>1, <1>2, ReleaseFollowsGraph DEF Waiting, TypeOK
<1>4. Verdict' = Verdict /\ Bases' = Bases
  BY <1>1 DEF Verdict, Bases, Processed
<1>5. CASE HasPredecessor(EdgesWithout(t, d), d)
  <2>1. Finalized' = Finalized
    BY <1>2, <1>5 DEF Finalized
  <2> QED BY <1>1, <1>4, <2>1, StutterRefines
<1>6. CASE ~ HasPredecessor(EdgesWithout(t, d), d)
  <2>1. Finalized' = Finalized \cup {d}
    BY <1>2, <1>3, <1>6, FinalizeClassFinalizes
  <2>2. OriginsOf(heritage[d]) \subseteq Finalized
    BY <1>3, <1>6, ReleasedIsReady
  <2>3. Hierarchy!Ready(d)
    BY <1>3, <2>2 DEF Hierarchy!Ready, Hierarchy!Defined, Waiting
  <2>4. Hierarchy!Finalize(d)
    BY <1>4, <2>1, <2>3 DEF Hierarchy!Finalize, Bases, Verdict
  <2> QED BY <1>3, <2>4
<1> QED BY <1>5, <1>6

LEMMA ValidateRefines ==
  ASSUME TypeOK, Inv, ValidateClassTree
  PROVE  Hierarchy!Conclude
<1>1. /\ phase = "validate" /\ phase' = "built" /\ stack = <<>>
      /\ UNCHANGED <<heritage, class_list>>
      /\ errors' = {UndefinedClassError(c) : c \in UndefinedNodes}
                     \cup {CycleError(e[1], e[2]) : e \in CycleEdges}
  BY DEF ValidateClassTree, Inv, ErrorsFollowGraph
<1>2. Hierarchy!AtRest
  BY <1>1, RestBetweenCalls
<1>3. errors' = {} <=> Processed \subseteq Finalized
  BY <1>1, ErrorsMeanWaiting
<1>4. Bases' = Bases /\ Finalized' = Finalized /\ DOMAIN Bases = Processed
  BY <1>1 DEF Bases, Processed, Finalized
<1>5. Verdict' = IF Processed \subseteq Finalized THEN "clean" ELSE "errors"
  BY <1>1, <1>3 DEF Verdict
<1> QED BY <1>1, <1>2, <1>4, <1>5 DEF Hierarchy!Conclude, Hierarchy!Defined, Bases, Verdict

(* Every step of the builder is one step of the hierarchy, or none.        *)
LEMMA StepRefines ==
  ASSUME TypeOK, Inv, [Next]_vars
  PROVE  [Hierarchy!Next]_(Hierarchy!vars)
<1>1. ASSUME NEW c \in Class, NEW bs \in HeritageChoices, ProcessClassDefinition(c, bs)
      PROVE  Hierarchy!Next
  <2>1. OriginsOf(bs) \in SUBSET Class
    BY ChoicesAssumption, OriginsAreClasses
  <2> QED BY <1>1, <2>1, DefinitionRefines DEF Hierarchy!Next
<1>2. CASE ReleaseSuccessor
  BY <1>2, ReleaseRefines DEF Hierarchy!Next
<1>3. CASE ValidateClassTree
  BY <1>3, ValidateRefines DEF Hierarchy!Next
<1>4. ASSUME NEW k \in ReferenceChoices, ProcessClassReference(k)
      PROVE  UNCHANGED Hierarchy!vars
  <2>1. Finalized' = Finalized
    BY <1>4, ChoicesAssumption, FinalizeConstructedKeepsFinalized
    DEF ProcessClassReference, Finalized
  <2> QED BY <1>4, <2>1, StutterRefines DEF ProcessClassReference, Verdict
<1>5. CASE FinalizePendingConstructedClass
  <2>1. Finalized' = Finalized
    <3>1. CASE UNCHANGED class_list
      BY <3>1 DEF Finalized
    <3>2. CASE \E k \in pending_constructed_classes :
                 class_list' = FinalizeConstructedClass(class_list, k)
      BY <3>2, FinalizeConstructedKeepsFinalized DEF TypeOK
    <3> QED BY <1>5, <3>1, <3>2 DEF FinalizePendingConstructedClass
  <2> QED BY <1>5, <2>1, StutterRefines DEF FinalizePendingConstructedClass, Verdict
<1>6. CASE SweepNodes
  BY <1>6, SweepFindsNothing, StutterRefines DEF Finalized, Verdict
<1>7. CASE ReturnFromFinalizeClass \/ Build \/ UNCHANGED vars
  BY <1>7, StutterRefines DEF ReturnFromFinalizeClass, Build, vars, Finalized, Verdict
<1> QED BY <1>1, <1>2, <1>3, <1>4, <1>5, <1>6, <1>7 DEF Next

(* ClassTree implements ClassHierarchy.                                    *)
THEOREM HierarchyImplemented == Spec => ImplementsHierarchy
<1>1. Init => Hierarchy!Init
  <2>1. Init => Bases = [c \in {} |-> {}] /\ Finalized = {} /\ Verdict = "open"
    BY DEF Init, Bases, Finalized, Verdict, Processed
  <2> QED BY <2>1 DEF Hierarchy!Init, Bases, Verdict
<1>2. TypeOK /\ Inv /\ [Next]_vars => [Hierarchy!Next]_(Hierarchy!vars)
  BY StepRefines
<1> QED BY <1>1, <1>2, InvCorrect, PTL DEF Spec, ImplementsHierarchy, Hierarchy!Spec

(* What the abstract specification promises of itself: that every variable *)
(* keeps its type,                                                         *)
LEMMA HierarchyTyped == Hierarchy!Spec => []Hierarchy!TypeOK
<1>1. Hierarchy!Init => Hierarchy!TypeOK
  BY DEF Hierarchy!Init, Hierarchy!TypeOK, Hierarchy!Defined
<1>2. ASSUME Hierarchy!TypeOK, [Hierarchy!Next]_(Hierarchy!vars)
      PROVE  Hierarchy!TypeOK'
  <2>1. ASSUME NEW c \in Class, NEW bs \in SUBSET Class, Hierarchy!Define(c, bs)
        PROVE  Hierarchy!TypeOK'
    BY <1>2, <2>1 DEF Hierarchy!Define, Hierarchy!TypeOK, Hierarchy!Defined
  <2>2. ASSUME NEW c \in Class, Hierarchy!Finalize(c)
        PROVE  Hierarchy!TypeOK'
    BY <1>2, <2>2 DEF Hierarchy!Finalize, Hierarchy!Ready, Hierarchy!TypeOK, Hierarchy!Defined
  <2>3. CASE Hierarchy!Conclude
    BY <1>2, <2>3 DEF Hierarchy!Conclude, Hierarchy!TypeOK, Hierarchy!Defined
  <2>4. CASE UNCHANGED Hierarchy!vars
    BY <1>2, <2>4 DEF Hierarchy!vars, Hierarchy!TypeOK, Hierarchy!Defined
  <2> QED BY <1>2, <2>1, <2>2, <2>3, <2>4 DEF Hierarchy!Next
<1> QED BY <1>1, <1>2, PTL DEF Hierarchy!Spec

(* and that the finalized classes never outgrow the least set that the     *)
(* definitions force: the order of the definitions cannot add to them.     *)
THEOREM FinalizedLeast == Hierarchy!Spec => []Hierarchy!FinalizedIsLeast
<1>1. Hierarchy!Init => Hierarchy!FinalizedIsLeast
  BY DEF Hierarchy!Init, Hierarchy!FinalizedIsLeast
<1>2. ASSUME Hierarchy!TypeOK, Hierarchy!FinalizedIsLeast, [Hierarchy!Next]_(Hierarchy!vars)
      PROVE  Hierarchy!FinalizedIsLeast'
  <2>1. SUFFICES ASSUME NEW S \in SUBSET Class,
                        \A d \in Hierarchy!Defined' : Bases'[d] \subseteq S => d \in S
                 PROVE  Finalized' \subseteq S
    BY DEF Bases, Hierarchy!FinalizedIsLeast, Hierarchy!ClosedUnderDefinition
  <2>2. ASSUME NEW c \in Class, NEW bs \in SUBSET Class, Hierarchy!Define(c, bs)
        PROVE  Finalized' \subseteq S
    <3>1. /\ Hierarchy!Defined' = Hierarchy!Defined \cup {c} /\ c \notin Hierarchy!Defined
          /\ Bases'[c] = bs
          /\ \A d \in Hierarchy!Defined : Bases'[d] = Bases[d]
      BY <2>2 DEF Bases, Hierarchy!Define, Hierarchy!Defined
    <3>2. Finalized \subseteq S
      BY <1>2, <2>1, <3>1 DEF Bases, Hierarchy!FinalizedIsLeast, Hierarchy!ClosedUnderDefinition
    <3>3. bs \subseteq Finalized => c \in S
      BY <2>1, <3>1, <3>2
    <3> QED BY <2>2, <3>2, <3>3 DEF Hierarchy!Define
  <2>3. ASSUME NEW c \in Class, Hierarchy!Finalize(c)
        PROVE  Finalized' \subseteq S
    <3>1. Finalized \subseteq S
      BY <1>2, <2>1, <2>3 DEF Bases, Hierarchy!Finalize, Hierarchy!FinalizedIsLeast,
      Hierarchy!ClosedUnderDefinition, Hierarchy!Defined
    <3>2. c \in S
      BY <2>1, <2>3, <3>1 DEF Bases, Hierarchy!Finalize, Hierarchy!Ready, Hierarchy!Defined
    <3> QED BY <2>3, <3>1, <3>2 DEF Hierarchy!Finalize
  <2>4. CASE Hierarchy!Conclude \/ UNCHANGED Hierarchy!vars
    BY <1>2, <2>1, <2>4
    DEF Bases, Hierarchy!Conclude, Hierarchy!vars, Hierarchy!FinalizedIsLeast,
      Hierarchy!ClosedUnderDefinition, Hierarchy!Defined
  <2> QED BY <1>2, <2>2, <2>3, <2>4 DEF Hierarchy!Next
<1> QED BY <1>1, <1>2, HierarchyTyped, PTL DEF Hierarchy!Spec

(* No class on a cycle or above an undefined class is finalized.           *)
THEOREM LeastCorrect == Spec => []NoClassFinalizedWithoutCause
<1>1. Hierarchy!Spec => []Hierarchy!FinalizedIsLeast
  BY FinalizedLeast
<1> QED BY <1>1, HierarchyImplemented, PTL
        DEF ImplementsHierarchy, NoClassFinalizedWithoutCause

-----------------------------------------------------------------------------
(* Every step of every cycle is reported.                                  *)

(* Definitions come one at a time.                                         *)
FinitelyManyProcessed == IsFiniteSet(Processed)

THEOREM ProcessedFinite == Spec => []FinitelyManyProcessed
<1>1. Init => FinitelyManyProcessed
  BY FS_EmptySet DEF Init, Processed, FinitelyManyProcessed
<1>2. ASSUME FinitelyManyProcessed, [Next]_vars
      PROVE  FinitelyManyProcessed'
  <2>1. ASSUME NEW c \in Class, NEW bs \in HeritageChoices, ProcessClassDefinition(c, bs)
        PROVE  Processed' = Processed \cup {c}
    BY <2>1 DEF ProcessClassDefinition, Processed
  <2>2. ASSUME NEW c \in Class, NEW bs \in HeritageChoices, ProcessClassDefinition(c, bs)
        PROVE  FinitelyManyProcessed'
    BY <1>2, <2>1, <2>2, FS_AddElement DEF FinitelyManyProcessed
  <2>3. CASE UNCHANGED heritage
    BY <1>2, <2>3 DEF Processed, FinitelyManyProcessed
  <2> QED BY <1>2, <2>2, <2>3
          DEF Next, ProcessClassReference, ReleaseSuccessor, ReturnFromFinalizeClass, Build,
              SweepNodes, FinalizePendingConstructedClass, ValidateClassTree, vars
<1> QED BY <1>1, <1>2, PTL DEF Spec

(* What `above' in OriginAncestors(d) is defined to be.                    *)
Climbs(d, above) ==
  above = [n \in Nat |->
             IF n = 0
             THEN {b \in Class : Waits(d, b)}
             ELSE above[n - 1] \cup {b \in Class : \E a \in above[n - 1] : Waits(a, b)}]

Climb(d) == CHOOSE above : Climbs(d, above)

LEMMA ClimbExists ==
  ASSUME NEW d
  PROVE  Climbs(d, Climb(d))
<1>1. PICK base : base = {b \in Class : Waits(d, b)}
  OBVIOUS
<1>2. PICK next : next = [nearer \in SUBSET Class |->
                            nearer \cup {b \in Class : \E a \in nearer : Waits(a, b)}]
  OBVIOUS
<1>3. base \in SUBSET Class /\ next \in [SUBSET Class -> SUBSET Class]
  BY <1>1, <1>2
<1>4. PICK step : step = [n \in Nat |-> next]
  OBVIOUS
<1>5. step \in [Nat -> [SUBSET Class -> SUBSET Class]]
  BY <1>3, <1>4
<1>6. PICK f : Repeats(SUBSET Class, base, step, f)
  BY <1>3, <1>5, Iteration
<1>7. ASSUME NEW n \in Nat, n # 0
      PROVE  f[n] = f[n - 1] \cup {b \in Class : \E a \in f[n - 1] : Waits(a, b)}
  <2>1. n - 1 \in Nat /\ (n - 1) + 1 = n
    BY <1>7
  <2>2. f[n] = step[n - 1][f[n - 1]] /\ f[n - 1] \in SUBSET Class
    BY <1>6, <2>1 DEF Repeats
  <2>3. f[n] = next[f[n - 1]]
    BY <1>4, <2>1, <2>2
  <2> QED BY <1>2, <2>2, <2>3
<1>8. f = [n \in Nat |->
             IF n = 0 THEN base
             ELSE f[n - 1] \cup {b \in Class : \E a \in f[n - 1] : Waits(a, b)}]
  <2>1. \A n \in Nat : f[n] = IF n = 0 THEN base
             ELSE f[n - 1] \cup {b \in Class : \E a \in f[n - 1] : Waits(a, b)}
    BY <1>6, <1>7 DEF Repeats
  <2> QED BY <1>6, <2>1 DEF Repeats
<1>9. Climbs(d, f)
  BY <1>1, <1>8 DEF Climbs
<1> QED BY <1>9 DEF Climb

LEMMA ClimbSteps ==
  ASSUME NEW d
  PROVE  /\ Climb(d)[0] = {b \in Class : Waits(d, b)}
         /\ \A n \in Nat :
              Climb(d)[n + 1] = Climb(d)[n] \cup
                                  {b \in Class : \E a \in Climb(d)[n] : Waits(a, b)}
<1>1. PICK f : f = Climb(d)
  OBVIOUS
<1>2. Climbs(d, f)
  BY <1>1, ClimbExists
<1>3. f[0] = {b \in Class : Waits(d, b)}
  BY <1>2 DEF Climbs
<1>4. ASSUME NEW n \in Nat
      PROVE  f[n + 1] = f[n] \cup {b \in Class : \E a \in f[n] : Waits(a, b)}
  <2>1. n + 1 \in Nat /\ n + 1 # 0 /\ (n + 1) - 1 = n
    OBVIOUS
  <2> QED BY <1>2, <2>1 DEF Climbs
<1> QED BY <1>1, <1>3, <1>4

LEMMA AncestorsAreClimbed ==
  ASSUME NEW d
  PROVE  OriginAncestors(d) = Climb(d)[MaxDepth]
BY DEF OriginAncestors, Climb, Climbs

(* A class inherits from what it waits for, and from what that inherits    *)
(* from: the way up to an ancestor can be taken from its first step.       *)
LEMMA AncestorsBeginWithBase ==
  ASSUME NEW d
  PROVE  \A n \in Nat : \A c \in Class :
           d \in Climb(c)[n] => \E a \in Class : Waits(c, a) /\ (a = d \/ d \in Climb(a)[n])
<1> DEFINE T == {n \in Nat : \A c \in Class :
                   /\ Climb(c)[0] \subseteq Climb(c)[n]
                   /\ \A x \in Climb(c)[n] :
                        \E a \in Class : Waits(c, a) /\ (a = x \/ x \in Climb(a)[n])}
<1>1. 0 \in T
  BY ClimbSteps
<1>2. ASSUME NEW n \in Nat, n \in T
      PROVE  n + 1 \in T
  <2>1. SUFFICES ASSUME NEW c \in Class
                 PROVE  /\ Climb(c)[0] \subseteq Climb(c)[n + 1]
                        /\ \A x \in Climb(c)[n + 1] :
                             \E a \in Class : Waits(c, a) /\ (a = x \/ x \in Climb(a)[n + 1])
    BY <1>2
  <2>2. \A a \in Class : Climb(a)[n] \subseteq Climb(a)[n + 1]
    BY ClimbSteps
  <2>3. ASSUME NEW x \in Climb(c)[n]
        PROVE  \E a \in Class : Waits(c, a) /\ (a = x \/ x \in Climb(a)[n + 1])
    BY <1>2, <2>2
  <2>4. ASSUME NEW x \in Class, NEW e \in Climb(c)[n], Waits(e, x)
        PROVE  \E a \in Class : Waits(c, a) /\ (a = x \/ x \in Climb(a)[n + 1])
    <3>1. PICK a \in Class : Waits(c, a) /\ (a = e \/ e \in Climb(a)[n])
      BY <1>2
    <3>2. CASE a = e
      <4>1. x \in Climb(a)[0]
        BY <2>4, <3>2, ClimbSteps
      <4>2. x \in Climb(a)[n + 1]
        BY <1>2, <2>2, <4>1
      <4> QED BY <3>1, <4>2
    <3>3. CASE e \in Climb(a)[n]
      <4>1. x \in Climb(a)[n + 1]
        BY <2>4, <3>3, ClimbSteps
      <4> QED BY <3>1, <4>1
    <3> QED BY <3>1, <3>2, <3>3
  <2>5. \A x \in Climb(c)[n + 1] :
          x \in Climb(c)[n] \/ (x \in Class /\ \E e \in Climb(c)[n] : Waits(e, x))
    <3>1. Climb(c)[n + 1] = Climb(c)[n] \cup
                              {x \in Class : \E e \in Climb(c)[n] : Waits(e, x)}
      BY ClimbSteps
    <3> QED BY <3>1
  <2> QED BY <1>2, <2>2, <2>3, <2>4, <2>5
<1> HIDE DEF T
<1>3. \A n \in Nat : n \in T
  BY <1>1, <1>2, SetInduction
<1> QED BY <1>3 DEF T

(* A class on a cycle is not finalized: the classes that are not above the *)
(* cycle are closed under the definitions.                                 *)
LEMMA CycleIsNotFinalized ==
  ASSUME TypeOK, NoClassFinalizedWithoutCause, MaxDepth \in Nat,
         NEW d \in Processed, NEW b \in Processed, Waits(d, b),
         d = b \/ d \in OriginAncestors(b)
  PROVE  b \notin Finalized /\ d \notin Finalized
<1> DEFINE OnWay(x) == x = d \/ d \in OriginAncestors(x)
<1>1. d \in Class /\ b \in Class
  BY DEF TypeOK
<1>2. ASSUME NEW x \in Class, OnWay(x)
      PROVE  \E a \in Class : Waits(x, a) /\ OnWay(a)
  <2>1. CASE x = d
    BY <1>1, <2>1
  <2>2. CASE d \in OriginAncestors(x)
    BY <2>2, AncestorsAreClimbed, AncestorsBeginWithBase
  <2> QED BY <1>2, <2>1, <2>2
<1>3. PICK rest : rest = {x \in Class : ~ OnWay(x)}
  OBVIOUS
<1>4. Hierarchy!ClosedUnderDefinition(rest)
  <2>1. SUFFICES ASSUME NEW c \in Processed, OriginsOf(heritage[c]) \subseteq rest
                 PROVE  c \in rest
    BY DEF Hierarchy!ClosedUnderDefinition, Hierarchy!Defined
  <2>2. c \in Class
    BY DEF TypeOK
  <2>3. SUFFICES ASSUME OnWay(c) PROVE FALSE
    BY <1>3, <2>2
  <2>4. PICK a \in Class : Waits(c, a) /\ OnWay(a)
    BY <1>2, <2>2, <2>3
  <2> QED BY <1>3, <2>1, <2>4 DEF Waits
<1>5. Finalized \subseteq rest
  BY <1>3, <1>4 DEF NoClassFinalizedWithoutCause, Hierarchy!FinalizedIsLeast
<1> QED BY <1>1, <1>3, <1>5

LEMMA CycleStepReported ==
  ASSUME TypeOK, Inv, NoClassFinalizedWithoutCause, MaxDepth \in Nat
  PROVE  EveryCycleStepReported
<1>1. SUFFICES ASSUME phase = "built", NEW d \in Processed, NEW b \in Processed,
                      Waits(d, b), d = b \/ d \in OriginAncestors(b)
               PROVE  {b, d} \in Reported("CYCLE")
  BY DEF EveryCycleStepReported
<1>2. b \notin Finalized /\ d \in Waiting /\ b \in Pending(d)
  BY <1>1, CycleIsNotFinalized DEF Waiting, Pending, Waits
<1>3. <<b, d>> \in edges
  BY <1>2 DEF Inv, WaitingHaveEdges
<1>4. b \in nodes
  <2>1. \A e \in edges : e[1] \in nodes \cup Finalized
    BY DEF Inv, EdgesAreJustified
  <2> QED BY <1>2, <1>3, <2>1
<1>5. <<b, d>> \in CycleEdges
  BY <1>1, <1>3, <1>4 DEF CycleEdges
<1>6. CycleError(b, d) \in errors
  <2>1. CycleError(<<b, d>>[1], <<b, d>>[2]) \in errors
    BY <1>1, <1>5 DEF Inv, ErrorsFollowGraph
  <2> QED BY <2>1
<1> QED BY <1>6 DEF Reported, CycleError

(* Every step of every cycle of definitions is reported by Build, however  *)
(* many definitions there are and in whatever order they came.             *)
THEOREM CyclesReportedCorrect == Spec => []EveryCycleStepReported
<1>1. FinitelyManyProcessed => MaxDepth \in Nat
  BY FS_CardinalityType DEF MaxDepth, FinitelyManyProcessed
<1>2. TypeOK /\ Inv /\ NoClassFinalizedWithoutCause /\ MaxDepth \in Nat
        => EveryCycleStepReported
  BY CycleStepReported
<1> QED BY <1>1, <1>2, TypeCorrect, InvCorrect, LeastCorrect, ProcessedFinite, PTL

-----------------------------------------------------------------------------
(* The class lists.                                                        *)

(* Every class list is made of its own class and of what the program names *)
(* as a base, the list of a class of the program of finalized classes, and *)
(* the order in which generic classes were finalized ranks them.           *)
ListsAreComplete == CompleteLists(class_list, Inherited)

ListsInv == ListsAreComplete /\ ConstructedAfterGeneric

(* FinalizeClass is called for a class whose bases are finalized.          *)
ReadyWith(bases_of, c) ==
  /\ IsFiniteSet(DOMAIN bases_of)
  /\ c \in Class /\ c \notin Finalized
  /\ DOMAIN bases_of = Processed \cup {c}
  /\ \A d \in DOMAIN bases_of : bases_of[d] \in Seq(ClassValue)
  /\ \A d \in Processed : bases_of[d] = heritage[d]
  /\ OriginsOf(bases_of[c]) \subseteq Finalized

LEMMA ReadyMayBeFinalized ==
  ASSUME TypeOK, Inv, NEW bases_of, NEW c, ReadyWith(bases_of, c)
  PROVE  /\ MayFinalize(class_list, bases_of, c)
         /\ Inherited \subseteq NamedBases(bases_of)
<1> USE DEF ReadyWith
<1>1. Inherited \subseteq NamedBases(bases_of)
  BY DEF Inherited, NamedBases
<1>2. DOMAIN bases_of \subseteq Class
  BY DEF TypeOK
<1>3. c \notin DOMAIN class_list
  BY DEF Finalized
<1>4. ASSUME NEW d \in DOMAIN bases_of, d = c \/ d \in DOMAIN class_list
      PROVE  OriginsOf(bases_of[d]) \subseteq DOMAIN class_list
  <2>1. d = c \/ (d \in Finalized /\ d \in Processed)
    BY <1>2, <1>4 DEF Finalized
  <2>2. OriginsOf(bases_of[d]) \subseteq Finalized
    BY <2>1 DEF Inv, FinalizedFollowBases
  <2> QED BY <2>2 DEF Finalized
<1>5. MayFinalize(class_list, bases_of, c)
  BY <1>2, <1>3, <1>4 DEF MayFinalize
<1> QED BY <1>1, <1>5

LEMMA FinalizeClassKeepsLists ==
  ASSUME TypeOK, Inv, ListsAreComplete,
         NEW bases_of, NEW c, ReadyWith(bases_of, c),
         NEW after, after = ListsFinalizing(class_list, bases_of, c)
  PROVE  /\ CompleteLists(after, NamedBases(bases_of))
         /\ DOMAIN class_list \cup {c} \subseteq DOMAIN after
         /\ DOMAIN after \subseteq DOMAIN class_list \cup {c} \cup OfFinalized(class_list)
<1>1. MayFinalize(class_list, bases_of, c) /\ Inherited \subseteq NamedBases(bases_of)
  BY ReadyMayBeFinalized
<1>2. CompleteLists(class_list, Inherited) /\ ListsAreSound(class_list, Inherited)
  BY DEF ListsAreComplete, CompleteLists
<1>3. CompleteLists(after, NamedBases(bases_of))
  BY <1>1, <1>2, ListsFinalizingComplete
<1> QED BY <1>1, <1>2, <1>3, ListsFinalizingSound

(* The constructed classes that got their lists on the way.                *)
LEMMA NewListsFollowGeneric ==
  ASSUME ConstructedAfterGeneric, Finalized \subseteq Finalized',
         pending_constructed_classes \subseteq pending_constructed_classes',
         phase \notin {"process", "sweep"} => phase' \notin {"process", "sweep"},
         \A k \in DOMAIN class_list' :
           \/ k \in DOMAIN class_list \cup Class \cup OfFinalized(class_list)
           \/ k \in pending_constructed_classes' /\ phase' \notin {"process", "sweep"}
  PROVE  ConstructedAfterGeneric'
<1>1. SUFFICES ASSUME NEW k \in DOMAIN class_list', k \notin Class
               PROVE  \/ k.generic_class \in Finalized'
                      \/ /\ k \in pending_constructed_classes'
                         /\ phase' \notin {"process", "sweep"}
  BY DEF ConstructedAfterGeneric
<1>2. CASE k \in DOMAIN class_list
  BY <1>1, <1>2 DEF ConstructedAfterGeneric
<1>3. CASE k \in OfFinalized(class_list)
  <2>1. k.generic_class \in DOMAIN class_list /\ k.generic_class \in Class
    BY <1>3 DEF OfFinalized, ConstructedClass, Class
  <2> QED BY <2>1 DEF Finalized
<1> QED BY <1>1, <1>2, <1>3

LEMMA CompleteListsGrow ==
  ASSUME NEW lists, NEW before, CompleteLists(lists, before),
         NEW after, before \subseteq after
  PROVE  CompleteLists(lists, after)
<1>1. ASSUME NEW c \in DOMAIN lists
      PROVE  ListIsSound(lists, after, c)
  BY DEF CompleteLists, ListsAreSound, ListIsSound
<1> QED BY <1>1 DEF CompleteLists, ListsAreSound

(* A definition or a release gives one class its list, or none.            *)
ListsGrow ==
  /\ DOMAIN heritage' \subseteq Class
  /\ \A d \in Processed : d \in DOMAIN heritage' /\ heritage'[d] = heritage[d]
  /\ UNCHANGED <<pending_constructed_classes, phase>>
  /\ \/ class_list' = class_list
     \/ \E c : /\ ReadyWith(heritage', c)
               /\ class_list' = ListsFinalizing(class_list, heritage', c)

LEMMA DefinitionGrowsLists ==
  ASSUME TypeOK, Inv, FinitelyManyProcessed,
         NEW c \in Class, NEW bs \in HeritageChoices, ProcessClassDefinition(c, bs)
  PROVE  ListsGrow
<1>1. /\ heritage' = [d \in Processed \cup {c} |-> IF d = c THEN bs ELSE heritage[d]]
      /\ c \notin Processed
      /\ UNCHANGED <<pending_constructed_classes, phase>>
      /\ IF OriginsOf(bs) \ Finalized = {} THEN FinalizeClass(c, heritage')
                                           ELSE class_list' = class_list
  BY DEF ProcessClassDefinition
<1>2. PICK h : h = heritage'
  OBVIOUS
<1>3. /\ DOMAIN h = Processed \cup {c} /\ h[c] = bs
      /\ \A d \in Processed : h[d] = heritage[d]
  BY <1>1, <1>2
<1>4. \A d \in DOMAIN h : h[d] \in Seq(ClassValue)
  BY <1>3, ChoicesAssumption DEF TypeOK
<1>5. IsFiniteSet(DOMAIN h)
  BY <1>3, FS_AddElement DEF FinitelyManyProcessed
<1>6. c \notin Finalized
  BY <1>1 DEF Inv, FinalizedFollowBases
<1>7. CASE OriginsOf(bs) \subseteq Finalized
  <2>1. class_list' = ListsFinalizing(class_list, h, c)
    BY <1>1, <1>2, <1>7 DEF FinalizeClass
  <2>2. ReadyWith(h, c)
    BY <1>3, <1>4, <1>5, <1>6, <1>7 DEF ReadyWith
  <2> QED BY <1>1, <1>2, <1>3, <2>1, <2>2 DEF ListsGrow, TypeOK
<1>8. CASE ~ (OriginsOf(bs) \subseteq Finalized)
  BY <1>1, <1>2, <1>3, <1>8 DEF ListsGrow, TypeOK
<1> QED BY <1>7, <1>8

LEMMA ReleaseGrowsLists ==
  ASSUME TypeOK, Inv, FinitelyManyProcessed, ReleaseSuccessor
  PROVE  ListsGrow
<1> DEFINE t == stack[Len(stack)].clazz
<1>1. stack # <<>> /\ UNCHANGED <<heritage, pending_constructed_classes, phase>>
  BY DEF ReleaseSuccessor
<1>2. PICK d \in stack[Len(stack)].successors :
        /\ edges' = EdgesWithout(t, d)
        /\ IF HasPredecessor(EdgesWithout(t, d), d)
           THEN UNCHANGED class_list ELSE FinalizeClass(d, heritage)
  BY DEF ReleaseSuccessor
<1>3. t \in Finalized /\ d \in Waiting /\ d \in Class
  BY <1>1, <1>2, ReleaseFollowsGraph DEF Waiting, TypeOK
<1>4. /\ DOMAIN heritage' \subseteq Class
      /\ \A e \in Processed : e \in DOMAIN heritage' /\ heritage'[e] = heritage[e]
  BY <1>1 DEF TypeOK, Processed
<1>5. CASE HasPredecessor(EdgesWithout(t, d), d)
  BY <1>1, <1>2, <1>4, <1>5 DEF ListsGrow
<1>6. CASE ~ HasPredecessor(EdgesWithout(t, d), d)
  <2>1. class_list' = ListsFinalizing(class_list, heritage, d)
    BY <1>2, <1>6 DEF FinalizeClass
  <2>2. OriginsOf(heritage[d]) \subseteq Finalized
    BY <1>3, <1>6, ReleasedIsReady
  <2>3. DOMAIN heritage = Processed \cup {d} /\ d \notin Finalized
    BY <1>3 DEF Waiting, Processed
  <2>4. IsFiniteSet(DOMAIN heritage)
    BY DEF FinitelyManyProcessed, Processed
  <2>5. \A e \in DOMAIN heritage : heritage[e] \in Seq(ClassValue)
    BY DEF TypeOK, Processed
  <2>6. ReadyWith(heritage, d)
    BY <1>3, <2>2, <2>3, <2>4, <2>5 DEF ReadyWith
  <2> QED BY <1>1, <1>4, <2>1, <2>6 DEF ListsGrow
<1> QED BY <1>5, <1>6

LEMMA GrowthKeepsLists ==
  ASSUME TypeOK, Inv, ListsInv, ListsGrow
  PROVE  ListsInv'
<1>1. PICK h : h = heritage'
  OBVIOUS
<1>2. Inherited' = NamedBases(h) /\ Inherited \subseteq Inherited'
  BY <1>1 DEF ListsGrow, Inherited, NamedBases, Processed
<1>3. UNCHANGED <<pending_constructed_classes, phase>>
  BY DEF ListsGrow
<1>4. ASSUME NEW c, ReadyWith(h, c), class_list' = ListsFinalizing(class_list, h, c)
      PROVE  ListsInv'
  <2>1. PICK after : after = class_list'
    OBVIOUS
  <2>2. /\ CompleteLists(after, NamedBases(h))
        /\ DOMAIN class_list \cup {c} \subseteq DOMAIN after
        /\ DOMAIN after \subseteq DOMAIN class_list \cup {c} \cup OfFinalized(class_list)
    BY <1>4, <2>1, FinalizeClassKeepsLists DEF ListsInv
  <2>3. ListsAreComplete'
    BY <1>2, <2>1, <2>2 DEF ListsAreComplete
  <2>4. Finalized \subseteq Finalized' /\ c \in Class
    BY <1>4, <2>1, <2>2 DEF Finalized, ReadyWith
  <2>5. ConstructedAfterGeneric'
    BY <1>3, <2>1, <2>2, <2>4, NewListsFollowGeneric DEF ListsInv
  <2> QED BY <2>3, <2>5 DEF ListsInv
<1>5. CASE class_list' = class_list
  <2>1. ListsAreComplete'
    BY <1>2, <1>5, CompleteListsGrow DEF ListsInv, ListsAreComplete
  <2>2. ConstructedAfterGeneric'
    BY <1>3, <1>5 DEF ListsInv, ConstructedAfterGeneric, Finalized
  <2> QED BY <2>1, <2>2 DEF ListsInv
<1> QED BY <1>1, <1>4, <1>5 DEF ListsGrow

(* A reference makes a list when the generic class has one, Build in any   *)
(* case.                                                                   *)
LEMMA ConstructionKeepsLists ==
  ASSUME TypeOK, ListsInv, NEW k \in ConstructedClass,
         class_list' = FinalizeConstructedClass(class_list, k),
         UNCHANGED <<heritage, pending_constructed_classes>>,
         phase \notin {"process", "sweep"} => phase' \notin {"process", "sweep"},
         \/ k.generic_class \in Finalized
         \/ k \in pending_constructed_classes /\ phase' \notin {"process", "sweep"}
  PROVE  ListsInv'
<1>1. PICK after : after = class_list'
  OBVIOUS
<1>2. /\ CompleteLists(after, Inherited)
      /\ DOMAIN class_list \subseteq DOMAIN after
      /\ DOMAIN after \subseteq DOMAIN class_list \cup {k} \cup OfFinalized(class_list)
  <2>1. CompleteLists(class_list, Inherited) /\ ListsAreSound(class_list, Inherited)
    BY DEF ListsInv, ListsAreComplete, CompleteLists
  <2>2. CompleteLists(after, Inherited)
    BY <1>1, <2>1, FinalizeConstructedClassComplete
  <2> QED BY <1>1, <2>1, <2>2, FinalizeConstructedClassSound
<1>3. Inherited' = Inherited
  BY DEF Inherited, Processed
<1>4. ListsAreComplete'
  BY <1>1, <1>2, <1>3 DEF ListsAreComplete
<1>5. Finalized \subseteq Finalized'
  BY <1>1, <1>2 DEF Finalized
<1>6. k.generic_class \in Finalized => k \in OfFinalized(class_list)
  BY DEF OfFinalized, Finalized
<1>7. ConstructedAfterGeneric'
  BY <1>1, <1>2, <1>5, <1>6, NewListsFollowGeneric DEF ListsInv
<1> QED BY <1>4, <1>7 DEF ListsInv

(* The class lists are sound in every state, and no constructed class has  *)
(* a list before its generic class but those that Build finalizes last.    *)
THEOREM ListsCorrect == Spec => []ListsInv
<1>1. Init => ListsInv
  <2>1. ASSUME Init PROVE class_list = [c \in {} |-> <<>>]
    BY <2>1 DEF Init
  <2>2. ASSUME Init PROVE DOMAIN class_list = {}
    BY <2>1, <2>2
  <2>3. FinalizedGenerics(class_list) = {} => AreRanked(class_list)
    <3>1. RankedBelow(class_list, [g \in GenericClass |-> 0], Cardinality(FinalizedGenerics(class_list))) \/ FinalizedGenerics(class_list) # {}
      BY DEF RankedBelow
    <3> QED BY <3>1 DEF AreRanked
  <2> QED BY <2>2, <2>3 DEF ListsInv, ListsAreComplete, CompleteLists, ListsAreSound,
                            NamesAreFinalized, FinalizedGenerics, ConstructedAfterGeneric
<1>2. ASSUME TypeOK, Inv, FinitelyManyProcessed, ListsInv, [Next]_vars
      PROVE  ListsInv'
  <2>1. ASSUME NEW c \in Class, NEW bs \in HeritageChoices, ProcessClassDefinition(c, bs)
        PROVE  ListsInv'
    BY <1>2, <2>1, DefinitionGrowsLists, GrowthKeepsLists
  <2>2. ASSUME NEW k \in ReferenceChoices, ProcessClassReference(k)
        PROVE  ListsInv'
    <3>1. k \in ConstructedClass /\ UNCHANGED <<heritage, phase>>
      BY <2>2, ChoicesAssumption DEF ProcessClassReference
    <3>2. CASE k.generic_class \in Finalized
      BY <1>2, <2>2, <3>1, <3>2, ConstructionKeepsLists DEF ProcessClassReference
    <3>3. CASE k.generic_class \notin Finalized
      <4>1. /\ class_list' = class_list
            /\ pending_constructed_classes \subseteq pending_constructed_classes'
        BY <2>2, <3>3 DEF ProcessClassReference
      <4> QED BY <1>2, <3>1, <4>1
              DEF ListsInv, ListsAreComplete, ConstructedAfterGeneric, Finalized, Inherited, Processed
    <3> QED BY <3>2, <3>3
  <2>3. CASE ReleaseSuccessor
    BY <1>2, <2>3, ReleaseGrowsLists, GrowthKeepsLists
  <2>4. CASE SweepNodes
    <3>1. /\ UNCHANGED <<heritage, class_list, pending_constructed_classes>>
          /\ phase' = "construct"
      BY <1>2, <2>4, SweepFindsNothing DEF SweepNodes
    <3> QED BY <1>2, <3>1
            DEF ListsInv, ListsAreComplete, ConstructedAfterGeneric, Finalized, Inherited, Processed
  <2>5. CASE FinalizePendingConstructedClass
    <3>1. CASE UNCHANGED class_list
      BY <1>2, <2>5, <3>1
      DEF FinalizePendingConstructedClass, ListsInv, ListsAreComplete, ConstructedAfterGeneric,
          Finalized, Inherited, Processed
    <3>2. ASSUME NEW k \in pending_constructed_classes,
                 class_list' = FinalizeConstructedClass(class_list, k), UNCHANGED phase
          PROVE  ListsInv'
      <4>1. k \in ConstructedClass
        BY <1>2 DEF TypeOK
      <4> QED BY <1>2, <2>5, <3>2, <4>1, ConstructionKeepsLists
              DEF FinalizePendingConstructedClass
    <3> QED BY <2>5, <3>1, <3>2 DEF FinalizePendingConstructedClass
  <2>6. CASE Build \/ ValidateClassTree
    BY <1>2, <2>6
    DEF Build, ValidateClassTree, ListsInv, ListsAreComplete, ConstructedAfterGeneric,
        Finalized, Inherited, Processed
  <2>7. CASE ReturnFromFinalizeClass \/ UNCHANGED vars
    BY <1>2, <2>7
    DEF ReturnFromFinalizeClass, vars, ListsInv, ListsAreComplete, ConstructedAfterGeneric,
        Finalized, Inherited, Processed
  <2> QED BY <1>2, <2>1, <2>2, <2>3, <2>4, <2>5, <2>6, <2>7 DEF Next
<1> QED BY <1>1, <1>2, TypeCorrect, InvCorrect, ProcessedFinite, PTL DEF Spec

(* No list that the analysis sees before Build ends is premature.          *)
THEOREM AfterGenericCorrect == Spec => []ConstructedAfterGeneric
<1>1. ListsInv => ConstructedAfterGeneric
  BY DEF ListsInv
<1> QED BY <1>1, ListsCorrect, PTL

(* Every class that a class list names has a class list, whatever calls    *)
(* made the constructed classes among them.                                *)
THEOREM NamedCorrect == Spec => []NamedClassesAreFinalized
<1>1. ListsInv => NamedClassesAreFinalized
  BY DEF ListsInv, ListsAreComplete, CompleteLists, NamesAreFinalized, NamedClassesAreFinalized
<1> QED BY <1>1, ListsCorrect, PTL

(* ConstructClass meets a bare generic class only where the program        *)
(* inherits one.                                                           *)
THEOREM BareGenericsCorrect == Spec => []BareGenericsAreInherited
<1>1. ASSUME ListsInv
      PROVE  BareGenericsAreInherited
  <2>1. SUFFICES ASSUME NEW c \in DOMAIN class_list, c \notin Class,
                        NEW i \in 2 .. Len(class_list[c]),
                        class_list[c][i] \in GenericClass
                 PROVE  class_list[c][i] \in Inherited
    BY DEF BareGenericsAreInherited
  <2>2. /\ class_list[c] \in Seq(ClassValue)
        /\ \A v \in Range(class_list[c]) : v \in Class => v \in Inherited
    BY <1>1, <2>1 DEF ListsInv, ListsAreComplete, CompleteLists, ListsAreSound, ListIsSound
  <2>3. class_list[c][i] \in Range(class_list[c])
    BY <2>1, <2>2 DEF Range
  <2> QED BY <2>1, <2>2, <2>3 DEF Class
<1> QED BY <1>1, ListsCorrect, PTL

-----------------------------------------------------------------------------
(* The lists of the classes of the program are in breadth-first order.     *)

ListsInOrder == \A c \in Finalized : BreadthFirst(heritage, c, class_list[c])

(* What is on a list has been processed: later definitions do not add      *)
(* bases to it.                                                            *)
LEMMA ListedBasesKept ==
  ASSUME TypeOK, Inv, ListsAreComplete,
         NEW later, DOMAIN later \subseteq Class,
         \A d \in Processed : d \in DOMAIN later /\ later[d] = heritage[d],
         NEW c \in Finalized, NEW v \in Range(class_list[c])
  PROVE  BaseClassesOf(later, v) = BaseClassesOf(heritage, v)
<1>1. CASE v \in Class
  <2>1. v = c \/ v \in DOMAIN class_list
    <3>1. ListIsSound(class_list, Inherited, c) /\ c \in Class
      BY DEF ListsAreComplete, CompleteLists, ListsAreSound, Finalized
    <3> QED BY <1>1, <3>1 DEF ListIsSound, OriginOf
  <2>2. v \in Processed
    BY <1>1, <2>1 DEF Finalized, Inv, FinalizedFollowBases
  <2> QED BY <2>2 DEF BaseClassesOf, Processed
<1>2. CASE v \notin Class
  BY <1>2 DEF BaseClassesOf, TypeOK, Processed
<1> QED BY <1>1, <1>2

LEMMA GrowthKeepsOrder ==
  ASSUME TypeOK, Inv, ListsAreComplete, ListsInOrder, ListsGrow
  PROVE  ListsInOrder'
<1>1. PICK h : h = heritage'
  OBVIOUS
<1>2. DOMAIN h \subseteq Class /\ \A d \in Processed : d \in DOMAIN h /\ h[d] = heritage[d]
  BY <1>1 DEF ListsGrow
<1>3. ASSUME NEW c \in Finalized
      PROVE  BreadthFirst(h, c, class_list[c])
  BY <1>2, <1>3, ListedBasesKept, BreadthFirstKept DEF ListsInOrder
<1>4. CASE class_list' = class_list
  BY <1>1, <1>3, <1>4 DEF ListsInOrder, Finalized
<1>5. ASSUME NEW c, ReadyWith(h, c), class_list' = ListsFinalizing(class_list, h, c)
      PROVE  ListsInOrder'
  <2>1. PICK after : after = class_list'
    OBVIOUS
  <2>2. MayFinalize(class_list, h, c) /\ ListsAreSound(class_list, Inherited)
    BY <1>5, ReadyMayBeFinalized DEF ListsAreComplete, CompleteLists
  <2>3. /\ after[c] = BreadthFirstClassList(h, c)
        /\ \A d \in DOMAIN class_list : after[d] = class_list[d]
    BY <1>5, <2>1, <2>2, ListsFinalizingAdds
  <2>4. BreadthFirst(h, c, after[c])
    BY <2>2, <2>3, ProgramListIsBreadthFirst
  <2>5. Finalized' \subseteq Finalized \cup {c}
    <3>1. DOMAIN after \subseteq DOMAIN class_list \cup {c} \cup OfFinalized(class_list)
      BY <1>5, <2>1, FinalizeClassKeepsLists
    <3>2. \A k \in OfFinalized(class_list) : k \notin Class
      BY ClassAssumption DEF OfFinalized
    <3> QED BY <2>1, <3>1, <3>2 DEF Finalized
  <2>6. ASSUME NEW d \in Finalized'
        PROVE  BreadthFirst(h, d, after[d])
    <3>1. CASE d = c
      BY <2>4, <3>1
    <3>2. CASE d # c
      <4>1. d \in Finalized /\ d \in DOMAIN class_list
        BY <2>5, <3>2 DEF Finalized
      <4> QED BY <1>3, <2>3, <4>1
    <3> QED BY <3>1, <3>2
  <2> QED BY <1>1, <2>1, <2>6 DEF ListsInOrder
<1> QED BY <1>1, <1>4, <1>5 DEF ListsGrow

LEMMA ConstructionKeepsOrder ==
  ASSUME TypeOK, ListsInOrder, NEW k \in ConstructedClass,
         class_list' = FinalizeConstructedClass(class_list, k), UNCHANGED heritage
  PROVE  ListsInOrder'
<1>1. PICK after : after = FinalizeConstructedClass(class_list, k)
  OBVIOUS
<1>2. Finalized' = Finalized
  BY FinalizeConstructedKeepsFinalized
<1>3. ASSUME NEW d \in Finalized
      PROVE  after[d] = class_list[d]
  <2>1. d \in DOMAIN class_list /\ d # k
    BY <1>3, ClassAssumption DEF Finalized
  <2> QED BY <1>1, <2>1, FinalizeConstructedClassKeeps
<1> QED BY <1>1, <1>2, <1>3 DEF ListsInOrder

THEOREM OrderKept == Spec => []ListsInOrder
<1>1. Init => ListsInOrder
  BY DEF Init, ListsInOrder, Finalized
<1>2. ASSUME TypeOK, Inv, FinitelyManyProcessed, ListsInv, ListsInOrder, [Next]_vars
      PROVE  ListsInOrder'
  <2>1. ListsAreComplete
    BY <1>2 DEF ListsInv
  <2>2. CASE ListsGrow
    BY <1>2, <2>1, <2>2, GrowthKeepsOrder
  <2>3. ASSUME NEW k \in ConstructedClass,
               class_list' = FinalizeConstructedClass(class_list, k), UNCHANGED heritage
        PROVE  ListsInOrder'
    BY <1>2, <2>3, ConstructionKeepsOrder
  <2>4. CASE UNCHANGED <<heritage, class_list>>
    BY <1>2, <2>4 DEF ListsInOrder, Finalized
  <2>5. ASSUME NEW c \in Class, NEW bs \in HeritageChoices, ProcessClassDefinition(c, bs)
        PROVE  ListsInOrder'
    BY <1>2, <2>2, <2>5, DefinitionGrowsLists
  <2>6. ASSUME NEW k \in ReferenceChoices, ProcessClassReference(k)
        PROVE  ListsInOrder'
    <3>1. k \in ConstructedClass
      BY ChoicesAssumption
    <3> QED BY <2>3, <2>4, <2>6, <3>1 DEF ProcessClassReference
  <2>7. CASE ReleaseSuccessor
    BY <1>2, <2>2, <2>7, ReleaseGrowsLists
  <2>8. CASE SweepNodes
    BY <1>2, <2>4, <2>8, SweepFindsNothing DEF SweepNodes
  <2>9. CASE FinalizePendingConstructedClass
    <3>1. pending_constructed_classes \subseteq ConstructedClass
      BY <1>2 DEF TypeOK
    <3> QED BY <2>3, <2>4, <2>9, <3>1 DEF FinalizePendingConstructedClass
  <2>10. CASE Build \/ ValidateClassTree \/ ReturnFromFinalizeClass \/ UNCHANGED vars
    BY <2>4, <2>10 DEF Build, ValidateClassTree, ReturnFromFinalizeClass, vars
  <2> QED BY <1>2, <2>5, <2>6, <2>7, <2>8, <2>9, <2>10 DEF Next
<1> QED BY <1>1, <1>2, TypeCorrect, InvCorrect, ProcessedFinite, ListsCorrect, PTL DEF Spec

(* What `within' in AncestorsWithin(c, depth) is defined to be.            *)
Reaches(c, within) ==
  within = [n \in Nat |->
              IF n = 0
              THEN {c}
              ELSE within[n - 1] \cup
                     UNION {Range(BaseClassesOf(heritage, a)) : a \in within[n - 1]}]

Reach(c) == CHOOSE within : Reaches(c, within)

LEMMA ReachExists ==
  ASSUME TypeOK, NEW c \in ClassValue
  PROVE  Reaches(c, Reach(c))
<1> DEFINE Basis(nearer) == UNION {Range(BaseClassesOf(heritage, a)) : a \in nearer}
<1>1. \A a : Range(BaseClassesOf(heritage, a)) \subseteq ClassValue
  <2>1. SUFFICES ASSUME NEW a PROVE Range(BaseClassesOf(heritage, a)) \subseteq ClassValue
    OBVIOUS
  <2>2. CASE a \in DOMAIN heritage
    <3>1. heritage[a] \in Seq(ClassValue)
      BY <2>2 DEF TypeOK, Processed
    <3> QED BY <2>2, <3>1 DEF BaseClassesOf, Range
  <2>3. CASE a \notin DOMAIN heritage
    <3>1. BaseClassesOf(heritage, a) = <<>>
      BY <2>3 DEF BaseClassesOf
    <3> QED BY <3>1 DEF Range
  <2> QED BY <2>2, <2>3
<1>2. PICK S : S = SUBSET ClassValue
  OBVIOUS
<1>3. \A nearer \in S : nearer \cup Basis(nearer) \in S
  BY <1>1, <1>2
<1> HIDE DEF Basis
<1>4. PICK step : step = [n \in Nat |-> [nearer \in S |-> nearer \cup Basis(nearer)]]
  OBVIOUS
<1>5. {c} \in S /\ step \in [Nat -> [S -> S]]
  BY <1>2, <1>3, <1>4
<1>6. PICK f : Repeats(S, {c}, step, f)
  BY <1>5, Iteration
<1>7. ASSUME NEW n \in Nat, n # 0
      PROVE  f[n] = f[n - 1] \cup Basis(f[n - 1])
  <2>1. n - 1 \in Nat /\ (n - 1) + 1 = n
    BY <1>7
  <2>2. f[n] = step[n - 1][f[n - 1]] /\ f[n - 1] \in S
    BY <1>6, <2>1 DEF Repeats
  <2> QED BY <1>4, <2>1, <2>2
<1>8. f = [n \in Nat |-> IF n = 0 THEN {c} ELSE f[n - 1] \cup Basis(f[n - 1])]
  <2>1. \A n \in Nat : f[n] = IF n = 0 THEN {c} ELSE f[n - 1] \cup Basis(f[n - 1])
    BY <1>6, <1>7 DEF Repeats
  <2> QED BY <1>6, <2>1 DEF Repeats
<1>9. Reaches(c, f)
  BY <1>8 DEF Reaches, Basis
<1> QED BY <1>9 DEF Reach

LEMMA ReachSteps ==
  ASSUME TypeOK, NEW c \in ClassValue
  PROVE  /\ Reach(c)[0] = {c}
         /\ \A n \in Nat :
              Reach(c)[n + 1] = Reach(c)[n] \cup UNION {BasesOf(heritage, a) : a \in Reach(c)[n]}
<1>1. PICK f : f = Reach(c)
  OBVIOUS
<1>2. Reaches(c, f)
  BY <1>1, ReachExists
<1>3. f[0] = {c}
  BY <1>2 DEF Reaches
<1>4. ASSUME NEW n \in Nat
      PROVE  f[n + 1] = f[n] \cup UNION {Range(BaseClassesOf(heritage, a)) : a \in f[n]}
  <2>1. n + 1 \in Nat /\ n + 1 # 0 /\ (n + 1) - 1 = n
    OBVIOUS
  <2> QED BY <1>2, <2>1 DEF Reaches
<1> QED BY <1>1, <1>3, <1>4 DEF BasesOf

LEMMA AncestorsAreReached ==
  ASSUME NEW c, NEW n
  PROVE  AncestorsWithin(c, n) = Reach(c)[n]
BY DEF AncestorsWithin, Reach, Reaches

(* The classes within n steps are those at the first n levels.             *)
LEMMA LevelsAreSteps ==
  ASSUME TypeOK, NEW c \in ClassValue, NEW s, NEW level,
         Layers(heritage, c, s, level), Expanded(heritage, s, level, Len(s))
  PROVE  \A n \in Nat : Reach(c)[n] = {s[i] : i \in {j \in 1 .. Len(s) : level[j] <= n}}
<1> DEFINE T == {n \in Nat : Reach(c)[n] = {s[i] : i \in {j \in 1 .. Len(s) : level[j] <= n}}}
<1>1. /\ Len(s) \in Nat /\ 1 \in 1 .. Len(s) /\ s[1] = c /\ level[1] = 0
      /\ \A i \in 1 .. Len(s) : level[i] \in Nat
  BY DEF Layers
<1>2. ASSUME NEW i \in 1 .. Len(s), i # 1
      PROVE  \E j \in 1 .. Len(s) : /\ s[i] \in BasesOf(heritage, s[j])
                                    /\ level[i] = level[j] + 1
  <2>1. i \in 2 .. Len(s)
    BY <1>1, <1>2
  <2> QED BY <2>1 DEF Layers
<1>3. 0 \in T
  <2>1. \A i \in 1 .. Len(s) : level[i] <= 0 <=> i = 1
    BY <1>1, <1>2
  <2>2. {s[i] : i \in {j \in 1 .. Len(s) : level[j] <= 0}} = {c}
    BY <1>1, <2>1
  <2> QED BY <2>2, ReachSteps
<1>4. ASSUME NEW n \in Nat, n \in T
      PROVE  n + 1 \in T
  <2>1. Reach(c)[n + 1] = Reach(c)[n] \cup UNION {BasesOf(heritage, a) : a \in Reach(c)[n]}
    BY ReachSteps
  <2>2. Reach(c)[n] = {s[i] : i \in {j \in 1 .. Len(s) : level[j] <= n}}
    BY <1>4
  <2>3. ASSUME NEW b \in Reach(c)[n + 1]
        PROVE  \E k \in 1 .. Len(s) : s[k] = b /\ level[k] <= n + 1
    <3>1. CASE b \in Reach(c)[n]
      <4>1. PICK k \in 1 .. Len(s) : s[k] = b /\ level[k] <= n
        BY <2>2, <3>1
      <4>2. level[k] <= n + 1
        BY <1>1, <4>1
      <4> QED BY <4>1, <4>2
    <3>2. CASE b \notin Reach(c)[n]
      <4>1. PICK a \in Reach(c)[n] : b \in BasesOf(heritage, a)
        BY <2>1, <2>3, <3>2
      <4>2. PICK i \in 1 .. Len(s) : s[i] = a /\ level[i] <= n
        BY <2>2, <4>1
      <4>3. i <= Len(s) /\ level[i] \in Nat
        BY <1>1
      <4>4. Holds(s, level, b, level[i] + 1)
        BY <4>1, <4>2, <4>3 DEF Expanded
      <4>5. PICK k \in 1 .. Len(s) : s[k] = b /\ level[k] <= level[i] + 1
        BY <4>4 DEF Holds
      <4>6. level[k] <= n + 1
        BY <1>1, <4>2, <4>3, <4>5
      <4> QED BY <4>5, <4>6
    <3> QED BY <3>1, <3>2
  <2>4. ASSUME NEW k \in 1 .. Len(s), level[k] <= n + 1
        PROVE  s[k] \in Reach(c)[n + 1]
    <3>1. CASE level[k] <= n
      BY <2>1, <2>2, <3>1
    <3>2. CASE ~ (level[k] <= n)
      <4>1. k # 1 /\ level[k] = n + 1
        BY <1>1, <2>4, <3>2
      <4>2. PICK j \in 1 .. Len(s) : /\ s[k] \in BasesOf(heritage, s[j])
                                     /\ level[k] = level[j] + 1
        BY <1>2, <4>1
      <4>3. level[j] <= n
        BY <1>1, <4>1, <4>2
      <4>4. s[j] \in Reach(c)[n]
        BY <2>2, <4>3
      <4> QED BY <2>1, <4>2, <4>4
    <3> QED BY <3>1, <3>2
  <2> QED BY <2>3, <2>4
<1> HIDE DEF T
<1>5. \A n \in Nat : n \in T
  BY <1>3, <1>4, SetInduction
<1> QED BY <1>5 DEF T

(* The way up to a class is through as many processed classes as its level *)
(* says.                                                                   *)
LEMMA LevelsAreFew ==
  ASSUME FinitelyManyProcessed, NEW c, NEW s, NEW level, Layers(heritage, c, s, level)
  PROVE  \A i \in 1 .. Len(s) : level[i] <= Cardinality(Processed)
<1> DEFINE Before(i, W) == /\ W \subseteq Processed /\ IsFiniteSet(W)
                           /\ Cardinality(W) = level[i]
                           /\ \A v \in W : \E j \in 1 .. Len(s) : j < i /\ s[j] = v
           T == {m \in Nat : \A i \in 1 .. Len(s) : i <= m => \E W : Before(i, W)}
<1>1. /\ Len(s) \in Nat /\ level[1] = 0
      /\ \A i \in 1 .. Len(s) : level[i] \in Nat
      /\ \A i, j \in 1 .. Len(s) : s[i] = s[j] => i = j
  BY DEF Layers
<1>2. 0 \in T
  OBVIOUS
<1>3. ASSUME NEW m \in Nat, m \in T
      PROVE  m + 1 \in T
  <2>1. SUFFICES ASSUME NEW i \in 1 .. Len(s), i <= m + 1
                 PROVE  \E W : Before(i, W)
    OBVIOUS
  <2>2. CASE i = 1
    <3>1. Before(1, {})
      BY <1>1, FS_EmptySet
    <3> QED BY <2>2, <3>1
  <2>3. CASE i # 1
    <3>1. i \in 2 .. Len(s)
      BY <1>1, <2>3
    <3>2. PICK j \in 1 .. Len(s) : /\ j < i
                                   /\ s[i] \in BasesOf(heritage, s[j])
                                   /\ level[i] = level[j] + 1
      BY <3>1 DEF Layers
    <3>3. j <= m
      BY <1>1, <2>1, <3>2
    <3>4. PICK W : Before(j, W)
      BY <1>3, <3>3
    <3>5. PICK v : v = s[j]
      OBVIOUS
    <3>6. v \in Processed
      <4>1. CASE v \notin DOMAIN heritage
        <5>1. BaseClassesOf(heritage, v) = <<>>
          BY <4>1 DEF BaseClassesOf
        <5> QED BY <3>2, <3>5, <5>1 DEF BasesOf, Range
      <4> QED BY <4>1 DEF Processed
    <3>7. v \notin W
      <4>1. SUFFICES ASSUME v \in W PROVE FALSE
        OBVIOUS
      <4>2. PICK k \in 1 .. Len(s) : k < j /\ s[k] = v
        BY <3>4, <4>1
      <4>3. k = j
        BY <1>1, <3>5, <4>2
      <4> QED BY <1>1, <4>2, <4>3
    <3>8. IsFiniteSet(W \cup {v}) /\ Cardinality(W \cup {v}) = level[i]
      <4>1. IsFiniteSet(W) /\ Cardinality(W) = level[j]
        BY <3>4
      <4>2. IsFiniteSet(W \cup {v}) /\ Cardinality(W \cup {v}) = Cardinality(W) + 1
        BY <3>7, <4>1, FS_AddElement
      <4> QED BY <3>2, <4>1, <4>2
    <3>9. ASSUME NEW u \in W \cup {v}
          PROVE  \E k \in 1 .. Len(s) : k < i /\ s[k] = u
      <4>1. CASE u = v
        BY <3>2, <3>5, <4>1
      <4>2. CASE u # v
        <5>1. PICK k \in 1 .. Len(s) : k < j /\ s[k] = u
          BY <3>4, <3>9, <4>2
        <5> QED BY <1>1, <3>2, <5>1
      <4> QED BY <4>1, <4>2
    <3>10. Before(i, W \cup {v})
      BY <3>4, <3>6, <3>8, <3>9
    <3> QED BY <3>10
  <2> QED BY <2>2, <2>3
<1> HIDE DEF T
<1>4. \A m \in Nat : m \in T
  BY <1>2, <1>3, SetInduction
<1>5. SUFFICES ASSUME NEW i \in 1 .. Len(s)
               PROVE  level[i] <= Cardinality(Processed)
  OBVIOUS
<1>6. PICK W : Before(i, W)
  <2>1. Len(s) \in T /\ i <= Len(s)
    BY <1>1, <1>4
  <2> QED BY <2>1 DEF T
<1>7. Cardinality(W) <= Cardinality(Processed)
  BY <1>6, FS_Subset DEF FinitelyManyProcessed
<1> QED BY <1>6, <1>7

(* The list of a class of the program holds its ancestors, each once,      *)
(* nearer ones first.                                                      *)
THEOREM BreadthFirstCorrect == Spec => []ClassListIsBreadthFirst
<1>1. ASSUME TypeOK, FinitelyManyProcessed, ListsInOrder
      PROVE  ClassListIsBreadthFirst
  <2> DEFINE At(c, a, n) == /\ a \in AncestorsWithin(c, n)
                            /\ n > 0 => a \notin AncestorsWithin(c, n - 1)
             Distance(c, a) == CHOOSE n \in 0 .. MaxDepth : At(c, a, n)
  <2>1. SUFFICES ASSUME NEW c \in Finalized, NEW s, s = class_list[c]
                 PROVE  /\ Range(s) = AncestorsWithin(c, MaxDepth)
                        /\ IsInjective(s)
                        /\ \A i \in 2 .. Len(s) : Distance(c, s[i - 1]) <= Distance(c, s[i])
    BY DEF ClassListIsBreadthFirst
  <2>2. c \in ClassValue
    BY DEF Finalized, ClassValue
  <2>3. PICK level : /\ Layers(heritage, c, s, level)
                     /\ Expanded(heritage, s, level, Len(s))
    BY <1>1, <2>1 DEF ListsInOrder, BreadthFirst
  <2>4. /\ s \in Seq(ClassValue) /\ Len(s) \in Nat
        /\ \A i \in 1 .. Len(s) : level[i] \in Nat
        /\ \A i, j \in 1 .. Len(s) : s[i] = s[j] => i = j
        /\ \A i, j \in 1 .. Len(s) : i <= j => level[i] <= level[j]
    BY <2>3 DEF Layers
  <2>5. ASSUME NEW n \in Nat
        PROVE  AncestorsWithin(c, n) = {s[i] : i \in {j \in 1 .. Len(s) : level[j] <= n}}
    BY <1>1, <2>2, <2>3, LevelsAreSteps, AncestorsAreReached
  <2>6. MaxDepth \in Nat /\ \A i \in 1 .. Len(s) : level[i] <= MaxDepth
    <3>1. Cardinality(Processed) \in Nat
      BY <1>1, FS_CardinalityType DEF FinitelyManyProcessed
    <3>2. \A i \in 1 .. Len(s) : level[i] <= Cardinality(Processed)
      BY <1>1, <2>3, LevelsAreFew
    <3> QED BY <2>4, <3>1, <3>2 DEF MaxDepth
  <2>7. Range(s) = AncestorsWithin(c, MaxDepth)
    BY <2>4, <2>5, <2>6 DEF Range
  <2>8. IsInjective(s)
    BY <2>4 DEF IsInjective
  <2>9. ASSUME NEW i \in 1 .. Len(s)
        PROVE  Distance(c, s[i]) = level[i]
    <3>1. ASSUME NEW n \in Nat
          PROVE  s[i] \in AncestorsWithin(c, n) <=> level[i] <= n
      BY <2>4, <2>5
    <3>2. ASSUME NEW n \in 0 .. MaxDepth
          PROVE  At(c, s[i], n) <=> n = level[i]
      <4>1. n \in Nat /\ level[i] \in Nat
        BY <2>4, <2>6
      <4>2. CASE n = 0
        BY <3>1, <4>1, <4>2
      <4>3. CASE n > 0
        <5>1. n - 1 \in Nat
          BY <4>1, <4>3
        <5>2. s[i] \in AncestorsWithin(c, n - 1) <=> level[i] <= n - 1
          BY <3>1, <5>1
        <5>3. s[i] \in AncestorsWithin(c, n) <=> level[i] <= n
          BY <3>1, <4>1
        <5> QED BY <4>1, <4>3, <5>2, <5>3
      <4> QED BY <4>1, <4>2, <4>3
    <3>3. level[i] \in 0 .. MaxDepth
      BY <2>4, <2>6
    <3> HIDE DEF At
    <3>4. At(c, s[i], level[i])
      BY <3>2, <3>3
    <3> QED BY <3>2, <3>3, <3>4
  <2>10. ASSUME NEW i \in 2 .. Len(s)
         PROVE  Distance(c, s[i - 1]) <= Distance(c, s[i])
    <3>1. i - 1 \in 1 .. Len(s) /\ i \in 1 .. Len(s) /\ i - 1 <= i
      BY <2>4
    <3>2. level[i - 1] <= level[i]
      BY <2>4, <3>1
    <3>3. Distance(c, s[i - 1]) = level[i - 1] /\ Distance(c, s[i]) = level[i]
      BY <2>9, <3>1
    <3> HIDE DEF Distance
    <3> QED BY <3>2, <3>3
  <2> QED BY <2>7, <2>8, <2>10
<1> QED BY <1>1, TypeCorrect, ProcessedFinite, OrderKept, PTL
=============================================================================
