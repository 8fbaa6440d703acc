------------------------------- MODULE ClassTree -------------------------------
(***************************************************************************)
(* ClassTreeBuilder (src/aoba/analyzer/class_tree_builder.cc), the part of *)
(* the analyzer that orders the classes of a program under their bases     *)
(* while the type resolver meets their definitions in program order.       *)
(*                                                                         *)
(* A definition whose bases are all finalized is finalized at once and     *)
(* releases the definitions that wait for it, which may release others:    *)
(* FinalizeClass calls itself.  The calls in progress are `stack', so that *)
(* the states between two calls are states of the model.  A definition     *)
(* that has to wait becomes a node of a graph with an edge from each base  *)
(* it waits for.  Build makes a last pass over the graph, finalizes the    *)
(* constructed classes left over, and reports what is still waiting.       *)
(*                                                                         *)
(* DCHECKs are not guards: the model takes the step a release build takes  *)
(* and the conditions are stated as properties.                            *)
(***************************************************************************)
EXTENDS ClassLists

CONSTANTS
  HeritageChoices,   \* the base class lists a definition may have
  ReferenceChoices,  \* the constructed classes that may be referenced
  MaxClassList       \* bound: a list of this length is not added to again

ASSUME ChoicesAssumption ==
  /\ HeritageChoices \subseteq Seq(ClassValue)
  /\ ReferenceChoices \subseteq ConstructedClass
  /\ MaxClassList \in Nat

VARIABLES
  heritage,     \* base_classes_ of the processed classes: its domain is
                \* processed_classes_
  class_list,   \* class_list_ of every class that has one
  nodes,        \* graph_.nodes()
  edges,        \* the edges of graph_, from a base to what derives from it
  pending_constructed_classes,
  stack,        \* the calls of FinalizeClass in progress, innermost last
  phase,        \* where the builder is: collecting, or in which part of Build
  errors        \* what ValidateClassTree reported

vars == <<heritage, class_list, nodes, edges, pending_constructed_classes,
          stack, phase, errors>>

Processed == DOMAIN heritage
Finalized == {c \in Class : c \in DOMAIN class_list}

Successors(c) == {e[2] : e \in {f \in edges : f[1] = c}}

NeverHasPredecessor(remaining, c) == FALSE
AlwaysHasPredecessor(remaining, c) == TRUE
HasPredecessor(remaining, c) == \E e \in remaining : e[2] = c

EdgesWithoutReversed(from, to) == edges \ {<<to, from>>}
EdgesWithout(from, to) == edges \ {<<from, to>>}

CanFinalize(c) ==
  /\ c \notin Finalized
  /\ c \in Processed
  /\ \A b \in OriginsOf(heritage[c]) : b \in Finalized /\ b \in Processed

Init ==
  /\ heritage = [c \in {} |-> <<>>]
  /\ class_list = [c \in {} |-> <<>>]
  /\ nodes = {}
  /\ edges = {}
  /\ pending_constructed_classes = {}
  /\ stack = <<>>
  /\ phase = "process"
  /\ errors = {}

-----------------------------------------------------------------------------
(* FinalizeClass up to its loop over the successors, of which it takes a   *)
(* copy.  The graph has no order here: the loop takes them in any order.   *)

FinalizeClass(c, bases_of) ==
  /\ class_list' = ListsFinalizing(class_list, bases_of, c)
  /\ nodes' = nodes \ {c}

Frame(c) == [clazz |-> c, successors |-> Successors(c)]

(* ProcessClassDefinition, called once for each class after its base       *)
(* classes are set.                                                        *)
ProcessClassDefinition(c, base_classes) ==
  LET heritage_ == [d \in Processed \cup {c} |->
                      IF d = c THEN base_classes ELSE heritage[d]]
      pending == OriginsOf(base_classes) \ Finalized
  IN  /\ phase = "process" /\ stack = <<>>
      /\ c \notin Processed
      /\ heritage' = heritage_
      /\ IF pending = {}
         THEN /\ FinalizeClass(c, heritage_)
              /\ stack' = <<Frame(c)>>
              /\ UNCHANGED edges
         ELSE /\ nodes' = nodes \cup pending \cup {c}
              /\ edges' = edges \cup (pending \X {c})
              /\ UNCHANGED <<class_list, stack>>
      /\ UNCHANGED <<pending_constructed_classes, phase, errors>>

(* The innermost call moves on to its next successor.                      *)
StackPast(d) ==
  LET top == stack[Len(stack)]
  IN  [stack EXCEPT ![Len(stack)] =
         [clazz |-> top.clazz, successors |-> top.successors \ {d}]]

ReleaseSuccessorRetrying ==
  LET top == stack[Len(stack)]
  IN  /\ stack # <<>>
      /\ \E d \in top.successors :
           LET remaining == EdgesWithout(top.clazz, d)
           IN  /\ edges' = remaining
               /\ IF HasPredecessor(remaining, d)
                  THEN UNCHANGED <<class_list, nodes, stack>>
                  ELSE /\ FinalizeClass(d, heritage)
                       /\ stack' = Append(StackPast(d), Frame(d))
      /\ UNCHANGED <<heritage, pending_constructed_classes, phase, errors>>

(* One turn of the loop: the edge goes, and a successor that waits for     *)
(* nothing else is finalized by a nested call.                             *)
ReleaseSuccessor ==
  LET top == stack[Len(stack)]
  IN  /\ stack # <<>>
      /\ \E d \in top.successors :
           LET remaining == EdgesWithout(top.clazz, d)
           IN  /\ edges' = remaining
               /\ IF HasPredecessor(remaining, d)
                  THEN stack' = StackPast(d) /\ UNCHANGED <<class_list, nodes>>
                  ELSE /\ FinalizeClass(d, heritage)
                       /\ stack' = Append(StackPast(d), Frame(d))
      /\ UNCHANGED <<heritage, pending_constructed_classes, phase, errors>>

ReturnFromFinalizeClass ==
  /\ stack # <<>>
  /\ stack[Len(stack)].successors = {}
  /\ stack' = SubSeq(stack, 1, Len(stack) - 1)
  /\ UNCHANGED <<heritage, class_list, nodes, edges,
                 pending_constructed_classes, phase, errors>>

(* ProcessClassReference of a constructed class.  For the other classes it *)
(* only asks whether they are finalized.                                   *)
ProcessClassReference(constructed) ==
  /\ phase = "process" /\ stack = <<>>
  /\ constructed \in DOMAIN class_list => Len(class_list[constructed]) < MaxClassList
  /\ IF constructed.generic_class \in Finalized
     THEN /\ class_list' = FinalizeConstructedClass(class_list, constructed)
          /\ UNCHANGED pending_constructed_classes
     ELSE /\ pending_constructed_classes' =
               pending_constructed_classes \cup {constructed}
          /\ UNCHANGED class_list
  /\ UNCHANGED <<heritage, nodes, edges, stack, phase, errors>>

-----------------------------------------------------------------------------
(* Build.                                                                  *)
Build ==
  /\ phase = "process" /\ stack = <<>>
  /\ phase' = "sweep"
  /\ UNCHANGED <<heritage, class_list, nodes, edges,
                 pending_constructed_classes, stack, errors>>

(* The first loop of Build.                                                *)
SweepNodesUntilEmpty ==
  LET ready == {c \in nodes : CanFinalize(c)}
  IN  /\ phase = "sweep" /\ stack = <<>>
      /\ IF nodes = {}
         THEN phase' = "construct" /\ UNCHANGED <<class_list, nodes, stack>>
         ELSE /\ \E c \in ready : FinalizeClass(c, heritage) /\ stack' = <<Frame(c)>>
              /\ UNCHANGED phase
      /\ UNCHANGED <<heritage, edges, pending_constructed_classes, errors>>

SweepNodes ==
  LET ready == {c \in nodes : CanFinalize(c)}
  IN  /\ phase = "sweep" /\ stack = <<>>
      /\ IF ready = {}
         THEN phase' = "construct" /\ UNCHANGED <<class_list, nodes, stack>>
         ELSE /\ \E c \in ready : FinalizeClass(c, heritage) /\ stack' = <<Frame(c)>>
              /\ UNCHANGED phase
      /\ UNCHANGED <<heritage, edges, pending_constructed_classes, errors>>

(* The second loop of Build.                                               *)
FinalizePendingConstructedClass ==
  LET waiting == pending_constructed_classes \ DOMAIN class_list
  IN  /\ phase = "construct"
      /\ IF waiting = {}
         THEN phase' = "validate" /\ UNCHANGED class_list
         ELSE /\ \E k \in waiting :
                   class_list' = FinalizeConstructedClass(class_list, k)
              /\ UNCHANGED phase
      /\ UNCHANGED <<heritage, nodes, edges, pending_constructed_classes,
                     stack, errors>>

UndefinedClassError(c) == [code |-> "UNDEFINED_CLASS", classes |-> {c}]
CycleError(base, derived) == [code |-> "CYCLE", classes |-> {base, derived}]

UnfinalizedNodes == nodes \ Finalized
UndefinedNodes == nodes \ Processed

ProperCycleEdges == {e \in edges : e[1] \in nodes \cap Processed /\ e[1] # e[2]}
NoCycleEdges == {}
CycleEdges == {e \in edges : e[1] \in nodes \cap Processed}

ValidateClassTree ==
  /\ phase = "validate"
  /\ phase' = "built"
  /\ errors' = {UndefinedClassError(c) : c \in UndefinedNodes}
                 \cup {CycleError(e[1], e[2]) : e \in CycleEdges}
  /\ UNCHANGED <<heritage, class_list, nodes, edges,
                 pending_constructed_classes, stack>>

Next ==
  \/ \E c \in Class, base_classes \in HeritageChoices :
       ProcessClassDefinition(c, base_classes)
  \/ \E k \in ReferenceChoices : ProcessClassReference(k)
  \/ ReleaseSuccessor
  \/ ReturnFromFinalizeClass
  \/ Build
  \/ SweepNodes
  \/ FinalizePendingConstructedClass
  \/ ValidateClassTree

Spec == Init /\ [][Next]_vars

(* A call of the builder runs to its end: the process is single-threaded   *)
(* and nothing in a call waits.                                            *)
Fairness ==
  WF_vars(\/ ReleaseSuccessor \/ ReturnFromFinalizeClass
          \/ SweepNodes \/ FinalizePendingConstructedClass
          \/ ValidateClassTree)

FairSpec == Spec /\ Fairness

-----------------------------------------------------------------------------
Waiting == Processed \ Finalized
Pending(d) == OriginsOf(heritage[d]) \ Finalized
OnStack == {stack[i].clazz : i \in DOMAIN stack}

(* Every variable holds the kind of value the builder's members hold.      *)
TypeOK ==
  /\ Processed \subseteq Class
  /\ heritage \in [Processed -> Seq(ClassValue)]
  /\ DOMAIN class_list \subseteq ClassValue
  /\ nodes \subseteq Class
  /\ edges \subseteq Class \X Class
  /\ pending_constructed_classes \subseteq ConstructedClass
  /\ stack \in Seq([clazz : Class, successors : SUBSET Class])
  /\ phase \in {"process", "sweep", "construct", "validate", "built"}
  /\ errors \subseteq [code : {"UNDEFINED_CLASS", "CYCLE"}, classes : SUBSET Class]

(* Between two calls a class that is not finalized has exactly one incoming *)
(* edge from each base it still waits for, and waits for at least one: the  *)
(* edges, which decide when it is released, never drift from the heritage.  *)
EdgesTrackPendingBases ==
  stack = <<>> =>
    /\ \A d \in Waiting :
         Pending(d) # {} /\ {e[1] : e \in {f \in edges : f[2] = d}} = Pending(d)
    /\ \A e \in edges : e[2] \in Waiting

(* Between two calls nothing can be finalized: what became ready was        *)
(* finalized by the call that made it ready, so the first loop of Build     *)
(* finds nothing to do.                                                     *)
NothingReadyBetweenCalls ==
  stack = <<>> => \A c \in Class : ~ CanFinalize(c)

(* The copy of the successors that a call of FinalizeClass walks stays true *)
(* to the graph while nested calls remove edges, so RemoveEdge always finds *)
(* the edge it is told to remove (its DCHECK).                              *)
SuccessorCopyNeverStale ==
  \A i \in DOMAIN stack :
    stack[i].successors = Successors(stack[i].clazz)

(* The graph holds no finalized class, every class that waits, and every    *)
(* class waited for: what ValidateClassTree, which only looks at the graph, *)
(* relies on.                                                               *)
GraphHoldsWhatWaits ==
  /\ nodes \cap Finalized = {}
  /\ Waiting \subseteq nodes
  /\ \A d \in Waiting : Pending(d) \subseteq nodes

(* A class is finalized only when it is processed and all its bases are     *)
(* finalized: the DCHECK at the head of FinalizeClass.                      *)
FinalizedOnlyWhenReady ==
  [][\A c \in Finalized' \ Finalized :
        c \in Processed' /\ OriginsOf(heritage'[c]) \subseteq Finalized]_vars

-----------------------------------------------------------------------------
(* What is reached from c in at most n steps from a class to a base.        *)
AncestorsWithin(c, depth) ==
  LET within[n \in Nat] ==
        IF n = 0
        THEN {c}
        ELSE LET nearer == within[n - 1]
             IN  nearer \cup UNION {Range(BaseClassesOf(heritage, a)) : a \in nearer}
  IN  within[depth]

MaxDepth == Cardinality(Processed) + 1

(* The list of a class of the program is a permutation of its ancestors,    *)
(* each once, nearer ones first, whatever the order of the definitions.     *)
ClassListIsBreadthFirst ==
  \A c \in Finalized :
    LET list == class_list[c]
        Distance(a) == CHOOSE n \in 0 .. MaxDepth :
                         /\ a \in AncestorsWithin(c, n)
                         /\ n > 0 => a \notin AncestorsWithin(c, n - 1)
    IN  /\ Range(list) = AncestorsWithin(c, MaxDepth)
        /\ IsInjective(list)
        /\ \A i \in 2 .. Len(list) : Distance(list[i - 1]) <= Distance(list[i])

(* Every class that a class list names has a class list itself, the         *)
(* constructed classes made on the way included.                            *)
NamedClassesAreFinalized ==
  \A c \in DOMAIN class_list : Range(class_list[c]) \subseteq DOMAIN class_list

-----------------------------------------------------------------------------
Reported(code) == {e.classes : e \in {f \in errors : f.code = code}}

Waits(d, b) == d \in Processed /\ b \in OriginsOf(heritage[d])

(* The classes that d inherits from, directly or not, by origin.            *)
OriginAncestors(d) ==
  LET above[n \in Nat] ==
        IF n = 0
        THEN {b \in Class : Waits(d, b)}
        ELSE LET nearer == above[n - 1]
             IN  nearer \cup {b \in Class : \E a \in nearer : Waits(a, b)}
  IN  above[MaxDepth]

(* Build reports as undefined exactly the classes that some definition      *)
(* names as a base and no call defined.                                     *)
UndefinedBasesReportedExactly ==
  phase = "built" =>
    Reported("UNDEFINED_CLASS") =
      {{b} : b \in {a \in Class \ Processed : \E d \in Processed : Waits(d, a)}}

(* Every step of every cycle of definitions is reported, so no cycle goes   *)
(* without an error.                                                        *)
EveryCycleStepReported ==
  phase = "built" =>
    \A d, b \in Processed :
      Waits(d, b) /\ (d = b \/ d \in OriginAncestors(b)) =>
        {b, d} \in Reported("CYCLE")

(* A constructed class gets its list after its generic class (the DCHECK at  *)
(* the head of FinalizeConstructedClass), except in the second loop of       *)
(* Build, which gives one to a referenced class whose generic class was      *)
(* never finalized: no list that the analysis sees earlier is premature.     *)
ConstructedAfterGeneric ==
  \A c \in DOMAIN class_list :
    c \notin Class =>
      \/ c.generic_class \in Finalized
      \/ c \in pending_constructed_classes /\ phase \notin {"process", "sweep"}

(* ConstructClass is handed a generic class, against its first DCHECK, only  *)
(* when the program inherits that class without arguments: the list of a     *)
(* generic class does not name a bare generic class of itself.               *)
Inherited == UNION {Range(heritage[d]) : d \in Processed}

BareGenericsAreInherited ==
  \A c \in DOMAIN class_list :
    c \notin Class =>
      \A i \in 2 .. Len(class_list[c]) :
        class_list[c][i] \in GenericClass => class_list[c][i] \in Inherited

-----------------------------------------------------------------------------
(* The builder implements the class hierarchy: finalization follows the     *)
(* definitions in whatever order they come, nothing ready is left waiting   *)
(* when the next definition is accepted, and Build reports an error exactly *)
(* when a definition is left waiting.                                       *)
Hierarchy == INSTANCE ClassHierarchy WITH
  bases <- [c \in Processed |-> OriginsOf(heritage[c])],
  finalized <- Finalized,
  verdict <- IF phase # "built" THEN "open"
             ELSE IF errors = {} THEN "clean" ELSE "errors"

ImplementsHierarchy == Hierarchy!Spec

(* No class is finalized without cause: the finalized classes are in every  *)
(* set that contains each processed class whose bases it contains.  So no   *)
(* class on a cycle is finalized, nor any that derives from such a class or *)
(* from an undefined one, whatever order the edges were released in.        *)
NoClassFinalizedWithoutCause == Hierarchy!FinalizedIsLeast

-----------------------------------------------------------------------------
(* The inductive invariant that the proofs of the above rest on.  It speaks *)
(* of the states between the steps of a call as well: an edge from a        *)
(* finalized class is one that a call in progress has yet to remove.        *)
FinalizedFollowBases ==
  \A c \in Finalized : c \in Processed /\ OriginsOf(heritage[c]) \subseteq Finalized

WaitingHaveEdges ==
  \A d \in Waiting :
    /\ \A b \in Pending(d) : <<b, d>> \in edges
    /\ HasPredecessor(edges, d)

EdgesAreJustified ==
  \A e \in edges :
    /\ e[2] \in Waiting
    /\ e[1] \in OriginsOf(heritage[e[2]])
    /\ e[1] \in Finalized => e[1] \in OnStack
    /\ e[1] \in nodes \cup Finalized

FramesFollowGraph ==
  \A i \in DOMAIN stack :
    /\ stack[i].clazz \in Finalized
    /\ stack[i].successors = Successors(stack[i].clazz)
    /\ \A j \in DOMAIN stack : stack[j].clazz = stack[i].clazz => j = i

NodesAreNeeded ==
  /\ nodes \cap Finalized = {}
  /\ Waiting \subseteq nodes
  /\ \A n \in nodes : n \in Waiting \/ \E e \in edges : e[1] = n

ErrorsFollowGraph ==
  /\ phase \in {"construct", "validate", "built"} => stack = <<>>
  /\ phase = "built" =>
       errors = {UndefinedClassError(c) : c \in UndefinedNodes}
                  \cup {CycleError(e[1], e[2]) : e \in CycleEdges}

Inv ==
  /\ FinalizedFollowBases
  /\ WaitingHaveEdges
  /\ EdgesAreJustified
  /\ FramesFollowGraph
  /\ NodesAreNeeded
  /\ ErrorsFollowGraph

-----------------------------------------------------------------------------
(* The recursion of FinalizeClass ends.                                     *)
FinalizeClassReturns == stack # <<>> ~> stack = <<>>

(* Build, once called, ends.                                                *)
BuildReturns == phase = "sweep" ~> phase = "built"
=============================================================================
