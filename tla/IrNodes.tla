------------------------------- MODULE IrNodes -------------------------------
(***************************************************************************)
(* The graph of the intermediate representation: operators, types and nodes *)
(* made by their factories, which share what was made before, and the lists *)
(* of the edges that use a node, into which a node links its inputs one     *)
(* after the other.                                                         *)
(*                                                                          *)
(* A type is its number in a sequence of types, which begins with the       *)
(* primitive types and goes on with the composite ones in the order the     *)
(* factory made them.  The numbers stand for the addresses: std::set orders *)
(* a union's members by address, and any fixed order does.                  *)
(***************************************************************************)
EXTENDS Naturals, Sequences, FiniteSets, SequencesExt, FiniteSetsExt

CONSTANTS
    Float64s, Int64s, Strings,   \* values of literals
    NaN, MinusZero, Zero,        \* three floating point numbers
    MemberTypes,                 \* primitive types composite types are made of
    Widths,                      \* sizes of tuples of any inputs
    RepeatedWidths,              \* sizes of tuples of one input, repeated
    MaxTypes, MaxMade            \* bounds: composite types; types and nodes

PrimitiveTypes == <<"Any", "Bool", "Control", "Effect", "Float64", "Int64",
                    "JsNull", "JsSymbol", "Nil", "String", "Void">>

ASSUME IrNodesAssumption ==
    /\ MemberTypes \subseteq ToSet(PrimitiveTypes)
    /\ Widths \subseteq Nat /\ RepeatedWidths \subseteq Nat
    /\ MaxTypes \in Nat /\ MaxMade \in Nat

-----------------------------------------------------------------------------
(* The types. *)
Primitives == [i \in DOMAIN PrimitiveTypes |->
                 [kind |-> PrimitiveTypes[i], members |-> <<>>]]
Primitive(kind) == CHOOSE i \in DOMAIN PrimitiveTypes : PrimitiveTypes[i] = kind

Is(types, t, kind) == types[t].kind = kind

(* The caches of CompositeTypeFactory: functions and references are keyed   *)
(* by their kind and members, tuples and unions by their members alone.     *)
SharedKindsOfAll(kind) == {"Function", "Reference", "Tuple", "Union"}
SharedKinds(kind) == IF kind \in {"Tuple", "Union"} THEN {"Tuple", "Union"}
                                                    ELSE {kind}
FindType(types, kind, members) ==
    {t \in DOMAIN types : /\ types[t].kind \in SharedKinds(kind)
                          /\ types[t].members = members}

(* Find and Register: the types after the call, and the type it returns. *)
NewComposite(types, kind, members) ==
    LET present == FindType(types, kind, members)
    IN  IF present # {}
        THEN [types |-> types, type |-> CHOOSE t \in present : TRUE]
        ELSE [types |-> Append(types, [kind |-> kind, members |-> members]),
              type |-> Len(types) + 1]

(* TypeFactory::NewUnionType: nil is nothing, a union is its members. *)
FlatMembers(types, passed) ==
    UNION {IF Is(types, t, "Nil") THEN {}
           ELSE IF Is(types, t, "Union") THEN ToSet(types[t].members)
           ELSE {t} : t \in ToSet(passed)}
NewUnion(types, passed) ==
    LET members == FlatMembers(types, passed)
    IN  IF members = {} THEN [types |-> types, type |-> Primitive("Nil")]
        ELSE IF Cardinality(members) = 1
             THEN [types |-> types, type |-> CHOOSE t \in members : TRUE]
        ELSE NewComposite(types, "Union", SetToSortSeq(members, <))

(* Node::is_control asks for a control, or a tuple that begins with one. *)
BeginsWithControl(types, members) ==
    members # <<>> /\ Is(types, members[1], "Control")
IsControlType(types, t) ==
    \/ Is(types, t, "Control")
    \/ Is(types, t, "Tuple") /\ BeginsWithControl(types, types[t].members)

-----------------------------------------------------------------------------
VARIABLES
    types,       \* the types: their kind and their members
    operators,   \* the operators: their code and their member
    nodes,       \* the nodes by their id: operator, type and inputs
    linked,      \* how many inputs of the last node are linked
    first,       \* for each node, the first edge of its uses
    next,        \* for each edge, the next use of the same node,
    previous,    \* and the one before it
    call,        \* the last call of the factory and the node it returned
    failed,      \* the assertion that has stopped the program
    asked        \* history: the members NewTupleType was called with, and the
                 \* type it returned, which its callers take for a tuple's

vars == <<types, operators, nodes, linked, first, next, previous, call, failed, asked>>
uses == <<first, next, previous>>

None == <<0, 0>>

-----------------------------------------------------------------------------
(* The operators: how many inputs they take. *)
Arity == [Exit |-> 1, If |-> 2, IfException |-> 1, IfFalse |-> 1,
          IfSuccess |-> 1, IfTrue |-> 1, LiteralBool |-> 0,
          LiteralFloat64 |-> 0, LiteralInt64 |-> 0, LiteralString |-> 0,
          LiteralVoid |-> 0, Projection |-> 1, Ret |-> 2, Start |-> 0]
ArityOf(op) == IF op.code = "Tuple" THEN op.member ELSE Arity[op.code]

(* The keys of OperatorFactory::Cache are equal when the map finds them so: *)
(* the zeros are one number, and NaN is none.                               *)
SameNumber(a, b) == /\ a # NaN /\ b # NaN
                    /\ a = b \/ {a, b} = {Zero, MinusZero}
SameMember(code, a, b) == IF code = "LiteralFloat64" THEN SameNumber(a, b) ELSE a = b

FindSizedAnywhere(code, member) ==
    {i \in DOMAIN operators :
       /\ \/ operators[i].code = code
          \/ {operators[i].code, code} = {"Projection", "Tuple"}
       /\ SameMember(code, operators[i].member, member)}
FindOperator(code, member) ==
    {i \in DOMAIN operators : /\ operators[i].code = code
                              /\ SameMember(code, operators[i].member, member)}

(* The operator a member of OperatorFactory returns; it is a new one when   *)
(* its number is not in DOMAIN operators.                                   *)
OperatorOf(code, member) ==
    LET present == FindOperator(code, member)
    IN  IF present # {} THEN CHOOSE i \in present : TRUE ELSE Len(operators) + 1
OperatorsWith(op, code, member) ==
    IF op \in DOMAIN operators THEN operators
                               ELSE Append(operators, [code |-> code, member |-> member])

-----------------------------------------------------------------------------
(* Node::Format holds the operator's number of inputs in three bits. *)
BitsOfInputs == 3
kMaxNumberOfInputs == 7
FitsFormat(op, inputs) == ArityOf(op) % 2^BitsOfInputs = Len(inputs)

OutputType(n) == nodes[n].type
IsControl(n) == IsControlType(types, OutputType(n))
IsTuple(n) == Is(types, OutputType(n), "Tuple")
CodeOf(n) == operators[nodes[n].op].code

(* What callers may pass, by what they asked the type factory for: a node   *)
(* of a tuple type, whatever made it, and a node of the control type or of  *)
(* a tuple that begins with it.  That the type they were given is a tuple   *)
(* is what the members of the factory assert.                               *)
AskedFor(type) == {a.members : a \in {b \in asked : b.type = type}}
TupleNodes == {n \in DOMAIN nodes : AskedFor(OutputType(n)) # {}}
Controls ==
    {n \in DOMAIN nodes :
       \/ Is(types, OutputType(n), "Control")
       \/ \E members \in AskedFor(OutputType(n)) : BeginsWithControl(types, members)}

(* A node's inputs are linked when the constructor has returned. *)
Constructed == IF nodes = <<>> THEN TRUE ELSE linked = Len(Last(nodes).inputs)
Ready == failed = "" /\ Constructed

(* Bounds: there is room for one more node or type, and for the types made. *)
Composites == Len(types) - Len(PrimitiveTypes)
Room == Composites + Len(nodes) < MaxMade
HasRoom(made) == Len(made) <= Len(PrimitiveTypes) + MaxTypes

(* The constructor of Node: its inputs are linked by LinkInput. *)
Construct(op, type, inputs) ==
    /\ nodes' = Append(nodes, [op |-> op, type |-> type, inputs |-> inputs])
    /\ linked' = 0
    /\ first' = Append(first, None)
    /\ UNCHANGED <<next, previous, failed>>

(* NewNode0 to NewNodeN. *)
NewNode(code, member, type, inputs) ==
    LET op == OperatorOf(code, member)
    IN  /\ Room
        /\ operators' = OperatorsWith(op, code, member)
        /\ call' = [code |-> code, member |-> member, inputs |-> inputs,
                    node |-> Len(nodes) + 1]
        /\ IF FitsFormat([code |-> code, member |-> member], inputs)
           THEN Construct(op, type, inputs)
           ELSE /\ failed' = "number_of_inputs"
                /\ UNCHANGED <<nodes, linked, uses>>

(* NodeFactory::Cache: nodes of up to two inputs are found again. *)
FindNode(op, type, inputs) ==
    IF Len(inputs) > 2 THEN {}
    ELSE {n \in DOMAIN nodes : nodes[n] = [op |-> op, type |-> type, inputs |-> inputs]}

(* GetOrNewNode0 to GetOrNewNodeN. *)
GetOrNewNode(code, member, type, inputs) ==
    LET op == OperatorOf(code, member)
        present == FindNode(op, type, inputs)
    IN  IF present = {} THEN NewNode(code, member, type, inputs)
        ELSE /\ call' = [code |-> code, member |-> member, inputs |-> inputs,
                         node |-> CHOOSE n \in present : TRUE]
             /\ UNCHANGED <<operators, nodes, linked, uses, failed>>

(* The call fails an assertion on a type before it has changed anything. *)
Fail(assertion, type) ==
    /\ failed' = assertion
    /\ call' = [code |-> assertion, member |-> type, inputs |-> <<>>, node |-> 0]
    /\ UNCHANGED <<operators, nodes, linked, uses>>

-----------------------------------------------------------------------------
(* What composite types are made of. *)
Components == {t \in DOMAIN types : \/ types[t].kind \in MemberTypes
                                    \/ t > Len(PrimitiveTypes)}

SetTypes(made) ==
    /\ Room /\ HasRoom(made.types)
    /\ types' = made.types
    /\ UNCHANGED <<operators, nodes, linked, uses, call, failed>>

(* FunctionType is made of parameters.As<TupleType>(). *)
NewFunctionType ==
    /\ Ready
    /\ \E parameters \in {a.type : a \in asked}, return \in Components :
          IF Is(types, parameters, "Tuple")
          THEN SetTypes(NewComposite(types, "Function", <<parameters, return>>))
          ELSE Fail("as_tuple", parameters) /\ UNCHANGED types
    /\ UNCHANGED asked

NewReferenceType ==
    /\ Ready
    /\ \E to \in Components : SetTypes(NewComposite(types, "Reference", <<to>>))
    /\ UNCHANGED asked

AskedTuple(made, members) == [members |-> members, type |-> made.type]
NewTupleType ==
    /\ Ready
    /\ \E members \in SeqOf(Components, 2) :
          LET made == NewComposite(types, "Tuple", members)
          IN  /\ SetTypes(made)
              /\ asked' = asked \cup {AskedTuple(made, members)}

NewUnionType ==
    /\ Ready
    /\ \E passed \in SeqOf(Components, 2) : SetTypes(NewUnion(types, passed))
    /\ UNCHANGED asked

-----------------------------------------------------------------------------
NewExit ==
    /\ Ready
    /\ \E control \in Controls :
          IF IsControl(control)
          THEN NewNode("Exit", 0, Primitive("Void"), <<control>>)
          ELSE Fail("is_control", OutputType(control))
    /\ UNCHANGED <<types, asked>>

NewIf ==
    /\ Ready
    /\ \E control \in Controls, condition \in DOMAIN nodes :
          IF IsControl(control)
          THEN NewNode("If", 0, Primitive("Control"), <<control, condition>>)
          ELSE Fail("is_control", OutputType(control))
    /\ UNCHANGED <<types, asked>>

(* NewIfException, NewIfFalse, NewIfSuccess and NewIfTrue. *)
NewBranch ==
    /\ Ready
    /\ \E control \in Controls,
          code \in {"IfException", "IfFalse", "IfSuccess", "IfTrue"} :
          IF IsControl(control)
          THEN NewNode(code, 0, Primitive("Control"), <<control>>)
          ELSE Fail("is_control", OutputType(control))
    /\ UNCHANGED <<types, asked>>

NewLiteral ==
    /\ Ready
    /\ \/ \E data \in BOOLEAN :
             GetOrNewNode("LiteralBool", data, Primitive("Bool"), <<>>)
       \/ \E data \in Float64s :
             GetOrNewNode("LiteralFloat64", data, Primitive("Float64"), <<>>)
       \/ \E data \in Int64s :
             GetOrNewNode("LiteralInt64", data, Primitive("Int64"), <<>>)
       \/ \E data \in Strings :
             GetOrNewNode("LiteralString", data, Primitive("String"), <<>>)
       \/ GetOrNewNode("LiteralVoid", 0, Primitive("Void"), <<>>)
    /\ UNCHANGED <<types, asked>>

(* The type is read of the tuple type, which the node has to have. *)
NewProjection ==
    /\ Ready
    /\ \E tuple \in TupleNodes :
          IF IsTuple(tuple)
          THEN \E index \in DOMAIN types[OutputType(tuple)].members :
                  GetOrNewNode("Projection", index - 1,
                               types[OutputType(tuple)].members[index], <<tuple>>)
          ELSE Fail("is_tuple", OutputType(tuple))
    /\ UNCHANGED <<types, asked>>

NewRet ==
    /\ Ready
    /\ \E control \in Controls, value \in DOMAIN nodes :
          IF IsControl(control)
          THEN GetOrNewNode("Ret", 0, Primitive("Control"), <<control, value>>)
          ELSE Fail("is_control", OutputType(control))
    /\ UNCHANGED <<types, asked>>

StartTypes ==
    {a.type : a \in {b \in asked : /\ Len(b.members) \in 2..3
                                  /\ BeginsWithControl(types, b.members)}}
NewStart ==
    /\ Ready
    /\ \E type \in StartTypes :
          IF Is(types, type, "Tuple") THEN NewNode("Start", 0, type, <<>>)
                                      ELSE Fail("output_type", type)
    /\ UNCHANGED <<types, asked>>

(* NewTupleNodeFromVector. *)
AnyInputs == UNION {[1..width -> DOMAIN nodes] : width \in Widths}
RepeatedInputs ==
    UNION {{[i \in 1..width |-> n] : n \in DOMAIN nodes} : width \in RepeatedWidths}
TupleInputs == AnyInputs \cup RepeatedInputs
NewTuple ==
    /\ Ready
    /\ \E inputs \in TupleInputs :
          LET members == [i \in DOMAIN inputs |-> OutputType(inputs[i])]
              made == NewComposite(types, "Tuple", members)
          IN  /\ HasRoom(made.types)
              /\ types' = made.types
              /\ asked' = asked \cup {AskedTuple(made, members)}
              /\ GetOrNewNode("Tuple", Len(inputs), made.type, inputs)

(* NodeInputs::InitUseEdge of the next input of the node under              *)
(* construction: its edge becomes the first of the input's uses.            *)
LinkInputOneWay ==
    /\ failed = "" /\ ~ Constructed
    /\ LET edge == <<Len(nodes), linked + 1>>
           to == Last(nodes).inputs[linked + 1]
       IN  /\ next' = [e \in DOMAIN next \cup {edge} |->
                         IF e = edge THEN first[to] ELSE next[e]]
           /\ previous' = [e \in DOMAIN next \cup {edge} |->
                             IF e = edge THEN None ELSE previous[e]]
           /\ first' = [first EXCEPT ![to] = edge]
    /\ linked' = linked + 1
    /\ UNCHANGED <<types, operators, nodes, call, failed, asked>>
LinkInput ==
    /\ failed = "" /\ ~ Constructed
    /\ LET node == Len(nodes)
           edge == <<node, linked + 1>>
           to == nodes[node].inputs[linked + 1]
           last == first[to]
           edges == DOMAIN next \cup {edge}
       IN  /\ next' = [e \in edges |-> IF e = edge THEN last ELSE next[e]]
           /\ previous' = [e \in edges |-> IF e = edge THEN None
                                           ELSE IF e = last THEN edge
                                           ELSE previous[e]]
           /\ first' = [first EXCEPT ![to] = edge]
    /\ linked' = linked + 1
    /\ UNCHANGED <<types, operators, nodes, call, failed, asked>>

Init ==
    /\ types = Primitives
    /\ operators = <<[code |-> "LiteralBool", member |-> FALSE],
                     [code |-> "LiteralBool", member |-> TRUE]>>
    /\ nodes = <<>> /\ linked = 0
    /\ first = <<>> /\ next = <<>> /\ previous = <<>>
    /\ call = [code |-> "", member |-> 0, inputs |-> <<>>, node |-> 0]
    /\ failed = "" /\ asked = {}

Next ==
    \/ NewFunctionType \/ NewReferenceType \/ NewTupleType \/ NewUnionType
    \/ NewExit \/ NewIf \/ NewBranch \/ NewLiteral \/ NewProjection
    \/ NewRet \/ NewStart \/ NewTuple \/ LinkInput

Spec == Init /\ [][Next]_vars

-----------------------------------------------------------------------------
IsSequence(s) == Len(s) \in Nat /\ s = [i \in 1..Len(s) |-> s[i]]

(* Nodes use nodes made before them. *)
TypeOK ==
    /\ IsSequence(nodes)
    /\ \A n \in 1..Len(nodes) : nodes[n].inputs \in Seq(1..(n - 1))
    /\ linked \in Nat
    /\ IF nodes = <<>> THEN linked = 0 ELSE linked <= Len(nodes[Len(nodes)].inputs)
    /\ first \in Seq(Nat \X Nat) /\ Len(first) = Len(nodes)

(* The edges that are linked: those of every node but the last, and the     *)
(* first ones of the last node.                                             *)
InputsLinked(n) == IF n = Len(nodes) THEN linked ELSE Len(nodes[n].inputs)
LinkedEdges ==
    UNION {{<<n, i>> : i \in 1..InputsLinked(n)} : n \in DOMAIN nodes}
To(e) == nodes[e[1]].inputs[e[2]]
NewerThan(e, f) == e[1] > f[1] \/ (e[1] = f[1] /\ e[2] > f[2])

(* The list of a node's uses holds each linked edge that leads to the node  *)
(* once, the newest first, and can be read in both directions: an edge is   *)
(* the first of its node or follows a newer use of the same node, and what  *)
(* an edge names as next names it as previous.  A list that lost an edge,   *)
(* joined two nodes' uses or came back to itself (a node used twice by one  *)
(* node, aoba/ir/node_inputs.cc:61) would break it.                         *)
UseListsMatchInputs ==
    /\ DOMAIN next = LinkedEdges /\ DOMAIN previous = LinkedEdges
    /\ \A n \in DOMAIN nodes :
          first[n] # None => /\ first[n] \in LinkedEdges
                             /\ To(first[n]) = n
                             /\ previous[first[n]] = None
    /\ \A e \in LinkedEdges :
          /\ next[e] # None => /\ next[e] \in LinkedEdges
                               /\ To(next[e]) = To(e)
                               /\ previous[next[e]] = e
                               /\ NewerThan(e, next[e])
          /\ IF previous[e] = None THEN first[To(e)] = e
             ELSE previous[e] \in LinkedEdges /\ next[previous[e]] = e

(* A member of the factory returns a node of the operator, of the inputs    *)
(* and, but for the sign of zero, of the value it was asked for, shared or  *)
(* not; a projection of a tuple has the type of the input it selects.  The  *)
(* caches of operators and of nodes are keyed by less than a whole call     *)
(* (aoba/ir/operator_factory.cc:140, aoba/ir/node_factory.cc:112).          *)
CallsReturnWhatWasAsked ==
    call.node \in DOMAIN nodes =>
      LET node == nodes[call.node]
          op == operators[node.op]
      IN  /\ op.code = call.code /\ node.inputs = call.inputs
          /\ \/ op.member = call.member
             \/ op.code = "LiteralFloat64" /\ SameNumber(op.member, call.member)
          /\ op.code = "Projection" /\ CodeOf(node.inputs[1]) = "Tuple" =>
               node.type = OutputType(nodes[node.inputs[1]].inputs[op.member + 1])

(* Calls with the arguments the interface of the factories asks for fail an *)
(* assertion for two reasons only: a tuple of more inputs than the format   *)
(* of a node holds (aoba/ir/node.h:47), and a tuple type that was asked for *)
(* after a union of the same members had been made, for which the cache     *)
(* answers with the union (aoba/ir/composite_type_factory.cc:93).  That one *)
(* fails whatever a tuple is needed for next: the parameters of a function, *)
(* a start node, a projection, a control.                                   *)
OnlyWideOrSharedTuplesFail ==
    /\ failed = "number_of_inputs" => /\ call.code = "Tuple"
                                      /\ Len(call.inputs) > kMaxNumberOfInputs
    /\ failed \in {"as_tuple", "is_control", "is_tuple", "output_type"} =>
          /\ Is(types, call.member, "Union")
          /\ types[call.member].members \in AskedFor(call.member)
==============================================================================
