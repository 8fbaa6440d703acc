---------------------------- MODULE TypeTransformer ----------------------------
(***************************************************************************)
(* From the syntax of a type expression to its type,                        *)
(* analyzer/type_transformer.cc.  A node is its syntax, a name (of a name,  *)
(* or the kind of a function) and its children; the members of an argument  *)
(* or parameter list are children of the node the list belongs to.          *)
(***************************************************************************)
EXTENDS TypeFactory, SequencesExt

N(syntax, name, children) ==
    [syntax |-> syntax, name |-> name, children |-> children]
Is(node, syntax) == node.syntax = syntax
Child(node) == node.children[1]

TypeSyntaxes ==
    {"AnyType", "FunctionType", "InvalidType", "NonNullableType",
     "NullableType", "OptionalType", "RestType", "RecordType", "TupleType",
     "TypeApplication", "TypeName", "TypeGroup", "UnionType", "UnknownType",
     "VoidType"}
IsTypeSyntax(node) == node.syntax \in TypeSyntaxes

CanBeNullable(type) ==
    type.kind \notin {"any", "labeled", "nil", "null", "alias", "unspecified",
                      "void"}

NewNullableType(s) ==
    IF \E kind \in {"any", "invalid", "unspecified"} : IsKind(s, kind)
    THEN s
    ELSE NewUnionType(Check(s, "CanBeNullable", \/ IsKind(s, "alias")
                                                \/ CanBeNullable(TypeAt(s, s.at))),
                      {s.at, Single("null")})

FindName(s, label, members) ==
    \E i \in DOMAIN members : TypeAt(s, members[i]).label = label

NullableIfClass(s) ==
    IF TypeAt(s, s.at).kind \in {"class", "function"} THEN NewNullableType(s)
                                                     ELSE s
TransformTypeName(s, node) ==
    IF TryTypeOf(node.name) = 0
    THEN At(AddError(s, "UNDEFINED_TYPE", node), Single("unspecified"))
    ELSE NullableIfClass(At(s, TryTypeOf(node.name)))

WithoutNullKept(s, node) ==
    IF Single("null") \in TypeAt(s, s.at).union
    THEN s ELSE AddError(s, "EXPECT_NULLABLE_TYPE", node)

(* The members of a union, but null. *)
WithoutNull(s, node) ==
    LET members == TypeAt(s, s.at).union \ {Single("null")}
    IN  IF members = TypeAt(s, s.at).union
        THEN AddError(s, "EXPECT_NULLABLE_TYPE", node)
        ELSE NewUnionType(s, members)

-----------------------------------------------------------------------------
(* The parameters of a function type, one at a time; f is their state.       *)
NewParameters(s, state) ==
    [s |-> s, state |-> state, types |-> <<>>, this |-> Single("unspecified"),
     arity |-> [minimum |-> 0, maximum |-> 0, has_rest |-> FALSE]]

Push(f) == [f EXCEPT !.types = Append(@, f.s.at)]
Count(f) == [f EXCEPT !.arity.maximum = @ + 1]
Require(f) == [f EXCEPT !.arity.minimum = f.arity.maximum]
Enter(f, state) == [f EXCEPT !.state = state]

(* A rest parameter changes the state but not arity.has_rest. *)
AddParameterType(f, node, parameter) ==
    CASE f.state = "This" ->
           Enter([f EXCEPT !.this = f.s.at], "Required")
      [] f.state = "Rest" ->
           [f EXCEPT !.s = AddError(@, "UNEXPECT_REST", node)]
      [] Is(parameter, "RestType") -> Enter(Push(f), "Rest")
      [] f.state = "Optional" -> Count(Push(f))
      [] Is(parameter, "OptionalType") -> Enter(Count(Push(f)), "Optional")
      [] OTHER -> Require(Count(Push(f)))

IsMarked(node) == Is(node, "OptionalType") \/ Is(node, "RestType")
Unmarked(node) == IF IsMarked(node) THEN Child(node) ELSE node

RECURSIVE Transform(_, _), TransformEach(_, _, _), TransformMembers(_, _),
          TransformParameters(_, _, _)

TransformAfter(s, nodes, types) ==
    TransformEach(s, Tail(nodes), Append(types, s.at))
TransformEach(s, nodes, types) ==
    IF nodes = <<>> THEN [s |-> s, types |-> types]
    ELSE TransformAfter(Transform(s, Head(nodes)), nodes, types)

TransformParameters(f, node, parameters) ==
    IF parameters = <<>> THEN f
    ELSE TransformParameters(
             AddParameterType(
                 [f EXCEPT !.s = Transform(@, Unmarked(Head(parameters)))],
                 node, Head(parameters)),
             node, Tail(parameters))

(* The last child of a function type is its return type. *)
FunctionReturning(s, f, node) ==
    NewFunctionType(s, IF node.name = "New" THEN "Constructor" ELSE "Normal",
                    <<>>, f.arity, f.types, s.at, f.this)
TransformReturnType(f, node) ==
    FunctionReturning(Transform(Check(f.s, "This", f.state # "This"),
                                Last(node.children)),
                      f, node)
TransformFunctionType(s, node) ==
    TransformReturnType(
        TransformParameters(
            NewParameters(s, IF node.name = "This" THEN "This" ELSE "Required"),
            node, Front(node.children)),
        node)

RemoveNull(s, node) ==
    IF IsKind(s, "union") THEN WithoutNull(s, node)
                          ELSE AddError(s, "EXPECT_NULLABLE_TYPE", node)
TransformNonNullableType(s, node) ==
    RemoveNull(Transform(s, Child(node)), Child(node))

(* A member without a type has any type; one that is neither a name nor a    *)
(* property, or repeats a name, is reported and left out.                    *)
MemberError(f, code, member) == [f EXCEPT !.s = AddError(@, code, member)]
Labeled(s, label) == NewLabeledType(s, label, s.at)
AddLabel(f, s) == [f EXCEPT !.s = s, !.types = Append(@, s.at)]
TransformMember(f, member) ==
    CASE member.syntax \notin {"Name", "Property"} ->
           MemberError(f, "EXPECT_PROPERTY", member)
      [] FindName(f.s, member.name, f.types) ->
           MemberError(f, "MULTIPLE_PROPERTY", member)
      [] OTHER ->
           AddLabel(f, Labeled(IF Is(member, "Name") THEN At(f.s, Single("any"))
                               ELSE Transform(f.s, Child(member)), member.name))
TransformMembers(f, members) ==
    IF members = <<>> THEN f
    ELSE TransformMembers(TransformMember(f, Head(members)), Tail(members))

NotEmpty(f, node) ==
    IF f.types = <<>> THEN MemberError(f, "EMPTY_RECORD_TYPE", node) ELSE f
RecordOf(f) == NewNullableType(NewRecordType(f.s, f.types))
TransformRecordType(s, node) ==
    RecordOf(NotEmpty(TransformMembers([s |-> s, types |-> <<>>], node.children),
                      node))

Reject(s, code, node) == At(AddError(s, code, node), Single("unspecified"))
ConstructedFrom(f, name) == NewConstructedClass(f.s, name, f.types)
TransformTypeApplication(s, node) ==
    IF node.name \notin ClassNames \/ GenericArity[node.name] = 0
    THEN Reject(s, "EXPECT_GENERIC_CLASS", node)
    ELSE IF GenericArity[node.name] # Len(node.children)
    THEN Reject(s, "INVALID_ARGUMENTS", node)
    ELSE ConstructedFrom(TransformEach(s, node.children, <<>>), node.name)

NullableClass(s) == IF IsKind(s, "class") THEN NewNullableType(s) ELSE s

TupleTypeOf(a) == NewTupleType(a.s, a.types)
UnionOf(a) == NewUnionType(a.s, {a.types[i] : i \in DOMAIN a.types})

Transform(s, node) ==
    CASE node.syntax \in {"AnyType", "UnknownType"} -> At(s, Single("any"))
      [] Is(node, "FunctionType") -> TransformFunctionType(s, node)
      [] Is(node, "NonNullableType") -> TransformNonNullableType(s, node)
      [] Is(node, "NullableType") -> NewNullableType(Transform(s, Child(node)))
      [] Is(node, "OptionalType") ->
           Transform(AddError(s, "UNEXPECT_OPTIONAL", node), Child(node))
      [] Is(node, "RestType") ->
           Transform(AddError(s, "UNEXPECT_REST", node), Child(node))
      [] Is(node, "RecordType") -> TransformRecordType(s, node)
      [] Is(node, "TupleType") ->
           TupleTypeOf(TransformEach(s, node.children, <<>>))
      [] Is(node, "TypeApplication") ->
           NullableClass(TransformTypeApplication(s, node))
      [] Is(node, "TypeName") -> TransformTypeName(s, node)
      [] Is(node, "TypeGroup") -> Transform(s, Child(node))
      [] Is(node, "UnionType") -> UnionOf(TransformEach(s, node.children, <<>>))
      [] Is(node, "VoidType") -> At(s, Single("void"))
      [] OTHER -> At(Check(s, "Type", Is(node, "InvalidType")),
                     Single("unspecified"))
================================================================================
