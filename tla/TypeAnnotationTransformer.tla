----------------------- MODULE TypeAnnotationTransformer -----------------------
(***************************************************************************)
(* The type an annotation gives to the node it annotates,                   *)
(* analyzer/type_annotation_transformer.cc.  The node is its shape, a        *)
(* function or a method having a list of parameters: a name, whether it has *)
(* an initializer and whether it is a rest element.                         *)
(***************************************************************************)
EXTENDS AnnotationCompiler, TypeTransformer, TLC

CONSTANT ArrayClass  \* the generic class Array

VoidType == Single("void")

(* child_at(i): a failed assertion if the tag is too short. *)
CheckChildAt(s, tag, i) == Check(s, "child_at", HasChildAt(tag, i))
PartIs(tag, i, syntax) == HasChildAt(tag, i) /\ Is(ChildAt(tag, i), syntax)
PartName(tag) == ChildAt(tag, 2).name

TransformType(s, node) ==
    IF IsTypeSyntax(node) THEN Transform(s, node)
    ELSE At(AddError(s, "EXPECT_TYPE", node), Single("unspecified"))

(* The type in a tag, Array<T> and T= without their marks. *)
TagType(s, tag) ==
    IF HasChildAt(tag, 1) THEN TransformType(s, Unmarked(ChildAt(tag, 1)))
                          ELSE At(CheckChildAt(s, tag, 1), Single("unspecified"))

-----------------------------------------------------------------------------
(* FunctionParameters::Builder: the parameters of a list, typed by the       *)
(* @param tags of their names.                                              *)
NewBuilder(s, a) ==
    NewParameters(s, "Required") @@ [annotation |-> a, used |-> {}]

ParameterTags(b) == {i \in Tags(b.annotation.parameter_tags) : TRUE}
TagOf(b, i) == b.annotation.document[i]

Earliest(S) == CHOOSE i \in S : \A k \in S : i <= k

(* The first tag of this name, 0 for none.  Every tag before it is asked for *)
(* child 2 when it has two children or more, children 0 and 1.              *)
FindParameterTag(b, label) ==
    LET named == {i \in ParameterTags(b) :
                    /\ PartIs(TagOf(b, i), 2, "ReferenceExpression")
                    /\ PartName(TagOf(b, i)) = label}
    IN  IF named = {} THEN 0 ELSE Earliest(named)
CheckTags(b, label) ==
    LET found == FindParameterTag(b, label)
        asked == {i \in ParameterTags(b) : found = 0 \/ i <= found}
    IN  [b EXCEPT !.s = Check(@, "child_at",
            \A i \in asked : Len(TagOf(b, i).parts) # 1)]

RecordNameInverted(b, label) == FALSE

(* parameter_names_ stays empty, so no name is ever found in it. *)
RecordName(b, label) == TRUE

RecordTag(b, i) ==
    [b EXCEPT !.s = Check(@, "RecordTag", i \notin b.used), !.used = @ \cup {i}]

BuilderError(b, code, node) == [b EXCEPT !.s = AddError(@, code, node)]
ErrorIf(b, condition, code, node) ==
    IF condition THEN BuilderError(b, code, node) ELSE b

TypeOfTag(b, i) ==
    [b EXCEPT !.s = IF i = 0 THEN At(@, Single("unspecified"))
                             ELSE TagType(@, TagOf(b, i))]
RecordFound(b, i, label) ==
    IF i # 0 /\ RecordName(b, label) THEN RecordTag(b, i) ELSE b
RestArity(b) == Enter([Push(b) EXCEPT !.arity.has_rest = TRUE], "Rest")

(* The first optional parameter makes maximum one more than minimum. *)
OptionalArity(b) ==
    Enter([Push(b) EXCEPT !.arity.maximum = b.arity.minimum + 1], "Optional")
AddNamed(b, parameter, is_optional, is_rest) ==
    CASE b.state = "Rest" -> BuilderError(b, "UNEXPECT_REST", parameter)
      [] b.state # "Rest" /\ is_rest -> RestArity(b)
      [] b.state = "Optional" /\ ~is_rest -> Count(Push(b))
      [] OTHER -> IF parameter.initializer \/ is_optional
                  THEN OptionalArity(b) ELSE Require(Count(Push(b)))
AddNamedAs(b, i, parameter) ==
    LET is_optional == i # 0 /\ PartIs(TagOf(b, i), 1, "OptionalType")
        is_rest == i # 0 /\ PartIs(TagOf(b, i), 1, "RestType")
    IN  AddNamed(ErrorIf(RecordFound(TypeOfTag(b, i), i, parameter.name),
                         parameter.initializer /\ (is_optional \/ is_rest),
                         "UNEXPECT_INITIALIZER", parameter),
                 parameter, is_optional, is_rest)
ProcessBindingNameElement(b, parameter) ==
    AddNamedAs(CheckTags(b, parameter.name),
               FindParameterTag(b, parameter.name), parameter)

(* A rest element is an array of the type of its tag. *)
ArrayOf(s) == NewConstructedClass(s, ArrayClass, <<s.at>>)
PushUnspecified(b) == Push([b EXCEPT !.s = At(@, Single("unspecified"))])
AddRest(b, i) ==
    CASE i = 0 -> PushUnspecified(b)
      [] i # 0 /\ ~PartIs(TagOf(b, i), 1, "RestType") ->
           PushUnspecified(BuilderError(b, "EXPECT_REST", [tag |-> i]))
      [] OTHER -> Push([b EXCEPT !.s = ArrayOf(TagType(@, TagOf(b, i)))])
ProcessBindingRestElement(b, parameter) ==
    LET i == FindParameterTag(b, parameter.name)
        c == [ErrorIf(b, b.state = "Rest", "UNEXPECT_REST", parameter)
                EXCEPT !.arity.has_rest = TRUE]
    IN  AddRest(RecordFound(CheckTags(c, parameter.name), i, parameter.name), i)

ProcessParameter(b, parameter) ==
    IF parameter.rest THEN ProcessBindingRestElement(b, parameter)
                      ELSE ProcessBindingNameElement(b, parameter)

RECURSIVE BuildFrom(_, _)
BuildFrom(b, parameters) ==
    IF parameters = <<>> THEN b
    ELSE BuildFrom(ProcessParameter(b, Head(parameters)), Tail(parameters))

CheckParameters(b) ==
    [b EXCEPT !.s = Check(@, "FunctionParameters",
                          MatchesArity(b.arity, b.types))]

ReportUnused(b) ==
    [b EXCEPT !.s.errors = @ \cup
        {<<"UNEXPECT_PARAMETER", [tag |-> i]>> : i \in ParameterTags(b) \ b.used}]

Build(s, a, parameters) ==
    CheckParameters(ReportUnused(BuildFrom(NewBuilder(s, a), parameters)))

-----------------------------------------------------------------------------
(* ProcessParameterTags: where there is no list, the tags are the list.      *)
(* Here too no name is ever added to parameter_names.                       *)
AddTag(b, i) ==
    LET tag == TagOf(b, i)
    IN  CASE b.state = "Rest" ->
               Push(BuilderError(b, "UNEXPECT_REST", [tag |-> i]))
          [] b.state # "Rest" /\ PartIs(tag, 1, "RestType") -> RestArity(b)
          [] b.state = "Required" /\ PartIs(tag, 1, "OptionalType") ->
               OptionalArity(b)
          [] b.state = "Optional" /\ ~PartIs(tag, 1, "RestType") ->
               Count(Push(b))
          [] OTHER -> Require(Count(Push(b)))
ProcessParameterTag(b, i) ==
    AddTag([b EXCEPT !.s = CheckChildAt(TagType(@, TagOf(b, i)), TagOf(b, i), 2)],
           i)

RECURSIVE TagsFrom(_, _)
TagsFrom(b, tags) ==
    IF tags = <<>> THEN b
    ELSE TagsFrom(ProcessParameterTag(b, Head(tags)), Tail(tags))
ProcessParameterTags(s, a) ==
    CheckParameters(TagsFrom(NewBuilder(s, a), a.parameter_tags))

-----------------------------------------------------------------------------
ComputeReturnType(s, a) ==
    IF a.return_tag = 0 THEN At(s, VoidType)
    ELSE LET tag == a.document[a.return_tag]
         IN  IF HasChildAt(tag, 1) THEN TransformType(s, ChildAt(tag, 1))
             ELSE At(CheckChildAt(s, tag, 1), VoidType)

(* this_type is 0 where the caller knows of no class. *)
ComputeThisType(this_type) == IF this_type = 0 THEN VoidType ELSE this_type

ComputeTypeParameters(a) ==
    [k \in DOMAIN a.type_parameter_names |-> TryTypeOf(a.type_parameter_names[k])]

NewFunctionReturning(s, b, a, kind, this) ==
    NewFunctionType(s, kind, ComputeTypeParameters(a), b.arity, b.types, s.at, this)
NewFunction(b, a, kind, this) ==
    NewFunctionReturning(IF kind = "Constructor" THEN At(b.s, this)
                                                 ELSE ComputeReturnType(b.s, a),
                         b, a, kind, this)

TransformMethod(s, a, node, this_type) ==
    LET this == ComputeThisType(this_type)
    IN  NewFunction([Build(s, a, node.parameters) EXCEPT !.s =
                        Check(@, "this_type", node.static = (this = VoidType))],
                    a, IF ~node.static /\ node.name = "constructor"
                       THEN "Constructor" ELSE "Normal", this)

TransformAsFunctionType(s, a, node, this_type) ==
    IF node.shape = "method" THEN TransformMethod(s, a, node, this_type)
    ELSE NewFunction(IF node.shape = "function" THEN Build(s, a, node.parameters)
                                                ELSE ProcessParameterTags(s, a),
                     a, IF a.kind = "Function" THEN "Normal" ELSE "Constructor",
                     ComputeThisType(this_type))

(* The class of the value of the node, if the node has one of its own. *)
TransformAsInterface(s, node) ==
    IF node.class = "none"
    THEN At(AddError(s, "UNEXPECT_TAG", [shape |-> node.shape]),
            Single("unspecified"))
    ELSE NewClassType(s, [name |-> node.class, arguments |-> <<>>])

(* Compile: at is 0 where the annotation gives no type. *)
CompileType(s, a, node, this_type) ==
    CASE a.kind \in {"Constructor", "Function"} ->
           TransformAsFunctionType(s, a, node, this_type)
      [] a.kind = "Define" -> At(Check(s, "NYI", FALSE), 0)
      [] a.kind = "Interface" -> TransformAsInterface(s, node)
      [] a.kind \in {"Type", "TypeDef"} ->
           IF a.type_node = 0 THEN At(Check(s, "type_node", FALSE), 0)
           ELSE IF ~IsTypeSyntax(TypeNode(a))
           THEN At(AddError(s, "EXPECT_TYPE", TypeNode(a)), 0)
           ELSE Transform(s, TypeNode(a))
      [] OTHER -> At(s, 0)
================================================================================
