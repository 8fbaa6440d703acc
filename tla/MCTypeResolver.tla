----------------------------- MODULE MCTypeResolver -----------------------------
(* Annotated constructs for TLC: type expressions of two levels, documents   *)
(* of a few tags, and the constructs they annotate.                         *)
EXTENDS TypeResolver

MCGenericArity ==
    [c \in ClassNames |-> CASE c \in {"Array", "G", "L"} -> 1 [] OTHER -> 0]

MCDeclarations ==
    <<[kind |-> "primitive", name |-> "number"],
      [kind |-> "type_parameter", name |-> "T"], [kind |-> "alias", name |-> "A"]>>
      \o [i \in 1 .. 8 |->
            [kind |-> "class",
             class |-> [name |-> <<"Object", "Array", "C", "D", "G", "I", "J", "L">>[i],
                        arguments |-> <<>>]]]

Named(n) == N("TypeName", n, <<>>)
AnyNode == N("AnyType", "", <<>>)
Leaves == {Named(n) : n \in {"C", "number", "T", "A", "U"}} \cup {AnyNode}
Few == {Named("C"), Named("number"), AnyNode}
Unary(syntaxes, nodes) == {N(x, "", <<t>>) : x \in syntaxes, t \in nodes}
Pairs(syntaxes, nodes) ==
    {N(x, "", <<t, u>>) : x \in syntaxes, t \in nodes, u \in nodes}
Marks == {"NonNullableType", "NullableType"}

Functions(kinds, parameters) ==
    {N("FunctionType", k, p \o <<r>>) :
       k \in kinds, r \in {Named("C"), N("VoidType", "", <<>>)},
       p \in parameters}
Parameters ==
    {<<>>, <<Named("C")>>, <<N("OptionalType", "", <<Named("C")>>), Named("T")>>,
     <<Named("number"), N("OptionalType", "", <<Named("T")>>)>>,
     <<Named("C"), N("RestType", "", <<Named("T")>>)>>}
Property(n, t) == N("Property", n, <<t>>)
Members == {N("Name", "x", <<>>), Property("x", Named("C")),
            Property("y", AnyNode), N("InvalidType", "", <<>>)}

MCTypes ==
    Leaves \cup Unary(Marks \cup {"OptionalType", "RestType", "TypeGroup",
                                  "TupleType"}, Leaves)
      \cup Unary(Marks, Unary(Marks, Few) \cup Pairs({"UnionType"}, Few))
      \cup Pairs({"UnionType"}, Leaves \cup Unary(Marks, {Named("C")}))
      \cup {N("UnionType", "", <<u, t>>) :
              u \in Unary({"TypeGroup"}, Pairs({"UnionType"}, Few)), t \in Few}
      \cup {N("TupleType", "", <<t, u>>) : t \in Few, u \in Few}
      \cup {N("RecordType", "", <<t, u>>) : t \in Members, u \in Members}
      \cup {N("RecordType", "", <<>>), N("InvalidType", "", <<>>)}
      \cup {N("TypeApplication", n, <<t>>) :
              n \in {"G", "C", "L", "number"}, t \in Few}
      \cup {N("TypeApplication", "G", <<Named("C"), AnyNode>>)}
      \cup Functions({"None", "New"}, Parameters)
      \cup Functions({"This"}, Parameters \ {<<>>})

Tag(tag, parts) == [tag |-> tag, parts |-> parts]
Text == N("JsDocText", "", <<>>)
Reference(n) == N("ReferenceExpression", n, <<>>)
TypeTag(t) == Tag("@type", <<t>>)
Param(t, n) == Tag("@param", <<t, Reference(n), Text>>)

KindTagsOf == {Tag(t, <<>>) : t \in {"@constructor", "@interface", "@record",
                                     "@enum", "@dict", "@const", "@final"}}
                \cup {TypeTag(Named("C")), Tag("@typedef", <<Named("C")>>),
                      Tag("@const", <<Named("C")>>), Tag("@type", <<>>),
                      Tag("@template", <<Named("T"), Text, Named("T")>>),
                      Tag("@private", <<>>), Tag("@override", <<>>),
                      Param(Named("C"), "x"), Tag("@return", <<Named("C")>>),
                      Tag("@this", <<Named("C")>>)}
KindDocuments == {<<t, u>> : t \in KindTagsOf, u \in KindTagsOf}
                   \cup {<<t>> : t \in KindTagsOf} \cup {<<>>}

ParameterMarks == {Named("C"), N("OptionalType", "", <<Named("C")>>),
                   N("RestType", "", <<Named("C")>>)}
ParameterTagsOf ==
    {Param(t, n) : t \in ParameterMarks, n \in {"x", "y"}}
      \cup {Tag("@param", <<Reference("x"), Text>>), Tag("@param", <<Text>>),
            Tag("@param", <<Named("C"), Text>>), Tag("@return", <<Text>>)}
ParameterDocuments ==
    {<<t, u>> : t \in ParameterTagsOf, u \in ParameterTagsOf}
      \cup {<<t, Param(u, "z"), Param(v, "y")>> :
              t \in {Param(w, "x") : w \in ParameterMarks},
              u \in ParameterMarks, v \in ParameterMarks}
ParameterLists ==
    LET P(n, initializer, rest) ==
            [name |-> n, initializer |-> initializer, rest |-> rest]
    IN  {<<>>, <<P("x", FALSE, FALSE)>>, <<P("x", FALSE, TRUE)>>,
         <<P("x", TRUE, FALSE), P("y", FALSE, FALSE)>>,
         <<P("x", FALSE, FALSE), P("x", FALSE, FALSE)>>}

ExtendsParts == {Named("C"), Named("D"), Named("I"), Named("number"),
                 N("TypeApplication", "G", <<Named("C")>>),
                 N("TypeApplication", "L", <<Named("C")>>),
                 N("NonNullableType", "", <<Named("C")>>)}
ExtendsTags == {Tag("@extends", <<t>>) : t \in ExtendsParts}
ImplementsTags ==
    {Tag("@implements", <<t>>) :
       t \in {Named("I"), Named("C"), N("TypeApplication", "L", <<Named("C")>>)}}
HeritageTags == ExtendsTags \cup ImplementsTags
HeritageDocuments ==
    {<<Tag("@constructor", <<>>), t, u>> : t \in HeritageTags, u \in HeritageTags}
      \cup {<<t>> : t \in HeritageTags} \cup {<<Tag("@interface", <<>>)>>}

Node(shape, document, class) ==
    [shape |-> shape, document |-> document, class |-> class,
     heritage |-> N("ElisionExpression", "", <<>>), parameters |-> <<>>,
     methods |-> <<>>, bindings |-> <<>>, assigned |-> FALSE]
Binding(class) == [shape |-> "binding", class |-> class]
Variables(document, bindings) ==
    [Node("variables", document, "none") EXCEPT !.bindings = bindings]
Method(document, static, name, parameters) ==
    [shape |-> "method", document |-> document, static |-> static, name |-> name,
     parameters |-> parameters, getter |-> FALSE]

TypedVariables == {Variables(<<TypeTag(t)>>, <<Binding("none")>>) : t \in MCTypes}
KindConstructs ==
    {Variables(d, <<Binding("none"), [shape |-> "pattern"]>>) : d \in KindDocuments}
ParameterConstructs ==
    {[Node("function", d, "none") EXCEPT !.parameters = p] :
       d \in ParameterDocuments, p \in ParameterLists}
MethodConstructs ==
    {[Node("class", <<>>, "D") EXCEPT
        !.methods = <<Method(<<Param(Named("T"), "x"),
                               Tag("@template", <<Named("T")>>)>>, static, n, p)>>] :
       static \in BOOLEAN, n \in {"constructor", "m"}, p \in ParameterLists}
HeritageConstructs ==
    {Node("function", d, c) : d \in HeritageDocuments, c \in {"D", "J"}}
      \cup {[Node("class", <<t>>, "D") EXCEPT !.heritage = h] :
              t \in HeritageTags,
              h \in {Reference("C"), Reference("I"), Reference("v"),
                     N("ElisionExpression", "", <<>>)}}
      \cup {[Node("property", d, c) EXCEPT !.assigned = assigned] :
              d \in HeritageDocuments, c \in {"D", "J", "none"},
              assigned \in BOOLEAN}
      \cup {Node("expression", d, "none") : d \in {<<TypeTag(AnyNode)>>}}

MCConstructs == TypedVariables \cup KindConstructs \cup ParameterConstructs
                  \cup MethodConstructs \cup HeritageConstructs

(* Two constructs share types, or a class: every construct is a program of   *)
(* its own, and some constructs follow each typed variable or class.        *)
Followers ==
    {Variables(<<TypeTag(t)>>, <<Binding("none")>>) :
       t \in Pairs({"UnionType"}, Few) \cup Functions({"None"}, Parameters)}
Rivals == {Node("function", <<t>>, "D") : t \in HeritageTags}
            \cup {Node("class", <<>>, "J")}

MCPrograms == {<<c>> : c \in MCConstructs}
                \cup {<<c, d>> : c \in TypedVariables, d \in Followers}
                \cup {<<c, d>> : c \in HeritageConstructs, d \in Rivals}
================================================================================
