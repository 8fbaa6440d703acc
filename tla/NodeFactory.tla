------------------------------ MODULE NodeFactory ------------------------------
(***************************************************************************)
(* The members of ast/node_factory.cc: the children each of them stores, in *)
(* the order it stores them, and the assertions it makes of its arguments.  *)
(* A child is named as the accessor that is meant to read it names it; a    *)
(* child no accessor reads has the name of the factory's parameter.         *)
(***************************************************************************)
EXTENDS Naturals, Sequences, Syntaxes

(* NewNode stores the operands, NewVariadicNode the one operand it may have *)
(* and then the list.                                                       *)
NewNode(operands) == [operands |-> operands, list |-> "", dropped |-> {}]
NewVariadicNode(operands, list) ==
    [operands |-> operands, list |-> list, dropped |-> {}]
NewList(list) == NewVariadicNode(<<>>, list)
NewLeaf == NewNode(<<>>)

BindingFactories == [
    ArrayBindingPattern   |-> NewVariadicNode(<<"Initializer">>, "Elements"),
    BindingCommaElement   |-> NewLeaf,
    BindingInvalidElement |-> NewLeaf,
    BindingNameElement    |-> NewNode(<<"Name", "Initializer">>),
    BindingProperty       |-> NewNode(<<"Name", "Element">>),
    BindingRestElement    |-> NewNode(<<"Element">>),
    ObjectBindingPattern  |-> NewVariadicNode(<<"Initializer">>, "Elements")]

CompilationUnitFactories == [
    Tuple   |-> NewList("Nodes"),
    Externs |-> NewList("Statements"),
    Module  |-> NewList("Statements"),
    Script  |-> NewList("Statements")]

TokenFactories == [
    Comment |-> NewLeaf, Empty |-> NewLeaf, Invalid |-> NewLeaf,
    Name |-> NewLeaf, Punctuator |-> NewLeaf, RegExpSource |-> NewLeaf]

DeclarationFactories == [
    Annotation    |-> NewNode(<<"Document", "Annotated">>),
    ArrowFunction |-> NewNode(<<"Parameters", "Body">>),
    Class         |-> NewNode(<<"Name", "Heritage", "Body">>),
    Declaration   |-> NewNode(<<"Expression", "Initializer">>),
    Function      |-> NewNode(<<"Name", "Parameters", "Body">>),
    Method        |-> NewNode(<<"Name", "Parameters", "Body">>)]

ExpressionFactories == [
    ArrayInitializer         |-> NewList("Elements"),
    AssignmentExpression     |->
      NewNode(<<"LeftHandSide", "Operator", "RightHandSide">>),
    BinaryExpression         |->
      NewNode(<<"LeftHandSide", "Operator", "RightHandSide">>),
    CallExpression           |-> NewVariadicNode(<<"Expression">>, "Arguments"),
    CommaExpression          |-> NewList("Expressions"),
    ComputedMemberExpression |-> NewNode(<<"Container", "Expression">>),
    ConditionalExpression    |->
      NewNode(<<"Condition", "TrueExpression", "FalseExpression">>),
    DelimiterExpression      |-> NewLeaf,
    ElisionExpression        |-> NewLeaf,
    GroupExpression          |-> NewNode(<<"Expression">>),
    MemberExpression         |-> NewNode(<<"Container", "Name">>),
    NewExpression            |-> NewVariadicNode(<<"Expression">>, "Arguments"),
    ObjectInitializer        |-> NewList("Properties"),
    ParameterList            |-> NewList("Parameters"),
    Property                 |-> NewNode(<<"Name", "Value">>),
    ReferenceExpression      |-> NewNode(<<"Name">>),
    RegExpLiteralExpression  |-> NewNode(<<"RegExp", "Flags">>),
    UnaryExpression          |-> NewNode(<<"Operator", "Expression">>)]

JsDocFactories == [
    JsDocDocument |-> NewList("Nodes"),
    JsDocTag      |-> NewVariadicNode(<<"Name">>, "Operands"),
    JsDocText     |-> NewLeaf]

LiteralFactories == [
    BooleanLiteral |-> NewLeaf, NullLiteral |-> NewLeaf,
    NumericLiteral |-> NewLeaf, StringLiteral |-> NewLeaf,
    UndefinedLiteral |-> NewLeaf]

RegExpFactories == [
    AnyCharRegExp |-> NewLeaf, AssertionRegExp |-> NewLeaf,
    CaptureRegExp |-> NewNode(<<"Pattern">>), CharSetRegExp |-> NewLeaf,
    ComplementCharSetRegExp |-> NewLeaf, EmptyRegExp |-> NewLeaf,
    InvalidRegExp |-> NewLeaf, LiteralRegExp |-> NewLeaf,
    LookAheadRegExp |-> NewNode(<<"Pattern">>),
    LookAheadNotRegExp |-> NewNode(<<"Pattern">>),
    OrRegExp |-> NewList("Patterns"), RegExpRepeat |-> NewLeaf,
    RepeatRegExp |-> NewNode(<<"Pattern", "Repeat">>),
    SequenceRegExp |-> NewList("Patterns")]

FirstStatementFactories == [
    BlockStatement      |-> NewList("Statements"),
    BreakStatement      |-> NewNode(<<"Label">>),
    CaseClause          |-> NewNode(<<"Expression", "Statement">>),
    CatchClause         |-> NewNode(<<"Parameter", "Statement">>),
    ConstStatement      |-> NewList("Elements"),
    ContinueStatement   |-> NewNode(<<"Label">>),
    DoStatement         |-> NewNode(<<"Statement", "Expression">>),
    EmptyStatement      |-> NewLeaf,
    ExpressionStatement |-> NewNode(<<"Expression">>),
    ForStatement        |->
      NewNode(<<"Keyword", "Initialize", "Condition", "Step", "Statement">>),
    ForInStatement      |->
      NewNode(<<"Keyword", "Binding", "Expression", "Statement">>),
    ForOfStatement      |->
      NewNode(<<"Keyword", "Binding", "Expression", "Statement">>)]

(* NewLabeledStatement takes a label and stores the statement only. *)
LastStatementFactories == [
    IfElseStatement          |-> NewNode(<<"Expression", "Then", "Else">>),
    IfStatement              |-> NewNode(<<"Expression", "Then">>),
    InvalidStatement         |-> NewLeaf,
    LabeledStatement         |->
      [NewNode(<<"Statement">>) EXCEPT !.dropped = {"Label"}],
    LetStatement             |-> NewList("Elements"),
    ReturnStatement          |-> NewNode(<<"Expression">>),
    SwitchStatement          |-> NewVariadicNode(<<"Expression">>, "Clauses"),
    ThrowStatement           |-> NewNode(<<"Expression">>),
    TryCatchFinallyStatement |-> NewNode(<<"Try", "Catch", "Finally">>),
    TryCatchStatement        |-> NewNode(<<"Try", "Catch">>),
    TryFinallyStatement      |-> NewNode(<<"Try", "Finally">>),
    VarStatement             |-> NewList("Elements"),
    WhileStatement           |-> NewNode(<<"Expression", "Statement">>),
    WithStatement            |-> NewNode(<<"Expression", "Statement">>)]

TypeFactories == [
    AnyType |-> NewLeaf, FunctionType |-> NewNode(<<"ParameterTypes", "ReturnType">>),
    InvalidType |-> NewLeaf, MemberType |-> NewNode(<<"Member", "Name">>),
    NullableType |-> NewNode(<<"Type">>), NonNullableType |-> NewNode(<<"Type">>),
    OptionalType |-> NewNode(<<"Type">>), PrimitiveType |-> NewNode(<<"Name">>),
    RecordType |-> NewList("Members"), RestType |-> NewNode(<<"Type">>),
    TupleType |-> NewList("Members"),
    TypeApplication |-> NewNode(<<"Name", "Arguments">>),
    TypeGroup |-> NewNode(<<"Type">>), TypeName |-> NewNode(<<"Name">>),
    UnionType |-> NewList("Members"), UnknownType |-> NewLeaf,
    VoidType |-> NewLeaf]

AllFactories == {BindingFactories, CompilationUnitFactories, TokenFactories,
                 DeclarationFactories, ExpressionFactories, JsDocFactories,
                 LiteralFactories, RegExpFactories, FirstStatementFactories,
                 LastStatementFactories, TypeFactories}
Codes == UNION {DOMAIN group : group \in AllFactories}
FactoryOf(code) ==
    (CHOOSE group \in AllFactories : code \in DOMAIN group)[code]

-----------------------------------------------------------------------------
(* The assertions: what each argument has to be.  is maps an argument to    *)
(* the syntax of the node (of all of them, for a list); kind to its token   *)
(* kind, for a name.                                                        *)
IsMemberExpression(code) == code \in {"MemberExpression", "ComputedMemberExpression"}

DeclarationAsserts(code, is) ==
    CASE code = "Annotation"    -> is["Document"] = {"JsDocDocument"}
      [] code = "ArrowFunction" ->
           is["Parameters"] \subseteq {"ParameterList", "BindingNameElement"}
      [] code = "Declaration"   -> \A c \in is["Expression"] : IsMemberExpression(c)
      [] code \in {"Function", "Method"} -> is["Parameters"] = {"ParameterList"}
      [] OTHER -> TRUE

(* Token::KindOf of the operator casts its syntax to a token. *)
ExpressionAsserts(code, is) ==
    CASE code = "ReferenceExpression" -> is["Name"] = {"Name"}
      [] code = "AssignmentExpression" -> is["Operator"] \subseteq {"Punctuator"}
      [] code \in {"BinaryExpression", "UnaryExpression"} ->
           is["Operator"] \subseteq {"Name", "Punctuator"}
      [] OTHER -> TRUE

JsDocAsserts(code, is) == code = "JsDocTag" => is["Name"] = {"Name"}
RegExpAsserts(code, is) == code = "RepeatRegExp" => is["Repeat"] = {"RegExpRepeat"}

IsDeclarationKeyword(kinds) == kinds \subseteq {"Const", "Let", "Var"}
IsValidForBinding(codes) == codes \subseteq
    {"BindingNameElement", "ArrayBindingPattern", "ObjectBindingPattern"}

(* With a keyword a loop has a binding, without one it has none. *)
LoopAsserts(code, is, kind) ==
    LET binding == IF code = "ForStatement" THEN "Initialize" ELSE "Binding"
    IN  IF is["Keyword"] = {"Name"} /\ IsDeclarationKeyword(kind["Keyword"])
        THEN IsValidForBinding(is[binding])
        ELSE is["Keyword"] = {"Empty"} /\ ~ IsValidForBinding(is[binding])
StatementAsserts(code, is, kind) ==
    code \in {"ForStatement", "ForInStatement", "ForOfStatement"} =>
      LoopAsserts(code, is, kind)

TypeAsserts(code, is) ==
    CASE code = "FunctionType" ->
           is["ParameterTypes"] = {"Tuple"} /\ is["ReturnType"] \subseteq Types
      [] code = "MemberType"  ->
           is["Member"] \subseteq {"MemberType", "TypeName"} /\ is["Name"] = {"Name"}
      [] code \in {"NullableType", "NonNullableType", "OptionalType",
                   "RestType", "TypeGroup"} -> is["Type"] \subseteq Types
      [] code \in {"PrimitiveType", "TypeName"} -> is["Name"] = {"Name"}
      [] code = "RecordType"  -> is["Members"] \subseteq {"Name", "Property"}
      [] code \in {"TupleType", "UnionType"} -> is["Members"] \subseteq Types
      [] code = "TypeApplication" ->
           is["Name"] \subseteq {"TypeName", "MemberType"} /\ is["Arguments"] = {"Tuple"}
      [] OTHER -> TRUE

Asserts(code, is, kind) ==
    /\ DeclarationAsserts(code, is)
    /\ ExpressionAsserts(code, is)
    /\ JsDocAsserts(code, is)
    /\ RegExpAsserts(code, is)
    /\ StatementAsserts(code, is, kind)
    /\ TypeAsserts(code, is)

(* The children a node gets of its arguments: given.operand maps a name to  *)
(* a node, given.list is the list.                                          *)
StoreOperands(operands, given) ==
    [i \in DOMAIN operands |-> given.operand[operands[i]]]
ListFirst(factory, given) ==
    given.list \o StoreOperands(factory.operands, given)
ChildrenOf(factory, given) ==
    StoreOperands(factory.operands, given) \o given.list
===============================================================================
