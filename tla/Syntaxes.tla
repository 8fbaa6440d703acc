------------------------------- MODULE Syntaxes -------------------------------
(***************************************************************************)
(* The syntaxes of the tree: for each of them the format it declares and   *)
(* the positions its accessors read, as the sources under ast/ give them.  *)
(*                                                                          *)
(* A format has the number of children, whether there may be more of them, *)
(* and the number of parameters of the syntax itself (a token has its kind, *)
(* a number its value).  "child" maps an accessor, without its Of, to the   *)
(* position it reads; "list" maps an accessor that returns the children     *)
(* from a position on to that position.                                     *)
(***************************************************************************)
EXTENDS Naturals, Sequences

None == <<>>

Fixed(arity, child) ==
    [arity |-> arity, variadic |-> FALSE, parameters |-> 0,
     child |-> child, list |-> None]
Variadic(arity, child, list) ==
    [arity |-> arity, variadic |-> TRUE, parameters |-> 0,
     child |-> child, list |-> list]
WithParameters(count, syntax) == [syntax EXCEPT !.parameters = count]

Leaf == Fixed(0, None)
Children(arity) == Fixed(arity, None)
List == Variadic(0, None, None)

(* What IMPLEMENT_AST_SYNTAX_0 makes of a name and an arity: no accessor. *)
Bindings == [
    BindingCommaElement   |-> Leaf,
    BindingInvalidElement |-> Leaf,
    BindingProperty       |-> Children(2),
    BindingRestElement    |-> Children(1),
    ArrayBindingPattern   |-> Variadic(1, [Initializer |-> 0], [Elements |-> 1]),
    BindingNameElement    |-> Fixed(2, [Name |-> 0, Initializer |-> 1]),
    ObjectBindingPattern  |-> Variadic(1, [Initializer |-> 0], [Elements |-> 1])]

CompilationUnits == [Externs |-> List, Module |-> List, Script |-> List]

Declarations == [
    Annotation    |-> Fixed(2, [Document |-> 0, Annotated |-> 1]),
    ArrowFunction |-> WithParameters(1, Fixed(2, [Parameters |-> 0, Body |-> 1])),
    Class         |-> Fixed(3, [Name |-> 0, Heritage |-> 1, Body |-> 2]),
    Declaration   |-> Fixed(2, [Expression |-> 0, Initializer |-> 1]),
    Function      |->
      WithParameters(1, Fixed(3, [Name |-> 0, Parameters |-> 1, Body |-> 2])),
    Method        |->
      WithParameters(2, Fixed(3, [Name |-> 0, Parameters |-> 1, Body |-> 2]))]

Operation == WithParameters(1,
    Fixed(3, [LeftHandSide |-> 0, Operator |-> 1, RightHandSide |-> 2]))
Application == Variadic(1, [Expression |-> 0], [Arguments |-> 1])

(* The expressions up to ConditionalExpression, those after it up to        *)
(* NewExpression, and the rest.                                             *)
FirstExpressions == [
    ArrayInitializer         |-> List,
    AssignmentExpression     |-> Operation,
    BinaryExpression         |-> Operation,
    CallExpression           |-> Application,
    CommaExpression          |-> List,
    ComputedMemberExpression |-> Fixed(2, [Container |-> 0, Expression |-> 1]),
    ConditionalExpression    |->
      Fixed(3, [Condition |-> 0, TrueExpression |-> 1, FalseExpression |-> 2])]

MiddleExpressions == [
    DelimiterExpression |-> Leaf,
    ElisionExpression   |-> Leaf,
    GroupExpression     |-> Fixed(1, [Expression |-> 0]),
    MemberExpression    |-> Fixed(2, [Container |-> 0, Name |-> 1]),
    NewExpression       |-> Application]

LastExpressions == [
    ObjectInitializer       |-> List,
    ParameterList           |-> List,
    Property                |-> Fixed(2, [Name |-> 0, Value |-> 1]),
    ReferenceExpression     |-> Fixed(1, [Name |-> 0]),
    RegExpLiteralExpression |-> Fixed(2, [RegExp |-> 0, Flags |-> 1]),
    Tuple                   |-> List,
    UnaryExpression         |->
      WithParameters(1, Fixed(2, [Operator |-> 0, Expression |-> 1]))]

JsDocSyntaxes == [
    JsDocDocument |-> List,
    JsDocTag      |-> Variadic(1, [Name |-> 0], [Operands |-> 1]),
    JsDocText     |-> Leaf]

Literals == [
    BooleanLiteral   |-> WithParameters(1, Leaf),
    NullLiteral      |-> Leaf,
    NumericLiteral   |-> WithParameters(1, Leaf),
    StringLiteral    |-> Leaf,
    UndefinedLiteral |-> Leaf]

RegExps == [
    AnyCharRegExp           |-> Leaf,
    AssertionRegExp         |-> WithParameters(1, Leaf),
    CaptureRegExp           |-> Children(1),
    CharSetRegExp           |-> Leaf,
    ComplementCharSetRegExp |-> Leaf,
    EmptyRegExp             |-> Leaf,
    InvalidRegExp           |-> Leaf,
    LiteralRegExp           |-> Leaf,
    LookAheadRegExp         |-> Children(1),
    LookAheadNotRegExp      |-> Children(1),
    RepeatRegExp            |-> Children(2),
    OrRegExp                |-> List,
    RegExpRepeat            |-> WithParameters(3, Leaf),
    SequenceRegExp          |-> List]

(* The statements up to ForStatement, and those from ForInStatement on. *)
FirstStatements == [
    BreakStatement           |-> Children(1),
    CaseClause               |-> Children(2),
    ContinueStatement        |-> Children(1),
    DoStatement              |-> Children(2),
    EmptyStatement           |-> Leaf,
    IfElseStatement          |-> Children(3),
    IfStatement              |-> Children(2),
    InvalidStatement         |-> Leaf,
    LabeledStatement         |-> Children(1),
    ReturnStatement          |-> Children(1),
    ThrowStatement           |-> Children(1),
    TryCatchStatement        |-> Children(2),
    TryCatchFinallyStatement |-> Children(3),
    TryFinallyStatement      |-> Children(2),
    WhileStatement           |-> Children(2),
    WithStatement            |-> Children(2),
    BlockStatement           |-> List,
    CatchClause              |-> Fixed(2, [Parameter |-> 0, Statement |-> 1]),
    ConstStatement           |-> List,
    ExpressionStatement      |-> Fixed(1, [Expression |-> 0]),
    ForStatement             |->
      Fixed(5, [Keyword |-> 0, Initialize |-> 1, Condition |-> 2, Step |-> 3,
                Statement |-> 4])]

ForEach ==
    Fixed(4, [Keyword |-> 0, Binding |-> 1, Expression |-> 2, Statement |-> 3])

LastStatements == [
    ForInStatement  |-> ForEach,
    ForOfStatement  |-> ForEach,
    LetStatement    |-> List,
    SwitchStatement |-> Variadic(1, [Expression |-> 0], [Clauses |-> 1]),
    VarStatement    |-> List]

Tokens == [
    Comment      |-> Leaf,
    Empty        |-> Leaf,
    Invalid      |-> WithParameters(1, Leaf),
    Name         |-> WithParameters(1, Leaf),
    Punctuator   |-> WithParameters(1, Leaf),
    RegExpSource |-> Leaf]

(* The types up to PrimitiveType, and those after it. *)
FirstTypes == [
    AnyType         |-> Leaf,
    FunctionType    |->
      WithParameters(1, Fixed(2, [ParameterTypes |-> 0, ReturnType |-> 1])),
    InvalidType     |-> Leaf,
    MemberType      |-> Fixed(2, [Member |-> 0, Name |-> 1]),
    NullableType    |-> Fixed(1, [Type |-> 0]),
    NonNullableType |-> Fixed(1, [Type |-> 0]),
    OptionalType    |-> Fixed(1, [Type |-> 0]),
    PrimitiveType   |-> Fixed(1, [Name |-> 0])]

LastTypes == [
    RecordType      |-> List,
    RestType        |-> Fixed(1, [Type |-> 0]),
    TupleType       |-> List,
    TypeApplication |-> Fixed(2, [Name |-> 0, Arguments |-> 1]),
    TypeGroup       |-> Fixed(1, [Type |-> 0]),
    TypeName        |-> Fixed(1, [Name |-> 0]),
    UnionType       |-> List,
    UnknownType     |-> Leaf,
    VoidType        |-> Leaf]

Types == DOMAIN FirstTypes \cup DOMAIN LastTypes

(* FOR_EACH_AST_SYNTAX *)
AllSyntaxes == {Bindings, CompilationUnits, Declarations, FirstExpressions,
                MiddleExpressions, LastExpressions, JsDocSyntaxes, Literals,
                RegExps, FirstStatements, LastStatements, Tokens, FirstTypes,
                LastTypes}
SyntaxOf(code) ==
    (CHOOSE group \in AllSyntaxes : code \in DOMAIN group)[code]
===============================================================================
