--------------------------- MODULE ParserExpressions ---------------------------
(* parser/parser_expressions.cc and parser/parser_declarations.cc: *)
(* expressions, object initializers, functions and classes.        *)
EXTENDS ParserMachine

Expression == NodeOf("Expression")
Reference == NodeOf("Reference")
Member == NodeOf("Member")
Group == NodeOf("Group")
ArrowFunction == NodeOf("ArrowFunction")
Function == NodeOf("Function")
Class == NodeOf("Class")

CanBePropertyName == IsName \/ IsLiteral \/ Peek = "["
CanHaveJsDoc(n) == n.syntax \in {"Group", "ArrowFunction", "Function"}

(* ParseExpression and ParseCommaExpression *)
ParseExpression ==
    /\ Running("Expression")
    /\ \/ ~CanPeekToken /\ ReturnError(Expression)
       \/ CanPeekToken /\ Call(<< <<"AssignmentExpression">>, <<"Comma">> >>)

ParseComma ==
    /\ Running("Comma")
    /\ \/ Peek = "," /\ Read(<< <<"AssignmentExpression">>, <<"CommaExpression">> >>)
       \/ Peek # "," /\ Call(<<>>)

ParseCommaExpression ==
    /\ Running("CommaExpression")
    /\ \/ Peek = "," /\ Read(<< <<"AssignmentExpression">>, <<"CommaExpression">> >>)
       \/ Peek # "," /\ JustReturn(Expression)

(* ParseAssignmentExpression, down to the first unary expression. *)
BinaryExpression(lowest) ==
    << <<"UnaryExpression">>, <<"BinaryExpression", lowest, Exponentiation>> >>

ParseAssignmentExpression ==
    /\ Running("AssignmentExpression")
    /\ \/ ~CanPeekToken /\ ReturnError(Expression)
       \/ CanPeekToken
             /\ Call(BinaryExpression(LogicalOr) \o
                     << <<"ConditionalExpression">>, <<"Assignment">> >>)

AssignmentNode ==
    Operation(IF Peek = "=" /\ node.syntax = "Member" THEN "MemberAssignment"
              ELSE "Expression", Assignment)

ParseAssignment ==
    /\ Running("Assignment")
    /\ \/ CategoryOf(Peek) = Assignment
             /\ Read(<< <<"AssignmentExpression">>, Make(AssignmentNode) >>)
       \/ CategoryOf(Peek) # Assignment /\ Call(<<>>)

ParseConditionalExpression ==
    /\ Running("ConditionalExpression")
    /\ \/ Peek = "?" /\ Read(<< <<"AssignmentExpression">>, Expect(":"),
                               <<"AssignmentExpression">>,
                               Make(Operation("Expression", Assignment)) >>)
       \/ Peek # "?" /\ Call(<<>>)

(* ParseBinaryExpression: one item stands for the nested calls of all the *)
(* categories from the lowest to the highest one that has not ended.      *)
ParseBinaryExpression ==
    /\ Running("BinaryExpression")
    /\ LET lowest == Argument
           highest == Head(todo)[3]
           category == CategoryOf(Peek)
       IN \/ /\ category \in lowest..highest
             /\ Read(<< <<"BinaryOperand", category, Peek, node>>,
                        <<"BinaryExpression", lowest, category>> >>)
          \/ category \notin lowest..highest /\ Call(<<>>)

ParseBinaryOperand ==
    /\ Running("BinaryOperand")
    /\ \/ ~CanPeekToken /\ ReturnError(Head(todo)[4])
       \/ /\ CanPeekToken
          /\ Call(BinaryExpression(HigherPrecedenceOf(Argument)) \o
                  << <<"NewBinaryExpression", Argument, Head(todo)[3], Head(todo)[4]>> >>)

(* IsInExpression and IsLeftHandSide of its left operand. *)
BinaryNode(category, operator, left) ==
    Operation(IF operator # "in" THEN "Expression"
              ELSE IF left.syntax \in {"Reference", "Member", "Object"} THEN "In"
              ELSE "InvalidIn", category)

NewBinaryExpression ==
    /\ Running("NewBinaryExpression")
    /\ JustReturn(BinaryNode(Argument, Head(todo)[3], Head(todo)[4]))

(* ParseUnaryExpression and ParseUpdateExpression *)
IsUnaryOperator == Peek \in {"...", "!", "+", "typeof"}
ParseUnaryExpression ==
    /\ Running("UnaryExpression")
    /\ \/ PeekPastEnd
       \/ IsUnaryOperator /\ Read(<< <<"UnaryExpression">>, Make(Expression) >>)
       \/ Peek = "yield" /\ Read(<< <<"YieldExpression">>, Make(Expression) >>)
       \/ Peek = "++" /\ Read(<< <<"LeftHandSideExpression">>, Make(Expression) >>)
       \/ CanPeekToken /\ ~IsUnaryOperator /\ Peek \notin {"yield", "++"}
             /\ Call(<< <<"LeftHandSideExpression">>, <<"UpdateExpression">> >>)

ParseYieldExpression ==
    /\ Running("YieldExpression")
    /\ \/ Peek \in {"end", ";"} /\ Call(<<>>)
       \/ Peek = "*" /\ Read(<< <<"AssignmentExpression">> >>)
       \/ Peek \notin {"end", ";", "*"} /\ Call(<< <<"AssignmentExpression">> >>)

ParseUpdateExpression ==
    /\ Running("UpdateExpression")
    /\ \/ Peek # "++" /\ Call(<<>>)
       \/ Peek = "++" /\ is_separated_by_newline_
             /\ KeepToken(StrictSemicolon) /\ Continue(<<>>)
       \/ Peek = "++" /\ ~is_separated_by_newline_ /\ ReadReturn(Expression)

(* ParseLeftHandSideExpression, and HandleNewExpression, which takes no *)
(* argument lists.                                                      *)
ParseLeftHandSideExpression ==
    /\ Running("LeftHandSideExpression")
    /\ \/ ~CanPeekToken /\ ReturnError(Expression)
       \/ CanPeekToken /\ Call(<< <<"NewExpression">>, <<"CallExpression">> >>)

HandleNewExpression ==
    /\ Running("MemberExpression")
    /\ \/ Peek = "[" /\ Read(<< <<"Expression">>, Expect("]"), Make(Member),
                               <<"MemberExpression">> >>)
       \/ Peek = "." /\ Read(<< <<"MemberName">>, <<"MemberExpression">> >>)
       \/ Peek \notin {"[", "."} /\ Call(<<>>)

HandleCallExpression ==
    /\ Running("CallExpression")
    /\ \/ Peek = "[" /\ Read(<< <<"Expression">>, Expect("]"), Make(Member),
                               <<"CallExpression">> >>)
       \/ Peek = "." /\ Read(<< <<"MemberName">>, <<"CallExpression">> >>)
       \/ Peek = "(" /\ Read(<< <<"ArgumentList">>, Make(Expression),
                               <<"CallExpression">> >>)
       \/ Peek \notin {"[", ".", "("} /\ Call(<<>>)

HandleMember ==
    /\ Running("MemberName")
    /\ \/ IsName /\ ReadReturn(Member)
       \/ ~IsName /\ CallError(<<>>)

(* ParseNewExpression *)
ParseNewExpression ==
    /\ Running("NewExpression")
    /\ \/ Peek = "new" /\ Read(<< <<"NewTarget">> >>)
       \/ Peek # "new" /\ Call(<< <<"PrimaryExpression">>, <<"MemberExpression">> >>)

ParseNewTarget ==
    /\ Running("NewTarget")
    /\ \/ ~CanPeekToken /\ ReturnError(Expression)
       \/ Peek = "." /\ Call(<< Make(Reference), <<"MemberExpression">> >>)
       \/ CanPeekToken /\ Peek # "."
             /\ Call(<< <<"NewExpression">>, <<"NewArguments">> >>)

ParseNewArguments ==
    /\ Running("NewArguments")
    /\ \/ Peek = "(" /\ Read(<< <<"ArgumentList">>, Make(Expression) >>)
       \/ Peek # "(" /\ Call(<< Make(Expression), <<"MemberExpression">> >>)

(* ParseArgumentList, after its parenthesis.  An argument is parsed as a *)
(* comma expression, so that no comma follows it.                        *)
ParseArgumentList ==
    /\ Running("ArgumentList")
    /\ \/ Peek = ")" /\ Read(<<>>)
       \/ Peek # ")" /\ Call(<< <<"Arguments">> >>)

ParseArguments ==
    /\ Running("Arguments")
    /\ \/ ~CanPeekToken /\ Call(<<>>)
       \/ CanPeekToken /\ Call(<< <<"Expression">>, <<"ArgumentEnd">> >>)

ParseArgumentEndWithoutComma ==
    /\ Running("ArgumentEnd")
    /\ \/ ~CanPeekToken /\ Call(<<>>)
       \/ Peek = ")" /\ Read(<<>>)
       \/ Peek = ";" /\ CallError(<<>>)
       \/ CanPeekToken /\ Peek \notin {")", ";"} /\ Call(<< <<"Arguments">> >>)

ParseArgumentEnd ==
    /\ Running("ArgumentEnd")
    /\ \/ ~CanPeekToken /\ Call(<<>>)
       \/ Peek = ")" /\ Read(<<>>)
       \/ Peek = ";" /\ CallError(<<>>)
       \/ CanPeekToken /\ Peek \notin {")", ";"} /\ CallError(<< <<"Arguments">> >>)
-----------------------------------------------------------------------------
(* ParsePrimaryExpression.  A regular expression is taken to be well formed; *)
(* the lexer replaces the division sign by it before it is consumed.         *)
StartsPrimaryExpression ==
    \/ IsName \/ IsLiteral
    \/ Peek \in {"jsdoc", "fileoverview", "(", "[", "{", "/", "/="}

ParsePrimaryExpression ==
    /\ Running("PrimaryExpression")
    /\ \/ ~CanPeekToken /\ ReturnError(Expression)
       \/ Peek \in DocumentKind
             /\ Read(<< <<"PrimaryExpression">>, <<"JsDocAsExpression">> >>)
       \/ IsLiteral /\ ReadReturn(Expression)
       \/ Peek = "class" /\ Read(<< <<"Class">>, Make(Class) >>)
       \/ Peek = "(" /\ Read(<< <<"Parenthesis">> >>)
       \/ Peek = "[" /\ Read(<< <<"ArrayInitializer">>, Make(Expression) >>)
       \/ Peek = "{" /\ Read(<< <<"ObjectInitializer", FALSE>>, Make(NodeOf("Object")) >>)
       \/ Peek \in {"/", "/="} /\ Read(<< <<"RegExpFlags">>, Make(Expression) >>)
       \/ CanPeekToken /\ ~StartsPrimaryExpression /\ ReadReturnError(Expression)

ParseNameAsExpression ==
    /\ Running("PrimaryExpression")
    /\ \/ Peek = "async" /\ Read(<< <<"Async">> >>)
       \/ Peek = "function" /\ Read(<< <<"FunctionStar">>, Make(Function) >>)
       \/ Peek = "true" /\ ReadReturn(Expression)
       \/ Peek = "this" /\ ReadReturn(Reference)
       \/ Peek \in Keyword \ {"class", "function", "true", "this"}
             /\ ReadReturnError(Expression)
       \/ Peek \in NameKind \ (Keyword \cup {"async"})
             /\ Read(<< <<"Arrow", Reference>> >>)

ParseAsync ==
    /\ Running("Async")
    /\ \/ Peek = "function" /\ Read(<< <<"Function">>, Make(Function) >>)
       \/ Peek # "function" /\ Call(<< <<"Arrow", Reference>> >>)

(* A parameter, or a group of them, may be followed by an arrow. *)
ParseArrow ==
    /\ Running("Arrow")
    /\ \/ Peek = "=>" /\ Read(<< <<"ArrowFunctionBody">>, Make(ArrowFunction) >>)
       \/ Peek # "=>" /\ JustReturn(Argument)

ParseJsDocAsExpression ==
    /\ Running("JsDocAsExpression")
    /\ KeepToken(~CanHaveJsDoc(node))
    /\ Return(Expression)

ParseParenthesis ==
    /\ Running("Parenthesis")
    /\ \/ Peek = ")" /\ Read(<< Expect("=>"), <<"ArrowFunctionBody">>,
                               Make(ArrowFunction) >>)
       \/ Peek # ")" /\ Call(<< <<"Expression">>, Expect(")"), <<"Arrow", Group>> >>)

ParseArrayInitializer ==
    /\ Running("ArrayInitializer")
    /\ \/ ~CanPeekToken /\ Call(<<>>)
       \/ Peek = "]" /\ Read(<<>>)
       \/ Peek = "," /\ Read(<< <<"ArrayInitializer">> >>)
       \/ CanPeekToken /\ Peek \notin {"]", ","}
             /\ Call(<< <<"AssignmentExpression">>, <<"ArrayInitializer">> >>)

ParseRegExpLiteral ==
    /\ Running("RegExpFlags")
    /\ \/ is_separated_by_newline_ /\ KeepToken(StrictSemicolon) /\ Continue(<<>>)
       \/ ~is_separated_by_newline_ /\ IsName /\ Read(<<>>)
       \/ ~is_separated_by_newline_ /\ ~IsName /\ Call(<<>>)
-----------------------------------------------------------------------------
(* FunctionKindOf a property name is not Normal. *)
HasFunctionKind == Peek \in {"async", "get"}

(* ParseObjectInitializer: the argument tells whether a document waits for *)
(* the member that follows.                                                *)
ParseObjectInitializer ==
    /\ Running("ObjectInitializer")
    /\ \/ ~CanPeekToken /\ KeepToken(Argument) /\ Continue(<<>>)
       \/ Peek = "}" /\ ConsumeToken(Argument) /\ Continue(<<>>)
       \/ Peek \in {",", ";"} /\ ConsumeToken(Argument) /\ Continue(<< Head(todo) >>)
       \/ Peek \in DocumentKind /\ ConsumeToken(Argument)
             /\ Continue(<< <<"ObjectInitializer", TRUE>> >>)
       \/ Peek = "*" /\ Read(<< <<"Method">>, <<"ObjectInitializer", FALSE>> >>)
       \/ Peek = "static" /\ Read(<< <<"StaticMember">>, <<"ObjectInitializer", FALSE>> >>)
       \/ CanPeekToken /\ Peek \notin {"}", ",", ";", "*", "static"} \cup DocumentKind
             /\ Call(<< <<"PropertyName">>,
                        <<"PropertyAfterName", FALSE, HasFunctionKind>>,
                        <<"ObjectInitializer", FALSE>> >>)

ParseStaticMember ==
    /\ Running("StaticMember")
    /\ \/ ~CanPeekToken /\ Call(<<>>)
       \/ CanBePropertyName
             /\ Call(<< <<"PropertyName">>,
                        <<"PropertyAfterName", TRUE, HasFunctionKind>> >>)
       \/ Peek = "*" /\ Read(<< <<"Method">> >>)
       \/ CanPeekToken /\ ~CanBePropertyName /\ Peek # "*"
             /\ Call(<< <<"PropertyAfterName", FALSE, FALSE>> >>)

ParsePropertyName ==
    /\ Running("PropertyName")
    /\ \/ ~CanPeekToken /\ ReturnError(Expression)
       \/ (IsName \/ IsLiteral) /\ ReadReturn(Expression)
       \/ CanPeekToken /\ ~IsName /\ ~IsLiteral
             /\ Call(<< <<"PrimaryExpression">> >>)

PropertyValue(static) ==
    \/ Peek = "}" /\ KeepToken(static) /\ Continue(<<>>)
    \/ Peek = "," /\ ConsumeToken(static) /\ Continue(<<>>)
    \/ Peek \in {":", "="} /\ ConsumeToken(static)
          /\ Continue(<< <<"AssignmentExpression">> >>)
    \/ Peek \notin {"}", ",", ":", "="} /\ ReadError(<<>>)

(* ParsePropertyAfterName(static, function kind), skipped at the end. *)
ParsePropertyAfterName ==
    /\ Running("PropertyAfterName")
    /\ LET static == Argument
           hasFunctionKind == Head(todo)[3]
       IN \/ ~CanPeekToken /\ Call(<<>>)
          \/ hasFunctionKind /\ CanBePropertyName /\ Call(<< <<"Method">> >>)
          \/ Peek = "(" /\ Call(<< <<"ParameterList">>, <<"FunctionBody">> >>)
          \/ /\ CanPeekToken /\ Peek # "(" /\ ~(hasFunctionKind /\ CanBePropertyName)
             /\ PropertyValue(static)

-----------------------------------------------------------------------------
(* parser_declarations.cc *)
ParseMethod ==
    /\ Running("Method")
    /\ Call(<< <<"PropertyName">>, <<"ParameterList">>, <<"FunctionBody">> >>)

ParseArrowFunctionBody ==
    /\ Running("ArrowFunctionBody")
    /\ \/ ~CanPeekToken /\ CallError(<<>>)
       \/ Peek = "{" /\ Call(<< <<"Statement">> >>)
       \/ CanPeekToken /\ Peek # "{" /\ Call(<< <<"AssignmentExpression">> >>)

ParseClassName ==
    /\ Running("Class")
    /\ \/ IsName /\ Peek # "extends" /\ Read(<< <<"ClassHeritage">> >>)
       \/ ~(IsName /\ Peek # "extends") /\ Call(<< <<"ClassHeritage">> >>)

ParseClassHeritage ==
    /\ Running("ClassHeritage")
    /\ \/ Peek = "extends" /\ Read(<< <<"LeftHandSideExpression">>, <<"ClassBody">> >>)
       \/ Peek # "extends" /\ Call(<< <<"ClassBody">> >>)

ParseClassBody ==
    /\ Running("ClassBody")
    /\ \/ Peek = "{" /\ Call(<< <<"PrimaryExpression">> >>)
       \/ Peek # "{" /\ CallError(<<>>)

ParseFunctionStar ==
    /\ Running("FunctionStar")
    /\ \/ Peek = "*" /\ Read(<< <<"Function">> >>)
       \/ Peek # "*" /\ Call(<< <<"Function">> >>)

ParseFunction ==
    /\ Running("Function")
    /\ \/ IsName /\ Read(<< <<"ParameterList">>, <<"FunctionBody">> >>)
       \/ ~IsName /\ Call(<< <<"ParameterList">>, <<"FunctionBody">> >>)

ParseParameterList ==
    /\ Running("ParameterList")
    /\ \/ Peek = "(" /\ Read(<< <<"Parameters">> >>)
       \/ Peek # "(" /\ CallError(<<>>)

ParseParameters ==
    /\ Running("Parameters")
    /\ \/ Peek = ")" /\ Read(<<>>)
       \/ Peek # ")" /\ Call(<< <<"BindingElements">>, Expect(")") >>)

ParseFunctionBody ==
    /\ Running("FunctionBody")
    /\ \/ Peek = "{" /\ Call(<< <<"Statement">> >>)
       \/ Peek # "{" /\ CallError(<<>>)

ExpressionsNext ==
    \/ ParseExpression \/ ParseComma \/ ParseCommaExpression
    \/ ParseAssignmentExpression \/ ParseAssignment \/ ParseConditionalExpression
    \/ ParseBinaryExpression \/ ParseBinaryOperand \/ NewBinaryExpression
    \/ ParseUnaryExpression \/ ParseYieldExpression \/ ParseUpdateExpression
    \/ ParseLeftHandSideExpression \/ HandleNewExpression
    \/ HandleCallExpression \/ HandleMember \/ ParseNewExpression
    \/ ParseNewTarget \/ ParseNewArguments \/ ParseArgumentList
    \/ ParseArguments \/ ParseArgumentEnd \/ ParsePrimaryExpression
    \/ ParseNameAsExpression \/ ParseAsync \/ ParseArrow
    \/ ParseJsDocAsExpression \/ ParseParenthesis \/ ParseArrayInitializer
    \/ ParseRegExpLiteral \/ ParseObjectInitializer \/ ParseStaticMember
    \/ ParsePropertyName \/ ParsePropertyAfterName

DeclarationsNext ==
    \/ ParseMethod \/ ParseArrowFunctionBody \/ ParseClassName
    \/ ParseClassHeritage \/ ParseClassBody \/ ParseFunctionStar
    \/ ParseFunction \/ ParseParameterList \/ ParseParameters
    \/ ParseFunctionBody
=============================================================================
