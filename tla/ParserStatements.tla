--------------------------- MODULE ParserStatements ---------------------------
(* parser/parser_statements.cc, and Parser::Run of parser/parser.cc. *)
EXTENDS ParserMachine

Statement == NodeOf("Statement")
ExpressionNode == NodeOf("Expression")

(* Keywords that only start an expression, and reserved words. *)
ExpressionKeyword ==
    {"extends", "in", "instanceof", "new", "this", "true", "typeof", "yield"}
ReservedWord == {"catch", "else", "enum", "finally", "static"}

AtStatement == Running("Statement")

(* ParseStatement: the end of the text, an empty statement, and what starts *)
(* with neither a name, a document nor a brace.                             *)
ParseStatement ==
    /\ AtStatement
    /\ \/ ~CanPeekToken /\ JustReturn(Statement)
       \/ Peek = ";" /\ ReadReturn(Statement)
       \/ Peek = "{" /\ Call(<< <<"BlockStatement">>, Make(Statement) >>)
       \/ /\ CanPeekToken /\ Peek \notin {";", "{"} \cup DocumentKind \cup NameKind
          /\ Call(<< <<"Expression">>, <<"ExpressionStatement">> >>)

ExpressionStatementNode(n) ==
    NodeOf(IF n.syntax \in {"Member", "MemberAssignment"} THEN "MemberStatement"
           ELSE "ExpressionStatement")

(* ParseExpressionStatement, after the expression. *)
ParseExpressionStatement ==
    /\ Running("ExpressionStatement")
    /\ \/ node.syntax \in {"Class", "Function"} /\ Call(<<>>)
       \/ node.syntax \notin {"Class", "Function"}
             /\ Call(<< <<"ExpectSemicolon">>, Make(ExpressionStatementNode(node)) >>)

(* ParseJsDocAsStatement: a document belongs to a declaration or to a member *)
(* expression, and a statement has one document.                             *)
ReadJsDoc ==
    /\ AtStatement
    /\ Peek \in DocumentKind
    /\ Read(<< <<"Statement">>, <<"JsDocAsStatement">> >>)

ParseJsDocAsStatement ==
    /\ Running("JsDocAsStatement")
    /\ KeepToken(node.syntax \in {"Annotation", "ExpressionStatement"})
    /\ Return(NodeOf("Annotation"))

(* ParseNameAsStatement and ParseKeywordStatement: a keyword is read and the *)
(* rest of its statement follows.                                            *)
ReadKeyword(k, items) == AtStatement /\ Peek = k /\ Read(items \o << Make(Statement) >>)

ParseKeywordStatement ==
    \/ ReadKeyword("break", << <<"Label">> >>)
    \/ ReadKeyword("case", << <<"Expression">>, <<"CaseClause">> >>)
    \/ AtStatement /\ Peek = "class" /\ Read(<< <<"Class">>, Make(NodeOf("Class")) >>)
    \/ AtStatement /\ Peek = "debugger"
          /\ Read(<< <<"ExpectSemicolon">>, Make(NodeOf("ExpressionStatement")) >>)
    \/ ReadKeyword("default", << <<"DefaultLabel">> >>)
    \/ ReadKeyword("do", << <<"Statement">>, <<"DoWhile">> >>)
    \/ ReadKeyword("for", << Expect("("), <<"ForDocument">> >>)
    \/ AtStatement /\ Peek = "function"
          /\ Read(<< <<"FunctionStar">>, Make(NodeOf("Function")) >>)
    \/ ReadKeyword("if", << <<"ParenthesisExpression">>, <<"Statement">>, <<"Else">> >>)
    \/ ReadKeyword("return", << <<"ReturnStatement">> >>)
    \/ ReadKeyword("switch", << <<"ParenthesisExpression">>, <<"SwitchStatement">> >>)
    \/ ReadKeyword("throw", << <<"Expression">>, <<"ExpectSemicolon">> >>)
    \/ ReadKeyword("try", << <<"Statement">>, <<"TryStatement">> >>)
    \/ ReadKeyword("var", << <<"BindingElements">>, <<"ExpectSemicolon">> >>)
    \/ ReadKeyword("while", << <<"ParenthesisExpression">>, <<"Statement">> >>)
    \/ ReadKeyword("with", << <<"ParenthesisExpression">>, <<"Statement">> >>)
    \/ AtStatement /\ Peek \in ReservedWord /\ ReadReturnError(Statement)
    \/ AtStatement /\ Peek \in ExpressionKeyword
          /\ Call(<< <<"Expression">>, <<"ExpressionStatement">> >>)

ParseNameAsStatement ==
    /\ AtStatement
    /\ Peek \in NameKind \ Keyword
    /\ Read(<< <<"NameStatement", PeekToken>> >>)

(* The name is a label, or the first token of an expression. *)
IsLabel == CanPeekToken /\ ~is_separated_by_newline_ /\ Peek = ":"

ParseAfterName ==
    /\ Running("NameStatement")
    /\ \/ IsLabel /\ Read(<< <<"LabeledStatement">>, Make(Statement) >>)
       \/ /\ ~IsLabel
          /\ PushBackToken(Argument, CanPeekToken /\ is_separated_by_newline_
                                     /\ StrictSemicolon)
          /\ Continue(<< <<"Expression">>, <<"ExpressionStatement">> >>)

(* HandleLabeledStatement after the colon. *)
HandleLabeledStatement ==
    /\ Running("LabeledStatement")
    /\ \/ ~StrictSemicolon /\ Peek \in {"end", "}"} /\ Call(<<>>)
       \/ (StrictSemicolon \/ Peek \notin {"end", "}"}) /\ Call(<< <<"Statement">> >>)

ParseDefaultLabel ==
    /\ Running("DefaultLabel")
    /\ \/ Peek = ":" /\ Read(<< <<"LabeledStatement">> >>)
       \/ Peek # ":" /\ CallError(<<>>)

(* ParseBlockStatement, and the clauses of ParseSwitchStatement. *)
ParseBlockStatement ==
    /\ Running("BlockStatement")
    /\ \/ CanPeekToken /\ Read(<< <<"Statements">> >>)
       \/ PeekPastEnd

ParseStatements ==
    /\ Running("Statements")
    /\ \/ ~CanPeekToken /\ Call(<<>>)
       \/ Peek = "}" /\ Read(<<>>)
       \/ CanPeekToken /\ Peek # "}" /\ Call(<< <<"Statement">>, <<"Statements">> >>)

(* ParseBreakStatement and ParseContinueStatement *)
ParseLabel ==
    /\ Running("Label")
    /\ \/ is_separated_by_newline_ /\ KeepToken(StrictSemicolon) /\ Continue(<<>>)
       \/ ~is_separated_by_newline_ /\ IsName /\ Read(<< <<"ExpectSemicolon">> >>)
       \/ ~is_separated_by_newline_ /\ ~IsName /\ Call(<< <<"ExpectSemicolon">> >>)

ParseCaseClause ==
    /\ Running("CaseClause")
    /\ \/ Peek = ":" /\ Read(<< <<"CaseStatement">> >>)
       \/ Peek # ":" /\ CallError(<< <<"Statement">> >>)

ParseCaseStatement ==
    /\ Running("CaseStatement")
    /\ \/ Peek = "}" /\ KeepToken(StrictSemicolon) /\ Continue(<<>>)
       \/ Peek # "}" /\ Call(<< <<"Statement">> >>)

ParseDoStatement ==
    /\ Running("DoWhile")
    /\ \/ /\ Peek = "while"
          /\ Read(<< <<"ParenthesisExpression">>,
                     IF StrictSemicolon THEN <<"ExpectSemicolon">> ELSE Optional(";") >>)
       \/ Peek # "while" /\ CallError(<<>>)

ParseIfStatement ==
    /\ Running("Else")
    /\ \/ Peek = "else" /\ Read(<< <<"Statement">> >>)
       \/ Peek # "else" /\ Call(<<>>)

ParseParenthesisExpression ==
    /\ Running("ParenthesisExpression")
    /\ \/ Peek = "(" /\ Read(<< <<"Expression">>, Expect(")") >>)
       \/ Peek # "(" /\ CallError(<< <<"Expression">> >>)

ParseReturnStatement ==
    /\ Running("ReturnStatement")
    /\ \/ is_separated_by_newline_ /\ KeepToken(StrictSemicolon) /\ Continue(<<>>)
       \/ ~is_separated_by_newline_ /\ Peek = "}" /\ Call(<<>>)
       \/ ~is_separated_by_newline_ /\ Peek = ";" /\ Read(<<>>)
       \/ ~is_separated_by_newline_ /\ Peek \notin {"}", ";"}
             /\ Call(<< <<"Expression">>, <<"ExpectSemicolon">> >>)

ParseSwitchStatement ==
    /\ Running("SwitchStatement")
    /\ \/ Peek = "{" /\ Read(<< <<"Statements">> >>)
       \/ Peek # "{" /\ CallError(<<>>)

ParseTryStatement ==
    /\ Running("TryStatement")
    /\ \/ Peek = "finally" /\ Read(<< <<"BlockStatement">> >>)
       \/ Peek = "catch" /\ Read(<< Expect("("), <<"BindingElement">>, <<"CatchClause">> >>)
       \/ Peek \notin {"finally", "catch"} /\ CallError(<<>>)

ParseCatchClause ==
    /\ Running("CatchClause")
    /\ KeepToken(node.syntax = "InitializedBinding")
    /\ Continue(<< Optional(")"), <<"Statement">>, <<"Finally">> >>)

ParseFinally ==
    /\ Running("Finally")
    /\ \/ Peek = "finally" /\ Read(<< <<"Statement">> >>)
       \/ Peek # "finally" /\ Call(<<>>)
-----------------------------------------------------------------------------
(* ParseForStatement, after its parenthesis. *)
ForBody == << Expect(")"), <<"Statement">> >>

ParseForDocument ==
    /\ Running("ForDocument")
    /\ \/ Peek \in DocumentKind /\ Read(<< <<"ForKeyword", TRUE>> >>)
       \/ Peek \notin DocumentKind /\ Call(<< <<"ForKeyword", FALSE>> >>)

ParseForKeyword ==
    /\ Running("ForKeyword")
    /\ \/ Peek = "var" /\ Read(<< <<"BindingElement">>, <<"ForBinding">> >>)
       \/ Peek = ";" /\ KeepToken(Argument)
             /\ Continue(<< Make(ExpressionNode), <<"ForExpression">> >>)
       \/ Peek \notin {"var", ";"} /\ KeepToken(Argument)
             /\ Continue(<< <<"Expression">>, <<"ForExpression">> >>)

ParseForExpression ==
    /\ Running("ForExpression")
    /\ \/ Peek = ";" /\ Read(<< <<"ForCondition">> >>)
       \/ Peek = "of" /\ Read(<< <<"AssignmentExpression">> >> \o ForBody)
       \/ Peek = ")" /\ node.syntax \notin {"In", "InvalidIn"} /\ ReadError(<<>>)
       \/ Peek = ")" /\ node.syntax \in {"In", "InvalidIn"}
             /\ ConsumeToken(node.syntax = "InvalidIn")
             /\ Continue(<< <<"Statement">> >>)
       \/ Peek \notin {";", "of", ")"} /\ CallError(<<>>)

ParseForCondition ==
    /\ Running("ForCondition")
    /\ \/ Peek = ";" /\ Call(<< Expect(";"), <<"ForStep">> >>)
       \/ Peek # ";" /\ Call(<< <<"Expression">>, Expect(";"), <<"ForStep">> >>)

ParseForStep ==
    /\ Running("ForStep")
    /\ \/ Peek = ")" /\ Call(ForBody)
       \/ Peek # ")" /\ Call(<< <<"Expression">> >> \o ForBody)

ParseForBinding ==
    /\ Running("ForBinding")
    /\ LET valid == node.syntax \in {"Binding", "InitializedBinding"} IN
       \/ ~valid /\ CallError(<<>>)
       \/ valid /\ Peek \in {"in", "of"}
             /\ ConsumeToken(node.syntax = "InitializedBinding")
             /\ Continue(<< <<"Expression">> >> \o ForBody)
       \/ valid /\ Peek = ";" /\ Read(<< <<"ForCondition">> >>)
       \/ valid /\ Peek \notin {"in", "of", ";"} /\ CallError(<< Optional(")") >>)
-----------------------------------------------------------------------------
(* Run: the argument tells whether the text had a @fileoverview document. *)
Run ==
    /\ Running("Run")
    /\ \/ ~CanPeekToken /\ KeepToken(UnclosedBracket) /\ Continue(<<>>)
       \/ Peek = "fileoverview" /\ ConsumeToken(Argument) /\ Continue(<< <<"Run", TRUE>> >>)
       \/ CanPeekToken /\ Peek # "fileoverview"
             /\ Call(<< <<"Statement">>, Head(todo) >>)

StatementsNext ==
    \/ ParseStatement \/ ParseExpressionStatement \/ ReadJsDoc
    \/ ParseJsDocAsStatement \/ ParseKeywordStatement \/ ParseNameAsStatement
    \/ ParseAfterName \/ HandleLabeledStatement \/ ParseDefaultLabel
    \/ ParseBlockStatement \/ ParseStatements \/ ParseLabel \/ ParseCaseClause
    \/ ParseCaseStatement \/ ParseDoStatement \/ ParseIfStatement
    \/ ParseParenthesisExpression \/ ParseReturnStatement
    \/ ParseSwitchStatement \/ ParseTryStatement \/ ParseCatchClause
    \/ ParseFinally \/ Run

ForNext ==
    \/ ParseForDocument \/ ParseForKeyword \/ ParseForExpression
    \/ ParseForCondition \/ ParseForStep \/ ParseForBinding
=============================================================================
