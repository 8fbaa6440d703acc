----------------------------- MODULE ParserMachine -----------------------------
(***************************************************************************)
(* The recursive descent of parser/parser.cc as a machine with an explicit *)
(* stack.  The item on top of todo is the function that runs, or the rest  *)
(* of a function that waits for what it called; a step reads at most one   *)
(* token.  Items are tuples: a name and its arguments.  The actions of the *)
(* functions are in ParserBindings, ParserExpressions and ParserStatements.*)
(*                                                                         *)
(* Of the syntax node that a function returns, node keeps what a caller    *)
(* looks at: its syntax, and for an expression the precedence of its       *)
(* operator.                                                               *)
(***************************************************************************)
EXTENDS TokenStream

VARIABLES
    todo,     \* the calls in progress, the running one first
    node,     \* what the last function returned
    crashed   \* PeekToken was called at the end of the text

parserVars == <<streamVars, todo, node, crashed>>

(* OperatorPrecedence and CategoryOf; 0 is Assignment. *)
Assignment == 0
LogicalOr == 1
Exponentiation == 11
None == 12
CategoryOf(k) ==
    CASE k \in {"=", "+=", "/="} -> Assignment
      [] k = "||" -> LogicalOr
      [] k \in {"<", "in", "instanceof"} -> 7
      [] k = "+" -> 9
      [] k \in {"*", "/"} -> 10
      [] k = "**" -> Exponentiation
      [] OTHER -> None
SamePrecedenceAs(category) == category
HigherPrecedenceOf(category) == category + 1

(* Nodes. *)
Syntax ==
    {"Expression", "Reference", "Member", "Object", "Group", "ArrowFunction",
     "Function", "Class", "In", "InvalidIn", "MemberAssignment",
     "Statement", "Annotation", "ExpressionStatement", "MemberStatement",
     "Binding", "InitializedBinding", "RestBinding", "InvalidBinding",
     "Skipped", "NotSkipped"}
NodeOf(syntax) == [syntax |-> syntax, precedence |-> None]
Operation(syntax, category) == [syntax |-> syntax, precedence |-> category]
Nodes == [syntax : Syntax, precedence : 0..None]

(* The function that runs. *)
Running(name) == todo # <<>> /\ Head(todo)[1] = name
Argument == Head(todo)[2]

(* The running function goes on with the items: after reading the token, *)
(* or without reading one; with an error or without.                     *)
Continue(items) == todo' = items \o Tail(todo) /\ UNCHANGED <<node, crashed>>
Return(result) == todo' = Tail(todo) /\ node' = result /\ UNCHANGED crashed

Read(items) == ConsumeToken(FALSE) /\ Continue(items)
ReadError(items) == ConsumeToken(TRUE) /\ Continue(items)
Call(items) == KeepToken(FALSE) /\ Continue(items)
CallError(items) == KeepToken(TRUE) /\ Continue(items)
ReadReturn(result) == ConsumeToken(FALSE) /\ Return(result)
ReadReturnError(result) == ConsumeToken(TRUE) /\ Return(result)
JustReturn(result) == KeepToken(FALSE) /\ Return(result)
ReturnError(result) == KeepToken(TRUE) /\ Return(result)

(* Lexer::PeekToken asserts that there is a token and dereferences it. *)
PeekPastEnd ==
    /\ ~CanPeekToken
    /\ crashed' = TRUE
    /\ todo' = <<>>
    /\ UNCHANGED <<streamVars, node>>

(* A function makes its node when what it called is done. *)
Make(result) == <<"Make", result>>
MakeNode == Running("Make") /\ JustReturn(Argument)

(* ExpectPunctuator *)
Expect(k) == <<"ExpectPunctuator", k>>
ExpectPunctuator ==
    /\ Running("ExpectPunctuator")
    /\ \/ Peek = Argument /\ Read(<<>>)
       \/ Peek # Argument /\ CallError(<<>>)

(* ConsumeTokenIf whose result is not used. *)
Optional(k) == <<"ConsumeTokenIf", k>>
ConsumeTokenIf ==
    /\ Running("ConsumeTokenIf")
    /\ \/ Peek = Argument /\ Read(<<>>)
       \/ Peek # Argument /\ Call(<<>>)

(* ExpectSemicolon: automatic semicolon insertion, unless it is disabled. *)
InsertsSemicolon ==
    /\ ~StrictSemicolon
    /\ ~CanPeekToken \/ Peek = "}" \/ is_separated_by_newline_

ExpectSemicolon ==
    /\ Running("ExpectSemicolon")
    /\ \/ Peek = ";" /\ Read(<<>>)
       \/ Peek # ";" /\ InsertsSemicolon /\ Call(<<>>)
       \/ Peek # ";" /\ ~InsertsSemicolon /\ CallError(<<>>)

MachineInit ==
    /\ StreamInit
    /\ node = NodeOf("Statement")
    /\ crashed = FALSE

MachineNext == MakeNode \/ ExpectPunctuator \/ ConsumeTokenIf \/ ExpectSemicolon
=============================================================================
