-------------------------------- MODULE Parser --------------------------------
(***************************************************************************)
(* The JavaScript parser, Parser::Run over one source text: the token      *)
(* stream, the expressions, bindings and statements.                       *)
(***************************************************************************)
EXTENDS ParserBindings, ParserExpressions, ParserStatements

Init == MachineInit /\ todo = << <<"Run", FALSE>> >>

Next ==
    \/ MachineNext \/ BindingsNext \/ ExpressionsNext \/ DeclarationsNext
    \/ StatementsNext \/ ForNext

Spec == Init /\ [][Next]_parserVars

(* The parser runs on one thread and is not suspended: as long as it can *)
(* make a step it does.                                                  *)
FairSpec == Spec /\ WF_parserVars(Next)

-----------------------------------------------------------------------------
Terminated == todo = <<>>

(* The type of every variable; a token that is pushed back is one of the *)
(* text, and an operation knows the precedence of its operands.          *)
TypeOK ==
    /\ StreamTypeOK
    /\ node \in Nodes
    /\ crashed \in BOOLEAN
    /\ Running("BinaryOperand") => Head(todo)[4] \in Nodes
    /\ Running("NewBinaryExpression") => Head(todo)[4] \in Nodes

(* Every function returns and Run comes to the end of every text: whatever *)
(* the text is, also after an error, each loop reads a token.              *)
ParserReturns == <>Terminated

(* The line break that decides whether a semicolon is inserted, a label or a *)
(* postfix operator belongs to the line, is one before the lexer's token.  A *)
(* token that is pushed back precedes that one, so no function may look at   *)
(* the flag before the token is read again.                                  *)
LooksAtLineBreak ==
    {"Label", "ReturnStatement", "NameStatement", "ExpectSemicolon",
     "BindingComma", "UpdateExpression", "RegExpFlags"}

FlagIsOfPeekedToken ==
    token_stack_ # <<>> =>
        /\ Len(token_stack_) = 1
        /\ todo # <<>> /\ Head(todo)[1] \notin LooksAtLineBreak

(* The operands of a binary operator bind at least as tight as the operator, *)
(* the right one tighter: operations group by precedence, from left to right.*)
OperandsBindTighter ==
    Running("NewBinaryExpression") =>
        /\ Head(todo)[4].precedence >= Argument
        /\ node.precedence > Argument

(* The functions of the parser pair brackets on their own, and some take a   *)
(* close bracket only if it is there.  When a statement at the top of the    *)
(* text ends in front of a token and leaves a bracket open that the tracker  *)
(* has seen, an error is reported before the end: by the tracker, or by the  *)
(* function that meets the close bracket.  It is not when a function goes    *)
(* astray: the recovery of a list reads on to the end of the text and closes *)
(* everything, or a block takes another token for its brace.                 *)
LeavesBracketOpen ==
    Running("Run") /\ CanPeekToken /\ brackets # Feed(Peek, <<>>)

RunsPastList == Running("SkipToListElement") /\ ~CanPeekToken /\ brackets = <<>>
TakesTokenForBrace == Running("BlockStatement") /\ CanPeekToken /\ Peek # "{"
GoesAstray == RunsPastList \/ TakesTokenForBrace

OpenBracketIsReported ==
    [](LeavesBracketOpen => [](Terminated /\ ~crashed => reported) \/ <>GoesAstray)

(* SkipToListElement returns "true if we stop before list element"           *)
(* (parser/parser.h:100): the tokens that it reads belong to the list it was *)
(* called for, so the close bracket of the list is not one of them.  At the  *)
(* call at most one bracket has been seen behind the one of the list: the    *)
(* token that is skipped first.                                              *)
SkipsWithinList ==
    [][Running("SkipToListElement") /\ position' # position
         => Len(brackets) >= Argument - 1]_parserVars
=============================================================================
