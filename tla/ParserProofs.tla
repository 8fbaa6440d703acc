----------------------------- MODULE ParserProofs ------------------------------
(***************************************************************************)
(* Theorems about Parser, for texts of any length.                         *)
(***************************************************************************)
EXTENDS Parser, Integers, SequenceTheorems, TLAPS

(* The functions that come back with an operand, which has no operator of  *)
(* its own, and those of them that are given one.                          *)
OperandFunction ==
  {"UnaryExpression", "UpdateExpression", "LeftHandSideExpression",
   "NewExpression", "NewTarget", "NewArguments", "MemberExpression",
   "CallExpression", "MemberName", "PrimaryExpression", "Async",
   "JsDocAsExpression", "Parenthesis"}
ContinuesOperand ==
  {"UpdateExpression", "MemberExpression", "CallExpression", "MemberName"}

PlainFunctionWithArgument ==
  {"ArrayBinding", "ArrayBindingSkipped", "ForKeyword", "ObjectInitializer",
   "Run", "SkipToListElement", "NameStatement", "ExpectPunctuator",
   "ConsumeTokenIf", "PropertyAfterName"}
FunctionWithArgument ==
  PlainFunctionWithArgument \cup
  {"Make", "Arrow", "BinaryExpression", "BinaryOperand", "NewBinaryExpression"}

PlainName ==
  {"ArgumentEnd", "ArgumentList", "Arguments", "ArrayBindingElement",
   "ArrayInitializer", "ArrowFunctionBody", "Assignment",
   "AssignmentExpression", "BindingComma", "BindingElement",
   "BindingElements", "BlockStatement", "CaseClause", "CaseStatement",
   "CatchClause", "Class", "ClassBody", "ClassHeritage", "Comma",
   "CommaExpression", "ConditionalExpression", "DefaultLabel", "DoWhile",
   "Else", "ExpectSemicolon", "Expression", "ExpressionStatement",
   "Finally", "ForBinding", "ForCondition", "ForDocument", "ForExpression",
   "ForStep", "Function", "FunctionBody", "FunctionStar", "Initializer",
   "JsDocAsStatement", "Label", "LabeledStatement", "Method",
   "ObjectBinding", "ObjectBindingName", "ObjectBindingNext",
   "ObjectBindingSkipped", "ParameterList", "Parameters",
   "ParenthesisExpression", "PropertyName", "RegExpFlags",
   "ReturnStatement", "Statement", "Statements", "StaticMember",
   "SwitchStatement", "TryStatement", "YieldExpression"}

(* Names, which are what ParseNameAsStatement pushes back.                 *)
NameToken == [kind : NameKind \ Keyword, newline : BOOLEAN]

Category == LogicalOr .. Exponentiation

(* The items of the stack: those that take the node as it is, and those    *)
(* about operands.                                                         *)
PlainItem ==
  {<<n>> : n \in PlainName}
    \cup ({"ArrayBinding", "ArrayBindingSkipped", "ForKeyword",
           "ObjectInitializer", "Run"} \X BOOLEAN)
    \cup ({"SkipToListElement"} \X Nat)
    \cup ({"NameStatement"} \X NameToken)
    \cup ({"ExpectPunctuator", "ConsumeTokenIf"} \X PunctuatorKind)
    \cup ({"PropertyAfterName"} \X BOOLEAN \X BOOLEAN)
    \cup ({"Make"} \X Nodes)

OperandItem ==
  {<<n>> : n \in OperandFunction}
    \cup ({"Arrow"} \X {n \in Nodes : n.precedence = None})
    \cup ({"BinaryExpression"} \X (LogicalOr .. None) \X Category)
    \cup {item \in {"BinaryOperand", "NewBinaryExpression"}
                     \X Category \X (Kind \cup {"end"}) \X Nodes :
            item[4].precedence >= item[2]}

Item == PlainItem \cup OperandItem

(* Items that ask nothing of the node.                                     *)
FreeItem == PlainItem \cup {<<n>> : n \in OperandFunction \ ContinuesOperand}

(* How tight the node binds that a function needs when it goes on, and how *)
(* tight the one it leaves.                                                *)
Needs(item) ==
  CASE item[1] \in ContinuesOperand -> None
    [] item[1] = "BinaryExpression" ->
         IF item[2] <= item[3] THEN item[3] ELSE item[2]
    [] item[1] = "NewBinaryExpression" -> item[2] + 1
    [] OTHER -> 0

Leaves(item) ==
  CASE item[1] \in OperandFunction \cup {"Arrow"} -> None
    [] item[1] \in {"BinaryExpression", "BinaryOperand", "NewBinaryExpression"} -> item[2]
    [] item[1] = "Make" -> item[2].precedence
    [] OTHER -> 0

(* Run one after the other, the items take a node of precedence `before'   *)
(* to one of precedence `after', at least.                                 *)
Chain(items, before, after) ==
  /\ items \in Seq(Item)
  /\ items = <<>> => before >= after
  /\ items # <<>> => before >= Needs(items[1]) /\ Leaves(items[Len(items)]) >= after
  /\ \A i \in 1 .. Len(items) - 1 : Leaves(items[i]) >= Needs(items[i + 1])

(* A name that is pushed back is read again on the way from Expression     *)
(* down to PrimaryExpression.                                              *)
WayToPrimary ==
  {<<"Expression">>, <<"AssignmentExpression">>, <<"UnaryExpression">>,
   <<"LeftHandSideExpression">>, <<"NewExpression">>, <<"PrimaryExpression">>}

PushedBackIsRead ==
  token_stack_ # <<>> =>
    /\ \E t \in NameToken : token_stack_ = <<t>>
    /\ todo # <<>> /\ Head(todo) \in WayToPrimary

IInv ==
  /\ StreamTypeOK /\ node \in Nodes /\ crashed \in BOOLEAN
  /\ Chain(todo, node.precedence, 0)
  /\ PushedBackIsRead

-----------------------------------------------------------------------------
(* Items and chains of them. *)

LEMMA PlainNames ==
  \A n \in PlainName : n \notin OperandFunction /\ n \notin FunctionWithArgument
BY DEF PlainName, OperandFunction, FunctionWithArgument, PlainFunctionWithArgument

LEMMA PlainNeedsNothing ==
  ASSUME NEW item \in PlainItem
  PROVE  Needs(item) = 0
BY PlainNames DEF PlainItem, FunctionWithArgument, PlainFunctionWithArgument, OperandFunction,
                  ContinuesOperand, Needs

LEMMA FreeNeedsNothing ==
  ASSUME NEW item \in FreeItem
  PROVE  item \in Item /\ Needs(item) = 0
<1>1. CASE item \in PlainItem
  BY <1>1, PlainNeedsNothing DEF Item
<1>2. CASE item \in {<<n>> : n \in OperandFunction \ ContinuesOperand}
  <2>1. item \in Item /\ item[1] \in OperandFunction \ ContinuesOperand
    BY <1>2 DEF Item, OperandItem
  <2> QED BY <2>1 DEF Needs, OperandFunction
<1> QED BY <1>1, <1>2 DEF FreeItem

LEMMA BoundsAreNumbers ==
  ASSUME NEW item \in Item
  PROVE  Needs(item) \in Nat /\ Leaves(item) \in Nat
<1> USE DEF None, LogicalOr, Exponentiation, Nodes, Category, Needs, Leaves
<1>1. CASE item \in PlainItem
  <2>1. Leaves(item) \in Nat
    BY <1>1, PlainNames
    DEF PlainItem, FunctionWithArgument, PlainFunctionWithArgument, OperandFunction
  <2> QED BY <1>1, <2>1, PlainNeedsNothing
<1>2. CASE item \in OperandItem
  <2>1. CASE item \in {<<n>> : n \in OperandFunction}
    BY <2>1 DEF OperandFunction, ContinuesOperand
  <2>2. CASE item \in {"Arrow"} \X {n \in Nodes : n.precedence = None}
    BY <2>2 DEF OperandFunction, ContinuesOperand
  <2>3. CASE item \in {"BinaryExpression"} \X (LogicalOr .. None) \X Category
    BY <2>3 DEF OperandFunction, ContinuesOperand
  <2>4. CASE item \in {"BinaryOperand", "NewBinaryExpression"}
                        \X Category \X (Kind \cup {"end"}) \X Nodes
    BY <2>4 DEF OperandFunction, ContinuesOperand
  <2> QED BY <1>2, <2>1, <2>2, <2>3, <2>4 DEF OperandItem
<1> QED BY <1>1, <1>2 DEF Item

LEMMA ChainJoined ==
  ASSUME NEW now \in Nat, NEW between \in Nat, NEW after \in Nat,
         NEW first, Chain(first, now, between), NEW rest, Chain(rest, between, after)
  PROVE  Chain(first \o rest, now, after)
<1>1. PICK all : all = first \o rest
  OBVIOUS
<1>2. first \in Seq(Item) /\ rest \in Seq(Item) /\ Len(first) \in Nat /\ Len(rest) \in Nat
  BY DEF Chain
<1>3. /\ all \in Seq(Item) /\ Len(all) = Len(first) + Len(rest)
      /\ \A i \in 1 .. Len(first) : all[i] = first[i]
      /\ \A i \in 1 .. Len(rest) : all[Len(first) + i] = rest[i]
  BY <1>1, <1>2
<1>4. /\ \A i \in 1 .. Len(first) : Needs(first[i]) \in Nat /\ Leaves(first[i]) \in Nat
      /\ \A i \in 1 .. Len(rest) : Needs(rest[i]) \in Nat /\ Leaves(rest[i]) \in Nat
  BY <1>2, BoundsAreNumbers
<1>5. ASSUME NEW i \in 1 .. Len(all) - 1
      PROVE  Leaves(all[i]) >= Needs(all[i + 1])
  <2>1. CASE i < Len(first)
    <3>1. i \in 1 .. Len(first) - 1 /\ i \in 1 .. Len(first) /\ i + 1 \in 1 .. Len(first)
      BY <1>2, <2>1
    <3> QED BY <1>3, <3>1 DEF Chain
  <2>2. CASE i = Len(first)
    <3>1. /\ first # <<>> /\ rest # <<>> /\ 1 \in 1 .. Len(rest)
          /\ Len(first) \in 1 .. Len(first)
      BY <1>2, <1>3, <2>2
    <3>2. all[i] = first[Len(first)] /\ all[i + 1] = rest[1]
      BY <1>3, <2>2, <3>1
    <3>3. Leaves(all[i]) >= between /\ between >= Needs(all[i + 1])
      BY <3>1, <3>2 DEF Chain
    <3>4. Leaves(all[i]) \in Nat /\ Needs(all[i + 1]) \in Nat
      BY <1>4, <3>1, <3>2
    <3> QED BY <3>3, <3>4
  <2>3. CASE i > Len(first)
    <3>1. PICK j : j = i - Len(first)
      OBVIOUS
    <3>2. j \in 1 .. Len(rest) /\ j + 1 \in 1 .. Len(rest) /\ j \in 1 .. Len(rest) - 1
      BY <1>2, <1>3, <2>3, <3>1
    <3>3. i = Len(first) + j /\ i + 1 = Len(first) + (j + 1)
      BY <1>2, <3>1
    <3>4. all[i] = rest[j] /\ all[i + 1] = rest[j + 1]
      BY <1>3, <3>2, <3>3
    <3> QED BY <3>2, <3>4 DEF Chain
  <2> QED BY <1>2, <2>1, <2>2, <2>3
<1>6. CASE first = <<>>
  <2>1. all = rest /\ now >= between
    BY <1>1, <1>2, <1>6 DEF Chain
  <2>2. rest # <<>> => now >= Needs(rest[1])
    <3>1. rest # <<>> => 1 \in 1 .. Len(rest) /\ between >= Needs(rest[1])
      BY <1>2 DEF Chain
    <3> QED BY <1>4, <2>1, <3>1
  <2>3. rest = <<>> => now >= after
    BY <2>1 DEF Chain
  <2> QED BY <1>1, <1>3, <1>5, <2>1, <2>2, <2>3 DEF Chain
<1>7. CASE first # <<>>
  <2>1. /\ 1 \in 1 .. Len(first) /\ Len(first) \in 1 .. Len(first) /\ all # <<>>
        /\ all[1] = first[1]
    BY <1>2, <1>3, <1>7
  <2>2. now >= Needs(all[1])
    BY <1>7, <2>1 DEF Chain
  <2>3. Leaves(all[Len(all)]) >= after
    <3>1. CASE rest = <<>>
      <4>1. all[Len(all)] = first[Len(first)] /\ between >= after
        BY <1>2, <1>3, <2>1, <3>1 DEF Chain
      <4>2. Leaves(first[Len(first)]) >= between /\ Leaves(first[Len(first)]) \in Nat
        BY <1>4, <1>7, <2>1 DEF Chain
      <4> QED BY <4>1, <4>2
    <3>2. CASE rest # <<>>
      <4>1. Len(rest) \in 1 .. Len(rest) /\ Len(all) = Len(first) + Len(rest)
        BY <1>2, <1>3, <3>2
      <4>2. all[Len(all)] = rest[Len(rest)]
        BY <1>3, <4>1
      <4> QED BY <3>2, <4>2 DEF Chain
    <3> QED BY <3>1, <3>2
  <2> QED BY <1>1, <1>3, <1>5, <2>1, <2>2, <2>3 DEF Chain
<1> QED BY <1>6, <1>7

(* The running function is replaced by what it calls.                      *)
LEMMA ChainTurn ==
  ASSUME NEW calls, NEW before, Chain(calls, before, 0), calls # <<>>,
         NEW items, NEW now \in Nat, Chain(items, now, Leaves(Head(calls)))
  PROVE  Chain(items \o Tail(calls), now, 0)
<1>1. PICK rest : rest = Tail(calls)
  OBVIOUS
<1>2. /\ calls \in Seq(Item) /\ rest \in Seq(Item) /\ Head(calls) = calls[1]
      /\ Len(calls) \in Nat /\ Len(calls) > 0 /\ Len(rest) = Len(calls) - 1
      /\ \A i \in 1 .. Len(rest) : rest[i] = calls[i + 1]
  BY <1>1 DEF Chain
<1>3. \A i \in 1 .. Len(calls) : Needs(calls[i]) \in Nat /\ Leaves(calls[i]) \in Nat
  BY <1>2, BoundsAreNumbers
<1>4. ASSUME NEW i \in 1 .. Len(rest) - 1
      PROVE  Leaves(rest[i]) >= Needs(rest[i + 1])
  <2>1. i \in 1 .. Len(rest) /\ i + 1 \in 1 .. Len(rest) /\ i + 1 \in 1 .. Len(calls) - 1
    BY <1>2
  <2>2. rest[i] = calls[i + 1] /\ rest[i + 1] = calls[(i + 1) + 1]
    BY <1>2, <2>1
  <2> QED BY <2>1, <2>2 DEF Chain
<1>5. Leaves(calls[1]) \in Nat
  BY <1>2, <1>3
<1>6. ASSUME rest # <<>>
      PROVE  Leaves(calls[1]) >= Needs(rest[1]) /\ Leaves(rest[Len(rest)]) >= 0
  <2>1. /\ 1 \in 1 .. Len(rest) /\ 1 \in 1 .. Len(calls) - 1
        /\ Len(rest) \in 1 .. Len(rest) /\ Len(rest) + 1 \in 1 .. Len(calls)
    BY <1>2, <1>6
  <2>2. rest[1] = calls[1 + 1] /\ rest[Len(rest)] = calls[Len(rest) + 1]
    BY <1>2, <2>1
  <2>3. Leaves(calls[1]) >= Needs(rest[1])
    BY <2>1, <2>2 DEF Chain
  <2>4. Leaves(rest[Len(rest)]) \in Nat
    BY <1>3, <2>1, <2>2
  <2> QED BY <2>3, <2>4
<1>7. Chain(rest, Leaves(calls[1]), 0)
  BY <1>2, <1>4, <1>5, <1>6 DEF Chain
<1> QED BY <1>1, <1>2, <1>5, <1>7, ChainJoined

LEMMA ChainOfFreeItems ==
  ASSUME NEW items \in Seq(FreeItem), NEW now \in Nat
  PROVE  Chain(items, now, 0)
<1>1. items \in Seq(Item) /\ \A i \in 1 .. Len(items) : items[i] \in FreeItem
  <2>1. \A item \in FreeItem : item \in Item
    BY FreeNeedsNothing
  <2> QED BY <2>1
<1>2. \A i \in 1 .. Len(items) : Needs(items[i]) = 0 /\ Leaves(items[i]) \in Nat
  BY <1>1, FreeNeedsNothing, BoundsAreNumbers
<1>3. items # <<>> => 1 \in 1 .. Len(items) /\ Len(items) \in 1 .. Len(items)
  BY <1>1
<1>4. \A i \in 1 .. Len(items) - 1 : i \in 1 .. Len(items) /\ i + 1 \in 1 .. Len(items)
  BY <1>1
<1> QED BY <1>1, <1>2, <1>3, <1>4 DEF Chain

-----------------------------------------------------------------------------
(* What a step does: it moves at most one token, and the running function  *)
(* calls others in its place or returns.                                   *)

MovesToken == \E error : ConsumeToken(error) \/ KeepToken(error)

Turn(items) ==
  /\ MovesToken
  /\ todo # <<>> /\ todo' = items \o Tail(todo)
  /\ node' \in Nodes /\ crashed' = crashed

FittingTurn ==
  \E items : Turn(items) /\ Chain(items, node'.precedence, Leaves(Head(todo)))

LEMMA Continues ==
  ASSUME todo # <<>>, node \in Nodes, NEW items, Continue(items), MovesToken
  PROVE  Turn(items) /\ node' = node
BY DEF Continue, Turn

LEMMA Returns ==
  ASSUME todo \in Seq(Item), todo # <<>>, NEW result \in Nodes, Return(result), MovesToken
  PROVE  Turn(<<>>) /\ node' = result
<1>1. <<>> \o Tail(todo) = Tail(todo)
  OBVIOUS
<1> QED BY <1>1 DEF Return, Turn

(* The step of a function that makes no operand and calls only functions   *)
(* that take the node as it is.                                            *)
PlainFunction ==
  (PlainName \ {"Expression", "AssignmentExpression"}) \cup PlainFunctionWithArgument

PlainTurn ==
  /\ Head(todo)[1] \in PlainFunction
  /\ \E items \in Seq(FreeItem) : Turn(items)

LEMMA PlainTurnFits ==
  ASSUME PlainTurn
  PROVE  FittingTurn
<1>1. PICK items \in Seq(FreeItem) : Turn(items)
  BY DEF PlainTurn
<1>2. Leaves(Head(todo)) = 0
  BY PlainNames
  DEF PlainTurn, PlainFunction, PlainFunctionWithArgument, FunctionWithArgument, Leaves,
      OperandFunction
<1>3. node'.precedence \in Nat
  BY <1>1 DEF Turn, Nodes
<1> QED BY <1>1, <1>2, <1>3, ChainOfFreeItems DEF FittingTurn

LEMMA PlainTurns ==
  ASSUME todo \in Seq(Item), node \in Nodes, todo # <<>>, Head(todo)[1] \in PlainFunction
  PROVE  /\ \A items \in Seq(FreeItem) : \A error :
              (KeepToken(error) \/ ConsumeToken(error)) /\ Continue(items) => PlainTurn
         /\ \A result \in Nodes : \A error :
              (KeepToken(error) \/ ConsumeToken(error)) /\ Return(result) => PlainTurn
<1>1. \A error : KeepToken(error) \/ ConsumeToken(error) => MovesToken
  BY DEF MovesToken
<1>2. ASSUME NEW items \in Seq(FreeItem), Continue(items), MovesToken
      PROVE  PlainTurn
  BY <1>2, Continues DEF PlainTurn
<1>3. ASSUME NEW result \in Nodes, Return(result), MovesToken
      PROVE  PlainTurn
  <2>1. Turn(<<>>) /\ <<>> \in Seq(FreeItem)
    BY <1>3, Returns
  <2> QED BY <2>1 DEF PlainTurn
<1> QED BY <1>1, <1>2, <1>3

LEMMA PlainCalls ==
  ASSUME todo \in Seq(Item), node \in Nodes, todo # <<>>, Head(todo)[1] \in PlainFunction
  PROVE  /\ Read(<<>>) \/ ReadError(<<>>) \/ Call(<<>>) \/ CallError(<<>>) => PlainTurn
         /\ \A a \in FreeItem :
              /\ Read(<<a>>) => PlainTurn
              /\ Call(<<a>>) => PlainTurn
              /\ ReadError(<<a>>) => PlainTurn
              /\ CallError(<<a>>) => PlainTurn
         /\ \A a, b \in FreeItem :
              /\ Read(<<a, b>>) => PlainTurn
              /\ Call(<<a, b>>) => PlainTurn
              /\ CallError(<<a, b>>) => PlainTurn
         /\ \A a, b, c \in FreeItem :
              /\ Read(<<a, b, c>>) => PlainTurn
              /\ Call(<<a, b, c>>) => PlainTurn
         /\ \A a, b, c, d \in FreeItem : Read(<<a, b, c, d>>) => PlainTurn
<1>1. /\ <<>> \in Seq(FreeItem)
      /\ \A a \in FreeItem : <<a>> \in Seq(FreeItem)
      /\ \A a, b \in FreeItem : <<a, b>> \in Seq(FreeItem)
      /\ \A a, b, c \in FreeItem : <<a, b, c>> \in Seq(FreeItem)
      /\ \A a, b, c, d \in FreeItem : <<a, b, c, d>> \in Seq(FreeItem)
  OBVIOUS
<1>2. ASSUME NEW items \in Seq(FreeItem),
             Read(items) \/ ReadError(items) \/ Call(items) \/ CallError(items)
      PROVE  PlainTurn
  BY <1>2, PlainTurns DEF Read, ReadError, Call, CallError
<1> QED BY <1>1, <1>2

LEMMA PlainKeeps ==
  ASSUME todo \in Seq(Item), node \in Nodes, todo # <<>>, Head(todo)[1] \in PlainFunction,
         NEW error, KeepToken(error) \/ ConsumeToken(error)
  PROVE  /\ Continue(<<>>) => PlainTurn
         /\ \A a \in FreeItem : Continue(<<a>>) => PlainTurn
         /\ \A a, b \in FreeItem : Continue(<<a, b>>) => PlainTurn
         /\ \A a, b, c \in FreeItem : Continue(<<a, b, c>>) => PlainTurn
<1>1. /\ <<>> \in Seq(FreeItem)
      /\ \A a \in FreeItem : <<a>> \in Seq(FreeItem)
      /\ \A a, b \in FreeItem : <<a, b>> \in Seq(FreeItem)
      /\ \A a, b, c \in FreeItem : <<a, b, c>> \in Seq(FreeItem)
  OBVIOUS
<1> QED BY <1>1, PlainTurns

LEMMA PlainReturns ==
  ASSUME todo \in Seq(Item), node \in Nodes, todo # <<>>, Head(todo)[1] \in PlainFunction,
         NEW result \in Nodes,
         ReadReturn(result) \/ ReadReturnError(result)
           \/ JustReturn(result) \/ ReturnError(result)
  PROVE  PlainTurn
BY PlainTurns DEF ReadReturn, ReadReturnError, JustReturn, ReturnError

LEMMA FreeItems ==
  /\ \A n \in PlainName : <<n>> \in FreeItem
  /\ \A n \in Nodes : Make(n) \in FreeItem
  /\ \A k \in PunctuatorKind : Expect(k) \in FreeItem /\ Optional(k) \in FreeItem
  /\ \A b \in BOOLEAN :
       /\ <<"ArrayBinding", b>> \in FreeItem /\ <<"ArrayBindingSkipped", b>> \in FreeItem
       /\ <<"ForKeyword", b>> \in FreeItem /\ <<"ObjectInitializer", b>> \in FreeItem
       /\ <<"Run", b>> \in FreeItem
       /\ \A c \in BOOLEAN : <<"PropertyAfterName", b, c>> \in FreeItem
  /\ \A n \in Nat : <<"SkipToListElement", n>> \in FreeItem
  /\ \A t \in NameToken : <<"NameStatement", t>> \in FreeItem
BY DEF FreeItem, PlainItem, Make, Expect, Optional

LEMMA FlagItems ==
  /\ <<"ArrayBinding", FALSE>> \in FreeItem
  /\ <<"ForKeyword", FALSE>> \in FreeItem /\ <<"ForKeyword", TRUE>> \in FreeItem
  /\ <<"ObjectInitializer", FALSE>> \in FreeItem
  /\ <<"ObjectInitializer", TRUE>> \in FreeItem
  /\ <<"Run", FALSE>> \in FreeItem /\ <<"Run", TRUE>> \in FreeItem
  /\ <<"PropertyAfterName", FALSE, FALSE>> \in FreeItem
  /\ \A b \in BOOLEAN :
       <<"PropertyAfterName", FALSE, b>> \in FreeItem /\ <<"PropertyAfterName", TRUE, b>> \in FreeItem
BY DEF FreeItem, PlainItem

LEMMA OperandItems ==
  /\ <<"LeftHandSideExpression">> \in FreeItem
  /\ <<"PrimaryExpression">> \in FreeItem
BY DEF FreeItem, OperandFunction, ContinuesOperand

LEMMA Punctuators ==
  /\ \A k \in {"(", ")", "]", ":", ";", "=>"} : Expect(k) \in FreeItem
  /\ \A k \in {")", "]", "}", ";"} : Optional(k) \in FreeItem
BY FreeItems DEF PunctuatorKind, OpenBracket, CloseBracket

LEMMA PeekedIsToken ==
  ASSUME StreamTypeOK
  PROVE  PeekToken \in Token \cup EndOfInput /\ (PeekToken \in Token <=> CanPeekToken)
<1>1. PeekToken \in Token \cup EndOfInput
  <2>1. CASE token_stack_ = <<>>
    BY <2>1 DEF StreamTypeOK, PeekToken
  <2>2. CASE token_stack_ # <<>>
    BY <2>2 DEF StreamTypeOK, PeekToken
  <2> QED BY <2>1, <2>2
<1>2. "end" \notin Kind
  BY DEF Kind, NameKind, Keyword, LiteralKind, PunctuatorKind, OpenBracket, CloseBracket,
         DocumentKind
<1> QED BY <1>1, <1>2 DEF CanPeekToken, Token, EndOfInput

LEMMA NodesMade ==
  /\ \A syntax \in Syntax : NodeOf(syntax) \in Nodes /\ NodeOf(syntax).precedence = None
  /\ \A syntax \in Syntax, category \in 0 .. None :
       Operation(syntax, category) \in Nodes /\ Operation(syntax, category).precedence = category
BY DEF NodeOf, Operation, Nodes, None

(* The arguments of the running function.                                  *)
LEMMA ArgumentsTyped ==
  ASSUME todo \in Seq(Item), todo # <<>>
  PROVE  /\ Running("ArrayBinding") \/ Running("ArrayBindingSkipped") => Argument \in BOOLEAN
         /\ Running("SkipToListElement") => Head(todo) \in FreeItem
         /\ Running("ObjectInitializer") => Head(todo) \in FreeItem
         /\ Running("Run") => Head(todo) \in FreeItem
         /\ Running("NameStatement") => Argument \in NameToken
         /\ Running("Make") => Argument \in Nodes
         /\ Running("Arrow") => Argument \in Nodes /\ Argument.precedence = None
         /\ Running("BinaryExpression") =>
              Argument \in LogicalOr .. None /\ Head(todo)[3] \in Category
         /\ Running("BinaryOperand") \/ Running("NewBinaryExpression") =>
              /\ Argument \in Category /\ Head(todo)[4] \in Nodes
              /\ Head(todo)[3] \in Kind \cup {"end"}
              /\ Head(todo)[4].precedence >= Argument
<1>1. PICK item : item = Head(todo)
  OBVIOUS
<1>2. item \in Item
  BY <1>1
<1> USE DEF Running, Argument
<1>3. CASE item \in PlainItem
  BY <1>1, <1>3, PlainNames
  DEF FreeItem, PlainItem, FunctionWithArgument, PlainFunctionWithArgument
<1>4. CASE item \in OperandItem
  BY <1>1, <1>4 DEF OperandItem, OperandFunction
<1> QED BY <1>2, <1>3, <1>4 DEF Item

LEMMA ArrayBindingTurn ==
  ASSUME todo \in Seq(Item), node \in Nodes, StreamTypeOK, ParseArrayBindingPattern
  PROVE  PlainTurn
<1> USE DEF Running, PlainName, PlainFunction, PlainFunctionWithArgument
<1>1. todo # <<>> /\ Head(todo)[1] = "ArrayBinding" /\ Head(todo)[1] \in PlainFunction
  BY DEF ParseArrayBindingPattern
<1>2. Argument \in BOOLEAN
  BY <1>1, ArgumentsTyped
<1>3. Len(brackets) \in Nat
  BY DEF StreamTypeOK
<1>4. CASE Call(<< Optional("]"), <<"Initializer">> >>)
  BY <1>1, <1>4, PlainCalls, FreeItems, Punctuators
<1>5. CASE ConsumeToken(Argument) /\ Continue(<< <<"ArrayBinding", FALSE>> >>)
  <2>1. << <<"ArrayBinding", FALSE>> >> \in Seq(FreeItem)
    BY FlagItems
  <2> QED BY <1>1, <1>5, <2>1, PlainTurns
<1>6. CASE /\ KeepToken(Argument)
           /\ Continue(<< <<"BindingElement">>, <<"ArrayBindingElement">> >>)
  <2>1. << <<"BindingElement">>, <<"ArrayBindingElement">> >> \in Seq(FreeItem)
    BY FreeItems
  <2> QED BY <1>1, <1>6, <2>1, PlainTurns
<1>7. CASE /\ KeepToken(Argument)
           /\ Continue(<< <<"SkipToListElement", Len(brackets)>>,
                          <<"ArrayBindingSkipped", Argument>> >>)
  <2>1. <<"SkipToListElement", Len(brackets)>> \in FreeItem
    BY <1>3, FreeItems
  <2>2. <<"ArrayBindingSkipped", Argument>> \in FreeItem
    BY <1>2, FreeItems
  <2>3. << <<"SkipToListElement", Len(brackets)>>,
           <<"ArrayBindingSkipped", Argument>> >> \in Seq(FreeItem)
    BY <2>1, <2>2
  <2> QED BY <1>1, <1>7, <2>3, PlainTurns
<1> QED BY <1>1, <1>4, <1>5, <1>6, <1>7 DEF ParseArrayBindingPattern

LEMMA BindingsTurn ==
  ASSUME todo \in Seq(Item), node \in Nodes, StreamTypeOK, BindingsNext
  PROVE  PlainTurn \/ PeekPastEnd
<1> USE DEF Running, PlainName, PlainFunction, PlainFunctionWithArgument
<1>1. ASSUME ParseBindingElements PROVE PlainTurn
  BY <1>1, PlainCalls, FreeItems DEF ParseBindingElements
<1>2. ASSUME ParseBindingComma PROVE PlainTurn
  BY <1>2, PlainCalls, FreeItems DEF ParseBindingComma
<1>3. ASSUME ParseBindingElement PROVE PlainTurn \/ PeekPastEnd
  BY <1>3, PlainCalls, PlainReturns, FreeItems, NodesMade DEF ParseBindingElement, Syntax
<1>4. ASSUME ParseInitializer PROVE PlainTurn
  BY <1>4, PlainCalls, PlainReturns, FreeItems, NodesMade DEF ParseInitializer, Syntax
<1>5. ASSUME ParseArrayBindingPattern PROVE PlainTurn
  BY <1>5, ArrayBindingTurn
<1>6. ASSUME ParseArrayBindingElement PROVE PlainTurn
  BY <1>6, PlainCalls, FreeItems DEF ParseArrayBindingElement
<1>7. ASSUME ParseArrayBindingSkipped PROVE PlainTurn
  BY <1>7, PlainCalls, FreeItems, Punctuators, ArgumentsTyped DEF ParseArrayBindingSkipped
<1>8. ASSUME ParseObjectBindingPattern PROVE PlainTurn
  <2>1. Len(brackets) \in Nat
    BY DEF StreamTypeOK
  <2>2. <<"SkipToListElement", Len(brackets)>> \in FreeItem
    BY <2>1, FreeItems
  <2> QED BY <1>8, <2>2, PlainCalls, FreeItems, Punctuators DEF ParseObjectBindingPattern
<1>9. ASSUME ParseObjectBindingName PROVE PlainTurn
  BY <1>9, PlainCalls, FreeItems DEF ParseObjectBindingName
<1>10. ASSUME ParseObjectBindingNext PROVE PlainTurn
  BY <1>10, PlainCalls, FreeItems DEF ParseObjectBindingNext
<1>11. ASSUME ParseObjectBindingSkipped PROVE PlainTurn
  BY <1>11, PlainCalls, FreeItems, Punctuators DEF ParseObjectBindingSkipped
<1>12. ASSUME SkipToListElement PROVE PlainTurn
  BY <1>12, PlainCalls, PlainReturns, NodesMade, ArgumentsTyped DEF SkipToListElement, Syntax
<1> QED BY <1>1, <1>2, <1>3, <1>4, <1>5, <1>6, <1>7, <1>8, <1>9, <1>10, <1>11, <1>12 DEF BindingsNext

LEMMA DeclarationsTurn ==
  ASSUME todo \in Seq(Item), node \in Nodes, DeclarationsNext
  PROVE  PlainTurn
<1> USE DEF Running, PlainName, PlainFunction, PlainFunctionWithArgument
<1>1. ASSUME ParseMethod PROVE PlainTurn
  BY <1>1, PlainCalls, FreeItems DEF ParseMethod
<1>2. ASSUME ParseArrowFunctionBody PROVE PlainTurn
  BY <1>2, PlainCalls, FreeItems DEF ParseArrowFunctionBody
<1>3. ASSUME ParseClassName PROVE PlainTurn
  BY <1>3, PlainCalls, FreeItems DEF ParseClassName
<1>4. ASSUME ParseClassBody PROVE PlainTurn
  BY <1>4, PlainCalls, FreeItems, OperandItems DEF ParseClassBody
<1>10. ASSUME ParseClassHeritage PROVE PlainTurn
  BY <1>10, PlainCalls, FreeItems, OperandItems DEF ParseClassHeritage
<1>5. ASSUME ParseFunctionStar PROVE PlainTurn
  BY <1>5, PlainCalls, FreeItems DEF ParseFunctionStar
<1>6. ASSUME ParseFunction PROVE PlainTurn
  BY <1>6, PlainCalls, FreeItems DEF ParseFunction
<1>7. ASSUME ParseParameterList PROVE PlainTurn
  BY <1>7, PlainCalls, FreeItems DEF ParseParameterList
<1>8. ASSUME ParseParameters PROVE PlainTurn
  BY <1>8, PlainCalls, FreeItems, Punctuators DEF ParseParameters
<1>9. ASSUME ParseFunctionBody PROVE PlainTurn
  BY <1>9, PlainCalls, FreeItems DEF ParseFunctionBody
<1> QED BY <1>1, <1>2, <1>3, <1>4, <1>5, <1>6, <1>7, <1>8, <1>9, <1>10
       DEF DeclarationsNext

LEMMA MachineTurn ==
  ASSUME todo \in Seq(Item), node \in Nodes, ExpectPunctuator \/ ConsumeTokenIf \/ ExpectSemicolon
  PROVE  PlainTurn
<1> USE DEF Running, PlainName, PlainFunction, PlainFunctionWithArgument
<1>1. ASSUME ExpectPunctuator PROVE PlainTurn
  BY <1>1, PlainCalls DEF ExpectPunctuator
<1>2. ASSUME ConsumeTokenIf PROVE PlainTurn
  BY <1>2, PlainCalls DEF ConsumeTokenIf
<1>3. ASSUME ExpectSemicolon PROVE PlainTurn
  BY <1>3, PlainCalls DEF ExpectSemicolon
<1> QED BY <1>1, <1>2, <1>3

LEMMA KeywordCalls ==
  ASSUME todo \in Seq(Item), node \in Nodes
  PROVE  /\ \A k : \A a \in FreeItem : ReadKeyword(k, <<a>>) => PlainTurn
         /\ \A k : \A a, b \in FreeItem : ReadKeyword(k, <<a, b>>) => PlainTurn
         /\ \A k : \A a, b, c \in FreeItem : ReadKeyword(k, <<a, b, c>>) => PlainTurn
<1>1. Make(Statement) \in FreeItem
  BY FreeItems, NodesMade DEF Statement, Syntax
<1>2. ASSUME NEW items \in Seq(FreeItem), NEW k, ReadKeyword(k, items)
      PROVE  PlainTurn
  <2>1. items \o << Make(Statement) >> \in Seq(FreeItem)
    BY <1>1
  <2>2. todo # <<>> /\ Head(todo)[1] \in PlainFunction
    BY <1>2 DEF ReadKeyword, AtStatement, Running, PlainFunction, PlainName
  <2> QED BY <1>2, <2>1, <2>2, PlainTurns DEF ReadKeyword, Read
<1>3. /\ \A a \in FreeItem : <<a>> \in Seq(FreeItem)
      /\ \A a, b \in FreeItem : <<a, b>> \in Seq(FreeItem)
      /\ \A a, b, c \in FreeItem : <<a, b, c>> \in Seq(FreeItem)
  OBVIOUS
<1> QED BY <1>2, <1>3

LEMMA KeywordTurn ==
  ASSUME todo \in Seq(Item), node \in Nodes, ParseKeywordStatement
  PROVE  PlainTurn
<1> USE DEF PlainName
<1>1. \A syntax \in Syntax : Make(NodeOf(syntax)) \in FreeItem
  BY FreeItems, NodesMade
<1>2. AtStatement => todo # <<>> /\ Head(todo)[1] \in PlainFunction
  BY DEF AtStatement, Running, PlainFunction
<1>3. Statement \in Nodes
  BY NodesMade DEF Statement, Syntax
<1>4. ASSUME AtStatement, Read(<< <<"Class">>, Make(NodeOf("Class")) >>)
      PROVE  PlainTurn
  BY <1>1, <1>2, <1>4, PlainCalls, FreeItems DEF Syntax
<1>5. ASSUME AtStatement, Read(<< <<"FunctionStar">>, Make(NodeOf("Function")) >>)
      PROVE  PlainTurn
  BY <1>1, <1>2, <1>5, PlainCalls, FreeItems DEF Syntax
<1>6. ASSUME AtStatement, Call(<< <<"Expression">>, <<"ExpressionStatement">> >>)
      PROVE  PlainTurn
  BY <1>2, <1>6, PlainCalls, FreeItems
<1>7. ASSUME AtStatement, ReadReturnError(Statement)
      PROVE  PlainTurn
  BY <1>2, <1>3, <1>7, PlainReturns
<1>12. ASSUME AtStatement,
              Read(<< <<"ExpectSemicolon">>, Make(NodeOf("ExpressionStatement")) >>)
       PROVE  PlainTurn
  BY <1>1, <1>2, <1>12, PlainCalls, FreeItems DEF Syntax
<1>8. CASE \/ ReadKeyword("break", << <<"Label">> >>)
           \/ ReadKeyword("default", << <<"DefaultLabel">> >>)
           \/ ReadKeyword("return", << <<"ReturnStatement">> >>)
  BY <1>8, KeywordCalls, FreeItems
<1>9. CASE \/ ReadKeyword("case", << <<"Expression">>, <<"CaseClause">> >>)
           \/ ReadKeyword("do", << <<"Statement">>, <<"DoWhile">> >>)
           \/ ReadKeyword("for", << Expect("("), <<"ForDocument">> >>)
           \/ ReadKeyword("switch", << <<"ParenthesisExpression">>, <<"SwitchStatement">> >>)
  BY <1>9, KeywordCalls, FreeItems, Punctuators
<1>10. CASE \/ ReadKeyword("throw", << <<"Expression">>, <<"ExpectSemicolon">> >>)
            \/ ReadKeyword("try", << <<"Statement">>, <<"TryStatement">> >>)
            \/ ReadKeyword("var", << <<"BindingElements">>, <<"ExpectSemicolon">> >>)
            \/ ReadKeyword("while", << <<"ParenthesisExpression">>, <<"Statement">> >>)
            \/ ReadKeyword("with", << <<"ParenthesisExpression">>, <<"Statement">> >>)
  BY <1>10, KeywordCalls, FreeItems
<1>11. CASE ReadKeyword("if", << <<"ParenthesisExpression">>, <<"Statement">>, <<"Else">> >>)
  BY <1>11, KeywordCalls, FreeItems
<1> QED BY <1>4, <1>5, <1>6, <1>7, <1>8, <1>9, <1>10, <1>11, <1>12
       DEF ParseKeywordStatement

LEMMA StatementsTurn ==
  ASSUME todo \in Seq(Item), node \in Nodes, StreamTypeOK, StatementsNext
  PROVE  PlainTurn \/ PeekPastEnd \/ ParseAfterName
<1> USE DEF Running, AtStatement, PlainName, PlainFunction, PlainFunctionWithArgument
<1>1. ASSUME ParseStatement PROVE PlainTurn
  BY <1>1, PlainCalls, PlainReturns, FreeItems, NodesMade DEF ParseStatement, Statement, Syntax
<1>2. ASSUME ParseExpressionStatement PROVE PlainTurn
  <2>1. ExpressionStatementNode(node) \in Nodes
    BY NodesMade DEF ExpressionStatementNode, Syntax
  <2> QED BY <1>2, <2>1, PlainCalls, FreeItems DEF ParseExpressionStatement
<1>3. ASSUME ReadJsDoc PROVE PlainTurn
  BY <1>3, PlainCalls, FreeItems DEF ReadJsDoc
<1>4. ASSUME ParseJsDocAsStatement PROVE PlainTurn
  BY <1>4, PlainTurns, NodesMade DEF ParseJsDocAsStatement, Syntax
<1>5. ASSUME ParseNameAsStatement PROVE PlainTurn
  <2>1. Peek \in NameKind \ Keyword /\ Peek \in Kind
    BY <1>5 DEF ParseNameAsStatement, Kind
  <2>2. PeekToken \in NameToken
    <3>1. "end" \notin Kind
      BY DEF Kind, NameKind, Keyword, LiteralKind, PunctuatorKind, OpenBracket, CloseBracket,
             DocumentKind
    <3> QED BY <2>1, <3>1, PeekedIsToken DEF Peek, NameToken, Token, EndOfInput
  <2>3. <<"NameStatement", PeekToken>> \in FreeItem
    BY <2>2, FreeItems
  <2> QED BY <1>5, <2>3, PlainCalls DEF ParseNameAsStatement
<1>6. ASSUME HandleLabeledStatement PROVE PlainTurn
  BY <1>6, PlainCalls, FreeItems DEF HandleLabeledStatement
<1>7. ASSUME ParseDefaultLabel PROVE PlainTurn
  BY <1>7, PlainCalls, FreeItems DEF ParseDefaultLabel
<1>8. ASSUME ParseBlockStatement PROVE PlainTurn \/ PeekPastEnd
  BY <1>8, PlainCalls, FreeItems DEF ParseBlockStatement
<1>9. ASSUME ParseStatements PROVE PlainTurn
  BY <1>9, PlainCalls, FreeItems DEF ParseStatements
<1>10. ASSUME ParseLabel PROVE PlainTurn
  BY <1>10, PlainCalls, PlainKeeps, FreeItems DEF ParseLabel
<1>11. ASSUME ParseCaseClause PROVE PlainTurn
  BY <1>11, PlainCalls, FreeItems DEF ParseCaseClause
<1>12. ASSUME ParseCaseStatement PROVE PlainTurn
  BY <1>12, PlainCalls, PlainKeeps, FreeItems DEF ParseCaseStatement
<1>13. ASSUME ParseDoStatement PROVE PlainTurn
  BY <1>13, PlainCalls, FreeItems, Punctuators DEF ParseDoStatement
<1>14. ASSUME ParseIfStatement PROVE PlainTurn
  BY <1>14, PlainCalls, FreeItems DEF ParseIfStatement
<1>15. ASSUME ParseParenthesisExpression PROVE PlainTurn
  BY <1>15, PlainCalls, FreeItems, Punctuators DEF ParseParenthesisExpression
<1>16. ASSUME ParseReturnStatement PROVE PlainTurn
  BY <1>16, PlainCalls, PlainKeeps, FreeItems DEF ParseReturnStatement
<1>17. ASSUME ParseSwitchStatement PROVE PlainTurn
  BY <1>17, PlainCalls, FreeItems DEF ParseSwitchStatement
<1>18. ASSUME ParseTryStatement PROVE PlainTurn
  BY <1>18, PlainCalls, FreeItems, Punctuators DEF ParseTryStatement
<1>19. ASSUME ParseCatchClause PROVE PlainTurn
  BY <1>19, PlainKeeps, FreeItems, Punctuators DEF ParseCatchClause
<1>20. ASSUME ParseFinally PROVE PlainTurn
  BY <1>20, PlainCalls, FreeItems DEF ParseFinally
<1>21. ASSUME Run PROVE PlainTurn
  BY <1>21, PlainCalls, PlainKeeps, FreeItems, FlagItems, ArgumentsTyped DEF Run
<1> QED BY <1>1, <1>2, <1>3, <1>4, <1>5, <1>6, <1>7, <1>8, <1>9, <1>10, <1>11, <1>12, <1>13,
           <1>14, <1>15, <1>16, <1>17, <1>18, <1>19, <1>20, <1>21, KeywordTurn
       DEF StatementsNext

LEMMA ForTurn ==
  ASSUME todo \in Seq(Item), node \in Nodes, ForNext
  PROVE  PlainTurn
<1> USE DEF Running, PlainName, PlainFunction, PlainFunctionWithArgument
<1>1. ForBody \in Seq(FreeItem)
  <2>1. Expect(")") \in FreeItem /\ <<"Statement">> \in FreeItem
    BY FreeItems, Punctuators
  <2> QED BY <2>1 DEF ForBody
<1>2. ASSUME NEW item \in FreeItem
      PROVE  <<item>> \o ForBody \in Seq(FreeItem)
  BY <1>1
<1>3. /\ << <<"Expression">> >> \o ForBody \in Seq(FreeItem)
      /\ << <<"AssignmentExpression">> >> \o ForBody \in Seq(FreeItem)
  BY <1>2, FreeItems
<1>4. ASSUME ParseForDocument PROVE PlainTurn
  BY <1>4, PlainCalls, FlagItems DEF ParseForDocument
<1>5. ASSUME ParseForKeyword PROVE PlainTurn
  BY <1>5, PlainCalls, PlainKeeps, FreeItems, NodesMade DEF ParseForKeyword, ExpressionNode, Syntax
<1>6. ASSUME ParseForExpression PROVE PlainTurn
  <2>1. CASE Read(<< <<"AssignmentExpression">> >> \o ForBody)
    BY <1>3, <1>6, <2>1, PlainTurns DEF ParseForExpression, Read
  <2> QED BY <1>6, <2>1, PlainCalls, PlainKeeps, FreeItems DEF ParseForExpression
<1>7. ASSUME ParseForCondition PROVE PlainTurn
  BY <1>7, PlainCalls, FreeItems, Punctuators DEF ParseForCondition
<1>8. ASSUME ParseForStep PROVE PlainTurn
  BY <1>1, <1>3, <1>8, PlainTurns DEF ParseForStep, Call
<1>9. ASSUME ParseForBinding PROVE PlainTurn
  <2>1. CASE \E error : /\ ConsumeToken(error)
                        /\ Continue(<< <<"Expression">> >> \o ForBody)
    BY <1>3, <1>9, <2>1, PlainTurns DEF ParseForBinding
  <2> QED BY <1>9, <2>1, PlainCalls, FreeItems, Punctuators DEF ParseForBinding
<1> QED BY <1>4, <1>5, <1>6, <1>7, <1>8, <1>9 DEF ForNext

(* The functions of ParserExpressions that make no operand, but for the two *)
(* that lead to one.                                                        *)
PlainExpressions ==
  \/ ParseComma \/ ParseCommaExpression \/ ParseAssignment \/ ParseConditionalExpression
  \/ ParseYieldExpression \/ ParseArgumentList \/ ParseArguments \/ ParseArgumentEnd
  \/ ParseArrayInitializer \/ ParseRegExpLiteral \/ ParseObjectInitializer
  \/ ParseStaticMember \/ ParsePropertyName \/ ParsePropertyAfterName

LEMMA PlainExpressionsTurn ==
  ASSUME todo \in Seq(Item), node \in Nodes, PlainExpressions
  PROVE  PlainTurn
<1> USE DEF Running, PlainName, PlainFunction, PlainFunctionWithArgument
<1>1. Expression \in Nodes
  BY NodesMade DEF Expression, Syntax
<1>2. ASSUME ParseComma PROVE PlainTurn
  BY <1>2, PlainCalls, FreeItems DEF ParseComma
<1>3. ASSUME ParseCommaExpression PROVE PlainTurn
  BY <1>1, <1>3, PlainCalls, PlainReturns, FreeItems DEF ParseCommaExpression
<1>4. ASSUME ParseAssignment PROVE PlainTurn
  <2>1. AssignmentNode \in Nodes
    BY NodesMade DEF AssignmentNode, Syntax, Assignment, None
  <2> QED BY <1>4, <2>1, PlainCalls, FreeItems DEF ParseAssignment
<1>5. ASSUME ParseConditionalExpression PROVE PlainTurn
  <2>1. Operation("Expression", Assignment) \in Nodes
    BY NodesMade DEF Syntax, Assignment, None
  <2> QED BY <1>5, <2>1, PlainCalls, FreeItems, Punctuators DEF ParseConditionalExpression
<1>6. ASSUME ParseYieldExpression PROVE PlainTurn
  BY <1>6, PlainCalls, FreeItems DEF ParseYieldExpression
<1>7. ASSUME ParseArgumentList PROVE PlainTurn
  BY <1>7, PlainCalls, FreeItems DEF ParseArgumentList
<1>8. ASSUME ParseArguments PROVE PlainTurn
  BY <1>8, PlainCalls, FreeItems DEF ParseArguments
<1>9. ASSUME ParseArgumentEnd PROVE PlainTurn
  BY <1>9, PlainCalls, FreeItems DEF ParseArgumentEnd
<1>10. ASSUME ParseArrayInitializer PROVE PlainTurn
  BY <1>10, PlainCalls, FreeItems DEF ParseArrayInitializer
<1>11. ASSUME ParseRegExpLiteral PROVE PlainTurn
  BY <1>11, PlainCalls, PlainKeeps DEF ParseRegExpLiteral
<1>12. ASSUME ParseObjectInitializer PROVE PlainTurn
  <2>1. <<"PropertyAfterName", FALSE, HasFunctionKind>> \in FreeItem
    <3>1. HasFunctionKind \in BOOLEAN
      BY DEF HasFunctionKind
    <3> QED BY <3>1, FlagItems
  <2> QED BY <1>12, <2>1, PlainCalls, PlainKeeps, FreeItems, FlagItems, ArgumentsTyped
          DEF ParseObjectInitializer
<1>13. ASSUME ParseStaticMember PROVE PlainTurn
  <2>1. <<"PropertyAfterName", TRUE, HasFunctionKind>> \in FreeItem
    <3>1. HasFunctionKind \in BOOLEAN
      BY DEF HasFunctionKind
    <3> QED BY <3>1, FlagItems
  <2> QED BY <1>13, <2>1, PlainCalls, FreeItems, FlagItems DEF ParseStaticMember
<1>14. ASSUME ParsePropertyName PROVE PlainTurn
  BY <1>1, <1>14, PlainCalls, PlainReturns, FreeItems, OperandItems DEF ParsePropertyName
<1>15. ASSUME ParsePropertyAfterName PROVE PlainTurn
  BY <1>15, PlainCalls, PlainKeeps, FreeItems DEF ParsePropertyAfterName, PropertyValue
<1> QED BY <1>2, <1>3, <1>4, <1>5, <1>6, <1>7, <1>8, <1>9, <1>10, <1>11, <1>12, <1>13, <1>14,
           <1>15 DEF PlainExpressions

-----------------------------------------------------------------------------
(* The functions about operands. *)

(* What the running function may leave to do, so that its caller gets the  *)
(* operand that it asked for.                                              *)
Fits(items) == Chain(items, node.precedence, Leaves(Head(todo)))

LEMMA ShortChains ==
  ASSUME NEW now \in Nat, NEW after \in Nat
  PROVE  /\ now >= after => Chain(<<>>, now, after)
         /\ \A a \in Item :
              now >= Needs(a) /\ Leaves(a) >= after => Chain(<<a>>, now, after)
         /\ \A a, b \in Item :
              now >= Needs(a) /\ Leaves(a) >= Needs(b) /\ Leaves(b) >= after
                => Chain(<<a, b>>, now, after)
         /\ \A a, b, c \in Item :
              /\ now >= Needs(a) /\ Leaves(a) >= Needs(b) /\ Leaves(b) >= Needs(c)
              /\ Leaves(c) >= after
              => Chain(<<a, b, c>>, now, after)
         /\ \A a, b, c, d \in Item :
              /\ now >= Needs(a) /\ Leaves(a) >= Needs(b) /\ Leaves(b) >= Needs(c)
              /\ Leaves(c) >= Needs(d) /\ Leaves(d) >= after
              => Chain(<<a, b, c, d>>, now, after)
<1> USE DEF Chain
<1>1. now >= after => Chain(<<>>, now, after)
  OBVIOUS
<1>2. ASSUME NEW a \in Item, now >= Needs(a), Leaves(a) >= after
      PROVE  Chain(<<a>>, now, after)
  BY <1>2
<1>3. ASSUME NEW a \in Item, NEW b \in Item,
             now >= Needs(a), Leaves(a) >= Needs(b), Leaves(b) >= after
      PROVE  Chain(<<a, b>>, now, after)
  BY <1>3
<1>4. ASSUME NEW a \in Item, NEW b \in Item, NEW c \in Item,
             now >= Needs(a), Leaves(a) >= Needs(b), Leaves(b) >= Needs(c), Leaves(c) >= after
      PROVE  Chain(<<a, b, c>>, now, after)
  BY <1>4
<1>5. ASSUME NEW a \in Item, NEW b \in Item, NEW c \in Item, NEW d \in Item,
             now >= Needs(a), Leaves(a) >= Needs(b), Leaves(b) >= Needs(c),
             Leaves(c) >= Needs(d), Leaves(d) >= after
      PROVE  Chain(<<a, b, c, d>>, now, after)
  BY <1>5
<1> QED BY <1>1, <1>2, <1>3, <1>4, <1>5

LEMMA FittingCalls ==
  ASSUME todo \in Seq(Item), node \in Nodes, todo # <<>>, NEW items, Fits(items),
         Read(items) \/ ReadError(items) \/ Call(items) \/ CallError(items)
           \/ \E error : (KeepToken(error) \/ ConsumeToken(error)) /\ Continue(items)
  PROVE  FittingTurn
<1>1. Continue(items) /\ MovesToken
  BY DEF Read, ReadError, Call, CallError, MovesToken
<1> QED BY <1>1, Continues DEF Fits, FittingTurn

LEMMA FittingReturns ==
  ASSUME todo \in Seq(Item), node \in Nodes, todo # <<>>,
         NEW result \in Nodes, result.precedence >= Leaves(Head(todo)),
         ReadReturn(result) \/ ReadReturnError(result)
           \/ JustReturn(result) \/ ReturnError(result)
           \/ \E error : (KeepToken(error) \/ ConsumeToken(error)) /\ Return(result)
  PROVE  FittingTurn
<1>1. Return(result) /\ MovesToken
  BY DEF ReadReturn, ReadReturnError, JustReturn, ReturnError, MovesToken
<1>2. Turn(<<>>) /\ node' = result
  BY <1>1, Returns
<1>3. Chain(<<>>, result.precedence, Leaves(Head(todo)))
  BY DEF Chain
<1> QED BY <1>2, <1>3 DEF FittingTurn

LEMMA ItemBounds ==
  /\ \A n \in OperandFunction : <<n>> \in Item /\ Leaves(<<n>>) = 12
  /\ \A n \in ContinuesOperand : Needs(<<n>>) = 12
  /\ \A n \in OperandFunction \ ContinuesOperand : Needs(<<n>>) = 0
  /\ \A n \in PlainName : <<n>> \in Item /\ Leaves(<<n>>) = 0 /\ Needs(<<n>>) = 0
  /\ \A n \in Nodes : Make(n) \in Item /\ Needs(Make(n)) = 0 /\ Leaves(Make(n)) = n.precedence
  /\ \A k \in PunctuatorKind :
       Expect(k) \in Item /\ Needs(Expect(k)) = 0 /\ Leaves(Expect(k)) = 0
  /\ \A n \in Nodes : n.precedence = 12 =>
       <<"Arrow", n>> \in Item /\ Needs(<<"Arrow", n>>) = 0 /\ Leaves(<<"Arrow", n>>) = 12
<1> USE DEF Needs, Leaves, None
<1>1. \A n \in OperandFunction : <<n>> \in Item /\ Leaves(<<n>>) = 12
  BY DEF Item, OperandItem, OperandFunction
<1>2. \A n \in ContinuesOperand : Needs(<<n>>) = 12
  BY DEF ContinuesOperand
<1>3. \A n \in OperandFunction \ ContinuesOperand : Needs(<<n>>) = 0
  BY DEF OperandFunction
<1>4. \A n \in PlainName : <<n>> \in Item /\ Leaves(<<n>>) = 0 /\ Needs(<<n>>) = 0
  BY PlainNames DEF Item, PlainItem, FunctionWithArgument, OperandFunction, ContinuesOperand
<1>5. \A n \in Nodes : Make(n) \in Item /\ Needs(Make(n)) = 0 /\ Leaves(Make(n)) = n.precedence
  BY DEF Make, Item, PlainItem, OperandFunction, ContinuesOperand
<1>6. \A k \in PunctuatorKind :
        Expect(k) \in Item /\ Needs(Expect(k)) = 0 /\ Leaves(Expect(k)) = 0
  BY DEF Expect, Item, PlainItem, OperandFunction, ContinuesOperand
<1>7. \A n \in Nodes : n.precedence = 12 =>
        <<"Arrow", n>> \in Item /\ Needs(<<"Arrow", n>>) = 0 /\ Leaves(<<"Arrow", n>>) = 12
  BY DEF Item, OperandItem, OperandFunction, ContinuesOperand
<1> QED BY <1>1, <1>2, <1>3, <1>4, <1>5, <1>6, <1>7

(* The functions that come back with an operand, but for primary            *)
(* expressions.                                                             *)
OperandExpressions ==
  \/ ParseUnaryExpression \/ ParseUpdateExpression \/ ParseLeftHandSideExpression
  \/ HandleNewExpression \/ HandleCallExpression \/ HandleMember
  \/ ParseNewExpression \/ ParseNewTarget \/ ParseNewArguments

OperandsMade ==
  {Expression, Reference, Member, Group, ArrowFunction, Function, Class, NodeOf("Object")}

LEMMA OperandNodes ==
  \A n \in OperandsMade : n \in Nodes /\ n.precedence = 12
BY NodesMade
DEF OperandsMade, Expression, Reference, Member, Group, ArrowFunction, Function, Class, Syntax, None

(* What a function may leave to do that comes back with an operand.         *)
LEMMA OperandChains ==
  ASSUME todo \in Seq(Item), todo # <<>>, node \in Nodes,
         Head(todo)[1] \in OperandFunction \cup {"Arrow"}
  PROVE  /\ node.precedence = 12 =>
              Fits(<<>>) /\ \A a, b \in OperandFunction : Fits(<< <<a>>, <<b>> >>)
         /\ \A a \in OperandFunction \ ContinuesOperand : Fits(<< <<a>> >>)
         /\ \A a \in (OperandFunction \ ContinuesOperand) \cup PlainName, n \in OperandsMade :
              Fits(<< <<a>>, Make(n) >>)
         /\ \A a \in OperandFunction \ ContinuesOperand, b \in OperandFunction :
              Fits(<< <<a>>, <<b>> >>)
         /\ \A n \in OperandsMade, b \in OperandFunction : Fits(<< Make(n), <<b>> >>)
         /\ \A a \in PlainName, n \in OperandsMade, b \in OperandFunction :
              /\ Fits(<< <<a>>, Make(n), <<b>> >>)
              /\ \A k \in PunctuatorKind : Fits(<< <<a>>, Expect(k), Make(n), <<b>> >>)
<1>1. node.precedence \in Nat /\ node.precedence >= 0
  BY DEF Nodes, None
<1>2. Leaves(Head(todo)) = 12
  BY DEF None, Leaves, OperandFunction
<1>3. \A a \in OperandFunction : <<a>> \in Item /\ Leaves(<<a>>) = 12 /\ 12 >= Needs(<<a>>)
  <2>1. SUFFICES ASSUME NEW a \in OperandFunction
                 PROVE  <<a>> \in Item /\ Leaves(<<a>>) = 12 /\ 12 >= Needs(<<a>>)
    OBVIOUS
  <2>2. <<a>> \in Item /\ Leaves(<<a>>) = 12
    BY ItemBounds
  <2>3. Needs(<<a>>) = 0 \/ Needs(<<a>>) = 12
    BY ItemBounds
  <2> QED BY <2>2, <2>3
<1>4. \A n \in OperandsMade :
        Make(n) \in Item /\ Needs(Make(n)) = 0 /\ Leaves(Make(n)) = 12
  BY ItemBounds, OperandNodes
<1>5. \A a \in OperandFunction \ ContinuesOperand : Needs(<<a>>) = 0
  BY ItemBounds
<1>6. node.precedence = 12 => Fits(<<>>)
  BY <1>1, <1>2, ShortChains DEF Fits
<1>7. ASSUME NEW a \in OperandFunction \ ContinuesOperand PROVE Fits(<< <<a>> >>)
  BY <1>1, <1>2, <1>3, <1>5, ShortChains DEF Fits
<1>8. ASSUME NEW a \in (OperandFunction \ ContinuesOperand) \cup PlainName,
             NEW n \in OperandsMade
      PROVE  Fits(<< <<a>>, Make(n) >>)
  <2>1. <<a>> \in Item /\ Needs(<<a>>) = 0 /\ Leaves(<<a>>) \in Nat
    BY ItemBounds
  <2>2. node.precedence >= Needs(<<a>>) /\ Leaves(<<a>>) >= Needs(Make(n))
        /\ Leaves(Make(n)) >= 12
    BY <1>1, <1>4, <2>1
  <2> QED BY <1>1, <1>2, <1>4, <2>1, <2>2, ShortChains DEF Fits
<1>9. ASSUME NEW a \in OperandFunction \ ContinuesOperand, NEW b \in OperandFunction
      PROVE  Fits(<< <<a>>, <<b>> >>)
  <2>1. node.precedence >= Needs(<<a>>) /\ Leaves(<<a>>) >= Needs(<<b>>)
        /\ Leaves(<<b>>) >= 12
    BY <1>1, <1>3, <1>5
  <2> QED BY <1>1, <1>2, <1>3, <2>1, ShortChains DEF Fits
<1>10. ASSUME NEW n \in OperandsMade, NEW b \in OperandFunction
       PROVE  Fits(<< Make(n), <<b>> >>)
  <2>1. node.precedence >= Needs(Make(n)) /\ Leaves(Make(n)) >= Needs(<<b>>)
        /\ Leaves(<<b>>) >= 12
    BY <1>1, <1>3, <1>4
  <2> QED BY <1>1, <1>2, <1>3, <1>4, <2>1, ShortChains DEF Fits
<1>11. ASSUME NEW a \in PlainName, NEW n \in OperandsMade, NEW b \in OperandFunction
       PROVE  Fits(<< <<a>>, Make(n), <<b>> >>)
  <2>1. <<a>> \in Item /\ Needs(<<a>>) = 0 /\ Leaves(<<a>>) = 0
    BY ItemBounds
  <2>2. node.precedence >= Needs(<<a>>) /\ Leaves(<<a>>) >= Needs(Make(n))
        /\ Leaves(Make(n)) >= Needs(<<b>>) /\ Leaves(<<b>>) >= 12
    BY <1>1, <1>3, <1>4, <2>1
  <2> QED BY <1>1, <1>2, <1>3, <1>4, <2>1, <2>2, ShortChains DEF Fits
<1>12. ASSUME NEW a \in PlainName, NEW k \in PunctuatorKind, NEW n \in OperandsMade,
              NEW b \in OperandFunction
       PROVE  Fits(<< <<a>>, Expect(k), Make(n), <<b>> >>)
  <2>1. /\ <<a>> \in Item /\ Needs(<<a>>) = 0 /\ Leaves(<<a>>) = 0
        /\ Expect(k) \in Item /\ Needs(Expect(k)) = 0 /\ Leaves(Expect(k)) = 0
    BY ItemBounds
  <2>2. /\ node.precedence >= Needs(<<a>>) /\ Leaves(<<a>>) >= Needs(Expect(k))
        /\ Leaves(Expect(k)) >= Needs(Make(n)) /\ Leaves(Make(n)) >= Needs(<<b>>)
        /\ Leaves(<<b>>) >= 12
    BY <1>1, <1>3, <1>4, <2>1
  <2> QED BY <1>1, <1>2, <1>3, <1>4, <2>1, <2>2, ShortChains DEF Fits
<1>13. ASSUME node.precedence = 12, NEW a \in OperandFunction, NEW b \in OperandFunction
       PROVE  Fits(<< <<a>>, <<b>> >>)
  <2>1. node.precedence >= Needs(<<a>>) /\ Leaves(<<a>>) >= Needs(<<b>>)
        /\ Leaves(<<b>>) >= 12
    BY <1>3, <1>13
  <2> QED BY <1>1, <1>2, <1>3, <2>1, ShortChains DEF Fits
<1> QED BY <1>6, <1>7, <1>8, <1>9, <1>10, <1>11, <1>12, <1>13

LEMMA OperandsFit ==
  ASSUME todo \in Seq(Item), node \in Nodes, OperandExpressions,
         Chain(todo, node.precedence, 0)
  PROVE  FittingTurn \/ PeekPastEnd
<1> USE DEF Running
<1>1. /\ todo # <<>> => Leaves(Head(todo)) = 12 \/ Head(todo)[1] \notin OperandFunction
      /\ \A n \in OperandsMade : n \in Nodes /\ n.precedence >= 12
      /\ Expression \in OperandsMade /\ Member \in OperandsMade /\ Reference \in OperandsMade
  <2>1. todo # <<>> => Leaves(Head(todo)) = 12 \/ Head(todo)[1] \notin OperandFunction
    BY DEF Leaves, OperandFunction, None
  <2>2. \A n \in OperandsMade : n \in Nodes /\ n.precedence >= 12
    BY OperandNodes
  <2> QED BY <2>1, <2>2 DEF OperandsMade
<1>2. PICK functions : functions = OperandFunction \ ContinuesOperand
  OBVIOUS
<1>3. /\ "UnaryExpression" \in functions /\ "LeftHandSideExpression" \in functions
      /\ "NewExpression" \in functions /\ "PrimaryExpression" \in functions
      /\ "NewTarget" \in functions /\ "NewArguments" \in functions
      /\ "UpdateExpression" \in OperandFunction /\ "CallExpression" \in OperandFunction
      /\ "MemberExpression" \in OperandFunction /\ "MemberName" \in OperandFunction
      /\ "NewArguments" \in OperandFunction
      /\ "YieldExpression" \in PlainName /\ "Expression" \in PlainName
      /\ "ArgumentList" \in PlainName /\ "]" \in PunctuatorKind
  BY <1>2 DEF OperandFunction, ContinuesOperand, PlainName, PunctuatorKind, CloseBracket
<1>4. todo # <<>> /\ Head(todo)[1] \in ContinuesOperand => node.precedence = 12
  <2>1. SUFFICES ASSUME todo # <<>>, Head(todo)[1] \in ContinuesOperand
                 PROVE  node.precedence = 12
    OBVIOUS
  <2>2. Head(todo) = todo[1]
    BY <2>1
  <2>3. node.precedence >= Needs(todo[1]) /\ Needs(todo[1]) = 12
    BY <2>1, <2>2 DEF Chain, Needs, ContinuesOperand, None
  <2> QED BY <2>3 DEF Nodes, None
<1>5. ASSUME ParseUnaryExpression PROVE FittingTurn \/ PeekPastEnd
  <2>1. todo # <<>> /\ Head(todo)[1] \in OperandFunction
    BY <1>5 DEF ParseUnaryExpression, OperandFunction
  <2> QED BY <1>1, <1>2, <1>3, <1>5, <2>1, FittingCalls, OperandChains DEF ParseUnaryExpression
<1>6. ASSUME ParseUpdateExpression PROVE FittingTurn
  <2>1. todo # <<>> /\ Head(todo)[1] \in OperandFunction /\ Head(todo)[1] \in ContinuesOperand
    BY <1>6 DEF ParseUpdateExpression, OperandFunction, ContinuesOperand
  <2> QED BY <1>1, <1>4, <1>6, <2>1, FittingCalls, FittingReturns, OperandChains
          DEF ParseUpdateExpression
<1>7. ASSUME ParseLeftHandSideExpression PROVE FittingTurn
  <2>1. todo # <<>> /\ Head(todo)[1] \in OperandFunction
    BY <1>7 DEF ParseLeftHandSideExpression, OperandFunction
  <2> QED BY <1>1, <1>2, <1>3, <1>7, <2>1, FittingCalls, FittingReturns, OperandChains
          DEF ParseLeftHandSideExpression
<1>8. ASSUME HandleNewExpression PROVE FittingTurn
  <2>1. todo # <<>> /\ Head(todo)[1] \in OperandFunction /\ Head(todo)[1] \in ContinuesOperand
    BY <1>8 DEF HandleNewExpression, OperandFunction, ContinuesOperand
  <2> QED BY <1>1, <1>3, <1>4, <1>8, <2>1, FittingCalls, OperandChains DEF HandleNewExpression
<1>9. ASSUME HandleCallExpression PROVE FittingTurn
  <2>1. todo # <<>> /\ Head(todo)[1] \in OperandFunction /\ Head(todo)[1] \in ContinuesOperand
    BY <1>9 DEF HandleCallExpression, OperandFunction, ContinuesOperand
  <2> QED BY <1>1, <1>3, <1>4, <1>9, <2>1, FittingCalls, OperandChains DEF HandleCallExpression
<1>10. ASSUME HandleMember PROVE FittingTurn
  <2>1. todo # <<>> /\ Head(todo)[1] \in OperandFunction /\ Head(todo)[1] \in ContinuesOperand
    BY <1>10 DEF HandleMember, OperandFunction, ContinuesOperand
  <2> QED BY <1>1, <1>4, <1>10, <2>1, FittingCalls, FittingReturns, OperandChains
          DEF HandleMember
<1>11. ASSUME ParseNewExpression PROVE FittingTurn
  <2>1. todo # <<>> /\ Head(todo)[1] \in OperandFunction
    BY <1>11 DEF ParseNewExpression, OperandFunction
  <2> QED BY <1>2, <1>3, <1>11, <2>1, FittingCalls, OperandChains DEF ParseNewExpression
<1>12. ASSUME ParseNewTarget PROVE FittingTurn
  <2>1. todo # <<>> /\ Head(todo)[1] \in OperandFunction
    BY <1>12 DEF ParseNewTarget, OperandFunction
  <2> QED BY <1>1, <1>2, <1>3, <1>12, <2>1, FittingCalls, FittingReturns, OperandChains
          DEF ParseNewTarget
<1>13. ASSUME ParseNewArguments PROVE FittingTurn
  <2>1. todo # <<>> /\ Head(todo)[1] \in OperandFunction
    BY <1>13 DEF ParseNewArguments, OperandFunction
  <2> QED BY <1>1, <1>3, <1>13, <2>1, FittingCalls, OperandChains DEF ParseNewArguments
<1> QED BY <1>5, <1>6, <1>7, <1>8, <1>9, <1>10, <1>11, <1>12, <1>13 DEF OperandExpressions

LEMMA PrimaryChains ==
  ASSUME todo \in Seq(Item), todo # <<>>, node \in Nodes,
         Head(todo)[1] \in OperandFunction \cup {"Arrow"}
  PROVE  /\ Fits(<< <<"ObjectInitializer", FALSE>>, Make(NodeOf("Object")) >>)
         /\ Fits(<< <<"Arrow", Reference>> >>)
         /\ Fits(<< Expect("=>"), <<"ArrowFunctionBody">>, Make(ArrowFunction) >>)
         /\ Fits(<< <<"Expression">>, Expect(")"), <<"Arrow", Group>> >>)
<1>1. node.precedence \in Nat /\ node.precedence >= 0
  BY DEF Nodes, None
<1>2. Leaves(Head(todo)) = 12
  BY DEF None, Leaves, OperandFunction
<1>3. \A n \in OperandsMade :
        /\ Make(n) \in Item /\ Needs(Make(n)) = 0 /\ Leaves(Make(n)) = 12
        /\ <<"Arrow", n>> \in Item /\ Needs(<<"Arrow", n>>) = 0 /\ Leaves(<<"Arrow", n>>) = 12
  BY ItemBounds, OperandNodes
<1>4. /\ Reference \in OperandsMade /\ Group \in OperandsMade /\ ArrowFunction \in OperandsMade
      /\ NodeOf("Object") \in OperandsMade
  BY DEF OperandsMade
<1>5. \A item \in {<<"ObjectInitializer", FALSE>>, <<"ArrowFunctionBody">>, <<"Expression">>,
                   Expect("=>"), Expect(")")} :
        item \in Item /\ Needs(item) = 0 /\ Leaves(item) = 0
  <2>1. /\ <<"ObjectInitializer", FALSE>> \in Item
        /\ Needs(<<"ObjectInitializer", FALSE>>) = 0 /\ Leaves(<<"ObjectInitializer", FALSE>>) = 0
    BY FlagItems, FreeNeedsNothing DEF Leaves, OperandFunction
  <2>2. "=>" \in PunctuatorKind /\ ")" \in PunctuatorKind
    BY DEF PunctuatorKind, CloseBracket
  <2>3. "ArrowFunctionBody" \in PlainName /\ "Expression" \in PlainName
    BY DEF PlainName
  <2> QED BY <2>1, <2>2, <2>3, ItemBounds
<1>6. Fits(<< <<"ObjectInitializer", FALSE>>, Make(NodeOf("Object")) >>)
  <2>1. PICK a, b :
          a = <<"ObjectInitializer", FALSE>> /\ b = Make(NodeOf("Object"))
    OBVIOUS
  <2>2. a \in Item /\ b \in Item /\ Needs(a) = 0 /\ Leaves(a) = 0 /\ Needs(b) = 0 /\ Leaves(b) = 12
    BY <1>3, <1>4, <1>5, <2>1
  <2>3. Chain(<<a, b>>, node.precedence, 12)
    BY <1>1, <2>2, ShortChains
  <2> QED BY <1>2, <2>1, <2>3 DEF Fits
<1>7. Fits(<< <<"Arrow", Reference>> >>)
  BY <1>1, <1>2, <1>3, <1>4, ShortChains DEF Fits
<1>8. Fits(<< Expect("=>"), <<"ArrowFunctionBody">>, Make(ArrowFunction) >>)
  <2>1. PICK a, b, c :
          a = Expect("=>") /\ b = <<"ArrowFunctionBody">> /\ c = Make(ArrowFunction)
    OBVIOUS
  <2>2. /\ a \in Item /\ b \in Item /\ c \in Item
        /\ Needs(a) = 0 /\ Leaves(a) = 0 /\ Needs(b) = 0 /\ Leaves(b) = 0
        /\ Needs(c) = 0 /\ Leaves(c) = 12
    BY <1>3, <1>4, <1>5, <2>1
  <2>3. /\ node.precedence >= Needs(a) /\ Leaves(a) >= Needs(b)
        /\ Leaves(b) >= Needs(c) /\ Leaves(c) >= 12 /\ 12 \in Nat
    BY <1>1, <2>2
  <2>4. Chain(<<a, b, c>>, node.precedence, 12)
    BY <1>1, <2>2, <2>3, ShortChains
  <2> QED BY <1>2, <2>1, <2>4 DEF Fits
<1>9. Fits(<< <<"Expression">>, Expect(")"), <<"Arrow", Group>> >>)
  <2>1. PICK a, b, c :
          a = <<"Expression">> /\ b = Expect(")") /\ c = <<"Arrow", Group>>
    OBVIOUS
  <2>2. /\ a \in Item /\ b \in Item /\ c \in Item
        /\ Needs(a) = 0 /\ Leaves(a) = 0 /\ Needs(b) = 0 /\ Leaves(b) = 0
        /\ Needs(c) = 0 /\ Leaves(c) = 12
    BY <1>3, <1>4, <1>5, <2>1
  <2>3. /\ node.precedence >= Needs(a) /\ Leaves(a) >= Needs(b)
        /\ Leaves(b) >= Needs(c) /\ Leaves(c) >= 12 /\ 12 \in Nat
    BY <1>1, <2>2
  <2>4. Chain(<<a, b, c>>, node.precedence, 12)
    BY <1>1, <2>2, <2>3, ShortChains
  <2> QED BY <1>2, <2>1, <2>4 DEF Fits
<1> QED BY <1>6, <1>7, <1>8, <1>9

PrimaryExpressions ==
  \/ ParsePrimaryExpression \/ ParseNameAsExpression \/ ParseAsync \/ ParseArrow
  \/ ParseJsDocAsExpression \/ ParseParenthesis

LEMMA PrimaryFits ==
  ASSUME todo \in Seq(Item), node \in Nodes, PrimaryExpressions
  PROVE  FittingTurn
<1> USE DEF Running
<1>1. /\ \A n \in OperandsMade : n \in Nodes /\ n.precedence >= 12
      /\ Expression \in OperandsMade /\ Reference \in OperandsMade /\ Class \in OperandsMade
      /\ NodeOf("Object") \in OperandsMade /\ Function \in OperandsMade
      /\ ArrowFunction \in OperandsMade
  <2>1. \A n \in OperandsMade : n \in Nodes /\ n.precedence >= 12
    BY OperandNodes
  <2> QED BY <2>1 DEF OperandsMade
<1>2. PICK functions : functions = OperandFunction \ ContinuesOperand
  OBVIOUS
<1>3. /\ "PrimaryExpression" \in functions /\ "JsDocAsExpression" \in functions
      /\ "Parenthesis" \in functions /\ "Async" \in functions
      /\ "JsDocAsExpression" \in OperandFunction
      /\ "Class" \in PlainName /\ "ArrayInitializer" \in PlainName
      /\ "RegExpFlags" \in PlainName /\ "FunctionStar" \in PlainName
      /\ "Function" \in PlainName /\ "ArrowFunctionBody" \in PlainName
  BY <1>2 DEF OperandFunction, ContinuesOperand, PlainName
<1>4. /\ todo # <<>> /\ Head(todo)[1] \in OperandFunction \cup {"Arrow"}
      /\ Leaves(Head(todo)) = 12
  <2>1. todo # <<>> /\ Head(todo)[1] \in OperandFunction \cup {"Arrow"}
    BY DEF PrimaryExpressions, ParsePrimaryExpression, ParseNameAsExpression, ParseAsync,
           ParseArrow, ParseJsDocAsExpression, ParseParenthesis, OperandFunction
  <2> QED BY <2>1 DEF Leaves, OperandFunction, None
<1>5. \A n \in OperandsMade :
        \/ ReadReturn(n) \/ ReadReturnError(n) \/ ReturnError(n)
        \/ \E error : (KeepToken(error) \/ ConsumeToken(error)) /\ Return(n)
        => FittingTurn
  BY <1>1, <1>4, FittingReturns
<1>6. \A items : Fits(items) /\ (Read(items) \/ Call(items)) => FittingTurn
  BY <1>4, FittingCalls
<1>7. ASSUME ParsePrimaryExpression PROVE FittingTurn
  BY <1>1, <1>2, <1>3, <1>4, <1>5, <1>6, <1>7, OperandChains, PrimaryChains
  DEF ParsePrimaryExpression
<1>8. ASSUME ParseNameAsExpression PROVE FittingTurn
  BY <1>1, <1>2, <1>3, <1>4, <1>5, <1>6, <1>8, OperandChains, PrimaryChains
  DEF ParseNameAsExpression
<1>9. ASSUME ParseAsync PROVE FittingTurn
  BY <1>1, <1>3, <1>4, <1>6, <1>9, OperandChains, PrimaryChains DEF ParseAsync
<1>10. ASSUME ParseArrow PROVE FittingTurn
  <2>1. Running("Arrow")
    BY <1>10 DEF ParseArrow
  <2>2. Argument \in Nodes /\ Argument.precedence >= 12
    BY <2>1, ArgumentsTyped DEF None
  <2>3. JustReturn(Argument) => FittingTurn
    BY <1>4, <2>2, FittingReturns
  <2> QED BY <1>1, <1>3, <1>4, <1>6, <1>10, <2>3, OperandChains DEF ParseArrow
<1>11. ASSUME ParseJsDocAsExpression PROVE FittingTurn
  BY <1>1, <1>5, <1>11 DEF ParseJsDocAsExpression
<1>12. ASSUME ParseParenthesis PROVE FittingTurn
  BY <1>4, <1>6, <1>12, PrimaryChains DEF ParseParenthesis
<1> QED BY <1>7, <1>8, <1>9, <1>10, <1>11, <1>12 DEF PrimaryExpressions

(* The operands and the operator of a binary operation.                     *)
LEMMA BinaryItems ==
  /\ \A lowest \in LogicalOr .. None, highest \in Category :
       LET item == <<"BinaryExpression", lowest, highest>>
       IN /\ item \in Item /\ Leaves(item) = lowest
          /\ Needs(item) = IF lowest <= highest THEN highest ELSE lowest
  /\ \A category \in Category, operator \in Kind \cup {"end"}, left \in Nodes :
       left.precedence >= category =>
         LET operand == <<"BinaryOperand", category, operator, left>>
             made == <<"NewBinaryExpression", category, operator, left>>
         IN /\ operand \in Item /\ Needs(operand) = 0 /\ Leaves(operand) = category
            /\ made \in Item /\ Needs(made) = category + 1 /\ Leaves(made) = category
<1> USE DEF Needs, Leaves
<1>1. ASSUME NEW lowest \in LogicalOr .. None, NEW highest \in Category
      PROVE  LET item == <<"BinaryExpression", lowest, highest>>
             IN /\ item \in Item /\ Leaves(item) = lowest
                /\ Needs(item) = IF lowest <= highest THEN highest ELSE lowest
  <2>1. <<"BinaryExpression", lowest, highest>> \in Item
    BY DEF Item, OperandItem
  <2> QED BY <2>1 DEF OperandFunction, ContinuesOperand
<1>2. ASSUME NEW category \in Category, NEW operator \in Kind \cup {"end"}, NEW left \in Nodes,
             left.precedence >= category
      PROVE  LET operand == <<"BinaryOperand", category, operator, left>>
                 made == <<"NewBinaryExpression", category, operator, left>>
             IN /\ operand \in Item /\ Needs(operand) = 0 /\ Leaves(operand) = category
                /\ made \in Item /\ Needs(made) = category + 1 /\ Leaves(made) = category
  <2>1. /\ <<"BinaryOperand", category, operator, left>> \in OperandItem
        /\ <<"NewBinaryExpression", category, operator, left>> \in OperandItem
    BY <1>2 DEF OperandItem
  <2> QED BY <2>1 DEF Item, OperandFunction, ContinuesOperand
<1> QED BY <1>1, <1>2

(* The operand and the operations that bind at least as tight as lowest, and *)
(* what is done with them.                                                   *)
LEMMA BinaryChain ==
  ASSUME NEW now \in Nat, NEW lowest \in LogicalOr .. None
  PROVE  Chain(BinaryExpression(lowest), now, lowest)
<1>1. PICK a, b : a = <<"UnaryExpression">> /\ b = <<"BinaryExpression", lowest, Exponentiation>>
  OBVIOUS
<1>2. Exponentiation \in Category /\ Exponentiation = 11 /\ lowest \in 1 .. 12
  BY DEF Category, LogicalOr, Exponentiation, None
<1>3. b \in Item /\ Leaves(b) = lowest /\ 12 >= Needs(b)
  BY <1>1, <1>2, BinaryItems
<1>4. a \in Item /\ Needs(a) = 0 /\ Leaves(a) = 12
  BY <1>1, ItemBounds DEF OperandFunction, ContinuesOperand
<1>5. now >= Needs(a) /\ Leaves(a) >= Needs(b) /\ Leaves(b) >= lowest /\ lowest \in Nat
  BY <1>2, <1>3, <1>4
<1>6. Chain(<<a, b>>, now, lowest)
  BY <1>3, <1>4, <1>5, ShortChains
<1> QED BY <1>1, <1>6 DEF BinaryExpression

LEMMA BinaryExpressionFits ==
  ASSUME todo \in Seq(Item), node \in Nodes, StreamTypeOK, ParseBinaryExpression,
         Chain(todo, node.precedence, 0)
  PROVE  FittingTurn
<1>1. PICK lowest, highest, category :
        lowest = Argument /\ highest = Head(todo)[3] /\ category = CategoryOf(Peek)
  OBVIOUS
<1>2. todo # <<>> /\ Running("BinaryExpression") /\ Head(todo)[1] = "BinaryExpression"
  BY DEF ParseBinaryExpression, Running
<1>3. lowest \in LogicalOr .. None /\ highest \in Category /\ lowest \in 1 .. 12 /\ highest \in 1 .. 11
  BY <1>1, <1>2, ArgumentsTyped DEF Category, LogicalOr, Exponentiation, None
<1>4. /\ Leaves(Head(todo)) = lowest
      /\ Needs(Head(todo)) = IF lowest <= highest THEN highest ELSE lowest
  BY <1>1, <1>2 DEF Leaves, Needs, Argument, OperandFunction, ContinuesOperand
<1>5. node.precedence >= Needs(Head(todo)) /\ node.precedence \in Nat
  <2>1. Head(todo) = todo[1]
    BY <1>2
  <2> QED BY <1>2, <2>1 DEF Chain, Nodes, None
<1>6. CASE category \in lowest .. highest /\ Read(<< <<"BinaryOperand", category, Peek, node>>,
                                                  <<"BinaryExpression", lowest, category>> >>)
  <2>1. PICK a, b : /\ a = <<"BinaryOperand", category, Peek, node>>
                    /\ b = <<"BinaryExpression", lowest, category>>
    OBVIOUS
  <2>2. category \in Category /\ lowest <= category
    BY <1>3, <1>6 DEF Category, LogicalOr, Exponentiation
  <2>3. node.precedence >= category
    BY <1>3, <1>4, <1>5, <1>6
  <2>4. Peek \in Kind \cup {"end"}
    BY PeekedIsToken DEF Peek, Token, EndOfInput
  <2>5. a \in Item /\ Needs(a) = 0 /\ Leaves(a) = category
    BY <2>1, <2>2, <2>3, <2>4, BinaryItems
  <2>6. b \in Item /\ Needs(b) = category /\ Leaves(b) = lowest
    BY <1>3, <2>1, <2>2, BinaryItems
  <2>7. node.precedence >= Needs(a) /\ Leaves(a) >= Needs(b) /\ Leaves(b) >= lowest
        /\ lowest \in Nat
    BY <1>3, <1>5, <1>6, <2>5, <2>6
  <2>8. Chain(<<a, b>>, node.precedence, lowest)
    BY <1>5, <2>5, <2>6, <2>7, ShortChains
  <2>9. Fits(<<a, b>>) /\ Read(<<a, b>>)
    BY <1>4, <1>6, <2>1, <2>8 DEF Fits
  <2> QED BY <1>2, <2>9, FittingCalls
<1>7. CASE Call(<<>>)
  <2>1. Chain(<<>>, node.precedence, lowest)
    BY <1>3, <1>4, <1>5 DEF Chain
  <2>2. Fits(<<>>)
    BY <1>4, <2>1 DEF Fits
  <2> QED BY <1>2, <1>7, <2>2, FittingCalls
<1> QED BY <1>1, <1>6, <1>7 DEF ParseBinaryExpression

LEMMA BinaryOperandFits ==
  ASSUME todo \in Seq(Item), node \in Nodes, ParseBinaryOperand \/ NewBinaryExpression
  PROVE  FittingTurn
<1>1. PICK category, operator, left :
        category = Argument /\ operator = Head(todo)[3] /\ left = Head(todo)[4]
  OBVIOUS
<1>2. todo # <<>> /\ (Running("BinaryOperand") \/ Running("NewBinaryExpression"))
  BY DEF ParseBinaryOperand, NewBinaryExpression, Running
<1>3. /\ category \in Category /\ operator \in Kind \cup {"end"} /\ left \in Nodes
      /\ left.precedence >= category /\ category \in 1 .. 11
  BY <1>1, <1>2, ArgumentsTyped DEF Category, LogicalOr, Exponentiation
<1>4. Leaves(Head(todo)) = category
  BY <1>1, <1>2 DEF Leaves, Argument, OperandFunction, Running
<1>5. node.precedence \in Nat
  BY DEF Nodes, None
<1>6. CASE ReturnError(left)
  BY <1>2, <1>3, <1>4, <1>6, FittingReturns
<1>7. CASE Call(BinaryExpression(category + 1)
                \o << <<"NewBinaryExpression", category, operator, left>> >>)
  <2>1. PICK made : made = <<"NewBinaryExpression", category, operator, left>>
    OBVIOUS
  <2>2. made \in Item /\ Needs(made) = category + 1 /\ Leaves(made) = category
    BY <1>3, <2>1, BinaryItems
  <2>3. category + 1 \in LogicalOr .. None /\ category + 1 \in Nat /\ category \in Nat
    BY <1>3 DEF LogicalOr, None
  <2>4. Chain(<<made>>, category + 1, category)
    BY <2>2, <2>3, ShortChains
  <2>5. Chain(BinaryExpression(category + 1), node.precedence, category + 1)
    BY <1>5, <2>3, BinaryChain
  <2>6. Fits(BinaryExpression(category + 1) \o <<made>>)
    BY <1>4, <1>5, <2>3, <2>4, <2>5, ChainJoined DEF Fits
  <2> QED BY <1>2, <1>7, <2>1, <2>6, FittingCalls
<1>8. CASE JustReturn(BinaryNode(category, operator, left))
  <2>1. /\ BinaryNode(category, operator, left) \in Nodes
        /\ BinaryNode(category, operator, left).precedence = category
    <3>1. PICK syntax \in Syntax :
            BinaryNode(category, operator, left) = Operation(syntax, category)
      BY DEF BinaryNode, Syntax
    <3>2. category \in 0 .. None
      BY <1>3 DEF None
    <3> QED BY <3>1, <3>2, NodesMade
  <2>2. BinaryNode(category, operator, left).precedence >= Leaves(Head(todo))
    BY <1>3, <1>4, <2>1
  <2> QED BY <1>2, <1>8, <2>1, <2>2, FittingReturns
<1> QED BY <1>1, <1>6, <1>7, <1>8
       DEF ParseBinaryOperand, NewBinaryExpression, HigherPrecedenceOf

LEMMA ExpressionsFit ==
  ASSUME todo \in Seq(Item), node \in Nodes, ParseExpression \/ ParseAssignmentExpression
  PROVE  FittingTurn
<1> USE DEF Running
<1>1. todo # <<>> /\ Head(todo)[1] \in {"Expression", "AssignmentExpression"}
  BY DEF ParseExpression, ParseAssignmentExpression
<1>2. Leaves(Head(todo)) = 0 /\ node.precedence \in Nat
  BY <1>1 DEF Leaves, OperandFunction, Nodes, None
<1>3. CASE ReturnError(Expression)
  <2>1. Expression \in Nodes /\ Expression.precedence >= 0
    BY OperandNodes DEF OperandsMade
  <2> QED BY <1>1, <1>2, <1>3, <2>1, FittingReturns
<1>4. CASE Call(<< <<"AssignmentExpression">>, <<"Comma">> >>)
  <2>1. << <<"AssignmentExpression">>, <<"Comma">> >> \in Seq(FreeItem)
    BY FreeItems DEF PlainName
  <2>2. Fits(<< <<"AssignmentExpression">>, <<"Comma">> >>)
    BY <1>2, <2>1, ChainOfFreeItems DEF Fits
  <2> QED BY <1>1, <1>4, <2>2, FittingCalls
<1>5. CASE Call(BinaryExpression(LogicalOr)
                \o << <<"ConditionalExpression">>, <<"Assignment">> >>)
  <2>1. << <<"ConditionalExpression">>, <<"Assignment">> >> \in Seq(FreeItem)
    BY FreeItems DEF PlainName
  <2>2. LogicalOr \in LogicalOr .. None /\ LogicalOr \in Nat
    BY DEF LogicalOr, None
  <2>3. Chain(<< <<"ConditionalExpression">>, <<"Assignment">> >>, LogicalOr, 0)
    BY <2>1, <2>2, ChainOfFreeItems
  <2>4. Chain(BinaryExpression(LogicalOr), node.precedence, LogicalOr)
    BY <1>2, <2>2, BinaryChain
  <2>5. Fits(BinaryExpression(LogicalOr) \o << <<"ConditionalExpression">>, <<"Assignment">> >>)
    BY <1>2, <2>2, <2>3, <2>4, ChainJoined DEF Fits
  <2> QED BY <1>1, <1>5, <2>5, FittingCalls
<1> QED BY <1>3, <1>4, <1>5 DEF ParseExpression, ParseAssignmentExpression

LEMMA MakeNodeFits ==
  ASSUME todo \in Seq(Item), node \in Nodes, MakeNode
  PROVE  FittingTurn
<1>1. todo # <<>> /\ Running("Make") /\ JustReturn(Argument)
  BY DEF MakeNode, Running
<1>2. Argument \in Nodes
  BY <1>1, ArgumentsTyped
<1>3. Leaves(Head(todo)) = Argument.precedence
  BY <1>1 DEF Leaves, Argument, Running, OperandFunction
<1>4. Argument.precedence >= Leaves(Head(todo))
  BY <1>2, <1>3 DEF Nodes, None
<1> QED BY <1>1, <1>2, <1>4, FittingReturns

-----------------------------------------------------------------------------
(* Every step is one of these: a turn of a function that makes no operand,  *)
(* a turn of one that does or that leads to one, the end of the text where  *)
(* a token is needed, and the name of a statement that is pushed back.      *)
OperandTurn ==
  \/ MakeNode \/ OperandExpressions \/ PrimaryExpressions
  \/ ParseBinaryExpression \/ ParseBinaryOperand \/ NewBinaryExpression
  \/ ParseExpression \/ ParseAssignmentExpression

PushBackTurn ==
  /\ Running("NameStatement")
  /\ \E error : PushBackToken(Argument, error)
  /\ Continue(<< <<"Expression">>, <<"ExpressionStatement">> >>)

LEMMA StepKinds ==
  ASSUME StreamTypeOK, node \in Nodes, todo \in Seq(Item), Next
  PROVE  PlainTurn \/ OperandTurn \/ PeekPastEnd \/ PushBackTurn
<1>1. CASE BindingsNext
  BY <1>1, BindingsTurn
<1>2. CASE DeclarationsNext
  BY <1>2, DeclarationsTurn
<1>3. CASE MachineNext
  BY <1>3, MachineTurn DEF MachineNext, OperandTurn
<1>4. CASE ForNext
  BY <1>4, ForTurn
<1>5. CASE ExpressionsNext
  <2>1. PlainExpressions \/ OperandTurn
    BY <1>5 DEF ExpressionsNext, OperandTurn, PlainExpressions, OperandExpressions,
                PrimaryExpressions
  <2> QED BY <2>1, PlainExpressionsTurn
<1>6. CASE ParseAfterName
  <2>1. CASE Read(<< <<"LabeledStatement">>, Make(Statement) >>)
    <3>1. todo # <<>> /\ Head(todo)[1] \in PlainFunction
      BY <1>6 DEF ParseAfterName, Running, PlainFunction, PlainFunctionWithArgument
    <3>2. Statement \in Nodes /\ "LabeledStatement" \in PlainName
      BY NodesMade DEF Statement, Syntax, PlainName
    <3> QED BY <2>1, <3>1, <3>2, PlainCalls, FreeItems
  <2> QED BY <1>6, <2>1 DEF ParseAfterName, PushBackTurn
<1>7. CASE StatementsNext
  BY <1>6, <1>7, StatementsTurn
<1> QED BY <1>1, <1>2, <1>3, <1>4, <1>5, <1>7 DEF Next

LEMMA OperandTurnFits ==
  ASSUME StreamTypeOK, node \in Nodes, Chain(todo, node.precedence, 0), OperandTurn
  PROVE  FittingTurn \/ PeekPastEnd
<1>1. todo \in Seq(Item)
  BY DEF Chain
<1>2. CASE OperandExpressions
  BY <1>1, <1>2, OperandsFit
<1>3. CASE PrimaryExpressions
  BY <1>1, <1>3, PrimaryFits
<1>4. CASE ParseBinaryExpression
  BY <1>1, <1>4, BinaryExpressionFits
<1>5. CASE ParseBinaryOperand \/ NewBinaryExpression
  BY <1>1, <1>5, BinaryOperandFits
<1>6. CASE ParseExpression \/ ParseAssignmentExpression
  BY <1>1, <1>6, ExpressionsFit
<1>7. CASE MakeNode
  BY <1>1, <1>7, MakeNodeFits
<1> QED BY <1>2, <1>3, <1>4, <1>5, <1>6, <1>7 DEF OperandTurn

-----------------------------------------------------------------------------
(* The token stream. *)

LEMMA OfferedTokens ==
  ASSUME scenario \in Scenario, NEW n \in Nat \ {0}
  PROVE  Offered(n) \subseteq Token \cup EndOfInput
<1>1. scenario.start \in Seq(Token) /\ scenario.next \subseteq Token
  BY ScenarioAssumption
<1>2. n <= Len(scenario.start) => scenario.start[n] \in Token
  BY <1>1
<1> QED BY <1>1, <1>2 DEF Offered

LEMMA FedBrackets ==
  ASSUME NEW stack \in Seq(OpenBracket), NEW k
  PROVE  Feed(k, stack) \in Seq(OpenBracket) /\ Mismatch(k, stack) \in BOOLEAN
<1>1. Mismatch(k, stack) \in BOOLEAN
  BY DEF Mismatch
<1>2. CASE k \in OpenBracket
  <2>1. <<k>> \in Seq(OpenBracket)
    BY <1>2
  <2>2. <<k>> \o stack \in Seq(OpenBracket)
    BY <2>1
  <2> QED BY <1>1, <1>2, <2>2 DEF Feed
<1>3. CASE k \notin OpenBracket /\ k \in CloseBracket /\ ~Mismatch(k, stack)
  BY <1>1, <1>3 DEF Feed, Mismatch
<1>4. CASE k \notin OpenBracket /\ ~(k \in CloseBracket /\ ~Mismatch(k, stack))
  BY <1>1, <1>4 DEF Feed
<1> QED BY <1>1, <1>2, <1>3, <1>4

LEMMA LookAheadTyped ==
  ASSUME StreamTypeOK, NEW error, LookAhead(error),
         UNCHANGED <<scenario, token_stack_>>
  PROVE  StreamTypeOK'
<1>1. PICK t \in Offered(position + 1) :
        /\ current_token_' = t /\ is_separated_by_newline_' = t.newline
        /\ position' = IF t \in EndOfInput THEN position ELSE position + 1
        /\ brackets' = Feed(t.kind, brackets)
        /\ reported' = (reported \/ error \/ Mismatch(t.kind, brackets))
  BY DEF LookAhead
<1>2. t \in Token \cup EndOfInput
  BY <1>1, OfferedTokens DEF StreamTypeOK
<1>3. t.newline \in BOOLEAN
  BY <1>2 DEF Token, EndOfInput
<1>4. brackets' \in Seq(OpenBracket) /\ reported' \in BOOLEAN
  BY <1>1, FedBrackets DEF StreamTypeOK
<1>5. position' \in Nat
  BY <1>1 DEF StreamTypeOK
<1> QED BY <1>1, <1>2, <1>3, <1>4, <1>5 DEF StreamTypeOK

LEMMA StreamTyped ==
  ASSUME StreamTypeOK, MovesToken
  PROVE  StreamTypeOK'
<1>1. PICK error : ConsumeToken(error) \/ KeepToken(error)
  BY DEF MovesToken
<1>2. CASE KeepToken(error)
  BY <1>2 DEF KeepToken, stream, StreamTypeOK
<1>3. CASE ConsumeToken(error) /\ token_stack_ # <<>>
  BY <1>3 DEF ConsumeToken, PopToken, StreamTypeOK
<1>4. CASE ConsumeToken(error) /\ token_stack_ = <<>>
  BY <1>4, LookAheadTyped DEF ConsumeToken
<1> QED BY <1>1, <1>2, <1>3, <1>4

LEMMA TokenMoves ==
  ASSUME MovesToken
  PROVE  token_stack_' = token_stack_ \/ (token_stack_ # <<>> /\ token_stack_' = Tail(token_stack_))
BY DEF MovesToken, ConsumeToken, KeepToken, PopToken, stream

LEMMA FirstCalled ==
  ASSUME todo # <<>>, todo \in Seq(Item), NEW item \in Item
  PROVE  /\ Call(<<item>>) => todo' # <<>> /\ Head(todo') = item
         /\ \A b \in Item : Call(<<item, b>>) => todo' # <<>> /\ Head(todo') = item
         /\ \A rest \in Seq(Item), b \in Item :
              Call(<<item, b>> \o rest) => todo' # <<>> /\ Head(todo') = item
<1>1. Tail(todo) \in Seq(Item)
  OBVIOUS
<1>2. ASSUME NEW items \in Seq(Item), items # <<>>, items[1] = item, Call(items)
      PROVE  todo' # <<>> /\ Head(todo') = item
  <2>1. PICK after : after = Tail(todo)
    OBVIOUS
  <2>2. todo' = items \o after /\ after \in Seq(Item)
    BY <1>1, <1>2, <2>1 DEF Call, Continue
  <2>3. todo' \in Seq(Item) /\ Len(todo') = Len(items) + Len(after) /\ Len(items) > 0
    BY <1>2, <2>2
  <2>4. todo'[1] = items[1]
    BY <1>2, <2>2
  <2> QED BY <1>2, <2>3, <2>4
<1>3. <<item>> \in Seq(Item) /\ <<item>> # <<>> /\ <<item>>[1] = item
  OBVIOUS
<1>4. \A b \in Item : <<item, b>> \in Seq(Item) /\ <<item, b>> # <<>> /\ <<item, b>>[1] = item
  OBVIOUS
<1>5. ASSUME NEW rest \in Seq(Item), NEW b \in Item
      PROVE  /\ <<item, b>> \o rest \in Seq(Item) /\ <<item, b>> \o rest # <<>>
             /\ (<<item, b>> \o rest)[1] = item
  <2>1. PICK two : two = <<item, b>>
    OBVIOUS
  <2>2. two \in Seq(Item)
    BY <2>1
  <2>3. Len(two) = 2 /\ two[1] = item
    BY <2>1
  <2>4. PICK all : all = two \o rest
    OBVIOUS
  <2>5. /\ all \in Seq(Item) /\ Len(all) = Len(two) + Len(rest)
        /\ \A i \in 1 .. Len(two) : all[i] = two[i]
    BY <2>2, <2>4
  <2>6. all # <<>> /\ all[1] = item
    <3>1. Len(all) > 0 /\ 1 \in 1 .. Len(two)
      BY <2>5, <2>3
    <3> QED BY <2>5, <2>3, <3>1
  <2> QED BY <2>1, <2>4, <2>5, <2>6
<1> QED BY <1>2, <1>3, <1>4, <1>5

(* A pushed back name stays while the functions go down to the primary      *)
(* expression, which reads it.                                              *)
LEMMA PushedBackIsKept ==
  ASSUME IInv, Next, token_stack_ # <<>>
  PROVE  PushedBackIsRead'
<1> USE DEF Running
<1>1. PICK t \in NameToken : token_stack_ = <<t>>
  BY DEF IInv, PushedBackIsRead
<1>2. /\ todo # <<>> /\ Head(todo) \in WayToPrimary /\ todo \in Seq(Item) /\ node \in Nodes
      /\ StreamTypeOK
  BY DEF IInv, PushedBackIsRead, Chain
<1>3. Head(todo)[1] \in {"Expression", "AssignmentExpression", "UnaryExpression",
                         "LeftHandSideExpression", "NewExpression", "PrimaryExpression"}
  BY <1>2 DEF WayToPrimary
<1>4. CanPeekToken
  <2>1. PeekToken = t
    BY <1>1 DEF PeekToken
  <2>2. t.kind \in NameKind
    BY DEF NameToken
  <2> QED BY <2>1, <2>2 DEF CanPeekToken, EndOfInput, NameKind, Keyword
<1>5. ~PeekPastEnd
  BY <1>4 DEF PeekPastEnd
<1>6. ~PlainTurn
  BY <1>3 DEF PlainTurn, PlainFunction, PlainFunctionWithArgument, PlainName
<1>7. OperandTurn
  BY <1>2, <1>3, <1>5, <1>6, StepKinds DEF PushBackTurn
<1>8. \/ ParseExpression \/ ParseAssignmentExpression \/ ParseUnaryExpression
      \/ ParseLeftHandSideExpression \/ ParseNewExpression
      \/ ParsePrimaryExpression \/ ParseNameAsExpression
  BY <1>3, <1>7
  DEF OperandTurn, MakeNode, OperandExpressions, PrimaryExpressions, ParseBinaryExpression,
      ParseBinaryOperand, NewBinaryExpression, ParseUpdateExpression, HandleNewExpression,
      HandleCallExpression, HandleMember, ParseNewTarget, ParseNewArguments, ParseAsync,
      ParseArrow, ParseJsDocAsExpression, ParseParenthesis
<1>9. ASSUME NEW error, ConsumeToken(error)
      PROVE  PushedBackIsRead'
  <2>1. token_stack_' = <<>>
    BY <1>1, <1>9 DEF ConsumeToken, PopToken
  <2> QED BY <2>1 DEF PushedBackIsRead
<1>10. ASSUME NEW items, Call(items), todo' # <<>>, Head(todo') \in WayToPrimary
       PROVE  PushedBackIsRead'
  BY <1>1, <1>10 DEF Call, KeepToken, stream, PushedBackIsRead
<1>11. /\ <<"AssignmentExpression">> \in Item /\ <<"Comma">> \in Item
       /\ <<"UnaryExpression">> \in Item /\ <<"LeftHandSideExpression">> \in Item
       /\ <<"UpdateExpression">> \in Item /\ <<"NewExpression">> \in Item
       /\ <<"CallExpression">> \in Item /\ <<"PrimaryExpression">> \in Item
       /\ <<"MemberExpression">> \in Item
       /\ <<"ConditionalExpression">> \in Item /\ <<"Assignment">> \in Item
  BY ItemBounds DEF PlainName, OperandFunction
<1>12. CASE ParseExpression
  <2>1. Call(<< <<"AssignmentExpression">>, <<"Comma">> >>)
    BY <1>4, <1>12 DEF ParseExpression
  <2> QED BY <1>2, <1>10, <1>11, <2>1, FirstCalled DEF WayToPrimary
<1>13. CASE ParseAssignmentExpression
  <2>1. PICK a, b, rest :
          /\ a = <<"UnaryExpression">> /\ b = <<"BinaryExpression", LogicalOr, Exponentiation>>
          /\ rest = << <<"ConditionalExpression">>, <<"Assignment">> >>
    OBVIOUS
  <2>2. Call(<<a, b>> \o rest)
    BY <1>4, <1>13, <2>1 DEF ParseAssignmentExpression, BinaryExpression
  <2>3. a \in Item /\ b \in Item /\ rest \in Seq(Item)
    <3>1. b \in Item
      BY <2>1, BinaryItems DEF LogicalOr, Exponentiation, None, Category
    <3> QED BY <1>11, <2>1, <3>1
  <2>4. todo' # <<>> /\ Head(todo') = a
    BY <1>2, <2>2, <2>3, FirstCalled
  <2> QED BY <1>10, <2>1, <2>2, <2>4 DEF WayToPrimary
<1>14. CASE ParseUnaryExpression
  <2>1. \/ \E error : ConsumeToken(error)
        \/ Call(<< <<"LeftHandSideExpression">>, <<"UpdateExpression">> >>)
    BY <1>5, <1>14 DEF ParseUnaryExpression, Read
  <2> QED BY <1>2, <1>9, <1>10, <1>11, <2>1, FirstCalled DEF WayToPrimary
<1>15. CASE ParseLeftHandSideExpression
  <2>1. Call(<< <<"NewExpression">>, <<"CallExpression">> >>)
    BY <1>4, <1>15 DEF ParseLeftHandSideExpression
  <2> QED BY <1>2, <1>10, <1>11, <2>1, FirstCalled DEF WayToPrimary
<1>16. CASE ParseNewExpression
  <2>1. \/ \E error : ConsumeToken(error)
        \/ Call(<< <<"PrimaryExpression">>, <<"MemberExpression">> >>)
    BY <1>16 DEF ParseNewExpression, Read
  <2> QED BY <1>2, <1>9, <1>10, <1>11, <2>1, FirstCalled DEF WayToPrimary
<1>17. CASE ParsePrimaryExpression \/ ParseNameAsExpression
  <2>1. \E error : ConsumeToken(error)
    BY <1>4, <1>17 DEF ParsePrimaryExpression, ParseNameAsExpression, Read, ReadReturn,
                       ReadReturnError
  <2> QED BY <1>9, <2>1
<1> QED BY <1>8, <1>12, <1>13, <1>14, <1>15, <1>16, <1>17

LEMMA InvariantStart ==
  ASSUME Init
  PROVE  IInv
<1>1. PICK t \in Offered(1) :
        /\ current_token_ = t /\ is_separated_by_newline_ = t.newline
        /\ position = IF t \in EndOfInput THEN 0 ELSE 1
        /\ brackets = Feed(t.kind, <<>>) /\ reported = Mismatch(t.kind, <<>>)
  BY DEF Init, MachineInit, StreamInit
<1>2. scenario \in Scenario /\ token_stack_ = <<>> /\ todo = << <<"Run", FALSE>> >>
      /\ node = NodeOf("Statement") /\ crashed = FALSE
  BY DEF Init, MachineInit, StreamInit
<1>3. t \in Token \cup EndOfInput
  BY <1>2, OfferedTokens
<1>4. StreamTypeOK
  <2>1. brackets \in Seq(OpenBracket) /\ reported \in BOOLEAN
    <3>1. <<>> \in Seq(OpenBracket)
      OBVIOUS
    <3> QED BY <1>1, <3>1, FedBrackets
  <2>2. t.newline \in BOOLEAN
    BY <1>3 DEF Token, EndOfInput
  <2> QED BY <1>1, <1>2, <1>3, <2>1, <2>2 DEF StreamTypeOK
<1>5. node \in Nodes
  BY <1>2, NodesMade DEF Syntax
<1>6. Chain(todo, node.precedence, 0)
  <2>1. todo \in Seq(FreeItem)
    BY <1>2, FlagItems
  <2> QED BY <1>5, <2>1, ChainOfFreeItems DEF Nodes, None
<1> QED BY <1>2, <1>4, <1>5, <1>6 DEF IInv, PushedBackIsRead

LEMMA InvariantStep ==
  ASSUME IInv, [Next]_parserVars
  PROVE  IInv'
<1>1. CASE UNCHANGED parserVars
  BY <1>1
  DEF parserVars, streamVars, stream, IInv, StreamTypeOK, PushedBackIsRead, Chain
<1>2. CASE Next
  <2>1. /\ StreamTypeOK /\ node \in Nodes /\ crashed \in BOOLEAN /\ todo \in Seq(Item)
        /\ Chain(todo, node.precedence, 0)
    BY DEF IInv, Chain
  <2>2. FittingTurn \/ PeekPastEnd \/ PushBackTurn
    BY <1>2, <2>1, StepKinds, PlainTurnFits, OperandTurnFits
  <2>3. CASE FittingTurn
    <3>1. PICK items : Turn(items) /\ Chain(items, node'.precedence, Leaves(Head(todo)))
      BY <2>3 DEF FittingTurn
    <3>2. MovesToken /\ todo # <<>> /\ todo' = items \o Tail(todo) /\ node' \in Nodes
          /\ crashed' \in BOOLEAN
      BY <2>1, <3>1 DEF Turn
    <3>3. StreamTypeOK'
      BY <2>1, <3>2, StreamTyped
    <3>4. node'.precedence \in Nat
      BY <3>2 DEF Nodes
    <3>5. Chain(items \o Tail(todo), node'.precedence, 0)
      BY <2>1, <3>1, <3>2, <3>4, ChainTurn
    <3>6. Chain(todo, node.precedence, 0)'
      BY <3>2, <3>5 DEF Chain
    <3>7. PushedBackIsRead'
      <4>1. CASE token_stack_ = <<>>
        BY <3>2, <4>1, TokenMoves DEF PushedBackIsRead
      <4> QED BY <1>2, <4>1, PushedBackIsKept
    <3> QED BY <3>2, <3>3, <3>6, <3>7 DEF IInv, Nodes
  <2>4. CASE PeekPastEnd
    <3>1. StreamTypeOK' /\ node' \in Nodes /\ crashed' \in BOOLEAN /\ todo' = <<>>
      BY <2>1, <2>4 DEF PeekPastEnd, streamVars, stream, StreamTypeOK
    <3>2. node'.precedence >= 0
      BY <3>1 DEF Nodes, None
    <3>3. Chain(todo, node.precedence, 0)'
      BY <3>1, <3>2 DEF Chain
    <3>4. PushedBackIsRead'
      <4>1. CASE token_stack_ = <<>>
        BY <2>4, <4>1 DEF PeekPastEnd, streamVars, stream, PushedBackIsRead
      <4> QED BY <1>2, <4>1, PushedBackIsKept
    <3> QED BY <3>1, <3>3, <3>4 DEF IInv, Nodes
  <2>5. CASE PushBackTurn
    <3>1. /\ todo # <<>> /\ Running("NameStatement") /\ Head(todo)[1] = "NameStatement"
          /\ Argument \in NameToken
      BY <2>1, <2>5, ArgumentsTyped DEF PushBackTurn, Running
    <3>2. token_stack_ = <<>>
      BY <3>1 DEF IInv, PushedBackIsRead, WayToPrimary
    <3>3. token_stack_' = <<Argument>>
      BY <2>5, <3>1, <3>2 DEF PushBackTurn, PushBackToken
    <3>4. Argument \in Token
      BY <3>1 DEF NameToken, Token, Kind
    <3>5. StreamTypeOK'
      BY <2>1, <2>5, <3>3, <3>4 DEF PushBackTurn, PushBackToken, StreamTypeOK
    <3>6. PICK items : items = << <<"Expression">>, <<"ExpressionStatement">> >>
      OBVIOUS
    <3>7. items \in Seq(FreeItem) /\ items \in Seq(Item) /\ items # <<>>
          /\ items[1] = <<"Expression">>
      <4>1. <<"Expression">> \in Item /\ <<"ExpressionStatement">> \in Item
        BY ItemBounds DEF PlainName
      <4>2. items \in Seq(FreeItem)
        BY <3>6, FreeItems DEF PlainName
      <4> QED BY <3>6, <4>1, <4>2
    <3>8. todo' = items \o Tail(todo) /\ node' = node /\ crashed' = crashed
      BY <2>5, <3>6 DEF PushBackTurn, Continue
    <3>9. Leaves(Head(todo)) = 0 /\ node.precedence \in Nat
      BY <2>1, <3>1 DEF Leaves, OperandFunction, Nodes, None
    <3>10. Chain(items, node.precedence, 0)
      BY <3>7, <3>9, ChainOfFreeItems
    <3>11. Chain(todo, node.precedence, 0)'
      <4>1. Chain(items \o Tail(todo), node.precedence, 0)
        BY <2>1, <3>1, <3>9, <3>10, ChainTurn
      <4> QED BY <3>8, <4>1 DEF Chain
    <3>12. todo' # <<>> /\ Head(todo') = <<"Expression">>
      <4>1. PICK rest : rest = Tail(todo)
        OBVIOUS
      <4>2. rest \in Seq(Item) /\ todo' = items \o rest
        BY <2>1, <3>1, <3>8, <4>1
      <4>3. todo' \in Seq(Item) /\ Len(todo') > 0 /\ todo'[1] = items[1]
        BY <3>7, <4>2
      <4> QED BY <3>7, <4>3
    <3>13. PushedBackIsRead'
      BY <3>1, <3>3, <3>12 DEF PushedBackIsRead, WayToPrimary
    <3> QED BY <2>1, <3>5, <3>8, <3>11, <3>13 DEF IInv
  <2> QED BY <2>2, <2>3, <2>4, <2>5
<1> QED BY <1>1, <1>2

-----------------------------------------------------------------------------
(* The stack of calls, the node and the pushed back token stay consistent    *)
(* for every text: what a function finds is what it needs (ParserMachine).   *)
THEOREM CallsFit == Spec => []IInv
BY InvariantStart, InvariantStep, PTL DEF Spec

(* Every variable keeps its type, and an operation in progress has the left  *)
(* operand that it was given (parser_expressions.cc, ParseBinaryExpression). *)
THEOREM TypeCorrect == Spec => []TypeOK
<1>1. IInv => TypeOK
  <2>1. SUFFICES ASSUME IInv PROVE TypeOK
    OBVIOUS
  <2>2. todo \in Seq(Item) /\ StreamTypeOK /\ node \in Nodes /\ crashed \in BOOLEAN
    BY <2>1 DEF IInv, Chain
  <2> QED BY <2>2, ArgumentsTyped DEF TypeOK, Running
<1> QED BY <1>1, CallsFit, PTL

(* While a name is pushed back, no function looks at the flag of the line    *)
(* break, which is one of the token behind the name (parser.cc,              *)
(* PushBackToken; parser_statements.cc, ParseNameAsStatement).               *)
THEOREM FlagCorrect == Spec => []FlagIsOfPeekedToken
<1>1. IInv => FlagIsOfPeekedToken
  BY DEF IInv, PushedBackIsRead, FlagIsOfPeekedToken, WayToPrimary, LooksAtLineBreak
<1> QED BY <1>1, CallsFit, PTL

(* Operations group by precedence and from left to right, however long and   *)
(* deep the expression is (parser_expressions.cc, ParseBinaryExpression).    *)
THEOREM OperandsCorrect == Spec => []OperandsBindTighter
<1>1. IInv => OperandsBindTighter
  <2>1. SUFFICES ASSUME IInv, Running("NewBinaryExpression")
                 PROVE  /\ Head(todo)[4].precedence >= Argument
                        /\ node.precedence > Argument
    BY DEF OperandsBindTighter
  <2>2. todo \in Seq(Item) /\ todo # <<>> /\ node \in Nodes
    BY <2>1 DEF IInv, Chain, Running
  <2>3. Head(todo)[4].precedence >= Argument /\ Argument \in 1 .. 11
    BY <2>1, <2>2, ArgumentsTyped DEF Category, LogicalOr, Exponentiation
  <2>4. Head(todo) = todo[1] /\ Needs(Head(todo)) = Argument + 1
    BY <2>1, <2>2 DEF Running, Argument, Needs, ContinuesOperand
  <2>5. node.precedence >= Argument + 1
    BY <2>1, <2>2, <2>4 DEF IInv, Chain
  <2> QED BY <2>2, <2>3, <2>5 DEF Nodes, None
<1> QED BY <1>1, CallsFit, PTL

-----------------------------------------------------------------------------
(***************************************************************************)
(* A bracket that is left open is reported, for texts of any length.       *)
(*                                                                         *)
(* Of each function that waits, the code says how many more close brackets *)
(* than open ones it will read (Owes).  A turn adds no more to what all of *)
(* them owe (Debt) than the brackets that the token it reads opens (Paid), *)
(* which is shown of every production (EveryTurnPays).  So once more       *)
(* brackets are open than the calls in progress will close, this stays so  *)
(* (LeavesOne, TurnGoesOn) until Run sees it at the end of the text.       *)
(* SkipToListElement keeps no such account, it counts from the depth at    *)
(* its call (SkipGoesOn).                                                  *)
(***************************************************************************)

Bracket(k) == IF k \in OpenBracket THEN 1 ELSE IF k \in CloseBracket THEN -1 ELSE 0

(* How many brackets are open in front of the lexer's token.               *)
Depth == Len(brackets) - Bracket(current_token_.kind)

(* The functions that read a close bracket whose open one has been read.   *)
ClosesBracket ==
  {"ArgumentEnd", "ArgumentList", "Arguments", "ArrayBinding", "ArrayBindingElement",
   "ArrayBindingSkipped", "ArrayInitializer", "CatchClause", "ForBinding", "ForCondition",
   "ForDocument", "ForExpression", "ForKeyword", "ForStep", "ObjectBinding",
   "ObjectBindingName", "ObjectBindingNext", "ObjectBindingSkipped", "ObjectInitializer",
   "Parameters", "Parenthesis", "Statements"}

(* How many more brackets an item closes than it opens.                    *)
Owes(item) ==
  IF item[1] \in ClosesBracket THEN 1
  ELSE IF item[1] \in {"ExpectPunctuator", "ConsumeTokenIf"} /\ item[2] \in CloseBracket THEN 1
  ELSE IF item[1] = "ExpectPunctuator" /\ item[2] \in OpenBracket THEN -1
  ELSE 0

Waits(item) == item[1] \notin {"Run", "SkipToListElement"}

(* The items close at most n brackets, and Run waits for all of them.      *)
Debt(items, n) ==
  /\ items # <<>> /\ items[Len(items)][1] = "Run"
  /\ \E debt \in [1 .. Len(items) -> Int] :
       /\ debt[1] = n /\ debt[Len(items)] = 0
       /\ \A i \in 1 .. Len(items) - 1 :
            Waits(items[i]) /\ debt[i] >= debt[i + 1] + Owes(items[i])

Adds(items, k) ==
  \A rest \in Seq(Item), r \in Int : Debt(rest, r) => Debt(items \o rest, r + k)

LEMMA OwesNumber ==
  ASSUME NEW item
  PROVE  Owes(item) \in Int
BY DEF Owes, Bracket

LEMMA DebtOfRest ==
  ASSUME NEW S, NEW calls \in Seq(S), NEW n \in Int, Debt(calls, n), Waits(calls[1])
  PROVE  \E r \in Int : Debt(Tail(calls), r) /\ n >= r + Owes(calls[1])
<1>1. /\ calls # <<>> /\ calls[Len(calls)][1] = "Run"
      /\ Len(calls) \in Nat /\ Len(calls) >= 1
  BY DEF Debt
<1>2. PICK debt \in [1 .. Len(calls) -> Int] :
        /\ debt[1] = n /\ debt[Len(calls)] = 0
        /\ \A i \in 1 .. Len(calls) - 1 :
             Waits(calls[i]) /\ debt[i] >= debt[i + 1] + Owes(calls[i])
  BY DEF Debt
<1>3. Len(calls) # 1
  BY <1>1 DEF Waits
<1>4. PICK rest : rest = Tail(calls)
  OBVIOUS
<1>5. PICK m : m = Len(rest)
  OBVIOUS
<1>6. /\ rest \in Seq(S) /\ m = Len(calls) - 1 /\ m \in Nat /\ m >= 1
      /\ \A i \in 1 .. m : rest[i] = calls[i + 1]
  <2>1. calls # <<>> /\ Len(calls) \in Nat /\ Len(calls) >= 1 /\ Len(calls) # 1
    BY <1>1, <1>3
  <2>2. /\ rest \in Seq(S) /\ Len(rest) = Len(calls) - 1
        /\ \A i \in 1 .. Len(rest) : rest[i] = calls[i + 1]
    BY <1>4, <2>1, HeadTailProperties
  <2> QED BY <1>5, <2>1, <2>2
<1>7. PICK owed : owed = [i \in 1 .. m |-> debt[i + 1]]
  OBVIOUS
<1>8. /\ owed \in [1 .. m -> Int] /\ owed[1] = debt[2] /\ owed[m] = 0
      /\ \A i \in 1 .. m - 1 : owed[i] = debt[i + 1] /\ owed[i + 1] = debt[(i + 1) + 1]
  <2>1. \A i \in 1 .. m : i + 1 \in 1 .. Len(calls)
    BY <1>1, <1>6
  <2>2. \A i \in 1 .. m : debt[i + 1] \in Int /\ owed[i] = debt[i + 1]
    BY <1>2, <1>7, <2>1
  <2>3. owed \in [1 .. m -> Int]
    BY <1>7, <2>2
  <2>4. 1 \in 1 .. m /\ m \in 1 .. m /\ m + 1 = Len(calls) /\ 1 + 1 = 2
    BY <1>1, <1>6
  <2>5. owed[1] = debt[2] /\ owed[m] = 0
    BY <1>2, <2>2, <2>4
  <2>6. \A i \in 1 .. m - 1 : i \in 1 .. m /\ i + 1 \in 1 .. m
    BY <1>6
  <2> QED BY <2>2, <2>3, <2>5, <2>6
<1>9. ASSUME NEW i \in 1 .. m - 1
      PROVE  Waits(rest[i]) /\ owed[i] >= owed[i + 1] + Owes(rest[i])
  <2>1. i \in 1 .. m /\ i + 1 \in 1 .. Len(calls) - 1
    BY <1>1, <1>6
  <2>2. rest[i] = calls[i + 1]
    BY <1>6, <2>1
  <2> QED BY <1>2, <1>8, <2>1, <2>2
<1>10. rest # <<>> /\ rest[Len(rest)][1] = "Run"
  <2>1. m \in 1 .. m /\ m + 1 = Len(calls)
    BY <1>1, <1>6
  <2>2. rest[m] = calls[Len(calls)]
    BY <1>6, <2>1
  <2>3. Len(rest) # 0
    BY <1>5, <1>6
  <2>4. rest # <<>>
    BY <2>3
  <2> QED BY <1>1, <1>5, <2>2, <2>4
<1>11. Debt(rest, debt[2])
  BY <1>5, <1>8, <1>9, <1>10 DEF Debt
<1>12. debt[2] \in Int /\ n >= debt[2] + Owes(calls[1])
  <2>1. 1 \in 1 .. Len(calls) - 1 /\ 2 \in 1 .. Len(calls) /\ 1 + 1 = 2
    BY <1>6
  <2> QED BY <1>2, <2>1
<1> QED BY <1>4, <1>11, <1>12

LEMMA DebtOfCall ==
  ASSUME NEW S, NEW rest \in Seq(S), NEW item \in S, NEW r \in Int, Debt(rest, r),
         Waits(item), NEW n \in Int, n >= r + Owes(item)
  PROVE  Debt(<<item>> \o rest, n)
<1>1. PICK m : m = Len(rest)
  OBVIOUS
<1>2. PICK calls : calls = <<item>> \o rest
  OBVIOUS
<1>3. /\ rest # <<>> /\ rest[m][1] = "Run" /\ m \in Nat /\ m >= 1
  BY <1>1 DEF Debt
<1>4. /\ calls \in Seq(S) /\ Len(calls) = m + 1 /\ calls[1] = item
      /\ \A i \in 1 .. m : calls[i + 1] = rest[i]
  <2>1. <<item>> \in Seq(S) /\ Len(<<item>>) = 1 /\ <<item>>[1] = item
    OBVIOUS
  <2>2. \A i \in 1 .. m : i + 1 = 1 + i
    BY <1>3
  <2> QED BY <1>1, <1>2, <1>3, <2>1, <2>2
<1>5. PICK owed \in [1 .. m -> Int] :
        /\ owed[1] = r /\ owed[m] = 0
        /\ \A i \in 1 .. m - 1 :
             Waits(rest[i]) /\ owed[i] >= owed[i + 1] + Owes(rest[i])
  BY <1>1 DEF Debt
<1>6. PICK debt : debt = [i \in 1 .. m + 1 |-> IF i = 1 THEN n ELSE owed[i - 1]]
  OBVIOUS
<1>7. debt[1] = n /\ \A i \in 1 .. m : debt[i + 1] = owed[i]
  <2>1. 1 \in 1 .. m + 1
    BY <1>3
  <2>2. \A i \in 1 .. m : i + 1 \in 1 .. m + 1 /\ i + 1 # 1 /\ (i + 1) - 1 = i
    BY <1>3
  <2> QED BY <1>6, <2>1, <2>2
<1>8. debt \in [1 .. m + 1 -> Int]
  <2>1. ASSUME NEW i \in 1 .. m + 1
        PROVE  (IF i = 1 THEN n ELSE owed[i - 1]) \in Int
    <3>1. i # 1 => i - 1 \in 1 .. m
      BY <1>3
    <3> QED BY <1>5, <3>1
  <2> QED BY <1>6, <2>1
<1>9. ASSUME NEW i \in 1 .. (m + 1) - 1
      PROVE  Waits(calls[i]) /\ debt[i] >= debt[i + 1] + Owes(calls[i])
  <2>1. CASE i = 1
    <3>1. debt[i] = n /\ debt[i + 1] = r /\ calls[i] = item
      <4>1. 1 \in 1 .. m
        BY <1>3
      <4> QED BY <1>4, <1>5, <1>7, <2>1, <4>1
    <3> QED BY <3>1
  <2>2. CASE i # 1
    <3>1. PICK j : j = i - 1
      OBVIOUS
    <3>2. j \in 1 .. m /\ j \in 1 .. m - 1 /\ j + 1 \in 1 .. m /\ i = j + 1
      BY <1>3, <2>2, <3>1
    <3>3. calls[i] = rest[j] /\ debt[i] = owed[j] /\ debt[i + 1] = owed[j + 1]
      BY <1>4, <1>7, <3>2
    <3> QED BY <1>5, <3>2, <3>3
  <2> QED BY <2>1, <2>2
<1>10. calls # <<>> /\ calls[Len(calls)][1] = "Run" /\ debt[m + 1] = 0
  <2>1. m \in 1 .. m
    BY <1>3
  <2> QED BY <1>3, <1>4, <1>5, <1>7, <2>1
<1> QED BY <1>2, <1>4, <1>7, <1>8, <1>9, <1>10 DEF Debt

LEMMA AddsItem ==
  ASSUME NEW S, NEW rest \in Seq(S), NEW item \in S, Waits(item),
         NEW r \in Int, Debt(rest, r)
  PROVE  Debt(<<item>> \o rest, r + Owes(item)) /\ r + Owes(item) \in Int
BY OwesNumber, DebtOfCall

LEMMA JoinedIs ==
  ASSUME NEW S, NEW s \in Seq(S), NEW t \in Seq(S), NEW all \in Seq(S),
         Len(all) = Len(s) + Len(t),
         \A i \in 1 .. Len(all) : all[i] = IF i <= Len(s) THEN s[i] ELSE t[i - Len(s)]
  PROVE  s \o t = all
<1>1. PICK joined : joined = s \o t
  OBVIOUS
<1>2. /\ joined \in Seq(S) /\ Len(joined) = Len(s) + Len(t)
      /\ \A i \in 1 .. Len(s) + Len(t) : joined[i] = IF i <= Len(s) THEN s[i] ELSE t[i - Len(s)]
  BY <1>1, ConcatProperties
<1>3. \A i \in 1 .. Len(joined) : joined[i] = all[i]
  BY <1>2
<1> QED BY <1>1, <1>2, <1>3, SeqEqual

LEMMA JoinedTwo ==
  ASSUME NEW a, NEW b
  PROVE  <<a>> \o <<b>> = <<a, b>>
<1>1. PICK S : a \in S /\ b \in S
  <2>1. a \in {a, b} /\ b \in {a, b}
    OBVIOUS
  <2> QED BY <2>1
<1>2. <<a>> \o <<b>> = <<a, b>>
  <2>1. PICK s, t, all : s = <<a>> /\ t = <<b>> /\ all = <<a, b>>
    OBVIOUS
  <2>2. s \in Seq(S) /\ t \in Seq(S) /\ all \in Seq(S)
    BY <1>1, <2>1
  <2>3. Len(s) = 1 /\ Len(t) = 1 /\ Len(all) = 2
    BY <2>1
  <2>4. \A i \in 1 .. 2 : all[i] = IF i <= 1 THEN s[i] ELSE t[i - 1]
    BY <2>1
  <2>5. \A i \in 1 .. Len(all) : all[i] = IF i <= Len(s) THEN s[i] ELSE t[i - Len(s)]
    BY <2>3, <2>4
  <2>6. Len(all) = Len(s) + Len(t)
    BY <2>3
  <2>7. s \o t = all
    BY <2>2, <2>5, <2>6, JoinedIs
  <2> QED BY <2>1, <2>7
<1> QED BY <1>2

LEMMA JoinedThree ==
  ASSUME NEW a, NEW b, NEW c
  PROVE  /\ <<a>> \o <<b, c>> = <<a, b, c>>
         /\ <<a, b>> \o <<c>> = <<a, b, c>>
<1>1. PICK S : a \in S /\ b \in S /\ c \in S
  <2>1. a \in {a, b, c} /\ b \in {a, b, c} /\ c \in {a, b, c}
    OBVIOUS
  <2> QED BY <2>1
<1>2. <<a>> \o <<b, c>> = <<a, b, c>>
  <2>1. PICK s, t, all : s = <<a>> /\ t = <<b, c>> /\ all = <<a, b, c>>
    OBVIOUS
  <2>2. s \in Seq(S) /\ t \in Seq(S) /\ all \in Seq(S)
    BY <1>1, <2>1
  <2>3. Len(s) = 1 /\ Len(t) = 2 /\ Len(all) = 3
    BY <2>1
  <2>4. \A i \in 1 .. 3 : all[i] = IF i <= 1 THEN s[i] ELSE t[i - 1]
    BY <2>1
  <2>5. \A i \in 1 .. Len(all) : all[i] = IF i <= Len(s) THEN s[i] ELSE t[i - Len(s)]
    BY <2>3, <2>4
  <2>6. Len(all) = Len(s) + Len(t)
    BY <2>3
  <2>7. s \o t = all
    BY <2>2, <2>5, <2>6, JoinedIs
  <2> QED BY <2>1, <2>7
<1>3. <<a, b>> \o <<c>> = <<a, b, c>>
  <2>1. PICK s, t, all : s = <<a, b>> /\ t = <<c>> /\ all = <<a, b, c>>
    OBVIOUS
  <2>2. s \in Seq(S) /\ t \in Seq(S) /\ all \in Seq(S)
    BY <1>1, <2>1
  <2>3. Len(s) = 2 /\ Len(t) = 1 /\ Len(all) = 3
    BY <2>1
  <2>4. \A i \in 1 .. 3 : all[i] = IF i <= 2 THEN s[i] ELSE t[i - 2]
    BY <2>1
  <2>5. \A i \in 1 .. Len(all) : all[i] = IF i <= Len(s) THEN s[i] ELSE t[i - Len(s)]
    BY <2>3, <2>4
  <2>6. Len(all) = Len(s) + Len(t)
    BY <2>3
  <2>7. s \o t = all
    BY <2>2, <2>5, <2>6, JoinedIs
  <2> QED BY <2>1, <2>7
<1> QED BY <1>2, <1>3

LEMMA JoinedFour ==
  ASSUME NEW a, NEW b, NEW c, NEW d
  PROVE  /\ <<a>> \o <<b, c, d>> = <<a, b, c, d>>
         /\ <<a, b>> \o <<c, d>> = <<a, b, c, d>>
         /\ <<a, b, c>> \o <<d>> = <<a, b, c, d>>
<1>1. PICK S : a \in S /\ b \in S /\ c \in S /\ d \in S
  <2>1. a \in {a, b, c, d} /\ b \in {a, b, c, d} /\ c \in {a, b, c, d} /\ d \in {a, b, c, d}
    OBVIOUS
  <2> QED BY <2>1
<1>2. <<a>> \o <<b, c, d>> = <<a, b, c, d>>
  <2>1. PICK s, t, all : s = <<a>> /\ t = <<b, c, d>> /\ all = <<a, b, c, d>>
    OBVIOUS
  <2>2. s \in Seq(S) /\ t \in Seq(S) /\ all \in Seq(S)
    BY <1>1, <2>1
  <2>3. Len(s) = 1 /\ Len(t) = 3 /\ Len(all) = 4
    BY <2>1
  <2>4. \A i \in 1 .. 4 : all[i] = IF i <= 1 THEN s[i] ELSE t[i - 1]
    BY <2>1
  <2>5. \A i \in 1 .. Len(all) : all[i] = IF i <= Len(s) THEN s[i] ELSE t[i - Len(s)]
    BY <2>3, <2>4
  <2>6. Len(all) = Len(s) + Len(t)
    BY <2>3
  <2>7. s \o t = all
    BY <2>2, <2>5, <2>6, JoinedIs
  <2> QED BY <2>1, <2>7
<1>3. <<a, b>> \o <<c, d>> = <<a, b, c, d>>
  <2>1. PICK s, t, all : s = <<a, b>> /\ t = <<c, d>> /\ all = <<a, b, c, d>>
    OBVIOUS
  <2>2. s \in Seq(S) /\ t \in Seq(S) /\ all \in Seq(S)
    BY <1>1, <2>1
  <2>3. Len(s) = 2 /\ Len(t) = 2 /\ Len(all) = 4
    BY <2>1
  <2>4. \A i \in 1 .. 4 : all[i] = IF i <= 2 THEN s[i] ELSE t[i - 2]
    BY <2>1
  <2>5. \A i \in 1 .. Len(all) : all[i] = IF i <= Len(s) THEN s[i] ELSE t[i - Len(s)]
    BY <2>3, <2>4
  <2>6. Len(all) = Len(s) + Len(t)
    BY <2>3
  <2>7. s \o t = all
    BY <2>2, <2>5, <2>6, JoinedIs
  <2> QED BY <2>1, <2>7
<1>4. <<a, b, c>> \o <<d>> = <<a, b, c, d>>
  <2>1. PICK s, t, all : s = <<a, b, c>> /\ t = <<d>> /\ all = <<a, b, c, d>>
    OBVIOUS
  <2>2. s \in Seq(S) /\ t \in Seq(S) /\ all \in Seq(S)
    BY <1>1, <2>1
  <2>3. Len(s) = 3 /\ Len(t) = 1 /\ Len(all) = 4
    BY <2>1
  <2>4. \A i \in 1 .. 4 : all[i] = IF i <= 3 THEN s[i] ELSE t[i - 3]
    BY <2>1
  <2>5. \A i \in 1 .. Len(all) : all[i] = IF i <= Len(s) THEN s[i] ELSE t[i - Len(s)]
    BY <2>3, <2>4
  <2>6. Len(all) = Len(s) + Len(t)
    BY <2>3
  <2>7. s \o t = all
    BY <2>2, <2>5, <2>6, JoinedIs
  <2> QED BY <2>1, <2>7
<1> QED BY <1>2, <1>3, <1>4

LEMMA AddsItems ==
  ASSUME NEW a, NEW b, NEW c, NEW d, Waits(a), Waits(b), Waits(c), Waits(d)
  PROVE  /\ Adds(<<>>, 0)
         /\ Adds(<<a>>, Owes(a))
         /\ Adds(<<a, b>>, Owes(b) + Owes(a))
         /\ Adds(<<a, b, c>>, Owes(c) + Owes(b) + Owes(a))
         /\ Adds(<<a, b, c, d>>, Owes(d) + Owes(c) + Owes(b) + Owes(a))
<1>1. PICK S : S = Item \cup {a, b, c, d}
  OBVIOUS
<1>2. /\ a \in S /\ b \in S /\ c \in S /\ d \in S
      /\ \A rest \in Seq(Item) : rest \in Seq(S)
  <2>1. Item \subseteq S
    BY <1>1
  <2> QED BY <1>1, <2>1, SeqMonotonic
<1>3. /\ Owes(a) \in Int /\ Owes(b) \in Int /\ Owes(c) \in Int /\ Owes(d) \in Int
  BY OwesNumber
<1>4. ASSUME NEW more \in Seq(S), NEW k \in Int, Adds(more, k), NEW item \in S, Waits(item)
      PROVE  Adds(<<item>> \o more, k + Owes(item))
  <2>1. SUFFICES ASSUME NEW rest \in Seq(Item), NEW r \in Int, Debt(rest, r)
                 PROVE  Debt((<<item>> \o more) \o rest, r + (k + Owes(item)))
    BY DEF Adds
  <2>2. PICK calls : calls = more \o rest
    OBVIOUS
  <2>3. rest \in Seq(S) /\ calls \in Seq(S) /\ <<item>> \in Seq(S)
    BY <1>2, <2>2, ConcatProperties
  <2>4. (<<item>> \o more) \o rest = <<item>> \o calls
    BY <2>2, <2>3, ConcatAssociative
  <2>5. Debt(calls, r + k) /\ r + k \in Int
    BY <1>4, <2>1, <2>2 DEF Adds
  <2>6. Debt(<<item>> \o calls, (r + k) + Owes(item))
    BY <1>4, <2>3, <2>5, AddsItem
  <2>7. (r + k) + Owes(item) = r + (k + Owes(item))
    BY <2>1, OwesNumber
  <2> QED BY <2>4, <2>6, <2>7
<1>5. /\ <<>> \in Seq(S) /\ <<d>> \in Seq(S) /\ <<c, d>> \in Seq(S)
      /\ <<b, c, d>> \in Seq(S)
      /\ <<a>> \in Seq(S) /\ <<b>> \in Seq(S) /\ <<c>> \in Seq(S)
      /\ <<b, c>> \in Seq(S)
  BY <1>2
<1>6. Adds(<<>>, 0)
  <2>1. ASSUME NEW rest \in Seq(Item), NEW r \in Int, Debt(rest, r)
        PROVE  Debt(<<>> \o rest, r + 0)
    <3>1. <<>> \o rest = rest /\ r + 0 = r
      BY ConcatEmptySeq
    <3> QED BY <2>1, <3>1
  <2> QED BY <2>1 DEF Adds
<1>7. \A item \in {a, b, c, d} : Adds(<<item>>, Owes(item))
  <2>1. ASSUME NEW item \in {a, b, c, d}
        PROVE  Adds(<<item>>, Owes(item))
    <3>1. item \in S /\ Waits(item)
      BY <1>1, <2>1
    <3> QED BY <1>2, <3>1, AddsItem DEF Adds
  <2> QED BY <2>1
<1>8. Adds(<<a, b>>, Owes(b) + Owes(a))
  <2>1. Adds(<<a>> \o <<b>>, Owes(b) + Owes(a))
    BY <1>2, <1>3, <1>4, <1>5, <1>7
  <2>2. <<a>> \o <<b>> = <<a, b>>
    BY JoinedTwo
  <2> QED BY <2>1, <2>2, Zenon
<1>9. Adds(<<a, b, c>>, Owes(c) + Owes(b) + Owes(a))
  <2>1. Adds(<<b>> \o <<c>>, Owes(c) + Owes(b)) /\ Owes(c) + Owes(b) \in Int
    <3>1. Adds(<<c>>, Owes(c)) /\ <<c>> \in Seq(S)
      BY <1>5, <1>7
    <3>2. Adds(<<b>> \o <<c>>, Owes(c) + Owes(b))
      BY <1>2, <1>3, <1>4, <3>1
    <3> QED BY <1>3, <3>2
  <2>2. <<b>> \o <<c>> = <<b, c>> /\ <<a>> \o <<b, c>> = <<a, b, c>>
    BY JoinedTwo, JoinedThree
  <2>3. Adds(<<b, c>>, Owes(c) + Owes(b))
    BY <2>1, <2>2, Zenon
  <2>4. Adds(<<a>> \o <<b, c>>, Owes(c) + Owes(b) + Owes(a))
    BY <1>2, <1>4, <1>5, <2>1, <2>3
  <2> QED BY <2>2, <2>4, Zenon
<1>10. Adds(<<a, b, c, d>>, Owes(d) + Owes(c) + Owes(b) + Owes(a))
  <2>1. Adds(<<c>> \o <<d>>, Owes(d) + Owes(c)) /\ Owes(d) + Owes(c) \in Int
    <3>1. Adds(<<d>>, Owes(d)) /\ <<d>> \in Seq(S)
      BY <1>5, <1>7
    <3>2. Adds(<<c>> \o <<d>>, Owes(d) + Owes(c))
      BY <1>2, <1>3, <1>4, <3>1
    <3> QED BY <1>3, <3>2
  <2>2. /\ <<c>> \o <<d>> = <<c, d>> /\ <<b>> \o <<c, d>> = <<b, c, d>>
        /\ <<a>> \o <<b, c, d>> = <<a, b, c, d>>
    <3>1. <<c>> \o <<d>> = <<c, d>>
      BY JoinedTwo
    <3>2. <<b>> \o <<c, d>> = <<b, c, d>>
      BY JoinedThree
    <3>3. <<a>> \o <<b, c, d>> = <<a, b, c, d>>
      BY JoinedFour
    <3> QED BY <3>1, <3>2, <3>3
  <2>3. Adds(<<c, d>>, Owes(d) + Owes(c))
    BY <2>1, <2>2, Zenon
  <2>4. Adds(<<b>> \o <<c, d>>, Owes(d) + Owes(c) + Owes(b))
    BY <1>2, <1>4, <1>5, <2>1, <2>3
  <2>5. Adds(<<b, c, d>>, Owes(d) + Owes(c) + Owes(b)) /\ Owes(d) + Owes(c) + Owes(b) \in Int
    <3>1. Owes(d) + Owes(c) + Owes(b) \in Int
      BY <1>3
    <3> QED BY <2>2, <2>4, <3>1, Zenon
  <2>6. Adds(<<a>> \o <<b, c, d>>, Owes(d) + Owes(c) + Owes(b) + Owes(a))
    BY <1>2, <1>4, <1>5, <2>5
  <2> QED BY <2>2, <2>6, Zenon
<1> QED BY <1>6, <1>7, <1>8, <1>9, <1>10

-----------------------------------------------------------------------------
(* Reading a token moves the depth by what it opens or closes. *)

LEMMA FedDepth ==
  ASSUME NEW stack \in Seq(OpenBracket), NEW k, ~Mismatch(k, stack)
  PROVE  Len(Feed(k, stack)) = Len(stack) + Bracket(k)
<1>1. CASE k \in OpenBracket
  <2>1. <<k>> \in Seq(OpenBracket) /\ Len(<<k>>) = 1
    BY <1>1
  <2>2. Len(<<k>> \o stack) = 1 + Len(stack)
    BY <2>1, ConcatProperties
  <2> QED BY <1>1, <2>2 DEF Feed, Bracket
<1>2. CASE k \notin OpenBracket /\ k \in CloseBracket
  <2>1. stack # <<>>
    BY <1>2 DEF Mismatch
  <2>2. Len(Tail(stack)) = Len(stack) - 1
    BY <2>1, HeadTailProperties
  <2>3. Feed(k, stack) = Tail(stack) /\ Bracket(k) = -1
    BY <1>2 DEF Feed, Bracket
  <2> QED BY <2>2, <2>3
<1>3. CASE k \notin OpenBracket /\ k \notin CloseBracket
  <2>1. Feed(k, stack) = stack /\ Bracket(k) = 0
    BY <1>3 DEF Feed, Bracket
  <2> QED BY <2>1
<1> QED BY <1>1, <1>2, <1>3

LEMMA NoBracket ==
  \A k \in NameKind \cup LiteralKind \cup DocumentKind : Bracket(k) = 0
BY DEF Bracket, NameKind, Keyword, LiteralKind, DocumentKind, OpenBracket, CloseBracket

LEMMA ReadMovesDepth ==
  ASSUME StreamTypeOK, PushedBackIsRead, NEW error, ConsumeToken(error)
  PROVE  reported' \/ Depth' = Depth + Bracket(Peek)
<1>1. CASE token_stack_ # <<>>
  <2>1. PICK t \in NameToken : token_stack_ = <<t>>
    BY <1>1 DEF PushedBackIsRead
  <2>2. Peek = t.kind /\ t.kind \in NameKind
    BY <2>1 DEF Peek, PeekToken, NameToken
  <2>3. Bracket(Peek) = 0
    BY <2>2, NoBracket
  <2>4. brackets' = brackets /\ current_token_' = current_token_
    BY <1>1 DEF ConsumeToken, PopToken
  <2>5. Depth' = Depth /\ Depth \in Int
    BY <2>4 DEF Depth, Bracket, StreamTypeOK
  <2> QED BY <2>3, <2>5
<1>2. CASE token_stack_ = <<>> /\ ~reported'
  <2>1. PICK t : /\ current_token_' = t
                 /\ brackets' = Feed(t.kind, brackets)
                 /\ reported' = (reported \/ error \/ Mismatch(t.kind, brackets))
    BY <1>2 DEF ConsumeToken, LookAhead
  <2>2. brackets \in Seq(OpenBracket) /\ Len(brackets) \in Nat
    BY DEF StreamTypeOK
  <2>3. Len(brackets') = Len(brackets) + Bracket(t.kind)
    BY <1>2, <2>1, <2>2, FedDepth
  <2>4. Bracket(t.kind) \in Int /\ Bracket(current_token_.kind) \in Int
    BY DEF Bracket
  <2>5. Depth' = Len(brackets)
    BY <2>1, <2>2, <2>3, <2>4 DEF Depth
  <2>6. Peek = current_token_.kind
    BY <1>2 DEF Peek, PeekToken
  <2> QED BY <2>2, <2>4, <2>5, <2>6 DEF Depth
<1> QED BY <1>1, <1>2

LEMMA KeepKeepsDepth ==
  ASSUME NEW error, KeepToken(error)
  PROVE  Depth' = Depth
BY DEF KeepToken, stream, Depth

-----------------------------------------------------------------------------
(* A step of a function pays: what it calls closes no more brackets than it  *)
(* owed itself and reads an open one for, unless an error is reported or the *)
(* function goes astray.                                                     *)
Paid ==
  /\ Waits(Head(todo)) /\ crashed' = crashed
  /\ \E items : \E k \in Int :
       /\ todo' = items \o Tail(todo) /\ Adds(items, k)
       /\ \/ reported' \/ GoesAstray
          \/ Depth' + Owes(Head(todo)) >= Depth + k

(* Items that close nothing that was opened before them, and those that      *)
(* close one bracket.                                                        *)
ClosesNone(item) == Waits(item) /\ Owes(item) = 0
ClosesOne(item) == Waits(item) /\ Owes(item) = 1

Settled ==
  StreamTypeOK /\ PushedBackIsRead /\ todo \in Seq(Item) /\ todo # <<>>

LEMMA Numbers ==
  ASSUME Settled
  PROVE  /\ Owes(Head(todo)) \in Int /\ Bracket(Peek) \in Int /\ Depth \in Int
         /\ \A error : ConsumeToken(error) => reported' \/ Depth' = Depth + Bracket(Peek)
         /\ \A error : KeepToken(error) => Depth' = Depth
<1>1. Len(brackets) \in Nat
  BY DEF Settled, StreamTypeOK
<1>2. Depth \in Int /\ Bracket(Peek) \in Int
  BY <1>1 DEF Depth, Bracket
<1> QED BY <1>2, OwesNumber, ReadMovesDepth, KeepKeepsDepth DEF Settled

LEMMA Pays ==
  ASSUME Settled, Waits(Head(todo)), NEW items, NEW k \in Int, Adds(items, k), Continue(items)
  PROVE  /\ \A error : ConsumeToken(error) /\ k <= Owes(Head(todo)) + Bracket(Peek) => Paid
         /\ \A error : KeepToken(error) /\ k <= Owes(Head(todo)) => Paid
         /\ ConsumeToken(TRUE) \/ KeepToken(TRUE) => Paid
<1>1. todo' = items \o Tail(todo) /\ crashed' = crashed
  BY DEF Continue
<1>2. reported' => Paid
  BY <1>1 DEF Paid
<1>3. ASSUME NEW error, ConsumeToken(error), k <= Owes(Head(todo)) + Bracket(Peek), ~reported'
      PROVE  Paid
  <2>1. Depth' = Depth + Bracket(Peek)
    BY <1>3, Numbers
  <2>2. Depth' + Owes(Head(todo)) >= Depth + k
    BY <1>3, <2>1, Numbers
  <2> QED BY <1>1, <2>2 DEF Paid
<1>4. ASSUME NEW error, KeepToken(error), k <= Owes(Head(todo))
      PROVE  Paid
  <2>1. Depth' + Owes(Head(todo)) >= Depth + k
    BY <1>4, Numbers
  <2> QED BY <1>1, <2>1 DEF Paid
<1>5. ConsumeToken(TRUE) \/ KeepToken(TRUE) => reported'
  BY DEF ConsumeToken, KeepToken, PopToken, LookAhead
<1> QED BY <1>2, <1>3, <1>4, <1>5

LEMMA ReturnPays ==
  ASSUME Settled, Waits(Head(todo)), NEW result, Return(result)
  PROVE  /\ \A error : ConsumeToken(error) /\ 0 <= Owes(Head(todo)) + Bracket(Peek) => Paid
         /\ \A error : KeepToken(error) /\ 0 <= Owes(Head(todo)) => Paid
         /\ ConsumeToken(TRUE) \/ KeepToken(TRUE) => Paid
<1>1. todo' = <<>> \o Tail(todo) /\ crashed' = crashed
  <2>1. Tail(todo) \in Seq(Item)
    BY HeadTailProperties DEF Settled
  <2>2. <<>> \o Tail(todo) = Tail(todo)
    BY <2>1, ConcatEmptySeq
  <2> QED BY <2>2 DEF Return
<1>2. Adds(<<>>, 0)
  <2>1. Waits(<<"Statement">>)
    BY DEF Waits
  <2> QED BY <2>1, AddsItems
<1>3. reported' => Paid
  BY <1>1, <1>2 DEF Paid
<1>4. ASSUME NEW error, ConsumeToken(error), 0 <= Owes(Head(todo)) + Bracket(Peek), ~reported'
      PROVE  Paid
  <2>1. Depth' = Depth + Bracket(Peek)
    BY <1>4, Numbers
  <2>2. Depth' + Owes(Head(todo)) >= Depth + 0
    BY <1>4, <2>1, Numbers
  <2> QED BY <1>1, <1>2, <2>2 DEF Paid
<1>5. ASSUME NEW error, KeepToken(error), 0 <= Owes(Head(todo))
      PROVE  Paid
  <2>1. Depth' + Owes(Head(todo)) >= Depth + 0
    BY <1>5, Numbers
  <2> QED BY <1>1, <1>2, <2>1 DEF Paid
<1>6. ConsumeToken(TRUE) \/ KeepToken(TRUE) => reported'
  BY DEF ConsumeToken, KeepToken, PopToken, LookAhead
<1> QED BY <1>3, <1>4, <1>5, <1>6

LEMMA AddsNone ==
  /\ Adds(<<>>, 0)
  /\ \A a : ClosesNone(a) => Adds(<<a>>, 0)
  /\ \A a, b : ClosesNone(a) /\ ClosesNone(b) => Adds(<<a, b>>, 0)
  /\ \A a, b, c : ClosesNone(a) /\ ClosesNone(b) /\ ClosesNone(c) => Adds(<<a, b, c>>, 0)
  /\ \A a, b, c, d : ClosesNone(a) /\ ClosesNone(b) /\ ClosesNone(c) /\ ClosesNone(d) => Adds(<<a, b, c, d>>, 0)
<1>1. Waits(<<"Statement">>)
  BY DEF Waits
<1>2. Adds(<<>>, 0)
  BY <1>1, AddsItems
<1>3. ASSUME NEW a, ClosesNone(a)
      PROVE  Adds(<<a>>, 0)
  <2>1. Adds(<<a>>, Owes(a))
    BY <1>3, AddsItems DEF ClosesNone, ClosesOne
  <2>2. Owes(a) = 0
    BY <1>3 DEF ClosesNone, ClosesOne
  <2> QED BY <2>1, <2>2
<1>4. ASSUME NEW a, NEW b, ClosesNone(a), ClosesNone(b)
      PROVE  Adds(<<a, b>>, 0)
  <2>1. Adds(<<a, b>>, Owes(b) + Owes(a))
    BY <1>4, AddsItems DEF ClosesNone, ClosesOne
  <2>2. Owes(b) + Owes(a) = 0
    BY <1>4 DEF ClosesNone, ClosesOne
  <2> QED BY <2>1, <2>2
<1>5. ASSUME NEW a, NEW b, NEW c, ClosesNone(a), ClosesNone(b), ClosesNone(c)
      PROVE  Adds(<<a, b, c>>, 0)
  <2>1. Adds(<<a, b, c>>, Owes(c) + Owes(b) + Owes(a))
    BY <1>5, AddsItems DEF ClosesNone, ClosesOne
  <2>2. Owes(c) + Owes(b) + Owes(a) = 0
    BY <1>5 DEF ClosesNone, ClosesOne
  <2> QED BY <2>1, <2>2
<1>6. ASSUME NEW a, NEW b, NEW c, NEW d, ClosesNone(a), ClosesNone(b), ClosesNone(c), ClosesNone(d)
      PROVE  Adds(<<a, b, c, d>>, 0)
  <2>1. Adds(<<a, b, c, d>>, Owes(d) + Owes(c) + Owes(b) + Owes(a))
    BY <1>6, AddsItems DEF ClosesNone, ClosesOne
  <2>2. Owes(d) + Owes(c) + Owes(b) + Owes(a) = 0
    BY <1>6 DEF ClosesNone, ClosesOne
  <2> QED BY <2>1, <2>2
<1> QED BY <1>2, <1>3, <1>4, <1>5, <1>6

LEMMA AddsOne ==
  /\ \A a : ClosesOne(a) => Adds(<<a>>, 1)
  /\ \A a, b : ClosesNone(a) /\ ClosesOne(b) => Adds(<<a, b>>, 1)
  /\ \A a, b : ClosesOne(a) /\ ClosesNone(b) => Adds(<<a, b>>, 1)
  /\ \A a, b, c : ClosesNone(a) /\ ClosesNone(b) /\ ClosesOne(c) => Adds(<<a, b, c>>, 1)
  /\ \A a, b, c : ClosesNone(a) /\ ClosesOne(b) /\ ClosesNone(c) => Adds(<<a, b, c>>, 1)
  /\ \A a, b, c : ClosesOne(a) /\ ClosesNone(b) /\ ClosesNone(c) => Adds(<<a, b, c>>, 1)
  /\ \A a, b, c, d : ClosesNone(a) /\ ClosesOne(b) /\ ClosesNone(c) /\ ClosesNone(d) => Adds(<<a, b, c, d>>, 1)
<1>1. ASSUME NEW a, ClosesOne(a)
      PROVE  Adds(<<a>>, 1)
  <2>1. Adds(<<a>>, Owes(a))
    BY <1>1, AddsItems DEF ClosesNone, ClosesOne
  <2>2. Owes(a) = 1
    BY <1>1 DEF ClosesNone, ClosesOne
  <2> QED BY <2>1, <2>2
<1>2. ASSUME NEW a, NEW b, ClosesNone(a), ClosesOne(b)
      PROVE  Adds(<<a, b>>, 1)
  <2>1. Adds(<<a, b>>, Owes(b) + Owes(a))
    BY <1>2, AddsItems DEF ClosesNone, ClosesOne
  <2>2. Owes(b) + Owes(a) = 1
    BY <1>2 DEF ClosesNone, ClosesOne
  <2> QED BY <2>1, <2>2
<1>3. ASSUME NEW a, NEW b, ClosesOne(a), ClosesNone(b)
      PROVE  Adds(<<a, b>>, 1)
  <2>1. Adds(<<a, b>>, Owes(b) + Owes(a))
    BY <1>3, AddsItems DEF ClosesNone, ClosesOne
  <2>2. Owes(b) + Owes(a) = 1
    BY <1>3 DEF ClosesNone, ClosesOne
  <2> QED BY <2>1, <2>2
<1>4. ASSUME NEW a, NEW b, NEW c, ClosesNone(a), ClosesNone(b), ClosesOne(c)
      PROVE  Adds(<<a, b, c>>, 1)
  <2>1. Adds(<<a, b, c>>, Owes(c) + Owes(b) + Owes(a))
    BY <1>4, AddsItems DEF ClosesNone, ClosesOne
  <2>2. Owes(c) + Owes(b) + Owes(a) = 1
    BY <1>4 DEF ClosesNone, ClosesOne
  <2> QED BY <2>1, <2>2
<1>5. ASSUME NEW a, NEW b, NEW c, ClosesNone(a), ClosesOne(b), ClosesNone(c)
      PROVE  Adds(<<a, b, c>>, 1)
  <2>1. Adds(<<a, b, c>>, Owes(c) + Owes(b) + Owes(a))
    BY <1>5, AddsItems DEF ClosesNone, ClosesOne
  <2>2. Owes(c) + Owes(b) + Owes(a) = 1
    BY <1>5 DEF ClosesNone, ClosesOne
  <2> QED BY <2>1, <2>2
<1>6. ASSUME NEW a, NEW b, NEW c, ClosesOne(a), ClosesNone(b), ClosesNone(c)
      PROVE  Adds(<<a, b, c>>, 1)
  <2>1. Adds(<<a, b, c>>, Owes(c) + Owes(b) + Owes(a))
    BY <1>6, AddsItems DEF ClosesNone, ClosesOne
  <2>2. Owes(c) + Owes(b) + Owes(a) = 1
    BY <1>6 DEF ClosesNone, ClosesOne
  <2> QED BY <2>1, <2>2
<1>7. ASSUME NEW a, NEW b, NEW c, NEW d, ClosesNone(a), ClosesOne(b), ClosesNone(c), ClosesNone(d)
      PROVE  Adds(<<a, b, c, d>>, 1)
  <2>1. Adds(<<a, b, c, d>>, Owes(d) + Owes(c) + Owes(b) + Owes(a))
    BY <1>7, AddsItems DEF ClosesNone, ClosesOne
  <2>2. Owes(d) + Owes(c) + Owes(b) + Owes(a) = 1
    BY <1>7 DEF ClosesNone, ClosesOne
  <2> QED BY <2>1, <2>2
<1> QED BY <1>1, <1>2, <1>3, <1>4, <1>5, <1>6, <1>7

LEMMA PaidItems ==
  ASSUME Settled, Waits(Head(todo)), NEW items, NEW k \in Int, Adds(items, k)
  PROVE  /\ Read(items) /\ k <= Owes(Head(todo)) + Bracket(Peek) => Paid
         /\ Call(items) /\ k <= Owes(Head(todo)) => Paid
         /\ ReadError(items) \/ CallError(items) => Paid
         /\ \A error :
              /\ ConsumeToken(error) /\ Continue(items) /\ k <= Owes(Head(todo)) + Bracket(Peek) => Paid
              /\ KeepToken(error) /\ Continue(items) /\ k <= Owes(Head(todo)) => Paid
BY Pays DEF Read, Call, ReadError, CallError

(* Whether the running function may read the token on its own.              *)
MayRead == Peek \notin CloseBracket \/ Head(todo)[1] \in ClosesBracket
MayReadForOne ==
  Peek \in OpenBracket \/ (Peek \notin CloseBracket /\ Head(todo)[1] \in ClosesBracket)

LEMMA Accounts ==
  ASSUME Settled, Head(todo)[1] \notin {"ExpectPunctuator", "Run", "SkipToListElement"}
  PROVE  /\ 0 <= Owes(Head(todo))
         /\ MayRead => 0 <= Owes(Head(todo)) + Bracket(Peek)
         /\ MayReadForOne => 1 <= Owes(Head(todo)) + Bracket(Peek)
         /\ Head(todo)[1] \in ClosesBracket => 1 <= Owes(Head(todo))
<1>1. Owes(Head(todo)) \in {0, 1}
  BY DEF Owes
<1>2. Head(todo)[1] \in ClosesBracket => Owes(Head(todo)) = 1
  BY DEF Owes
<1>3. /\ Bracket(Peek) \in {-1, 0, 1}
      /\ Peek \notin CloseBracket => Bracket(Peek) \in {0, 1}
      /\ Peek \in OpenBracket => Bracket(Peek) = 1
  BY DEF Bracket
<1> QED BY <1>1, <1>2, <1>3 DEF MayRead, MayReadForOne

LEMMA PaidItemsNone ==
  ASSUME Settled, Head(todo)[1] \notin {"ExpectPunctuator", "Run", "SkipToListElement"}, NEW items, Adds(items, 0)
  PROVE  /\ Call(items) => Paid
         /\ Read(items) /\ MayRead => Paid
         /\ ReadError(items) \/ CallError(items) => Paid
         /\ \A error :
              /\ KeepToken(error) /\ Continue(items) => Paid
              /\ ConsumeToken(error) /\ Continue(items) /\ MayRead => Paid
BY Accounts, PaidItems DEF Waits

LEMMA PaidNone ==
  ASSUME Settled, Head(todo)[1] \notin {"ExpectPunctuator", "Run", "SkipToListElement"}
  PROVE  /\ /\ Call(<<>>) => Paid
            /\ Read(<<>>) /\ MayRead => Paid
            /\ ReadError(<<>>) \/ CallError(<<>>) => Paid
            /\ \A error :
                 /\ KeepToken(error) /\ Continue(<<>>) => Paid
                 /\ ConsumeToken(error) /\ Continue(<<>>) /\ MayRead => Paid
         /\ \A a : ClosesNone(a) =>
              /\ Call(<<a>>) => Paid
              /\ Read(<<a>>) /\ MayRead => Paid
              /\ ReadError(<<a>>) \/ CallError(<<a>>) => Paid
              /\ \A error :
                   /\ KeepToken(error) /\ Continue(<<a>>) => Paid
                   /\ ConsumeToken(error) /\ Continue(<<a>>) /\ MayRead => Paid
         /\ \A a, b : ClosesNone(a) /\ ClosesNone(b) =>
              /\ Call(<<a, b>>) => Paid
              /\ Read(<<a, b>>) /\ MayRead => Paid
              /\ ReadError(<<a, b>>) \/ CallError(<<a, b>>) => Paid
              /\ \A error :
                   /\ KeepToken(error) /\ Continue(<<a, b>>) => Paid
                   /\ ConsumeToken(error) /\ Continue(<<a, b>>) /\ MayRead => Paid
         /\ \A a, b, c : ClosesNone(a) /\ ClosesNone(b) /\ ClosesNone(c) =>
              /\ Call(<<a, b, c>>) => Paid
              /\ Read(<<a, b, c>>) /\ MayRead => Paid
              /\ ReadError(<<a, b, c>>) \/ CallError(<<a, b, c>>) => Paid
              /\ \A error :
                   /\ KeepToken(error) /\ Continue(<<a, b, c>>) => Paid
                   /\ ConsumeToken(error) /\ Continue(<<a, b, c>>) /\ MayRead => Paid
         /\ \A a, b, c, d : ClosesNone(a) /\ ClosesNone(b) /\ ClosesNone(c) /\ ClosesNone(d) =>
              /\ Call(<<a, b, c, d>>) => Paid
              /\ Read(<<a, b, c, d>>) /\ MayRead => Paid
              /\ ReadError(<<a, b, c, d>>) \/ CallError(<<a, b, c, d>>) => Paid
              /\ \A error :
                   /\ KeepToken(error) /\ Continue(<<a, b, c, d>>) => Paid
                   /\ ConsumeToken(error) /\ Continue(<<a, b, c, d>>) /\ MayRead => Paid
<1>1. /\ Call(<<>>) => Paid
      /\ Read(<<>>) /\ MayRead => Paid
      /\ ReadError(<<>>) \/ CallError(<<>>) => Paid
      /\ \A error :
           /\ KeepToken(error) /\ Continue(<<>>) => Paid
           /\ ConsumeToken(error) /\ Continue(<<>>) /\ MayRead => Paid
  BY AddsNone, PaidItemsNone
<1>2. ASSUME NEW a, ClosesNone(a)
      PROVE  /\ Call(<<a>>) => Paid
             /\ Read(<<a>>) /\ MayRead => Paid
             /\ ReadError(<<a>>) \/ CallError(<<a>>) => Paid
             /\ \A error :
                  /\ KeepToken(error) /\ Continue(<<a>>) => Paid
                  /\ ConsumeToken(error) /\ Continue(<<a>>) /\ MayRead => Paid
  <2>1. Adds(<<a>>, 0)
    BY <1>2, AddsNone
  <2> QED BY <2>1, PaidItemsNone
<1>3. ASSUME NEW a, NEW b, ClosesNone(a), ClosesNone(b)
      PROVE  /\ Call(<<a, b>>) => Paid
             /\ Read(<<a, b>>) /\ MayRead => Paid
             /\ ReadError(<<a, b>>) \/ CallError(<<a, b>>) => Paid
             /\ \A error :
                  /\ KeepToken(error) /\ Continue(<<a, b>>) => Paid
                  /\ ConsumeToken(error) /\ Continue(<<a, b>>) /\ MayRead => Paid
  <2>1. Adds(<<a, b>>, 0)
    BY <1>3, AddsNone
  <2> QED BY <2>1, PaidItemsNone
<1>4. ASSUME NEW a, NEW b, NEW c, ClosesNone(a), ClosesNone(b), ClosesNone(c)
      PROVE  /\ Call(<<a, b, c>>) => Paid
             /\ Read(<<a, b, c>>) /\ MayRead => Paid
             /\ ReadError(<<a, b, c>>) \/ CallError(<<a, b, c>>) => Paid
             /\ \A error :
                  /\ KeepToken(error) /\ Continue(<<a, b, c>>) => Paid
                  /\ ConsumeToken(error) /\ Continue(<<a, b, c>>) /\ MayRead => Paid
  <2>1. Adds(<<a, b, c>>, 0)
    BY <1>4, AddsNone
  <2> QED BY <2>1, PaidItemsNone
<1>5. ASSUME NEW a, NEW b, NEW c, NEW d, ClosesNone(a), ClosesNone(b), ClosesNone(c), ClosesNone(d)
      PROVE  /\ Call(<<a, b, c, d>>) => Paid
             /\ Read(<<a, b, c, d>>) /\ MayRead => Paid
             /\ ReadError(<<a, b, c, d>>) \/ CallError(<<a, b, c, d>>) => Paid
             /\ \A error :
                  /\ KeepToken(error) /\ Continue(<<a, b, c, d>>) => Paid
                  /\ ConsumeToken(error) /\ Continue(<<a, b, c, d>>) /\ MayRead => Paid
  <2>1. Adds(<<a, b, c, d>>, 0)
    BY <1>5, AddsNone
  <2> QED BY <2>1, PaidItemsNone
<1> QED BY <1>1, <1>2, <1>3, <1>4, <1>5

LEMMA PaidItemsOne ==
  ASSUME Settled, Head(todo)[1] \notin {"ExpectPunctuator", "Run", "SkipToListElement"}, NEW items, Adds(items, 1)
  PROVE  /\ Call(items) /\ Head(todo)[1] \in ClosesBracket => Paid
         /\ Read(items) /\ MayReadForOne => Paid
         /\ ReadError(items) \/ CallError(items) => Paid
         /\ \A error :
              /\ KeepToken(error) /\ Continue(items) /\ Head(todo)[1] \in ClosesBracket => Paid
              /\ ConsumeToken(error) /\ Continue(items) /\ MayReadForOne => Paid
BY Accounts, PaidItems DEF Waits

LEMMA PaidOne ==
  ASSUME Settled, Head(todo)[1] \notin {"ExpectPunctuator", "Run", "SkipToListElement"}
  PROVE  /\ \A a : ClosesOne(a) =>
              /\ Call(<<a>>) /\ Head(todo)[1] \in ClosesBracket => Paid
              /\ Read(<<a>>) /\ MayReadForOne => Paid
              /\ ReadError(<<a>>) \/ CallError(<<a>>) => Paid
              /\ \A error :
                   /\ KeepToken(error) /\ Continue(<<a>>) /\ Head(todo)[1] \in ClosesBracket => Paid
                   /\ ConsumeToken(error) /\ Continue(<<a>>) /\ MayReadForOne => Paid
         /\ \A a, b : ClosesNone(a) /\ ClosesOne(b) =>
              /\ Call(<<a, b>>) /\ Head(todo)[1] \in ClosesBracket => Paid
              /\ Read(<<a, b>>) /\ MayReadForOne => Paid
              /\ ReadError(<<a, b>>) \/ CallError(<<a, b>>) => Paid
              /\ \A error :
                   /\ KeepToken(error) /\ Continue(<<a, b>>) /\ Head(todo)[1] \in ClosesBracket => Paid
                   /\ ConsumeToken(error) /\ Continue(<<a, b>>) /\ MayReadForOne => Paid
         /\ \A a, b : ClosesOne(a) /\ ClosesNone(b) =>
              /\ Call(<<a, b>>) /\ Head(todo)[1] \in ClosesBracket => Paid
              /\ Read(<<a, b>>) /\ MayReadForOne => Paid
              /\ ReadError(<<a, b>>) \/ CallError(<<a, b>>) => Paid
              /\ \A error :
                   /\ KeepToken(error) /\ Continue(<<a, b>>) /\ Head(todo)[1] \in ClosesBracket => Paid
                   /\ ConsumeToken(error) /\ Continue(<<a, b>>) /\ MayReadForOne => Paid
         /\ \A a, b, c : ClosesNone(a) /\ ClosesNone(b) /\ ClosesOne(c) =>
              /\ Call(<<a, b, c>>) /\ Head(todo)[1] \in ClosesBracket => Paid
              /\ Read(<<a, b, c>>) /\ MayReadForOne => Paid
              /\ ReadError(<<a, b, c>>) \/ CallError(<<a, b, c>>) => Paid
              /\ \A error :
                   /\ KeepToken(error) /\ Continue(<<a, b, c>>) /\ Head(todo)[1] \in ClosesBracket => Paid
                   /\ ConsumeToken(error) /\ Continue(<<a, b, c>>) /\ MayReadForOne => Paid
         /\ \A a, b, c : ClosesNone(a) /\ ClosesOne(b) /\ ClosesNone(c) =>
              /\ Call(<<a, b, c>>) /\ Head(todo)[1] \in ClosesBracket => Paid
              /\ Read(<<a, b, c>>) /\ MayReadForOne => Paid
              /\ ReadError(<<a, b, c>>) \/ CallError(<<a, b, c>>) => Paid
              /\ \A error :
                   /\ KeepToken(error) /\ Continue(<<a, b, c>>) /\ Head(todo)[1] \in ClosesBracket => Paid
                   /\ ConsumeToken(error) /\ Continue(<<a, b, c>>) /\ MayReadForOne => Paid
         /\ \A a, b, c : ClosesOne(a) /\ ClosesNone(b) /\ ClosesNone(c) =>
              /\ Call(<<a, b, c>>) /\ Head(todo)[1] \in ClosesBracket => Paid
              /\ Read(<<a, b, c>>) /\ MayReadForOne => Paid
              /\ ReadError(<<a, b, c>>) \/ CallError(<<a, b, c>>) => Paid
              /\ \A error :
                   /\ KeepToken(error) /\ Continue(<<a, b, c>>) /\ Head(todo)[1] \in ClosesBracket => Paid
                   /\ ConsumeToken(error) /\ Continue(<<a, b, c>>) /\ MayReadForOne => Paid
         /\ \A a, b, c, d : ClosesNone(a) /\ ClosesOne(b) /\ ClosesNone(c) /\ ClosesNone(d) =>
              /\ Call(<<a, b, c, d>>) /\ Head(todo)[1] \in ClosesBracket => Paid
              /\ Read(<<a, b, c, d>>) /\ MayReadForOne => Paid
              /\ ReadError(<<a, b, c, d>>) \/ CallError(<<a, b, c, d>>) => Paid
              /\ \A error :
                   /\ KeepToken(error) /\ Continue(<<a, b, c, d>>) /\ Head(todo)[1] \in ClosesBracket => Paid
                   /\ ConsumeToken(error) /\ Continue(<<a, b, c, d>>) /\ MayReadForOne => Paid
<1>1. ASSUME NEW a, ClosesOne(a)
      PROVE  /\ Call(<<a>>) /\ Head(todo)[1] \in ClosesBracket => Paid
             /\ Read(<<a>>) /\ MayReadForOne => Paid
             /\ ReadError(<<a>>) \/ CallError(<<a>>) => Paid
             /\ \A error :
                  /\ KeepToken(error) /\ Continue(<<a>>) /\ Head(todo)[1] \in ClosesBracket => Paid
                  /\ ConsumeToken(error) /\ Continue(<<a>>) /\ MayReadForOne => Paid
  <2>1. Adds(<<a>>, 1)
    BY <1>1, AddsOne
  <2> QED BY <2>1, PaidItemsOne
<1>2. ASSUME NEW a, NEW b, ClosesNone(a), ClosesOne(b)
      PROVE  /\ Call(<<a, b>>) /\ Head(todo)[1] \in ClosesBracket => Paid
             /\ Read(<<a, b>>) /\ MayReadForOne => Paid
             /\ ReadError(<<a, b>>) \/ CallError(<<a, b>>) => Paid
             /\ \A error :
                  /\ KeepToken(error) /\ Continue(<<a, b>>) /\ Head(todo)[1] \in ClosesBracket => Paid
                  /\ ConsumeToken(error) /\ Continue(<<a, b>>) /\ MayReadForOne => Paid
  <2>1. Adds(<<a, b>>, 1)
    BY <1>2, AddsOne
  <2> QED BY <2>1, PaidItemsOne
<1>3. ASSUME NEW a, NEW b, ClosesOne(a), ClosesNone(b)
      PROVE  /\ Call(<<a, b>>) /\ Head(todo)[1] \in ClosesBracket => Paid
             /\ Read(<<a, b>>) /\ MayReadForOne => Paid
             /\ ReadError(<<a, b>>) \/ CallError(<<a, b>>) => Paid
             /\ \A error :
                  /\ KeepToken(error) /\ Continue(<<a, b>>) /\ Head(todo)[1] \in ClosesBracket => Paid
                  /\ ConsumeToken(error) /\ Continue(<<a, b>>) /\ MayReadForOne => Paid
  <2>1. Adds(<<a, b>>, 1)
    BY <1>3, AddsOne
  <2> QED BY <2>1, PaidItemsOne
<1>4. ASSUME NEW a, NEW b, NEW c, ClosesNone(a), ClosesNone(b), ClosesOne(c)
      PROVE  /\ Call(<<a, b, c>>) /\ Head(todo)[1] \in ClosesBracket => Paid
             /\ Read(<<a, b, c>>) /\ MayReadForOne => Paid
             /\ ReadError(<<a, b, c>>) \/ CallError(<<a, b, c>>) => Paid
             /\ \A error :
                  /\ KeepToken(error) /\ Continue(<<a, b, c>>) /\ Head(todo)[1] \in ClosesBracket => Paid
                  /\ ConsumeToken(error) /\ Continue(<<a, b, c>>) /\ MayReadForOne => Paid
  <2>1. Adds(<<a, b, c>>, 1)
    BY <1>4, AddsOne
  <2> QED BY <2>1, PaidItemsOne
<1>5. ASSUME NEW a, NEW b, NEW c, ClosesNone(a), ClosesOne(b), ClosesNone(c)
      PROVE  /\ Call(<<a, b, c>>) /\ Head(todo)[1] \in ClosesBracket => Paid
             /\ Read(<<a, b, c>>) /\ MayReadForOne => Paid
             /\ ReadError(<<a, b, c>>) \/ CallError(<<a, b, c>>) => Paid
             /\ \A error :
                  /\ KeepToken(error) /\ Continue(<<a, b, c>>) /\ Head(todo)[1] \in ClosesBracket => Paid
                  /\ ConsumeToken(error) /\ Continue(<<a, b, c>>) /\ MayReadForOne => Paid
  <2>1. Adds(<<a, b, c>>, 1)
    BY <1>5, AddsOne
  <2> QED BY <2>1, PaidItemsOne
<1>6. ASSUME NEW a, NEW b, NEW c, ClosesOne(a), ClosesNone(b), ClosesNone(c)
      PROVE  /\ Call(<<a, b, c>>) /\ Head(todo)[1] \in ClosesBracket => Paid
             /\ Read(<<a, b, c>>) /\ MayReadForOne => Paid
             /\ ReadError(<<a, b, c>>) \/ CallError(<<a, b, c>>) => Paid
             /\ \A error :
                  /\ KeepToken(error) /\ Continue(<<a, b, c>>) /\ Head(todo)[1] \in ClosesBracket => Paid
                  /\ ConsumeToken(error) /\ Continue(<<a, b, c>>) /\ MayReadForOne => Paid
  <2>1. Adds(<<a, b, c>>, 1)
    BY <1>6, AddsOne
  <2> QED BY <2>1, PaidItemsOne
<1>7. ASSUME NEW a, NEW b, NEW c, NEW d, ClosesNone(a), ClosesOne(b), ClosesNone(c), ClosesNone(d)
      PROVE  /\ Call(<<a, b, c, d>>) /\ Head(todo)[1] \in ClosesBracket => Paid
             /\ Read(<<a, b, c, d>>) /\ MayReadForOne => Paid
             /\ ReadError(<<a, b, c, d>>) \/ CallError(<<a, b, c, d>>) => Paid
             /\ \A error :
                  /\ KeepToken(error) /\ Continue(<<a, b, c, d>>) /\ Head(todo)[1] \in ClosesBracket => Paid
                  /\ ConsumeToken(error) /\ Continue(<<a, b, c, d>>) /\ MayReadForOne => Paid
  <2>1. Adds(<<a, b, c, d>>, 1)
    BY <1>7, AddsOne
  <2> QED BY <2>1, PaidItemsOne
<1> QED BY <1>1, <1>2, <1>3, <1>4, <1>5, <1>6, <1>7

LEMMA PaidReturns ==
  ASSUME Settled, Head(todo)[1] \notin {"ExpectPunctuator", "Run", "SkipToListElement"}, NEW result
  PROVE  /\ ReadReturn(result) /\ MayRead => Paid
         /\ JustReturn(result) => Paid
         /\ ReadReturnError(result) \/ ReturnError(result) => Paid
         /\ \A error : KeepToken(error) /\ Return(result) => Paid
BY Accounts, ReturnPays DEF Waits, ReadReturn, JustReturn, ReadReturnError, ReturnError

-----------------------------------------------------------------------------
(* What the items of the parser close. *)

LEMMA NamesClose ==
  /\ ClosesNone(<<"ArrowFunctionBody">>)
  /\ ClosesNone(<<"Assignment">>)
  /\ ClosesNone(<<"AssignmentExpression">>)
  /\ ClosesNone(<<"Async">>)
  /\ ClosesNone(<<"BindingComma">>)
  /\ ClosesNone(<<"BindingElement">>)
  /\ ClosesNone(<<"BindingElements">>)
  /\ ClosesNone(<<"BlockStatement">>)
  /\ ClosesNone(<<"CallExpression">>)
  /\ ClosesNone(<<"CaseClause">>)
  /\ ClosesNone(<<"CaseStatement">>)
  /\ ClosesNone(<<"Class">>)
  /\ ClosesNone(<<"ClassBody">>)
  /\ ClosesNone(<<"ClassHeritage">>)
  /\ ClosesNone(<<"Comma">>)
  /\ ClosesNone(<<"CommaExpression">>)
  /\ ClosesNone(<<"ConditionalExpression">>)
  /\ ClosesNone(<<"DefaultLabel">>)
  /\ ClosesNone(<<"DoWhile">>)
  /\ ClosesNone(<<"Else">>)
  /\ ClosesNone(<<"ExpectSemicolon">>)
  /\ ClosesNone(<<"Expression">>)
  /\ ClosesNone(<<"ExpressionStatement">>)
  /\ ClosesNone(<<"Finally">>)
  /\ ClosesNone(<<"Function">>)
  /\ ClosesNone(<<"FunctionBody">>)
  /\ ClosesNone(<<"FunctionStar">>)
  /\ ClosesNone(<<"Initializer">>)
  /\ ClosesNone(<<"JsDocAsExpression">>)
  /\ ClosesNone(<<"JsDocAsStatement">>)
  /\ ClosesNone(<<"Label">>)
  /\ ClosesNone(<<"LabeledStatement">>)
  /\ ClosesNone(<<"LeftHandSideExpression">>)
  /\ ClosesNone(<<"MemberExpression">>)
  /\ ClosesNone(<<"MemberName">>)
  /\ ClosesNone(<<"Method">>)
  /\ ClosesNone(<<"NewArguments">>)
  /\ ClosesNone(<<"NewExpression">>)
  /\ ClosesNone(<<"NewTarget">>)
  /\ ClosesNone(<<"ParameterList">>)
  /\ ClosesNone(<<"ParenthesisExpression">>)
  /\ ClosesNone(<<"PrimaryExpression">>)
  /\ ClosesNone(<<"PropertyName">>)
  /\ ClosesNone(<<"RegExpFlags">>)
  /\ ClosesNone(<<"ReturnStatement">>)
  /\ ClosesNone(<<"Statement">>)
  /\ ClosesNone(<<"StaticMember">>)
  /\ ClosesNone(<<"SwitchStatement">>)
  /\ ClosesNone(<<"TryStatement">>)
  /\ ClosesNone(<<"UnaryExpression">>)
  /\ ClosesNone(<<"UpdateExpression">>)
  /\ ClosesNone(<<"YieldExpression">>)
<1> USE DEF ClosesNone, Waits, Owes
<1>1. ASSUME NEW n \in (PlainName \cup OperandFunction) \ ClosesBracket PROVE ClosesNone(<<n>>)
  <2>1. n \notin {"Run", "SkipToListElement", "ExpectPunctuator", "ConsumeTokenIf"}
    BY <1>1 DEF PlainName, OperandFunction
  <2> QED BY <1>1, <2>1
<1> HIDE DEF ClosesNone, Waits, Owes
<1>2. /\ ClosesNone(<<"ArrowFunctionBody">>)
      /\ ClosesNone(<<"Assignment">>)
      /\ ClosesNone(<<"AssignmentExpression">>)
      /\ ClosesNone(<<"Async">>)
      /\ ClosesNone(<<"BindingComma">>)
      /\ ClosesNone(<<"BindingElement">>)
      /\ ClosesNone(<<"BindingElements">>)
      /\ ClosesNone(<<"BlockStatement">>)
      /\ ClosesNone(<<"CallExpression">>)
      /\ ClosesNone(<<"CaseClause">>)
      /\ ClosesNone(<<"CaseStatement">>)
      /\ ClosesNone(<<"Class">>)
  BY <1>1 DEF PlainName, OperandFunction, ClosesBracket
<1>3. /\ ClosesNone(<<"ClassBody">>)
      /\ ClosesNone(<<"ClassHeritage">>)
      /\ ClosesNone(<<"Comma">>)
      /\ ClosesNone(<<"CommaExpression">>)
      /\ ClosesNone(<<"ConditionalExpression">>)
      /\ ClosesNone(<<"DefaultLabel">>)
      /\ ClosesNone(<<"DoWhile">>)
      /\ ClosesNone(<<"Else">>)
      /\ ClosesNone(<<"ExpectSemicolon">>)
      /\ ClosesNone(<<"Expression">>)
      /\ ClosesNone(<<"ExpressionStatement">>)
      /\ ClosesNone(<<"Finally">>)
  BY <1>1 DEF PlainName, OperandFunction, ClosesBracket
<1>4. /\ ClosesNone(<<"Function">>)
      /\ ClosesNone(<<"FunctionBody">>)
      /\ ClosesNone(<<"FunctionStar">>)
      /\ ClosesNone(<<"Initializer">>)
      /\ ClosesNone(<<"JsDocAsExpression">>)
      /\ ClosesNone(<<"JsDocAsStatement">>)
      /\ ClosesNone(<<"Label">>)
      /\ ClosesNone(<<"LabeledStatement">>)
      /\ ClosesNone(<<"LeftHandSideExpression">>)
      /\ ClosesNone(<<"MemberExpression">>)
      /\ ClosesNone(<<"MemberName">>)
      /\ ClosesNone(<<"Method">>)
  BY <1>1 DEF PlainName, OperandFunction, ClosesBracket
<1>5. /\ ClosesNone(<<"NewArguments">>)
      /\ ClosesNone(<<"NewExpression">>)
      /\ ClosesNone(<<"NewTarget">>)
      /\ ClosesNone(<<"ParameterList">>)
      /\ ClosesNone(<<"ParenthesisExpression">>)
      /\ ClosesNone(<<"PrimaryExpression">>)
      /\ ClosesNone(<<"PropertyName">>)
      /\ ClosesNone(<<"RegExpFlags">>)
      /\ ClosesNone(<<"ReturnStatement">>)
      /\ ClosesNone(<<"Statement">>)
      /\ ClosesNone(<<"StaticMember">>)
      /\ ClosesNone(<<"SwitchStatement">>)
  BY <1>1 DEF PlainName, OperandFunction, ClosesBracket
<1>6. /\ ClosesNone(<<"TryStatement">>)
      /\ ClosesNone(<<"UnaryExpression">>)
      /\ ClosesNone(<<"UpdateExpression">>)
      /\ ClosesNone(<<"YieldExpression">>)
  BY <1>1 DEF PlainName, OperandFunction, ClosesBracket
<1> QED BY <1>2, <1>3, <1>4, <1>5, <1>6

LEMMA BracketsClose ==
  /\ ClosesOne(<<"ArgumentEnd">>)
  /\ ClosesOne(<<"ArgumentList">>)
  /\ ClosesOne(<<"Arguments">>)
  /\ ClosesOne(<<"ArrayBindingElement">>)
  /\ ClosesOne(<<"ArrayInitializer">>)
  /\ ClosesOne(<<"CatchClause">>)
  /\ ClosesOne(<<"ForBinding">>)
  /\ ClosesOne(<<"ForCondition">>)
  /\ ClosesOne(<<"ForDocument">>)
  /\ ClosesOne(<<"ForExpression">>)
  /\ ClosesOne(<<"ForStep">>)
  /\ ClosesOne(<<"ObjectBinding">>)
  /\ ClosesOne(<<"ObjectBindingName">>)
  /\ ClosesOne(<<"ObjectBindingNext">>)
  /\ ClosesOne(<<"ObjectBindingSkipped">>)
  /\ ClosesOne(<<"Parameters">>)
  /\ ClosesOne(<<"Parenthesis">>)
  /\ ClosesOne(<<"Statements">>)
  /\ \A x : ClosesOne(<<"ArrayBinding", x>>)
  /\ \A x : ClosesOne(<<"ArrayBindingSkipped", x>>)
  /\ \A x : ClosesOne(<<"ForKeyword", x>>)
  /\ \A x : ClosesOne(<<"ObjectInitializer", x>>)
  /\ \A k \in CloseBracket : ClosesOne(Expect(k)) /\ ClosesOne(Optional(k))
<1> USE DEF ClosesOne, Waits, Owes
<1>1. ASSUME NEW n \in ClosesBracket PROVE ClosesOne(<<n>>) /\ \A x : ClosesOne(<<n, x>>)
  <2>1. n \notin {"Run", "SkipToListElement"}
    BY <1>1 DEF ClosesBracket
  <2> QED BY <1>1, <2>1
<1>2. ASSUME NEW k \in CloseBracket PROVE ClosesOne(Expect(k)) /\ ClosesOne(Optional(k))
  <2>2. Expect(k)[1] = "ExpectPunctuator" /\ Expect(k)[2] = k
    BY DEF Expect
  <2>3. Optional(k)[1] = "ConsumeTokenIf" /\ Optional(k)[2] = k
    BY DEF Optional
  <2> QED BY <1>2, <2>2, <2>3 DEF ClosesBracket
<1> HIDE DEF ClosesOne, Waits, Owes
<1> QED BY <1>1, <1>2 DEF ClosesBracket

LEMMA ArgumentsClose ==
  /\ \A x : ClosesNone(Make(x)) /\ ClosesNone(<<"Arrow", x>>) /\ ClosesNone(<<"NameStatement", x>>)
  /\ \A x, y :
       ClosesNone(<<"PropertyAfterName", x, y>>) /\ ClosesNone(<<"BinaryExpression", x, y>>)
  /\ \A x, y, z :
       ClosesNone(<<"BinaryOperand", x, y, z>>) /\ ClosesNone(<<"NewBinaryExpression", x, y, z>>)
  /\ \A k \in {":", ";", "=>"} : ClosesNone(Expect(k)) /\ ClosesNone(Optional(k))
<1> USE DEF ClosesNone, Waits, Owes, ClosesBracket
<1>1. \A x : ClosesNone(Make(x)) /\ ClosesNone(<<"Arrow", x>>) /\ ClosesNone(<<"NameStatement", x>>)
  BY DEF Make
<1>2. \A x, y :
        ClosesNone(<<"PropertyAfterName", x, y>>) /\ ClosesNone(<<"BinaryExpression", x, y>>)
  OBVIOUS
<1>3. \A x, y, z :
        ClosesNone(<<"BinaryOperand", x, y, z>>) /\ ClosesNone(<<"NewBinaryExpression", x, y, z>>)
  OBVIOUS
<1>4. ASSUME NEW k \in {":", ";", "=>"} PROVE ClosesNone(Expect(k)) /\ ClosesNone(Optional(k))
  <2>1. k \notin OpenBracket /\ k \notin CloseBracket
    BY <1>4 DEF OpenBracket, CloseBracket
  <2>2. Expect(k)[1] = "ExpectPunctuator" /\ Expect(k)[2] = k
    BY DEF Expect
  <2>3. Optional(k)[1] = "ConsumeTokenIf" /\ Optional(k)[2] = k
    BY DEF Optional
  <2> QED BY <2>1, <2>2, <2>3
<1> HIDE DEF ClosesNone, Waits, Owes, ClosesBracket
<1> QED BY <1>1, <1>2, <1>3, <1>4

-----------------------------------------------------------------------------
(* Every function pays. *)

LEMMA OperatorsOpenNothing ==
  ASSUME NEW k, CategoryOf(k) # None
  PROVE  k \notin OpenBracket /\ k \notin CloseBracket
BY DEF CategoryOf, None, Assignment, LogicalOr, Exponentiation, OpenBracket, CloseBracket

LEMMA JoinedItemsPay ==
  ASSUME Settled, Head(todo)[1] \notin {"ExpectPunctuator", "Run", "SkipToListElement"}
  PROVE  /\ \A a, b : ClosesNone(a) /\ ClosesNone(b) =>
              (Read(<<a>> \o <<b>>) /\ MayRead => Paid)
         /\ \A a, b, c : ClosesNone(a) /\ ClosesNone(b) /\ ClosesNone(c) =>
              /\ Read(<<a, b>> \o <<c>>) /\ MayRead => Paid
              /\ Call(<<a, b>> \o <<c>>) => Paid
         /\ \A a, b, c, d : ClosesNone(a) /\ ClosesNone(b) /\ ClosesNone(c) /\ ClosesNone(d) =>
              /\ Read(<<a, b, c>> \o <<d>>) /\ MayRead => Paid
              /\ Call(<<a, b>> \o <<c, d>>) => Paid
<1>1. ASSUME NEW a, NEW b, ClosesNone(a), ClosesNone(b)
      PROVE  Read(<<a>> \o <<b>>) /\ MayRead => Paid
  <2>1. Adds(<<a, b>>, 0)
    BY <1>1, AddsNone
  <2>2. Adds(<<a>> \o <<b>>, 0)
    BY <2>1, JoinedTwo, Zenon
  <2> QED BY <2>2, PaidItemsNone
<1>2. ASSUME NEW a, NEW b, NEW c, ClosesNone(a), ClosesNone(b), ClosesNone(c)
      PROVE  /\ Read(<<a, b>> \o <<c>>) /\ MayRead => Paid
             /\ Call(<<a, b>> \o <<c>>) => Paid
  <2>1. Adds(<<a, b, c>>, 0)
    BY <1>2, AddsNone
  <2>2. Adds(<<a, b>> \o <<c>>, 0)
    BY <2>1, JoinedThree, Zenon
  <2> QED BY <2>2, PaidItemsNone
<1>3. ASSUME NEW a, NEW b, NEW c, NEW d,
             ClosesNone(a), ClosesNone(b), ClosesNone(c), ClosesNone(d)
      PROVE  /\ Read(<<a, b, c>> \o <<d>>) /\ MayRead => Paid
             /\ Call(<<a, b>> \o <<c, d>>) => Paid
  <2>1. Adds(<<a, b, c, d>>, 0)
    BY <1>3, AddsNone
  <2>2. Adds(<<a, b, c>> \o <<d>>, 0) /\ Adds(<<a, b>> \o <<c, d>>, 0)
    BY <2>1, JoinedFour, Zenon
  <2> QED BY <2>2, PaidItemsNone
<1> QED BY <1>1, <1>2, <1>3

(* The parenthesis that is expected pays for the function that closes it.   *)
LEMMA ParenthesisPays ==
  /\ Adds(<<Expect("("), <<"ForDocument">>>> \o <<Make(Statement)>>, 0)
  /\ Adds(<<Expect("("), <<"BindingElement">>, <<"CatchClause">>>>, 0)
<1>1. Waits(Expect("(")) /\ Owes(Expect("(")) = -1
  <2>1. Expect("(")[1] = "ExpectPunctuator" /\ Expect("(")[2] = "("
    BY DEF Expect
  <2> QED BY <2>1 DEF Waits, Owes, ClosesBracket, OpenBracket, CloseBracket
<1>2. /\ Waits(Make(Statement)) /\ Owes(Make(Statement)) = 0
      /\ Waits(<<"BindingElement">>) /\ Owes(<<"BindingElement">>) = 0
  BY NamesClose, ArgumentsClose DEF ClosesNone
<1>3. /\ Waits(<<"ForDocument">>) /\ Owes(<<"ForDocument">>) = 1
      /\ Waits(<<"CatchClause">>) /\ Owes(<<"CatchClause">>) = 1
  BY BracketsClose DEF ClosesOne
<1>4. Adds(<<Expect("("), <<"ForDocument">>, Make(Statement)>>, 0)
  <2>1. Adds(<<Expect("("), <<"ForDocument">>, Make(Statement)>>,
             Owes(Make(Statement)) + Owes(<<"ForDocument">>) + Owes(Expect("(")))
    BY <1>1, <1>2, <1>3, AddsItems
  <2>2. Owes(Make(Statement)) + Owes(<<"ForDocument">>) + Owes(Expect("(")) = 0
    BY <1>1, <1>2, <1>3
  <2> QED BY <2>1, <2>2
<1>5. Adds(<<Expect("("), <<"BindingElement">>, <<"CatchClause">>>>, 0)
  <2>1. Adds(<<Expect("("), <<"BindingElement">>, <<"CatchClause">>>>,
             Owes(<<"CatchClause">>) + Owes(<<"BindingElement">>) + Owes(Expect("(")))
    BY <1>1, <1>2, <1>3, AddsItems
  <2>2. Owes(<<"CatchClause">>) + Owes(<<"BindingElement">>) + Owes(Expect("(")) = 0
    BY <1>1, <1>2, <1>3
  <2> QED BY <2>1, <2>2
<1>6. Adds(<<Expect("("), <<"ForDocument">>>> \o <<Make(Statement)>>, 0)
  BY <1>4, JoinedThree, Zenon
<1> QED BY <1>5, <1>6


LEMMA DeclarationsPay ==
  ASSUME Settled, DeclarationsNext
  PROVE  Paid
<1> USE DEF Running, MayRead, MayReadForOne, ClosesBracket, OpenBracket, CloseBracket
<1>1. ASSUME ParseMethod PROVE Paid
  BY <1>1, PaidNone, NamesClose DEF ParseMethod
<1>2. ASSUME ParseArrowFunctionBody PROVE Paid
  BY <1>2, PaidNone, NamesClose, Zenon DEF ParseArrowFunctionBody
<1>3. ASSUME ParseClassName PROVE Paid
  BY <1>3, PaidNone, NamesClose DEF ParseClassName, IsName, NameKind, Keyword
<1>4. ASSUME ParseClassHeritage PROVE Paid
  BY <1>4, PaidNone, NamesClose DEF ParseClassHeritage
<1>5. ASSUME ParseClassBody PROVE Paid
  BY <1>5, PaidNone, NamesClose DEF ParseClassBody
<1>6. ASSUME ParseFunctionStar PROVE Paid
  BY <1>6, PaidNone, NamesClose DEF ParseFunctionStar
<1>7. ASSUME ParseFunction PROVE Paid
  BY <1>7, PaidNone, NamesClose, Zenon DEF ParseFunction, IsName, NameKind, Keyword
<1>8. ASSUME ParseParameterList PROVE Paid
  BY <1>8, PaidOne, BracketsClose, PaidNone, Zenon DEF ParseParameterList
<1>9. ASSUME ParseParameters PROVE Paid
  BY <1>9, PaidOne, BracketsClose, PaidNone, NamesClose DEF ParseParameters
<1>10. ASSUME ParseFunctionBody PROVE Paid
  BY <1>10, PaidNone, NamesClose DEF ParseFunctionBody
<1> QED BY <1>1, <1>2, <1>3, <1>4, <1>5, <1>6, <1>7, <1>8, <1>9, <1>10 DEF DeclarationsNext

LEMMA BindingsPay ==
  ASSUME Settled, ~PeekPastEnd,
         ParseBindingElements \/ ParseBindingComma \/ ParseBindingElement \/ ParseInitializer
           \/ ParseArrayBindingElement \/ ParseArrayBindingSkipped \/ ParseObjectBindingName \/ ParseObjectBindingNext \/ ParseObjectBindingSkipped
  PROVE  Paid
<1> USE DEF Running, MayRead, MayReadForOne, ClosesBracket, OpenBracket, CloseBracket
<1>1. ASSUME ParseBindingElements PROVE Paid
  BY <1>1, PaidNone, NamesClose DEF ParseBindingElements
<1>2. ASSUME ParseBindingComma PROVE Paid
  BY <1>2, PaidNone, NamesClose, Zenon DEF ParseBindingComma
<1>3. ASSUME ParseBindingElement PROVE Paid
  BY <1>3, PaidOne, BracketsClose, PaidNone, NamesClose, ArgumentsClose, PaidReturns, Zenon DEF ParseBindingElement, IsName, NameKind, Keyword, CanStartBindingElement
<1>4. ASSUME ParseInitializer PROVE Paid
  BY <1>4, PaidNone, NamesClose, ArgumentsClose, PaidReturns DEF ParseInitializer
<1>5. ASSUME ParseArrayBindingElement PROVE Paid
  BY <1>5, PaidOne, BracketsClose, Zenon DEF ParseArrayBindingElement
<1>6. ASSUME ParseArrayBindingSkipped PROVE Paid
  BY <1>6, PaidOne, BracketsClose, PaidNone, NamesClose, Zenon DEF ParseArrayBindingSkipped
<1>7. ASSUME ParseObjectBindingName PROVE Paid
  BY <1>7, PaidOne, BracketsClose, PaidNone, NamesClose, Zenon DEF ParseObjectBindingName
<1>8. ASSUME ParseObjectBindingNext PROVE Paid
  BY <1>8, PaidOne, BracketsClose, Zenon DEF ParseObjectBindingNext, CanStartBindingElement, IsName, NameKind, Keyword
<1>9. ASSUME ParseObjectBindingSkipped PROVE Paid
  BY <1>9, PaidOne, BracketsClose, PaidNone, NamesClose, Zenon DEF ParseObjectBindingSkipped
<1> QED BY <1>1, <1>2, <1>3, <1>4, <1>5, <1>6, <1>7, <1>8, <1>9

LEMMA ExpressionsPay ==
  ASSUME Settled, ~PeekPastEnd,
         ParseExpression \/ ParseComma \/ ParseCommaExpression
           \/ ParseAssignment \/ ParseConditionalExpression
           \/ NewBinaryExpression \/ ParseUnaryExpression
           \/ ParseYieldExpression \/ ParseUpdateExpression
           \/ ParseLeftHandSideExpression \/ HandleNewExpression
           \/ HandleCallExpression \/ HandleMember \/ ParseNewExpression
           \/ ParseNewTarget
  PROVE  Paid
<1> USE DEF Running, MayRead, MayReadForOne, ClosesBracket, OpenBracket, CloseBracket
<1>1. ASSUME ParseExpression PROVE Paid
  BY <1>1, PaidNone, NamesClose, PaidReturns DEF ParseExpression
<1>2. ASSUME ParseComma PROVE Paid
  BY <1>2, PaidNone, NamesClose DEF ParseComma
<1>3. ASSUME ParseCommaExpression PROVE Paid
  BY <1>3, PaidNone, NamesClose, PaidReturns DEF ParseCommaExpression
<1>4. ASSUME ParseAssignment PROVE Paid
  <2>1. Head(todo)[1] = "Assignment"
    BY <1>4 DEF ParseAssignment
  <2>2. CASE Call(<<>>)
    BY <2>1, <2>2, PaidNone
  <2>3. CASE /\ CategoryOf(Peek) = Assignment
             /\ Read(<< <<"AssignmentExpression">>, Make(AssignmentNode) >>)
    <3>1. CategoryOf(Peek) # None
      BY <2>3 DEF Assignment, None
    <3>2. Peek \notin CloseBracket
      BY <3>1, OperatorsOpenNothing, Zenon
    <3> QED BY <2>1, <2>3, <3>2, PaidNone, NamesClose, ArgumentsClose
  <2> QED BY <1>4, <2>2, <2>3 DEF ParseAssignment
<1>5. ASSUME ParseConditionalExpression PROVE Paid
  BY <1>5, PaidNone, NamesClose, ArgumentsClose DEF ParseConditionalExpression
<1>6. ASSUME NewBinaryExpression PROVE Paid
  BY <1>6, PaidReturns, Zenon DEF NewBinaryExpression
<1>7. ASSUME ParseUnaryExpression PROVE Paid
  BY <1>7, PaidNone, NamesClose, ArgumentsClose, Zenon DEF ParseUnaryExpression, IsUnaryOperator
<1>8. ASSUME ParseYieldExpression PROVE Paid
  BY <1>8, PaidNone, NamesClose DEF ParseYieldExpression
<1>9. ASSUME ParseUpdateExpression PROVE Paid
  BY <1>9, PaidNone, PaidReturns, Zenon DEF ParseUpdateExpression
<1>10. ASSUME ParseLeftHandSideExpression PROVE Paid
  BY <1>10, PaidNone, NamesClose, PaidReturns, Zenon DEF ParseLeftHandSideExpression
<1>11. ASSUME HandleNewExpression PROVE Paid
  BY <1>11, PaidOne, BracketsClose, PaidNone, NamesClose, ArgumentsClose, Zenon DEF HandleNewExpression
<1>12. ASSUME HandleCallExpression PROVE Paid
  BY <1>12, PaidOne, BracketsClose, PaidNone, NamesClose, ArgumentsClose DEF HandleCallExpression
<1>13. ASSUME HandleMember PROVE Paid
  BY <1>13, PaidNone, PaidReturns, Zenon DEF HandleMember, IsName, NameKind, Keyword
<1>14. ASSUME ParseNewExpression PROVE Paid
  BY <1>14, PaidNone, NamesClose, Zenon DEF ParseNewExpression
<1>15. ASSUME ParseNewTarget PROVE Paid
  BY <1>15, PaidNone, NamesClose, ArgumentsClose, PaidReturns DEF ParseNewTarget
<1> QED BY <1>1, <1>2, <1>3, <1>4, <1>5, <1>6, <1>7, <1>8, <1>9, <1>10, <1>11, <1>12, <1>13, <1>14, <1>15

LEMMA PrimariesPay ==
  ASSUME Settled, ~PeekPastEnd,
         ParseNewArguments \/ ParseArgumentList \/ ParseArguments
           \/ ParseArgumentEnd \/ ParsePrimaryExpression
           \/ ParseNameAsExpression \/ ParseAsync \/ ParseArrow
           \/ ParseJsDocAsExpression \/ ParseParenthesis
           \/ ParseArrayInitializer \/ ParseRegExpLiteral
           \/ ParseObjectInitializer \/ ParseStaticMember \/ ParsePropertyName
           \/ ParsePropertyAfterName
  PROVE  Paid
<1> USE DEF Running, MayRead, MayReadForOne, ClosesBracket, OpenBracket, CloseBracket
<1>1. ASSUME ParseNewArguments PROVE Paid
  BY <1>1, PaidOne, BracketsClose, PaidNone, NamesClose, ArgumentsClose, Zenon DEF ParseNewArguments
<1>2. ASSUME ParseArgumentList PROVE Paid
  BY <1>2, PaidOne, BracketsClose, PaidNone, Zenon DEF ParseArgumentList
<1>3. ASSUME ParseArguments PROVE Paid
  BY <1>3, PaidOne, BracketsClose, PaidNone, NamesClose, Zenon DEF ParseArguments
<1>4. ASSUME ParseArgumentEnd PROVE Paid
  BY <1>4, PaidOne, BracketsClose, PaidNone, Zenon DEF ParseArgumentEnd
<1>5. ASSUME ParsePrimaryExpression PROVE Paid
  BY <1>5, PaidOne, BracketsClose, PaidNone, NamesClose, ArgumentsClose, PaidReturns, Zenon DEF ParsePrimaryExpression, IsLiteral, LiteralKind, DocumentKind
<1>6. ASSUME ParseNameAsExpression PROVE Paid
  BY <1>6, PaidNone, NamesClose, ArgumentsClose, PaidReturns, Zenon DEF ParseNameAsExpression, NameKind, Keyword
<1>7. ASSUME ParseAsync PROVE Paid
  BY <1>7, PaidNone, NamesClose, ArgumentsClose, Zenon DEF ParseAsync
<1>8. ASSUME ParseArrow PROVE Paid
  BY <1>8, PaidNone, NamesClose, ArgumentsClose, PaidReturns DEF ParseArrow
<1>9. ASSUME ParseJsDocAsExpression PROVE Paid
  BY <1>9, PaidReturns, Zenon DEF ParseJsDocAsExpression
<1>10. ASSUME ParseParenthesis PROVE Paid
  BY <1>10, PaidOne, BracketsClose, PaidNone, NamesClose, ArgumentsClose, Zenon DEF ParseParenthesis
<1>11. ASSUME ParseArrayInitializer PROVE Paid
  BY <1>11, PaidOne, BracketsClose, PaidNone, NamesClose DEF ParseArrayInitializer
<1>12. ASSUME ParseRegExpLiteral PROVE Paid
  BY <1>12, PaidNone DEF ParseRegExpLiteral, IsName, NameKind, Keyword
<1>13. ASSUME ParseObjectInitializer PROVE Paid
  <2>1. Head(todo)[1] = "ObjectInitializer" /\ Head(todo)[1] \in ClosesBracket
    BY <1>13 DEF ParseObjectInitializer
  <2>2. ClosesOne(Head(todo))
    BY <2>1 DEF ClosesOne, Waits, Owes
  <2>3. CASE KeepToken(Argument) /\ Continue(<<>>)
    BY <2>1, <2>3, PaidNone
  <2>4. CASE Peek = "}" /\ ConsumeToken(Argument) /\ Continue(<<>>)
    BY <2>1, <2>4, PaidNone
  <2>5. CASE Peek \in {",", ";"} /\ ConsumeToken(Argument) /\ Continue(<<Head(todo)>>)
    BY <2>1, <2>2, <2>5, PaidOne, Zenon
  <2>6. CASE /\ Peek \in DocumentKind /\ ConsumeToken(Argument)
             /\ Continue(<< <<"ObjectInitializer", TRUE>> >>)
    BY <2>1, <2>6, PaidOne, BracketsClose, Zenon DEF DocumentKind
  <2>7. CASE Peek = "*" /\ Read(<< <<"Method">>, <<"ObjectInitializer", FALSE>> >>)
    BY <2>1, <2>7, PaidOne, BracketsClose, NamesClose, Zenon
  <2>8. CASE Peek = "static" /\ Read(<< <<"StaticMember">>, <<"ObjectInitializer", FALSE>> >>)
    BY <2>1, <2>8, PaidOne, BracketsClose, NamesClose, Zenon
  <2>9. CASE Call(<< <<"PropertyName">>, <<"PropertyAfterName", FALSE, HasFunctionKind>>,
                     <<"ObjectInitializer", FALSE>> >>)
    BY <2>1, <2>9, PaidOne, BracketsClose, NamesClose, ArgumentsClose, Zenon
  <2> QED BY <1>13, <2>3, <2>4, <2>5, <2>6, <2>7, <2>8, <2>9 DEF ParseObjectInitializer
<1>14. ASSUME ParseStaticMember PROVE Paid
  BY <1>14, PaidNone, NamesClose, ArgumentsClose, Zenon DEF ParseStaticMember
<1>15. ASSUME ParsePropertyName PROVE Paid
  BY <1>15, PaidNone, NamesClose, PaidReturns, Zenon DEF ParsePropertyName, IsName, NameKind, Keyword, IsLiteral, LiteralKind
<1>16. ASSUME ParsePropertyAfterName PROVE Paid
  BY <1>16, PaidNone, NamesClose DEF ParsePropertyAfterName, PropertyValue
<1> QED BY <1>1, <1>2, <1>3, <1>4, <1>5, <1>6, <1>7, <1>8, <1>9, <1>10, <1>11, <1>12, <1>13, <1>14, <1>15, <1>16, Zenon

LEMMA OperationsPay ==
  ASSUME Settled, ParseAssignmentExpression \/ ParseBinaryExpression \/ ParseBinaryOperand
  PROVE  Paid
<1> USE DEF Running, MayRead, ClosesBracket
<1>1. ASSUME ParseAssignmentExpression PROVE Paid
  <2>1. CASE Call(BinaryExpression(LogicalOr) \o << <<"ConditionalExpression">>, <<"Assignment">> >>)
    <3>1. Head(todo)[1] = "AssignmentExpression"
      BY <1>1 DEF ParseAssignmentExpression
    <3> QED BY <2>1, <3>1, JoinedItemsPay, NamesClose, ArgumentsClose, Zenon DEF BinaryExpression
  <2> QED BY <1>1, <2>1, PaidReturns DEF ParseAssignmentExpression
<1>2. ASSUME ParseBinaryExpression PROVE Paid
  <2>1. Head(todo)[1] = "BinaryExpression"
    BY <1>2 DEF ParseBinaryExpression
  <2>2. CASE Call(<<>>)
    BY <2>1, <2>2, PaidNone
  <2>3. CASE /\ CategoryOf(Peek) \in Argument .. Head(todo)[3]
             /\ Read(<< <<"BinaryOperand", CategoryOf(Peek), Peek, node>>,
                        <<"BinaryExpression", Argument, CategoryOf(Peek)>> >>)
    <3>1. CategoryOf(Peek) # None
      <4>1. Argument \in LogicalOr .. None /\ Head(todo)[3] \in Category
        BY <2>1, ArgumentsTyped DEF Settled
      <4> QED BY <2>3, <4>1 DEF Category, None, LogicalOr, Exponentiation
    <3>2. Peek \notin CloseBracket
      BY <3>1, OperatorsOpenNothing
    <3> QED BY <2>1, <2>3, <3>2, PaidNone, ArgumentsClose
  <2> QED BY <1>2, <2>2, <2>3 DEF ParseBinaryExpression
<1>3. ASSUME ParseBinaryOperand PROVE Paid
  <2>1. CASE Call(BinaryExpression(HigherPrecedenceOf(Argument)) \o
                  << <<"NewBinaryExpression", Argument, Head(todo)[3], Head(todo)[4]>> >>)
    <3>1. Head(todo)[1] = "BinaryOperand"
      BY <1>3 DEF ParseBinaryOperand
    <3> QED BY <2>1, <3>1, JoinedItemsPay, NamesClose, ArgumentsClose, Zenon DEF BinaryExpression
  <2> QED BY <1>3, <2>1, PaidReturns DEF ParseBinaryOperand
<1> QED BY <1>1, <1>2, <1>3

LEMMA MachinePays ==
  ASSUME Settled, MachineNext
  PROVE  Paid
<1> USE DEF Running, MayRead, MayReadForOne, ClosesBracket
<1>1. ASSUME MakeNode PROVE Paid
  BY <1>1, PaidReturns DEF MakeNode
<1>2. ASSUME ExpectPunctuator PROVE Paid
  <2>1. Head(todo)[1] = "ExpectPunctuator" /\ Argument = Head(todo)[2]
    BY <1>2 DEF ExpectPunctuator, Argument
  <2>2. 0 <= Owes(Head(todo)) + Bracket(Argument)
    <3>1. /\ Argument \in OpenBracket => Owes(Head(todo)) = -1 /\ Bracket(Argument) = 1
          /\ Argument \in CloseBracket => Owes(Head(todo)) = 1 /\ Bracket(Argument) = -1
          /\ Argument \notin OpenBracket /\ Argument \notin CloseBracket =>
               Owes(Head(todo)) = 0 /\ Bracket(Argument) = 0
      BY <2>1 DEF Owes, Bracket, OpenBracket, CloseBracket
    <3> QED BY <3>1
  <2>3. Adds(<<>>, 0)
    BY AddsNone
  <2> QED BY <1>2, <2>1, <2>2, <2>3, PaidItems DEF ExpectPunctuator, Waits
<1>3. ASSUME ConsumeTokenIf PROVE Paid
  <2>1. Head(todo)[1] = "ConsumeTokenIf" /\ Argument = Head(todo)[2]
    BY <1>3 DEF ConsumeTokenIf, Argument
  <2>2. CASE Call(<<>>)
    BY <2>1, <2>2, PaidNone
  <2>3. CASE Peek = Argument /\ Read(<<>>)
    <3>1. 0 <= Owes(Head(todo)) + Bracket(Argument)
      <4>1. /\ Argument \in CloseBracket => Owes(Head(todo)) = 1 /\ Bracket(Argument) = -1
            /\ Argument \notin CloseBracket => Owes(Head(todo)) = 0 /\ Bracket(Argument) \in {0, 1}
        BY <2>1 DEF Owes, Bracket, OpenBracket, CloseBracket
      <4> QED BY <4>1
    <3>2. Adds(<<>>, 0)
      BY AddsNone
    <3> QED BY <2>1, <2>3, <3>1, <3>2, PaidItems DEF Waits
  <2> QED BY <1>3, <2>2, <2>3 DEF ConsumeTokenIf
<1>4. ASSUME ExpectSemicolon PROVE Paid
  BY <1>4, PaidNone DEF ExpectSemicolon, CloseBracket
<1> QED BY <1>1, <1>2, <1>3, <1>4 DEF MachineNext

LEMMA KeywordsPay ==
  ASSUME Settled, ParseKeywordStatement
  PROVE  Paid
<1>1. Head(todo)[1] = "Statement" /\ Head(todo)[1] \notin {"ExpectPunctuator", "Run", "SkipToListElement"}
  BY DEF ParseKeywordStatement, ReadKeyword, AtStatement, Running
<1>2. ClosesNone(Make(Statement))
  BY ArgumentsClose
<1>3. \A k \in Keyword : Peek = k => MayRead
  BY DEF Keyword, MayRead, CloseBracket
<1>9. \A k, a : k \in Keyword /\ ClosesNone(a) /\ ReadKeyword(k, <<a>>) => Paid
  BY <1>1, <1>2, <1>3, JoinedItemsPay DEF ReadKeyword
<1>10. \A k, a, b : k \in Keyword /\
         ClosesNone(a) /\ ClosesNone(b) /\ ReadKeyword(k, <<a, b>>) => Paid
  BY <1>1, <1>2, <1>3, JoinedItemsPay DEF ReadKeyword
<1>11. \A k, a, b, c : k \in Keyword /\
         ClosesNone(a) /\ ClosesNone(b) /\ ClosesNone(c) /\ ReadKeyword(k, <<a, b, c>>)
           => Paid
  BY <1>1, <1>2, <1>3, JoinedItemsPay DEF ReadKeyword
<1>4. ASSUME ReadKeyword("for", << Expect("("), <<"ForDocument">> >>) PROVE Paid
  <2>1. MayRead
    BY <1>4 DEF ReadKeyword, MayRead, CloseBracket
  <2> QED BY <1>1, <1>4, <2>1, ParenthesisPays, PaidItemsNone DEF ReadKeyword
<1>5. /\ "break" \in Keyword /\ "case" \in Keyword /\ "default" \in Keyword
      /\ "do" \in Keyword /\ "if" \in Keyword /\ "return" \in Keyword /\ "switch" \in Keyword
      /\ "throw" \in Keyword /\ "try" \in Keyword /\ "var" \in Keyword /\ "while" \in Keyword
      /\ "with" \in Keyword
  BY DEF Keyword
<1>6. ASSUME \/ ReadKeyword("break", << <<"Label">> >>)
             \/ ReadKeyword("case", << <<"Expression">>, <<"CaseClause">> >>)
             \/ ReadKeyword("default", << <<"DefaultLabel">> >>)
             \/ ReadKeyword("do", << <<"Statement">>, <<"DoWhile">> >>)
             \/ ReadKeyword("return", << <<"ReturnStatement">> >>)
      PROVE  Paid
  BY <1>5, <1>6, <1>9, <1>10, NamesClose
<1>12. ASSUME ReadKeyword("if", << <<"ParenthesisExpression">>, <<"Statement">>, <<"Else">> >>)
       PROVE  Paid
  <2>1. /\ ClosesNone(<<"ParenthesisExpression">>) /\ ClosesNone(<<"Statement">>)
        /\ ClosesNone(<<"Else">>)
    BY NamesClose
  <2>2. "if" \in Keyword
    BY <1>5
  <2> QED BY <1>11, <1>12, <2>1, <2>2, Zenon
<1>7. ASSUME \/ ReadKeyword("switch", << <<"ParenthesisExpression">>, <<"SwitchStatement">> >>)
             \/ ReadKeyword("throw", << <<"Expression">>, <<"ExpectSemicolon">> >>)
             \/ ReadKeyword("try", << <<"Statement">>, <<"TryStatement">> >>)
             \/ ReadKeyword("var", << <<"BindingElements">>, <<"ExpectSemicolon">> >>)
             \/ ReadKeyword("while", << <<"ParenthesisExpression">>, <<"Statement">> >>)
             \/ ReadKeyword("with", << <<"ParenthesisExpression">>, <<"Statement">> >>)
      PROVE  Paid
  BY <1>5, <1>7, <1>9, <1>10, NamesClose, Zenon
<1>8. ASSUME \/ Peek = "class" /\ Read(<< <<"Class">>, Make(NodeOf("Class")) >>)
             \/ Peek = "function" /\ Read(<< <<"FunctionStar">>, Make(NodeOf("Function")) >>)
             \/ /\ Peek = "debugger"
                /\ Read(<< <<"ExpectSemicolon">>, Make(NodeOf("ExpressionStatement")) >>)
             \/ ReadReturnError(Statement)
             \/ Call(<< <<"Expression">>, <<"ExpressionStatement">> >>)
      PROVE  Paid
  BY <1>1, <1>8, PaidNone, PaidReturns, NamesClose, ArgumentsClose DEF MayRead, CloseBracket
<1> QED BY <1>4, <1>6, <1>7, <1>8, <1>12 DEF ParseKeywordStatement

LEMMA StatementsPay ==
  ASSUME Settled, ParseStatement \/ ParseExpressionStatement \/ ReadJsDoc
           \/ ParseJsDocAsStatement \/ ParseNameAsStatement
           \/ HandleLabeledStatement \/ ParseDefaultLabel
  PROVE  Paid
<1> USE DEF Running, MayRead, MayReadForOne, ClosesBracket, OpenBracket, CloseBracket
<1>1. ASSUME ParseStatement PROVE Paid
  BY <1>1, PaidNone, NamesClose, ArgumentsClose, PaidReturns, Zenon DEF ParseStatement, NameKind, Keyword, DocumentKind, AtStatement
<1>2. ASSUME ParseExpressionStatement PROVE Paid
  BY <1>2, PaidNone, NamesClose, ArgumentsClose, Zenon DEF ParseExpressionStatement
<1>3. ASSUME ReadJsDoc PROVE Paid
  BY <1>3, PaidNone, NamesClose DEF ReadJsDoc, DocumentKind, AtStatement
<1>4. ASSUME ParseJsDocAsStatement PROVE Paid
  BY <1>4, PaidReturns, Zenon DEF ParseJsDocAsStatement
<1>5. ASSUME ParseNameAsStatement PROVE Paid
  BY <1>5, PaidNone, ArgumentsClose, Zenon DEF ParseNameAsStatement, NameKind, Keyword, AtStatement
<1>6. ASSUME HandleLabeledStatement PROVE Paid
  BY <1>6, PaidNone, NamesClose, Zenon DEF HandleLabeledStatement
<1>7. ASSUME ParseDefaultLabel PROVE Paid
  BY <1>7, PaidNone, NamesClose DEF ParseDefaultLabel
<1> QED BY <1>1, <1>2, <1>3, <1>4, <1>5, <1>6, <1>7, Zenon

LEMMA ClausesPay ==
  ASSUME Settled, ParseLabel \/ ParseCaseClause \/ ParseCaseStatement
           \/ ParseIfStatement \/ ParseParenthesisExpression
           \/ ParseReturnStatement \/ ParseSwitchStatement \/ ParseFinally
  PROVE  Paid
<1> USE DEF Running, MayRead, MayReadForOne, ClosesBracket, OpenBracket, CloseBracket
<1>1. ASSUME ParseLabel PROVE Paid
  BY <1>1, PaidNone, NamesClose, Zenon DEF ParseLabel, IsName, NameKind, Keyword
<1>2. ASSUME ParseCaseClause PROVE Paid
  BY <1>2, PaidNone, NamesClose, Zenon DEF ParseCaseClause
<1>3. ASSUME ParseCaseStatement PROVE Paid
  BY <1>3, PaidNone, NamesClose, Zenon DEF ParseCaseStatement
<1>4. ASSUME ParseIfStatement PROVE Paid
  BY <1>4, PaidNone, NamesClose, Zenon DEF ParseIfStatement
<1>5. ASSUME ParseParenthesisExpression PROVE Paid
  BY <1>5, PaidOne, BracketsClose, PaidNone, NamesClose, Zenon DEF ParseParenthesisExpression
<1>6. ASSUME ParseReturnStatement PROVE Paid
  BY <1>6, PaidNone, NamesClose, PaidReturns, Zenon DEF ParseReturnStatement
<1>7. ASSUME ParseSwitchStatement PROVE Paid
  BY <1>7, PaidOne, BracketsClose, PaidNone, Zenon DEF ParseSwitchStatement
<1>8. ASSUME ParseFinally PROVE Paid
  BY <1>8, PaidNone, NamesClose DEF ParseFinally
<1> QED BY <1>1, <1>2, <1>3, <1>4, <1>5, <1>6, <1>7, <1>8, Zenon

LEMMA BlocksPay ==
  ASSUME Settled, ~PeekPastEnd,
         ParseBlockStatement \/ ParseStatements \/ ParseTryStatement \/ ParseDoStatement
           \/ ParseCatchClause
  PROVE  Paid
<1> USE DEF Running, MayRead, MayReadForOne, ClosesBracket, OpenBracket, CloseBracket
<1>1. ASSUME ParseBlockStatement PROVE Paid
  <2>1. Head(todo)[1] = "BlockStatement" /\ CanPeekToken /\ Read(<< <<"Statements">> >>)
    BY <1>1 DEF ParseBlockStatement
  <2>2. CASE Peek = "{"
    BY <2>1, <2>2, PaidOne, BracketsClose
  <2>3. CASE Peek # "{"
    <3>1. GoesAstray
      BY <1>1, <2>1, <2>3 DEF GoesAstray, TakesTokenForBrace, ParseBlockStatement
    <3>2. PICK items : items = << <<"Statements">> >>
      OBVIOUS
    <3>3. Adds(items, 1)
      BY <3>2, BracketsClose, AddsOne
    <3>4. todo' = items \o Tail(todo) /\ crashed' = crashed
      BY <2>1, <3>2 DEF Read, Continue
    <3>5. Waits(Head(todo))
      BY <2>1 DEF Waits
    <3>6. PICK k \in Int : k = 1
      OBVIOUS
    <3>7. Adds(items, k)
      BY <3>3, <3>6
    <3> QED BY <3>1, <3>4, <3>5, <3>6, <3>7, Zenon DEF Paid
  <2> QED BY <2>2, <2>3
<1>2. ASSUME ParseStatements PROVE Paid
  BY <1>2, PaidNone, PaidOne, NamesClose, BracketsClose, Zenon DEF ParseStatements
<1>3. ASSUME ParseTryStatement PROVE Paid
  BY <1>3, PaidNone, PaidItemsNone, NamesClose, ParenthesisPays, Zenon DEF ParseTryStatement
<1>4. ASSUME ParseDoStatement PROVE Paid
  BY <1>4, PaidNone, NamesClose, ArgumentsClose, Zenon DEF ParseDoStatement
<1>5. ASSUME ParseCatchClause PROVE Paid
  BY <1>5, PaidOne, NamesClose, BracketsClose DEF ParseCatchClause
<1> QED BY <1>1, <1>2, <1>3, <1>4, <1>5

LEMMA NamesPay ==
  ASSUME Settled, ParseAfterName
  PROVE  Paid
<1>1. Head(todo)[1] = "NameStatement"
  BY DEF ParseAfterName, Running
<1>2. CASE Peek = ":" /\ Read(<< <<"LabeledStatement">>, Make(Statement) >>)
  BY <1>1, <1>2, PaidNone, NamesClose, ArgumentsClose DEF MayRead, CloseBracket
<1>3. CASE /\ PushBackToken(Argument, CanPeekToken /\ is_separated_by_newline_ /\ StrictSemicolon)
           /\ Continue(<< <<"Expression">>, <<"ExpressionStatement">> >>)
  <2>1. Depth' = Depth
    BY <1>3 DEF PushBackToken, Depth
  <2>2. PICK items : items = << <<"Expression">>, <<"ExpressionStatement">> >>
    OBVIOUS
  <2>6. Adds(items, 0)
    BY <2>2, AddsNone, NamesClose
  <2>3. Owes(Head(todo)) = 0
    BY <1>1 DEF Owes, ClosesBracket
  <2>4. Depth' + Owes(Head(todo)) >= Depth + 0
    BY <2>1, <2>3, Numbers
  <2>5. todo' = items \o Tail(todo) /\ crashed' = crashed
    BY <1>3, <2>2 DEF Continue
  <2>7. Waits(Head(todo))
    BY <1>1 DEF Waits
  <2>8. PICK k \in Int : k = 0
    OBVIOUS
  <2>9. Adds(items, k) /\ Depth' + Owes(Head(todo)) >= Depth + k
    BY <2>4, <2>6, <2>8
  <2> QED BY <2>5, <2>7, <2>8, <2>9 DEF Paid
<1> QED BY <1>2, <1>3 DEF ParseAfterName, IsLabel

LEMMA ForPays ==
  ASSUME Settled, ForNext
  PROVE  Paid
<1> USE DEF Running, MayRead, MayReadForOne, ClosesBracket, OpenBracket, CloseBracket
<1>1. ForBody = << Expect(")"), <<"Statement">> >>
  BY DEF ForBody
<1>2. Adds(ForBody, 1)
  BY <1>1, AddsOne, NamesClose, BracketsClose
<1>3. \A a : ClosesNone(a) => Adds(<<a>> \o ForBody, 1)
  <2>1. SUFFICES ASSUME NEW a, ClosesNone(a) PROVE Adds(<<a>> \o ForBody, 1)
    OBVIOUS
  <2>2. Adds(<<a, Expect(")"), <<"Statement">>>>, 1)
    BY <2>1, AddsOne, NamesClose, BracketsClose
  <2>3. Adds(<<a>> \o << Expect(")"), <<"Statement">> >>, 1)
    BY <2>2, JoinedThree, Zenon
  <2> QED BY <1>1, <2>3, Zenon
<1>4. ASSUME ParseForDocument PROVE Paid
  BY <1>4, PaidOne, BracketsClose, Zenon DEF ParseForDocument, DocumentKind
<1>5. ASSUME ParseForKeyword PROVE Paid
  BY <1>5, PaidOne, NamesClose, BracketsClose, ArgumentsClose DEF ParseForKeyword
<1>6. ASSUME ParseForExpression PROVE Paid
  <2>1. Head(todo)[1] = "ForExpression"
    BY <1>6 DEF ParseForExpression
  <2>2. CASE Peek = "of" /\ Read(<< <<"AssignmentExpression">> >> \o ForBody)
    BY <1>3, <2>1, <2>2, NamesClose, PaidItemsOne, Zenon
  <2>3. CASE \/ Peek = ";" /\ Read(<< <<"ForCondition">> >>)
             \/ ReadError(<<>>) \/ CallError(<<>>)
             \/ ConsumeToken(node.syntax = "InvalidIn") /\ Continue(<< <<"Statement">> >>)
    BY <2>1, <2>3, PaidNone, PaidOne, NamesClose, BracketsClose, Zenon
  <2> QED BY <1>6, <2>2, <2>3 DEF ParseForExpression
<1>7. ASSUME ParseForCondition PROVE Paid
  BY <1>7, PaidOne, NamesClose, BracketsClose, ArgumentsClose DEF ParseForCondition
<1>8. ASSUME ParseForStep PROVE Paid
  <2>1. Head(todo)[1] = "ForStep"
    BY <1>8 DEF ParseForStep
  <2>2. Call(ForBody) \/ Call(<< <<"Expression">> >> \o ForBody)
    BY <1>8 DEF ParseForStep
  <2> QED BY <1>2, <1>3, <2>1, <2>2, NamesClose, PaidItemsOne
<1>9. ASSUME ParseForBinding PROVE Paid
  <2>1. Head(todo)[1] = "ForBinding"
    BY <1>9 DEF ParseForBinding
  <2>2. CASE /\ Peek \in {"in", "of"} /\ ConsumeToken(node.syntax = "InitializedBinding")
             /\ Continue(<< <<"Expression">> >> \o ForBody)
    BY <1>3, <2>1, <2>2, NamesClose, PaidItemsOne, Zenon
  <2>3. CASE \/ CallError(<<>>) \/ CallError(<< Optional(")") >>)
             \/ Peek = ";" /\ Read(<< <<"ForCondition">> >>)
    BY <2>1, <2>3, PaidNone, PaidOne, BracketsClose
  <2> QED BY <1>9, <2>2, <2>3 DEF ParseForBinding
<1> QED BY <1>4, <1>5, <1>6, <1>7, <1>8, <1>9 DEF ForNext

(* A list calls its recovery in front of a token that starts no element.     *)
CallsSkip ==
  /\ Head(todo)[1] \in ClosesBracket /\ crashed' = crashed
  /\ \E error : KeepToken(error)
  /\ \E after :
       /\ ClosesOne(after)
       /\ todo' = << <<"SkipToListElement", Len(brackets)>>, after >> \o Tail(todo)

LEMMA PatternsPay ==
  ASSUME Settled, ParseArrayBindingPattern \/ ParseObjectBindingPattern
  PROVE  Paid \/ CallsSkip
<1> USE DEF Running, MayRead, MayReadForOne, ClosesBracket, OpenBracket, CloseBracket
<1>1. ASSUME ParseArrayBindingPattern PROVE Paid \/ CallsSkip
  <2>1. Head(todo)[1] = "ArrayBinding"
    BY <1>1, Zenon DEF ParseArrayBindingPattern
  <2>2. CASE Call(<< Optional("]"), <<"Initializer">> >>)
    BY <2>1, <2>2, PaidOne, NamesClose, BracketsClose, Zenon
  <2>3. CASE Peek = "," /\ ConsumeToken(Argument) /\ Continue(<< <<"ArrayBinding", FALSE>> >>)
    BY <2>1, <2>3, PaidOne, BracketsClose, Zenon
  <2>4. CASE KeepToken(Argument) /\ Continue(<< <<"BindingElement">>, <<"ArrayBindingElement">> >>)
    BY <2>1, <2>4, PaidOne, NamesClose, BracketsClose
  <2>5. CASE /\ Peek \notin {"]", "end", ","} /\ ~CanStartBindingElement
             /\ KeepToken(Argument)
             /\ Continue(<< <<"SkipToListElement", Len(brackets)>>,
                            <<"ArrayBindingSkipped", Argument>> >>)
    <3>1. PICK after : after = <<"ArrayBindingSkipped", Argument>>
      OBVIOUS
    <3>2. ClosesOne(after)
      BY <3>1, BracketsClose
    <3>3. todo' = << <<"SkipToListElement", Len(brackets)>>, after >> \o Tail(todo) /\ crashed' = crashed
      BY <2>5, <3>1 DEF Continue
    <3> QED BY <2>1, <2>5, <3>2, <3>3 DEF CallsSkip
  <2> QED BY <1>1, <2>2, <2>3, <2>4, <2>5 DEF ParseArrayBindingPattern
<1>2. ASSUME ParseObjectBindingPattern PROVE Paid \/ CallsSkip
  <2>1. Head(todo)[1] = "ObjectBinding"
    BY <1>2, Zenon DEF ParseObjectBindingPattern
  <2>2. CASE \/ Call(<< Optional("}"), <<"Initializer">> >>)
             \/ Peek = "," /\ ReadError(<< <<"ObjectBinding">> >>)
             \/ IsName /\ Read(<< <<"ObjectBindingName">> >>)
    BY <2>1, <2>2, PaidOne, NamesClose, BracketsClose, Zenon DEF IsName, NameKind, Keyword
  <2>3. CASE Call(<< <<"BindingElement">>, <<"ObjectBindingNext">> >>)
    BY <2>1, <2>3, PaidOne, NamesClose, BracketsClose
  <2>4. CASE Call(<< <<"SkipToListElement", Len(brackets)>>, <<"ObjectBindingSkipped">> >>)
    <3>1. PICK after : after = <<"ObjectBindingSkipped">>
      OBVIOUS
    <3>2. ClosesOne(after)
      BY <3>1, BracketsClose
    <3>3. todo' = << <<"SkipToListElement", Len(brackets)>>, after >> \o Tail(todo) /\ crashed' = crashed
      BY <2>4, <3>1 DEF Call, Continue
    <3>4. KeepToken(FALSE)
      BY <2>4 DEF Call
    <3> QED BY <2>1, <3>2, <3>3, <3>4 DEF CallsSkip
  <2> QED BY <1>2, <2>2, <2>3, <2>4 DEF ParseObjectBindingPattern
<1> QED BY <1>1, <1>2

LEMMA EveryTurnPays ==
  ASSUME Settled, Next, ~PeekPastEnd
  PROVE  Paid \/ CallsSkip \/ SkipToListElement \/ Run
<1>1. CASE BindingsNext
  BY <1>1, BindingsPay, PatternsPay DEF BindingsNext
<1>2. CASE ExpressionsNext
  BY <1>2, ExpressionsPay, PrimariesPay, OperationsPay DEF ExpressionsNext
<1>3. CASE StatementsNext
  BY <1>3, KeywordsPay, StatementsPay, ClausesPay, BlocksPay, NamesPay DEF StatementsNext
<1> QED BY <1>1, <1>2, <1>3, DeclarationsPay, MachinePays, ForPays DEF Next

-----------------------------------------------------------------------------
(* A bracket that is open in front of the lexer's token and that no call     *)
(* waits for will be reported.                                               *)

(* Until an error is reported, the tracker has matched every bracket.        *)
BracketsMatch ==
  \/ reported
  \/ \E before \in Seq(OpenBracket) :
       ~Mismatch(current_token_.kind, before) /\ brackets = Feed(current_token_.kind, before)

(* The calls below SkipToListElement wait for it to come to their list.      *)
Account(n) == Debt(IF Running("SkipToListElement") THEN Tail(todo) ELSE todo, n)
AccountIsKept == todo # <<>> => \E n \in Int : Account(n)

BracketsInv == IInv /\ BracketsMatch /\ AccountIsKept

(* The calls wait for fewer brackets than are open.                          *)
LeavesOne(n) ==
  \/ ~Running("SkipToListElement") /\ n < Depth
  \/ Running("SkipToListElement") /\ n < Argument
  \/ Running("SkipToListElement") /\ Peek \in CloseBracket /\ AtListDepth /\ n < Depth

WillReport ==
  \/ reported \/ crashed
  \/ todo # <<>> /\ current_token_ \in EndOfInput /\ brackets # <<>>
  \/ todo # <<>> /\ \E n \in Int : Account(n) /\ LeavesOne(n)

LEMMA TokensMove ==
  ASSUME IInv, Next
  PROVE  /\ reported => reported'
         /\ crashed => crashed'
         /\ \/ brackets' = brackets /\ current_token_' = current_token_
            \/ /\ current_token_ \notin EndOfInput
               /\ \E t : /\ current_token_' = t /\ brackets' = Feed(t.kind, brackets)
                         /\ reported' \/ ~Mismatch(t.kind, brackets)
<1>1. /\ StreamTypeOK /\ node \in Nodes /\ crashed \in BOOLEAN /\ todo \in Seq(Item)
      /\ Chain(todo, node.precedence, 0)
  BY DEF IInv, Chain
<1>2. FittingTurn \/ PeekPastEnd \/ PushBackTurn
  BY <1>1, StepKinds, PlainTurnFits, OperandTurnFits
<1>3. crashed => crashed'
  BY <1>2 DEF FittingTurn, Turn, PeekPastEnd, PushBackTurn, Continue
<1>4. CASE PeekPastEnd
  BY <1>3, <1>4 DEF PeekPastEnd, streamVars, stream
<1>5. CASE PushBackTurn
  BY <1>3, <1>5 DEF PushBackTurn, PushBackToken
<1>6. CASE FittingTurn
  <2>1. PICK error : ConsumeToken(error) \/ KeepToken(error)
    BY <1>6 DEF FittingTurn, Turn, MovesToken
  <2>2. CASE KeepToken(error)
    BY <1>3, <2>2 DEF KeepToken, stream
  <2>3. CASE ConsumeToken(error) /\ token_stack_ # <<>>
    BY <1>3, <2>3 DEF ConsumeToken, PopToken
  <2>4. CASE ConsumeToken(error) /\ token_stack_ = <<>>
    <3>1. current_token_ \notin EndOfInput
      BY <2>4 DEF ConsumeToken, CanPeekToken, PeekToken
    <3>2. PICK t : /\ current_token_' = t /\ brackets' = Feed(t.kind, brackets)
                   /\ reported' = (reported \/ error \/ Mismatch(t.kind, brackets))
      BY <2>4 DEF ConsumeToken, LookAhead
    <3> QED BY <1>3, <3>1, <3>2
  <2> QED BY <2>1, <2>2, <2>3, <2>4
<1> QED BY <1>2, <1>4, <1>5, <1>6

LEMMA MatchStart ==
  ASSUME Init
  PROVE  BracketsMatch
<1>1. PICK t : /\ current_token_ = t /\ brackets = Feed(t.kind, <<>>)
               /\ reported = Mismatch(t.kind, <<>>)
  BY DEF Init, MachineInit, StreamInit
<1>2. <<>> \in Seq(OpenBracket)
  OBVIOUS
<1> QED BY <1>1, <1>2 DEF BracketsMatch

LEMMA MatchStep ==
  ASSUME IInv, BracketsMatch, Next
  PROVE  BracketsMatch'
<1>1. brackets \in Seq(OpenBracket)
  BY DEF IInv, StreamTypeOK
<1>2. CASE brackets' = brackets /\ current_token_' = current_token_
  BY <1>2, TokensMove DEF BracketsMatch, Mismatch, Feed
<1>3. CASE ~(brackets' = brackets /\ current_token_' = current_token_)
  <2>1. PICK t : /\ current_token_' = t /\ brackets' = Feed(t.kind, brackets)
                 /\ reported' \/ ~Mismatch(t.kind, brackets)
    BY <1>3, TokensMove
  <2> QED BY <1>1, <2>1 DEF BracketsMatch, Mismatch, Feed
<1> QED BY <1>2, <1>3

(* In front of Run nothing is owed, and no call waits for SkipToListElement. *)
LEMMA DebtHead ==
  ASSUME NEW S, NEW calls \in Seq(S), NEW n \in Int, Debt(calls, n)
  PROVE  /\ calls # <<>> /\ Head(calls)[1] # "SkipToListElement"
         /\ Head(calls)[1] = "Run" => n = 0 /\ Tail(calls) = <<>>
         /\ Head(calls)[1] # "Run" => Waits(Head(calls))
<1>1. calls # <<>> /\ calls[Len(calls)][1] = "Run" /\ Len(calls) \in Nat /\ Len(calls) >= 1
  BY DEF Debt
<1>2. PICK debt \in [1 .. Len(calls) -> Int] :
        /\ debt[1] = n /\ debt[Len(calls)] = 0
        /\ \A i \in 1 .. Len(calls) - 1 :
             Waits(calls[i]) /\ debt[i] >= debt[i + 1] + Owes(calls[i])
  BY DEF Debt
<1>3. Head(calls) = calls[1]
  BY <1>1
<1>4. CASE Len(calls) = 1
  <2>1. Tail(calls) = <<>> /\ n = 0
    <3>1. Tail(calls) \in Seq(S) /\ Len(Tail(calls)) = 0
      BY <1>1, <1>4, HeadTailProperties
    <3> QED BY <1>2, <1>4, <3>1, EmptySeq
  <2> QED BY <1>1, <1>3, <1>4, <2>1
<1>5. CASE Len(calls) # 1
  <2>1. 1 \in 1 .. Len(calls) - 1
    <3>1. PICK m \in Nat : m = Len(calls) /\ m >= 1 /\ m # 1
      BY <1>1, <1>5
    <3>2. 1 \in 1 .. m - 1
      BY <3>1
    <3> QED BY <3>1, <3>2
  <2>2. Waits(calls[1])
    BY <1>2, <2>1
  <2> QED BY <1>1, <1>3, <2>2 DEF Waits
<1> QED BY <1>4, <1>5

LEMMA DebtOfRun ==
  ASSUME NEW run, run[1] = "Run"
  PROVE  Debt(<<run>>, 0)
<1>1. PICK calls : calls = <<run>>
  OBVIOUS
<1>2. calls # <<>> /\ Len(calls) = 1 /\ calls[1] = run
  BY <1>1
<1>3. PICK debt : debt = [i \in 1 .. 1 |-> 0]
  OBVIOUS
<1>4. debt \in [1 .. 1 -> Int] /\ debt[1] = 0
  BY <1>3
<1>5. \A i \in 1 .. 1 - 1 : Waits(calls[i]) /\ debt[i] >= debt[i + 1] + Owes(calls[i])
  OBVIOUS
<1> QED BY <1>1, <1>2, <1>4, <1>5 DEF Debt

LEMMA Settles ==
  ASSUME IInv, todo # <<>>
  PROVE  /\ Settled /\ Len(brackets) \in Nat /\ Depth \in Int
         /\ Head(todo) \notin WayToPrimary => Peek = current_token_.kind /\ PeekToken = current_token_
<1>1. Settled
  BY DEF IInv, Settled, Chain
<1>2. Len(brackets) \in Nat
  BY DEF IInv, StreamTypeOK
<1>3. Head(todo) \notin WayToPrimary => token_stack_ = <<>>
  BY DEF IInv, PushedBackIsRead
<1> QED BY <1>1, <1>2, <1>3, Numbers DEF Peek, PeekToken

(* A step goes on when it leaves an account: it is no worse than the one     *)
(* before, unless the text ends within a bracket.                            *)
GoesOn(n) ==
  \E m \in Int :
    /\ Account(m)'
    /\ LeavesOne(n) =>
         \/ reported' \/ GoesAstray \/ LeavesOne(m)'
         \/ current_token_' \in EndOfInput /\ brackets' # <<>>

LEMMA PaidGoesOn ==
  ASSUME IInv, IInv', todo # <<>>, Paid, NEW n \in Int, Account(n)
  PROVE  GoesOn(n)
<1>1. /\ Settled /\ todo \in Seq(Item) /\ Head(todo) = todo[1] /\ Tail(todo) \in Seq(Item)
      /\ Depth \in Int /\ todo' \in Seq(Item) /\ Owes(Head(todo)) \in Int
  BY Settles, OwesNumber, HeadTailProperties DEF Settled, IInv, Chain
<1>2. Depth' \in Int
  <2>1. Len(brackets') \in Nat
    BY DEF IInv, StreamTypeOK
  <2> QED BY <2>1 DEF Depth, Bracket
<1>3. Waits(Head(todo)) /\ ~Running("SkipToListElement")
  BY DEF Paid, Waits, Running
<1>4. Debt(todo, n)
  BY <1>3 DEF Account
<1>11. PICK items : \E k \in Int :
         /\ todo' = items \o Tail(todo) /\ Adds(items, k)
         /\ \/ reported' \/ GoesAstray
            \/ Depth' + Owes(Head(todo)) >= Depth + k
  BY DEF Paid
<1>5. PICK k \in Int :
        /\ todo' = items \o Tail(todo) /\ Adds(items, k)
        /\ \/ reported' \/ GoesAstray
           \/ Depth' + Owes(Head(todo)) >= Depth + k
  BY <1>11
<1>6. PICK r \in Int : Debt(Tail(todo), r) /\ n >= r + Owes(Head(todo))
  BY <1>1, <1>3, <1>4, DebtOfRest
<1>7. PICK m \in Int : m = r + k
  BY <1>5, <1>6
<1>8. Debt(todo', m)
  BY <1>1, <1>5, <1>6, <1>7 DEF Adds
<1>9. ~Running("SkipToListElement")' /\ Account(m)'
  <2>1. Head(todo')[1] # "SkipToListElement"
    BY <1>1, <1>8, DebtHead
  <2> QED BY <1>8, <2>1 DEF Running, Account
<1>10. ASSUME n < Depth, ~reported', ~GoesAstray
       PROVE  m < Depth'
  BY <1>1, <1>2, <1>5, <1>6, <1>7, <1>10
<1> QED BY <1>3, <1>9, <1>10 DEF GoesOn, LeavesOne

LEMMA SkipCalled ==
  ASSUME NEW a, NEW b, NEW S, NEW rest \in Seq(S), NEW calls, calls = <<a, b>> \o rest
  PROVE  calls # <<>> /\ Head(calls) = a /\ Tail(calls) = <<b>> \o rest
<1>1. PICK T : S \subseteq T /\ a \in T /\ b \in T
  <2>1. S \subseteq S \cup {a, b} /\ a \in S \cup {a, b} /\ b \in S \cup {a, b}
    OBVIOUS
  <2> QED BY <2>1
<1>2. rest \in Seq(T)
  BY <1>1, SeqMonotonic
<1>3. <<a>> \in Seq(T) /\ <<b>> \in Seq(T)
  BY <1>1
<1>4. PICK after : after = <<b>> \o rest
  OBVIOUS
<1>5. after \in Seq(T)
  BY <1>2, <1>3, <1>4, ConcatProperties
<1>6. calls = <<a>> \o after
  <2>1. (<<a>> \o <<b>>) \o rest = <<a>> \o (<<b>> \o rest)
    BY <1>2, <1>3, ConcatAssociative
  <2> QED BY <1>4, <2>1, JoinedTwo, Zenon
<1>7. <<a>> \o after # <<>> /\ Head(<<a>> \o after) = a /\ Tail(<<a>> \o after) = after
  BY <1>1, <1>5
<1> QED BY <1>4, <1>6, <1>7

LEMMA CalledSkipGoesOn ==
  ASSUME IInv, IInv', todo # <<>>, CallsSkip, NEW n \in Int, Account(n)
  PROVE  GoesOn(n)
<1>1. /\ Settled /\ todo \in Seq(Item) /\ Head(todo) = todo[1] /\ Tail(todo) \in Seq(Item)
      /\ Depth \in Int /\ todo' \in Seq(Item) /\ Len(brackets) \in Nat
  BY Settles, HeadTailProperties DEF Settled, IInv, Chain
<1>2. Head(todo)[1] \in ClosesBracket
  BY DEF CallsSkip
<1>3. /\ Waits(Head(todo)) /\ ~Running("SkipToListElement") /\ Owes(Head(todo)) = 1
      /\ Head(todo) \notin WayToPrimary
  BY <1>2 DEF Waits, Running, Owes, ClosesBracket, WayToPrimary
<1>4. Debt(todo, n)
  BY <1>3 DEF Account
<1>5. PICK r \in Int : Debt(Tail(todo), r) /\ n >= r + 1
  BY <1>1, <1>3, <1>4, DebtOfRest
<1>6. PICK after : /\ ClosesOne(after)
                   /\ todo' = << <<"SkipToListElement", Len(brackets)>>, after >> \o Tail(todo)
  BY DEF CallsSkip
<1>7. Adds(<<after>>, 1)
  BY <1>6, AddsOne
<1>8. Debt(<<after>> \o Tail(todo), r + 1)
  BY <1>1, <1>5, <1>7 DEF Adds
<1>9. /\ todo' # <<>> /\ Head(todo') = <<"SkipToListElement", Len(brackets)>>
      /\ Tail(todo') = <<after>> \o Tail(todo)
  BY <1>1, <1>6, SkipCalled
<1>10. PICK m \in Int : m = r + 1 /\ n >= m
  BY <1>5
<1>11. Running("SkipToListElement")' /\ Argument' = Len(brackets)
  BY <1>9 DEF Running, Argument
<1>12. Account(m)'
  BY <1>8, <1>9, <1>10, <1>11 DEF Account
<1>13. /\ brackets' = brackets /\ current_token_' = current_token_ /\ token_stack_' = token_stack_
  BY DEF CallsSkip, KeepToken, stream
<1>14. Peek' = current_token_.kind
  BY <1>1, <1>3, <1>13, Settles DEF Peek, PeekToken
<1>15. ASSUME n < Depth
       PROVE  LeavesOne(m)'
  <2>1. CASE current_token_.kind \in CloseBracket
    <3>1. Depth' = Depth /\ m < Depth
      BY <1>1, <1>10, <1>13, <1>15 DEF Depth
    <3> QED BY <1>11, <1>13, <1>14, <2>1, <3>1 DEF LeavesOne, AtListDepth
  <2>2. CASE current_token_.kind \notin CloseBracket
    <3>1. Bracket(current_token_.kind) \in {0, 1}
      BY <2>2 DEF Bracket
    <3>2. m < Len(brackets)
      BY <1>1, <1>10, <1>15, <3>1 DEF Depth
    <3> QED BY <1>11, <3>2 DEF LeavesOne
  <2> QED BY <2>1, <2>2
<1> QED BY <1>3, <1>12, <1>15 DEF GoesOn, LeavesOne

LEMMA SkipDepth ==
  ASSUME todo \in Seq(Item), todo # <<>>, Head(todo)[1] = "SkipToListElement"
  PROVE  Argument \in Int
<1>1. PICK item \in Item : item = Head(todo)
  OBVIOUS
<1>2. item \in PlainItem
  BY <1>1 DEF Item, OperandItem, OperandFunction
<1>3. item \in {"SkipToListElement"} \X Nat
  BY <1>1, <1>2 DEF PlainItem, PlainName
<1> QED BY <1>1, <1>3 DEF Argument

LEMMA FlagIsItem ==
  <<"Run", TRUE>> \in Item
BY FlagItems, FreeNeedsNothing

LEMMA HeadAndTail ==
  ASSUME NEW S, NEW calls \in Seq(S), calls # <<>>
  PROVE  <<Head(calls)>> \o Tail(calls) = calls
OBVIOUS

LEMMA SkipGoesOn ==
  ASSUME IInv, IInv', todo # <<>>, SkipToListElement, NEW n \in Int, Account(n)
  PROVE  GoesOn(n)
<1>1. /\ Settled /\ todo \in Seq(Item) /\ Tail(todo) \in Seq(Item) /\ Head(todo) \in Item
      /\ Depth \in Int /\ Len(brackets) \in Nat
  BY Settles, HeadTailProperties DEF Settled
<1>2. Running("SkipToListElement") /\ Head(todo)[1] = "SkipToListElement"
  BY DEF SkipToListElement, Running
<1>3. Head(todo) \notin WayToPrimary
  BY <1>2 DEF WayToPrimary
<1>4. Peek = current_token_.kind /\ PeekToken = current_token_
  BY <1>3, Settles
<1>5. Debt(Tail(todo), n)
  BY <1>2 DEF Account
<1>6. Argument \in Int
  BY <1>1, <1>2, SkipDepth
<1>7. ASSUME todo' = Tail(todo)
      PROVE  ~Running("SkipToListElement")' /\ Account(n)'
  <2>1. Head(todo')[1] # "SkipToListElement"
    BY <1>1, <1>5, <1>7, DebtHead
  <2> QED BY <1>5, <1>7, <2>1 DEF Running, Account
<1>8. ASSUME Read(<<Head(todo)>>), ~(Peek \in CloseBracket /\ AtListDepth)
      PROVE  GoesOn(n)
  <2>1. <<Head(todo)>> \o Tail(todo) = todo
    BY <1>1, HeadAndTail DEF Settled
  <2>2. todo' = todo
    BY <1>8, <2>1 DEF Read, Continue
  <2>3. Running("SkipToListElement")' /\ Account(n)' /\ Argument' = Argument
    BY <1>2, <1>5, <2>2 DEF Running, Account, Argument
  <2>4. LeavesOne(n) => LeavesOne(n)'
    BY <1>2, <1>8, <2>3 DEF LeavesOne
  <2> QED BY <2>3, <2>4 DEF GoesOn
<1>9. CASE ~CanPeekToken /\ JustReturn(NodeOf("NotSkipped"))
  <2>1. todo' = Tail(todo) /\ current_token_' = current_token_ /\ brackets' = brackets
    BY <1>9 DEF JustReturn, KeepToken, stream, Return
  <2>2. current_token_' \in EndOfInput
    BY <1>4, <1>9, <2>1 DEF CanPeekToken
  <2>3. GoesAstray \/ brackets' # <<>>
    BY <1>2, <1>9, <2>1 DEF GoesAstray, RunsPastList
  <2> QED BY <1>7, <2>1, <2>2, <2>3 DEF GoesOn
<1>10. CASE CanPeekToken /\ ~AtListDepth /\ Read(<< Head(todo) >>)
  BY <1>8, <1>10
<1>11. CASE Peek \in CloseBracket /\ AtListDepth /\ JustReturn(NodeOf("NotSkipped"))
  <2>1. todo' = Tail(todo) /\ current_token_' = current_token_ /\ brackets' = brackets
    BY <1>11 DEF JustReturn, KeepToken, stream, Return
  <2>2. Depth' = Depth
    BY <2>1 DEF Depth
  <2>3. Depth = Argument + 1
    <3>1. Bracket(current_token_.kind) = -1
      BY <1>4, <1>11 DEF Bracket, OpenBracket, CloseBracket
    <3>2. Len(brackets) = Argument
      BY <1>11 DEF AtListDepth
    <3> QED BY <1>1, <1>6, <3>1, <3>2 DEF Depth
  <2>4. LeavesOne(n) => n < Depth'
    BY <1>1, <1>2, <1>6, <2>2, <2>3 DEF LeavesOne
  <2> QED BY <1>7, <2>1, <2>4 DEF GoesOn, LeavesOne
<1>12. CASE Peek = "," /\ AtListDepth /\ ReadReturn(NodeOf("Skipped"))
  <2>1. todo' = Tail(todo)
    BY <1>12 DEF ReadReturn, Return
  <2>2. Bracket(Peek) = 0 /\ Peek \notin CloseBracket
    BY <1>12 DEF Bracket, OpenBracket, CloseBracket
  <2>3. reported' \/ Depth' = Depth
    <3>1. reported' \/ Depth' = Depth + Bracket(Peek)
      BY <1>1, <1>12, Numbers DEF ReadReturn
    <3> QED BY <1>1, <2>2, <3>1
  <2>4. Depth = Argument
    <3>1. Len(brackets) = Argument
      BY <1>12 DEF AtListDepth
    <3> QED BY <1>1, <1>4, <2>2, <3>1 DEF Depth
  <2>5. LeavesOne(n) => reported' \/ n < Depth'
    BY <1>2, <2>2, <2>3, <2>4 DEF LeavesOne
  <2> QED BY <1>7, <2>1, <2>5 DEF GoesOn, LeavesOne
<1>13. CASE /\ CanPeekToken /\ Peek \notin CloseBracket \cup {","} /\ AtListDepth
            /\ Read(<< Head(todo) >>)
  BY <1>8, <1>13
<1> QED BY <1>9, <1>10, <1>11, <1>12, <1>13 DEF SkipToListElement

(* Run ends the text: it reports the brackets that are still open.           *)
EndsRun == todo' = <<>> /\ current_token_ \in EndOfInput /\ KeepToken(UnclosedBracket)

LEMMA RunGoesOn ==
  ASSUME IInv, IInv', todo # <<>>, Run, NEW n \in Int, Account(n)
  PROVE  \/ GoesOn(n)
         \/ EndsRun /\ (LeavesOne(n) => reported')
<1>1. /\ Settled /\ todo \in Seq(Item) /\ Depth \in Int /\ Len(brackets) \in Nat
      /\ Tail(todo) \in Seq(Item)
  BY Settles, HeadTailProperties DEF Settled
<1>2. Head(todo)[1] = "Run" /\ ~Running("SkipToListElement")
  BY DEF Run, Running
<1>3. Head(todo) \notin WayToPrimary
  BY <1>2 DEF WayToPrimary
<1>4. Peek = current_token_.kind /\ PeekToken = current_token_
  BY <1>3, Settles
<1>5. n = 0 /\ Tail(todo) = <<>>
  BY <1>1, <1>2, DebtHead DEF Account
<1>6. \A items \in Seq(Item) : items \o Tail(todo) = items
  BY <1>5, ConcatEmptySeq
<1>7. ASSUME NEW run \in Item, run[1] = "Run", todo' = <<run>> \/ todo' = << <<"Statement">>, run >>
      PROVE  ~Running("SkipToListElement")' /\ Account(0)'
  <2>1. Debt(<<run>>, 0)
    BY <1>7, DebtOfRun
  <2>2. Debt(<< <<"Statement">>, run >>, 0)
    <3>1. Adds(<< <<"Statement">> >>, 0)
      BY AddsNone, NamesClose
    <3>2. <<run>> \in Seq(Item)
      OBVIOUS
    <3>3. \A r \in Int : Debt(<<run>>, r) => Debt(<< <<"Statement">> >> \o <<run>>, r + 0)
      BY <3>1, <3>2 DEF Adds
    <3>4. \A r \in Int : r + 0 = r
      OBVIOUS
    <3>5. Debt(<< <<"Statement">> >> \o <<run>>, 0)
      BY <2>1, <3>3, <3>4
    <3>6. << <<"Statement">> >> \o <<run>> = << <<"Statement">>, run >>
      BY JoinedTwo
    <3> QED BY <3>5, <3>6, Zenon
  <2>3. Debt(todo', 0)
    BY <1>7, <2>1, <2>2
  <2>4. ~Running("SkipToListElement")'
    BY <1>7 DEF Running
  <2> QED BY <2>3, <2>4 DEF Account
<1>8. CASE ~CanPeekToken /\ KeepToken(UnclosedBracket) /\ Continue(<<>>)
  <2>1. todo' = <<>>
    <3>1. todo' = <<>> \o Tail(todo)
      BY <1>8 DEF Continue
    <3>2. <<>> \o Tail(todo) = Tail(todo)
      BY <1>1, ConcatEmptySeq
    <3> QED BY <1>5, <3>1, <3>2, Zenon
  <2>2. current_token_ \in EndOfInput
    BY <1>4, <1>8 DEF CanPeekToken
  <2>3. Bracket(current_token_.kind) = 0
    BY <2>2 DEF EndOfInput, Bracket, OpenBracket, CloseBracket
  <2>4. LeavesOne(n) => brackets # <<>>
    BY <1>1, <1>2, <1>5, <2>3 DEF LeavesOne, Depth
  <2> QED BY <1>8, <2>1, <2>2, <2>4 DEF EndsRun, KeepToken, UnclosedBracket
<1>9. CASE /\ Peek = "fileoverview" /\ ConsumeToken(Argument) /\ Continue(<< <<"Run", TRUE>> >>)
  <2>1. <<"Run", TRUE>> \in Item
    BY FlagIsItem
  <2>2. todo' = << <<"Run", TRUE>> >>
    <3>1. << <<"Run", TRUE>> >> \in Seq(Item)
      BY <2>1
    <3>2. todo' = << <<"Run", TRUE>> >> \o Tail(todo)
      BY <1>9 DEF Continue
    <3> QED BY <1>6, <3>1, <3>2, Zenon
  <2>3. reported' \/ Depth' = Depth
    <3>1. Bracket(Peek) = 0
      BY <1>9 DEF Bracket, OpenBracket, CloseBracket
    <3>2. reported' \/ Depth' = Depth + Bracket(Peek)
      BY <1>1, <1>9, Numbers
    <3> QED BY <1>1, <3>1, <3>2
  <2>4. ~Running("SkipToListElement")' /\ Account(0)'
    BY <1>7, <2>1, <2>2
  <2> QED BY <1>2, <1>5, <2>3, <2>4 DEF GoesOn, LeavesOne
<1>10. CASE Call(<< <<"Statement">>, Head(todo) >>)
  <2>1. PICK run \in Item : run = Head(todo)
    BY <1>1 DEF Settled
  <2>2. << <<"Statement">>, run >> \in Seq(Item)
    BY ItemBounds DEF PlainName
  <2>3. todo' = << <<"Statement">>, run >>
    BY <1>6, <1>10, <2>1, <2>2 DEF Call, Continue
  <2>4. Depth' = Depth
    BY <1>10, KeepKeepsDepth DEF Call
  <2>5. ~Running("SkipToListElement")' /\ Account(0)'
    BY <1>2, <1>7, <2>1, <2>3
  <2> QED BY <1>2, <1>5, <2>4, <2>5 DEF GoesOn, LeavesOne
<1> QED BY <1>8, <1>9, <1>10 DEF Run

LEMMA TurnGoesOn ==
  ASSUME IInv, IInv', todo # <<>>, Next, NEW n \in Int, Account(n)
  PROVE  crashed' \/ GoesOn(n) \/ (EndsRun /\ (LeavesOne(n) => reported'))
<1>1. CASE PeekPastEnd
  <2>1. crashed'
    BY <1>1 DEF PeekPastEnd
  <2> QED BY <2>1, Zenon
<1>2. CASE ~PeekPastEnd
  <2>1. Paid \/ CallsSkip \/ SkipToListElement \/ Run
    BY <1>2, Settles, EveryTurnPays
  <2>2. Paid \/ CallsSkip \/ SkipToListElement => GoesOn(n)
    BY PaidGoesOn, CalledSkipGoesOn, SkipGoesOn
  <2>3. Run => GoesOn(n) \/ (EndsRun /\ (LeavesOne(n) => reported'))
    BY RunGoesOn
  <2> QED BY <2>1, <2>2, <2>3, Zenon
<1> QED BY <1>1, <1>2

LEMMA CallsAreRunning ==
  ASSUME Next
  PROVE  todo # <<>>
<1> USE DEF Running
<1>1. CASE MachineNext
  BY <1>1
  DEF MachineNext, MakeNode, ExpectPunctuator, ConsumeTokenIf, ExpectSemicolon
<1>2. CASE BindingsNext
  BY <1>2
  DEF BindingsNext, ParseBindingElements, ParseBindingComma, ParseBindingElement,
      ParseInitializer, ParseArrayBindingPattern, ParseArrayBindingElement,
      ParseArrayBindingSkipped, ParseObjectBindingPattern, ParseObjectBindingName,
      ParseObjectBindingNext, ParseObjectBindingSkipped, SkipToListElement
<1>3. CASE ExpressionsNext
  BY <1>3
  DEF ExpressionsNext, ParseExpression, ParseComma, ParseCommaExpression,
      ParseAssignmentExpression, ParseAssignment, ParseConditionalExpression,
      ParseBinaryExpression, ParseBinaryOperand, NewBinaryExpression,
      ParseUnaryExpression, ParseYieldExpression, ParseUpdateExpression,
      ParseLeftHandSideExpression, HandleNewExpression, HandleCallExpression,
      HandleMember, ParseNewExpression, ParseNewTarget, ParseNewArguments,
      ParseArgumentList, ParseArguments, ParseArgumentEnd, ParsePrimaryExpression,
      ParseNameAsExpression, ParseAsync, ParseArrow, ParseJsDocAsExpression,
      ParseParenthesis, ParseArrayInitializer, ParseRegExpLiteral,
      ParseObjectInitializer, ParseStaticMember, ParsePropertyName,
      ParsePropertyAfterName
<1>4. CASE DeclarationsNext
  BY <1>4
  DEF DeclarationsNext, ParseMethod, ParseArrowFunctionBody, ParseClassName,
      ParseClassHeritage, ParseClassBody, ParseFunctionStar, ParseFunction,
      ParseParameterList, ParseParameters, ParseFunctionBody
<1>5. CASE StatementsNext
  BY <1>5
  DEF StatementsNext, ParseStatement, ParseExpressionStatement, ReadJsDoc,
      ParseJsDocAsStatement, ParseKeywordStatement, ParseNameAsStatement,
      ParseAfterName, HandleLabeledStatement, ParseDefaultLabel,
      ParseBlockStatement, ParseStatements, ParseLabel, ParseCaseClause,
      ParseCaseStatement, ParseDoStatement, ParseIfStatement,
      ParseParenthesisExpression, ParseReturnStatement, ParseSwitchStatement,
      ParseTryStatement, ParseCatchClause, ParseFinally, Run, AtStatement,
      ReadKeyword
<1>6. CASE ForNext
  BY <1>6
  DEF ForNext, ParseForDocument, ParseForKeyword, ParseForExpression,
      ParseForCondition, ParseForStep, ParseForBinding
<1> QED BY <1>1, <1>2, <1>3, <1>4, <1>5, <1>6 DEF Next

LEMMA BracketsStart ==
  ASSUME Init
  PROVE  BracketsInv
<1>1. Debt(<< <<"Run", FALSE>> >>, 0)
  <2>1. <<"Run", FALSE>>[1] = "Run"
    OBVIOUS
  <2> QED BY <2>1, DebtOfRun
<1>2. todo = << <<"Run", FALSE>> >> /\ ~Running("SkipToListElement")
  BY DEF Init, Running
<1>3. Account(0)
  BY <1>1, <1>2 DEF Account
<1> QED BY <1>3, InvariantStart, MatchStart DEF BracketsInv, AccountIsKept

LEMMA BracketsStep ==
  ASSUME BracketsInv, [Next]_parserVars
  PROVE  BracketsInv'
<1>1. IInv /\ BracketsMatch /\ AccountIsKept /\ IInv'
  BY InvariantStep DEF BracketsInv
<1>2. CASE UNCHANGED parserVars
  BY <1>1, <1>2
  DEF BracketsInv, BracketsMatch, AccountIsKept, Account, Running, parserVars, streamVars, stream
<1>3. CASE Next
  <2>1. BracketsMatch'
    BY <1>1, <1>3, MatchStep
  <2>2. AccountIsKept'
    <3>1. SUFFICES ASSUME todo' # <<>>
                   PROVE  \E n \in Int : Account(n)'
      BY DEF AccountIsKept
    <3>2. todo # <<>>
      BY <1>3, CallsAreRunning
    <3>3. PICK n \in Int : Account(n)
      BY <1>1, <3>2 DEF AccountIsKept
    <3>4. CASE PeekPastEnd
      BY <3>1, <3>4 DEF PeekPastEnd
    <3>5. CASE ~PeekPastEnd
      <4>1. Paid \/ CallsSkip \/ SkipToListElement \/ Run
        BY <1>1, <1>3, <3>2, <3>5, Settles, EveryTurnPays
      <4>2. GoesOn(n)
        BY <1>1, <3>1, <3>2, <3>3, <4>1, PaidGoesOn, CalledSkipGoesOn, SkipGoesOn, RunGoesOn
           DEF EndsRun
      <4> QED BY <4>2 DEF GoesOn
    <3> QED BY <3>4, <3>5
  <2> QED BY <1>1, <2>1, <2>2 DEF BracketsInv
<1> QED BY <1>2, <1>3

(* A statement at the top of the text that leaves a bracket open leaves one  *)
(* that no call waits for.                                                   *)
LEMMA OpenBracketIsLeft ==
  ASSUME BracketsInv, LeavesBracketOpen
  PROVE  WillReport
<1>1. IInv /\ BracketsMatch /\ AccountIsKept
  BY DEF BracketsInv
<1>2. todo # <<>> /\ Head(todo)[1] = "Run" /\ ~Running("SkipToListElement")
  BY DEF LeavesBracketOpen, Running
<1>3. Head(todo) \notin WayToPrimary
  BY <1>2 DEF WayToPrimary
<1>4. Peek = current_token_.kind /\ Settled /\ Len(brackets) \in Nat
  BY <1>1, <1>2, <1>3, Settles
<1>5. PICK n \in Int : Account(n)
  BY <1>1, <1>2 DEF AccountIsKept
<1>6. n = 0
  BY <1>2, <1>4, <1>5, DebtHead DEF Account, Settled
<1>7. CASE reported
  BY <1>7 DEF WillReport
<1>8. CASE ~reported
  <2>1. PICK before \in Seq(OpenBracket) :
          ~Mismatch(current_token_.kind, before) /\ brackets = Feed(current_token_.kind, before)
    BY <1>1, <1>8 DEF BracketsMatch
  <2>2. Len(brackets) = Len(before) + Bracket(current_token_.kind)
    BY <2>1, FedDepth
  <2>3. before # <<>>
    BY <1>4, <2>1 DEF LeavesBracketOpen
  <2>4. Len(before) > 0
    BY <2>3
  <2>5. Depth = Len(before)
    <3>1. Bracket(current_token_.kind) \in Int
      BY DEF Bracket
    <3> QED BY <2>2, <3>1 DEF Depth
  <2> QED BY <1>2, <1>5, <1>6, <2>4, <2>5 DEF WillReport, LeavesOne
<1> QED BY <1>7, <1>8

LEMMA WillReportStep ==
  ASSUME BracketsInv, BracketsInv', [Next]_parserVars, WillReport
  PROVE  WillReport' \/ GoesAstray
<1>1. IInv /\ IInv' /\ AccountIsKept /\ AccountIsKept'
  BY DEF BracketsInv
<1>2. CASE UNCHANGED parserVars
  <2>1. /\ reported' = reported /\ crashed' = crashed /\ todo' = todo
        /\ current_token_' = current_token_ /\ brackets' = brackets /\ token_stack_' = token_stack_
    BY <1>2 DEF parserVars, streamVars, stream
  <2>2. \A n : Account(n)' = Account(n)
    BY <2>1 DEF Account, Running
  <2>3. \A n : LeavesOne(n) => LeavesOne(n)'
    BY <2>1 DEF LeavesOne, Running, Depth, Argument, Peek, PeekToken, AtListDepth
  <2> QED BY <2>1, <2>2, <2>3 DEF WillReport
<1>3. CASE Next
  <2>1. todo # <<>>
    BY <1>3, CallsAreRunning
  <2>2. (reported => reported') /\ (crashed => crashed')
    BY <1>1, <1>3, TokensMove
  <2>3. \A m \in Int : Account(m)' => todo' # <<>>
    BY DEF Account, Debt, Running
  <2>4. CASE reported \/ crashed
    BY <2>2, <2>4 DEF WillReport
  <2>5. CASE current_token_ \in EndOfInput /\ brackets # <<>>
    <3>1. current_token_' \in EndOfInput /\ brackets' # <<>>
      BY <1>1, <1>3, <2>5, TokensMove
    <3>2. PICK n \in Int : Account(n)
      BY <1>1, <2>1 DEF AccountIsKept
    <3>3. CASE GoesOn(n)
      BY <2>3, <3>1, <3>3 DEF GoesOn, WillReport
    <3>4. CASE EndsRun
      BY <2>5, <3>4 DEF EndsRun, KeepToken, UnclosedBracket, WillReport
    <3>5. CASE crashed'
      BY <3>5 DEF WillReport
    <3> QED BY <1>1, <1>3, <2>1, <3>2, <3>3, <3>4, <3>5, TurnGoesOn
  <2>6. ASSUME NEW n \in Int, Account(n), LeavesOne(n)
        PROVE  WillReport' \/ GoesAstray
    <3>1. CASE GoesOn(n)
      <4>1. PICK m \in Int :
              /\ Account(m)'
              /\ \/ reported' \/ GoesAstray \/ LeavesOne(m)'
                 \/ current_token_' \in EndOfInput /\ brackets' # <<>>
        BY <2>6, <3>1 DEF GoesOn
      <4> QED BY <2>3, <4>1 DEF WillReport
    <3>2. CASE crashed' \/ reported'
      BY <3>2 DEF WillReport
    <3> QED BY <1>1, <1>3, <2>1, <2>6, <3>1, <3>2, TurnGoesOn
  <2> QED BY <2>4, <2>5, <2>6 DEF WillReport
<1> QED BY <1>2, <1>3

(* When a statement at the top of the text leaves a bracket open, an error   *)
(* is reported before the end of every text, unless a function goes astray   *)
(* (parser.cc, Run; parser/utils/bracket_tracker.cc).                        *)
THEOREM BracketsCorrect == Spec => OpenBracketIsReported
<1>1. Spec => []BracketsInv
  BY BracketsStart, BracketsStep, PTL DEF Spec
<1>2. BracketsInv /\ LeavesBracketOpen => WillReport
  BY OpenBracketIsLeft
<1>3. BracketsInv /\ BracketsInv' /\ [Next]_parserVars /\ WillReport => WillReport' \/ GoesAstray
  BY WillReportStep
<1>4. WillReport => (Terminated /\ ~crashed => reported)
  BY DEF WillReport, Terminated
<1>5. (Terminated /\ ~crashed => reported) <=> ~(Terminated /\ ~crashed /\ ~reported)
  OBVIOUS
<1> QED BY <1>1, <1>2, <1>3, <1>4, PTL DEF Spec, OpenBracketIsReported
=============================================================================
