---------------------------- MODULE ParserBindings ----------------------------
(* parser/parser_bindings.cc: the binding elements of declarations and  *)
(* parameter lists, and the recovery of lists, Parser::SkipToListElement *)
(* of parser/parser.cc.                                                  *)
EXTENDS ParserMachine

CanStartBindingElement == IsName \/ Peek \in {"...", "{", "["}
HasInitializer(n) == n.syntax = "InitializedBinding"
IsValidForBinding(n) == n.syntax \in {"Binding", "InitializedBinding"}

(* ParseBindingElements: the rest of the loop is BindingComma. *)
ParseBindingElements ==
    /\ Running("BindingElements")
    /\ \/ ~CanPeekToken /\ Call(<<>>)
       \/ CanPeekToken /\ Call(<< <<"BindingElement">>, <<"BindingComma">> >>)

EndsBindingElements ==
    \/ ~CanStartBindingElement
    \/ is_separated_by_newline_ /\ ~StrictSemicolon

ParseBindingComma ==
    /\ Running("BindingComma")
    /\ \/ Peek = "," /\ Read(<< <<"BindingElements">> >>)
       \/ Peek # "," /\ EndsBindingElements /\ Call(<<>>)
       \/ Peek # "," /\ ~EndsBindingElements /\ CallError(<< <<"BindingElements">> >>)

ParseBindingElement ==
    /\ Running("BindingElement")
    /\ \/ IsName /\ Read(<< <<"Initializer">> >>)
       \/ Peek = "..." /\ Read(<< <<"BindingElement">>, Make(NodeOf("RestBinding")) >>)
       \/ Peek = "{" /\ Read(<< <<"ObjectBinding">> >>)
       \/ Peek = "[" /\ Read(<< <<"ArrayBinding", FALSE>> >>)
       \/ CanPeekToken /\ ~CanStartBindingElement
             /\ ReturnError(NodeOf("InvalidBinding"))
       \/ PeekPastEnd

(* The end of a name element and of a pattern. *)
ParseInitializer ==
    /\ Running("Initializer")
    /\ \/ Peek = "=" /\ Read(<< <<"AssignmentExpression">>,
                               Make(NodeOf("InitializedBinding")) >>)
       \/ Peek # "=" /\ JustReturn(NodeOf("Binding"))

(* ParseArrayBindingPattern after its bracket.  The argument tells whether *)
(* the last element is a rest element, which nothing may follow.           *)
ParseArrayBindingPattern ==
    /\ Running("ArrayBinding")
    /\ \/ Peek \in {"]", "end"} /\ Call(<< Optional("]"), <<"Initializer">> >>)
       \/ Peek = "," /\ ConsumeToken(Argument) /\ Continue(<< <<"ArrayBinding", FALSE>> >>)
       \/ /\ CanStartBindingElement
          /\ KeepToken(Argument)
          /\ Continue(<< <<"BindingElement">>, <<"ArrayBindingElement">> >>)
       \/ /\ Peek \notin {"]", "end", ","} /\ ~CanStartBindingElement
          /\ KeepToken(Argument)
          /\ Continue(<< <<"SkipToListElement", Len(brackets)>>,
                         <<"ArrayBindingSkipped", Argument>> >>)

ParseArrayBindingElement ==
    /\ Running("ArrayBindingElement")
    /\ Call(<< <<"ArrayBinding", node.syntax = "RestBinding">> >>)

ParseArrayBindingSkipped ==
    /\ Running("ArrayBindingSkipped")
    /\ \/ node.syntax = "Skipped" /\ CallError(<< <<"ArrayBinding", Argument>> >>)
       \/ node.syntax = "NotSkipped" /\ Call(<< Optional("]"), <<"Initializer">> >>)

(* ParseObjectBindingPattern after its brace. *)
ParseObjectBindingPattern ==
    /\ Running("ObjectBinding")
    /\ \/ Peek \in {"}", "end"} /\ Call(<< Optional("}"), <<"Initializer">> >>)
       \/ Peek = "," /\ ReadError(<< <<"ObjectBinding">> >>)
       \/ IsName /\ Read(<< <<"ObjectBindingName">> >>)
       \/ CanStartBindingElement /\ ~IsName
             /\ Call(<< <<"BindingElement">>, <<"ObjectBindingNext">> >>)
       \/ Peek \notin {"}", "end", ","} /\ ~CanStartBindingElement
             /\ Call(<< <<"SkipToListElement", Len(brackets)>>,
                        <<"ObjectBindingSkipped">> >>)

ParseObjectBindingName ==
    /\ Running("ObjectBindingName")
    /\ \/ Peek = ":" /\ Read(<< <<"BindingElement">>, <<"ObjectBindingNext">> >>)
       \/ Peek = "=" /\ Read(<< <<"AssignmentExpression">>, <<"ObjectBindingNext">> >>)
       \/ Peek \notin {":", "="} /\ Call(<< <<"ObjectBindingNext">> >>)

ParseObjectBindingNext ==
    /\ Running("ObjectBindingNext")
    /\ \/ Peek = "," /\ Read(<< <<"ObjectBinding">> >>)
       \/ CanStartBindingElement /\ CallError(<< <<"ObjectBinding">> >>)
       \/ Peek # "," /\ ~CanStartBindingElement /\ Call(<< <<"ObjectBinding">> >>)

ParseObjectBindingSkippedAgain ==
    /\ Running("ObjectBindingSkipped")
    /\ KeepToken(node.syntax = "Skipped")
    /\ Continue(<< <<"ObjectBinding">> >>)

ParseObjectBindingSkipped ==
    /\ Running("ObjectBindingSkipped")
    /\ \/ node.syntax = "Skipped" /\ CallError(<< <<"ObjectBinding">> >>)
       \/ node.syntax = "NotSkipped" /\ Call(<< Optional("}"), <<"Initializer">> >>)

(* SkipToListElement: the argument is the depth of the brackets when it was *)
(* called.  The tracker has been fed the token that is peeked.              *)
AtListDepth == Len(brackets) = Argument

SkipToListElement ==
    /\ Running("SkipToListElement")
    /\ \/ ~CanPeekToken /\ JustReturn(NodeOf("NotSkipped"))
       \/ CanPeekToken /\ ~AtListDepth /\ Read(<< Head(todo) >>)
       \/ Peek \in CloseBracket /\ AtListDepth /\ JustReturn(NodeOf("NotSkipped"))
       \/ Peek = "," /\ AtListDepth /\ ReadReturn(NodeOf("Skipped"))
       \/ /\ CanPeekToken /\ Peek \notin CloseBracket \cup {","} /\ AtListDepth
          /\ Read(<< Head(todo) >>)

BindingsNext ==
    \/ ParseBindingElements \/ ParseBindingComma \/ ParseBindingElement
    \/ ParseInitializer \/ ParseArrayBindingPattern \/ ParseArrayBindingElement
    \/ ParseArrayBindingSkipped \/ ParseObjectBindingPattern
    \/ ParseObjectBindingName \/ ParseObjectBindingNext
    \/ ParseObjectBindingSkipped \/ SkipToListElement
=============================================================================
