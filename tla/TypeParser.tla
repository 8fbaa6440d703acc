------------------------------ MODULE TypeParser -------------------------------
(***************************************************************************)
(* The parser of type expressions (parser/type/type_parser.cc), one        *)
(* operator per function.  A state p of the parser holds the look-ahead    *)
(* token, the end of the range, the open brackets that the bracket tracker *)
(* has met, the errors, and the node that the last function returned.      *)
(*                                                                         *)
(* Nodes are tuples: the syntax, then the parts.  TypeTokens gives back    *)
(* the tokens that a tree was made from; what the parser dropped is        *)
(* missing there.  The ranges of the nodes are left out.                   *)
(***************************************************************************)
EXTENDS TypeLexer

NotAName == Punctuation \cup {".", "...", "Invalid", "end"}
IsName(kind) == kind \notin NotAName
CanStartType(kind) == IsName(kind) \/ kind \in {"(", "[", "{", "?", "*"}

(* BracketTracker with the four pairs of type expressions; brackets holds *)
(* the open ones, innermost first.                                        *)
TypeClosing == [b \in {"(", "[", "{", "<"} |->
                  CASE b = "(" -> ")" [] b = "[" -> "]"
                    [] b = "{" -> "}" [] b = "<" -> ">"]
IsClose(kind) == \E b \in DOMAIN TypeClosing : TypeClosing[b] = kind
Closes(kind, brackets) == brackets # <<>> /\ TypeClosing[Head(brackets)] = kind
FeedBracket(kind, brackets) ==
    IF kind \in DOMAIN TypeClosing THEN <<kind>> \o brackets
    ELSE IF Closes(kind, brackets) THEN Tail(brackets)
    ELSE brackets

(* Reading tokens. *)
TypeErrorsOf(token) == IF token.error THEN {"TYPE_UNEXPECT_DOT"} ELSE {}
StartingWith(token, end) ==
    [token |-> token, end |-> end, brackets |-> <<>>,
     errors |-> TypeErrorsOf(token), node |-> <<"InvalidType">>]
NewTypeParser(start, end) == StartingWith(NextToken(start, end), end)
CanPeekToken(p) == p.token.kind # "end"
Peek(p) == p.token.kind
TypeError(p, error) == [p EXCEPT !.errors = @ \cup {error}]
Advance(p, next) ==
    LET mismatch == IsClose(Peek(p)) /\ ~Closes(Peek(p), p.brackets) IN
    [p EXCEPT !.token = next,
              !.brackets = FeedBracket(Peek(p), p.brackets),
              !.errors = @ \cup TypeErrorsOf(next)
                         \cup (IF mismatch THEN {"TYPE_UNEXPECT_BRACKET"} ELSE {})]
ConsumeToken(p) == Advance(p, NextToken(p.token.end, p.end))
ConsumeTokenIf(p, kind) == IF Peek(p) = kind THEN ConsumeToken(p) ELSE p
RECURSIVE SkipTokensTo(_, _)
SkipTokensTo(p, kind) ==
    IF ~CanPeekToken(p) \/ Peek(p) = kind THEN p
    ELSE SkipTokensTo(ConsumeToken(p), kind)

(* The node of a bracketed list: the closing bracket may be missing. *)
Node(p, node) == [p EXCEPT !.node = node]
CloseList(p, close, node) ==
    Node(ConsumeTokenIf(SkipTokensTo(p, close), close), node)

(* ParseQualifiedName: the name before the dots is read. *)
RECURSIVE ParseMemberNames(_, _)
ParseMemberName(p, member) ==
    IF ~IsName(Peek(p)) THEN Node(TypeError(p, "TYPE_EXPECT_TYPE"), member)
    ELSE ParseMemberNames(ConsumeToken(p), <<"MemberType", member, Peek(p)>>)
ParseMemberNames(p, member) ==
    IF Peek(p) # "." THEN Node(p, member)
    ELSE ParseMemberName(ConsumeToken(p), member)
ParseQualifiedName(p, name) == ParseMemberNames(p, <<"TypeName", name>>)

RECURSIVE ParseNonOptionalType(_), ParseNonUnionType(_)

(* ParseUnionType, ParseOptionalType.  An operator named After takes the   *)
(* state in which a part was read, with that part as its node.             *)
RECURSIVE ParseUnionMembers(_, _)
AfterUnionMember(p, types) ==
    IF Peek(p) = "|" THEN ParseUnionMembers(ConsumeToken(p), Append(types, p.node))
    ELSE Node(p, IF types = <<>> THEN p.node
                 ELSE <<"UnionType", Append(types, p.node)>>)
ParseUnionMembers(p, types) == AfterUnionMember(ParseNonUnionType(p), types)
ParseUnionType(p) == ParseUnionMembers(p, <<>>)

AfterOptionalType(p) ==
    IF Peek(p) # "=" THEN p
    ELSE Node(ConsumeToken(p), <<"OptionalType", p.node>>)
ParseOptionalType(p) == AfterOptionalType(ParseNonOptionalType(p))

(* ParseTypeArguments, called at the angle bracket. *)
RECURSIVE ParseArguments(_, _)
AfterArgument(p, arguments) ==
    IF Peek(p) = "," THEN ParseArguments(ConsumeToken(p), arguments)
    ELSE CloseList(p, ">", arguments)
AddArgument(p, arguments) == AfterArgument(p, Append(arguments, p.node))
ParseArguments(p, arguments) ==
    IF Peek(p) \in {"end", ">"} THEN CloseList(p, ">", arguments)
    ELSE AddArgument(ParseNonOptionalType(p), arguments)
ParseTypeArguments(p) == ParseArguments(ConsumeToken(p), <<>>)

Apply(p, name) == Node(p, <<"TypeApplication", name, p.node>>)
AfterTypeName(p) ==
    IF Peek(p) # "<" THEN p ELSE Apply(ParseTypeArguments(p), p.node)
ParseNameAsType(p, name) == AfterTypeName(ParseQualifiedName(p, name))

(* ParseParameters; a type that may not start a parameter ends the list. *)
AfterFunctionKind(p) ==
    IF Peek(p) = ":" THEN ConsumeToken(p) ELSE TypeError(p, "TYPE_EXPECT_COLON")
ParseFunctionKind(p) ==
    IF Peek(p) \notin {"new", "this"} THEN p
    ELSE AfterFunctionKind(ConsumeToken(p))

CloseAnyParameters(p, expect_type, parameters) == CloseList(p, ")", parameters)
CloseParameters(p, expect_type, parameters) ==
    CloseList(IF expect_type THEN TypeError(p, "TYPE_EXPECT_TYPE") ELSE p,
              ")", parameters)
RECURSIVE ParseParameterList(_, _, _)
AfterParameter(p, parameters) ==
    IF Peek(p) \in {"end", ")"} THEN CloseParameters(p, FALSE, parameters)
    ELSE ParseParameterList(IF Peek(p) = "," THEN ConsumeToken(p)
                            ELSE TypeError(p, "TYPE_EXPECT_COMMA"),
                            TRUE, parameters)
AddParameter(p, parameters) == AfterParameter(p, Append(parameters, p.node))
ParseParameterList(p, expect_type, parameters) ==
    IF Peek(p) \in {"end", ")"} THEN CloseParameters(p, expect_type, parameters)
    ELSE IF ~CanStartType(Peek(p)) THEN CloseParameters(p, FALSE, parameters)
    ELSE AddParameter(ParseOptionalType(p), parameters)

FunctionOf(p, kind) == Node(p, <<"FunctionType", kind, p.node>>)
AfterOpenParenthesis(p) ==
    LET kind == IF Peek(p) \in {"new", "this"} THEN Peek(p) ELSE "normal" IN
    FunctionOf(ParseParameterList(ParseFunctionKind(p), kind # "normal", <<>>), kind)
ParseParameters(p) == AfterOpenParenthesis(ConsumeToken(p))

Returning(p, function) == Node(p, Append(function, p.node))
AfterParameters(p) ==
    IF Peek(p) # ":" THEN Node(p, Append(p.node, <<"VoidType">>))
    ELSE Returning(ParseNonOptionalType(ConsumeToken(p)), p.node)
ParseFunctionType(p, name) ==
    IF Peek(p) # "(" THEN Node(p, <<"TypeName", name>>)
    ELSE AfterParameters(ParseParameters(p))

RECURSIVE ParseRecordMembers(_, _)
AfterMember(p, members) ==
    IF Peek(p) = "," THEN ParseRecordMembers(ConsumeToken(p), members)
    ELSE CloseList(p, "}", <<"RecordType", members>>)
AddProperty(p, name, members) ==
    AfterMember(p, Append(members, <<"Property", name, p.node>>))
AfterColon(p, name, members) ==
    IF ~CanPeekToken(p) THEN CloseList(p, "}", <<"RecordType", members>>)
    ELSE AddProperty(ParseNonOptionalType(p), name, members)
AfterMemberName(p, name, members) ==
    IF Peek(p) = ":" THEN AfterColon(ConsumeToken(p), name, members)
    ELSE AfterMember(p, Append(members, <<"Name", name>>))
ParseRecordMembers(p, members) ==
    IF ~IsName(Peek(p)) THEN CloseList(p, "}", <<"RecordType", members>>)
    ELSE AfterMemberName(ConsumeToken(p), Peek(p), members)
ParseRecordType(p) == ParseRecordMembers(p, <<>>)

RECURSIVE ParseTupleMembers(_, _)
AfterElement(p, members) ==
    IF Peek(p) = "," THEN ParseTupleMembers(ConsumeToken(p), members)
    ELSE IF CanStartType(Peek(p))
      THEN ParseTupleMembers(TypeError(p, "TYPE_EXPECT_COMMA"), members)
    ELSE CloseList(p, "]", <<"TupleType", members>>)
AddElement(p, members) == AfterElement(p, Append(members, p.node))
ParseTupleMembers(p, members) ==
    IF Peek(p) \in {"end", "]"}
      THEN CloseList(IF members = <<>> THEN TypeError(p, "TYPE_EXPECT_TYPE") ELSE p,
                     "]", <<"TupleType", members>>)
    ELSE AddElement(ParseNonOptionalType(p), members)
ParseTupleType(p) == ParseTupleMembers(p, <<>>)

AfterGroup(p) == Node(ConsumeTokenIf(p, ")"), <<"TypeGroup", p.node>>)
ParseTypeGroup(p) == AfterGroup(ParseNonOptionalType(p))

(* A prefix of a type: the question mark alone is a type as well. *)
Prefixed(p, syntax) == Node(p, <<syntax, p.node>>)
ParsePrefixedType(p, syntax) ==
    Prefixed(ParseNonOptionalType(ConsumeToken(p)), syntax)

(* ParseNonUnionType reads the next token without asking whether there is *)
(* one; a token that starts no type becomes an invalid type.              *)
ParseNonUnionType(p) ==
    LET q == ConsumeToken(p) IN
    CASE Peek(p) = "end" -> Node(TypeError(p, PastEnd), <<"InvalidType">>)
      [] Peek(p) = "*" -> Node(q, <<"AnyType">>)
      [] Peek(p) = "?" -> IF CanStartType(Peek(q))
                            THEN ParsePrefixedType(p, "NullableType")
                            ELSE Node(q, <<"UnknownType">>)
      [] Peek(p) = "!" -> ParsePrefixedType(p, "NonNullableType")
      [] Peek(p) = "..." -> ParsePrefixedType(p, "RestType")
      [] Peek(p) = "function" -> ParseFunctionType(q, "function")
      [] Peek(p) = "{" -> ParseRecordType(q)
      [] Peek(p) = "[" -> ParseTupleType(q)
      [] Peek(p) = "(" -> ParseTypeGroup(q)
      [] IsName(Peek(p)) /\ Peek(p) # "function" -> ParseNameAsType(q, Peek(p))
      [] OTHER -> Node(q, <<"InvalidType">>)

ParseNonOptionalType(p) ==
    IF CanPeekToken(p) THEN ParseUnionType(p)
    ELSE Node(TypeError(p, "TYPE_EXPECT_TYPE"), <<"InvalidType">>)

(* TypeParser::Parse *)
AtEnd(p) ==
    [p EXCEPT !.errors =
        @ \cup (IF p.brackets # <<>> THEN {"TYPE_EXPECT_BRACKET"} ELSE {})
          \cup (IF CanPeekToken(p) THEN {"TYPE_UNEXPECT_TOKEN"} ELSE {})]
ParseTypeRange(start, end) == AtEnd(ParseOptionalType(NewTypeParser(start, end)))
================================================================================
