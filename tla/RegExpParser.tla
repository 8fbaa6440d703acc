----------------------------- MODULE RegExpParser ------------------------------
(***************************************************************************)
(* The parser of regular expressions (parser/regexp/regexp_parser.cc), one *)
(* operator per function.  Its state x is the state of the lexer, with     *)
(* the number of groups_ in progress and the node that the last function   *)
(* returned.  Nodes are tuples: the syntax, then the parts or the range;   *)
(* of the ranges only those of the leaves are kept.                        *)
(***************************************************************************)
EXTENDS RegExpLexer

ParserOf(x) ==
    [at |-> x.at, start |-> x.start, end |-> x.end, errors |-> x.errors,
     group_ |-> x.group_, token |-> x.token, groups_ |-> 0, node |-> <<"Empty">>]
NewRegExpParser(start, end) == ParserOf(NextRegExpToken(NewRegExpLexer(start, end)))

HasToken(x) == x.token.kind # "end"
TokenIs(x, kind) == x.token.kind = kind
Consume(x) == NextRegExpToken(x)
ConsumeIf(x, kind) == IF TokenIs(x, kind) THEN Consume(x) ELSE x
Result(x, node) == [x EXCEPT !.node = node]
Leaf(kind, token) == <<kind, token.start, token.end>>
RegExpError(x, error) == [x EXCEPT !.errors = @ \cup {error}]
(* ScopedNodeFactory: every function begins with the range of a token. *)
PeekForRange(x) == IF HasToken(x) THEN x ELSE RegExpError(x, PastEnd)

RECURSIVE ParseOr(_)

(* ParseParenthesis; "(?:)" is an empty sequence. *)
CloseGroup(x) ==
    [IF TokenIs(x, ")") THEN Consume(x) ELSE RegExpError(x, "REGEXP_EXPECT_RPAREN")
       EXCEPT !.groups_ = @ - 1]
GroupAt(x) ==
    IF TokenIs(x, ")") THEN Result(Consume(x), <<"Sequence", <<>>>>)
    ELSE CloseGroup(ParseOr([x EXCEPT !.groups_ = @ + 1]))
ParseParenthesis(x) == GroupAt(PeekForRange(x))

LeafKind == {"AnyChar", "Assertion", "CharSet", "ComplementCharSet", "Literal"}
Capture(x) == Result(x, <<"Capture", x.node>>)
AfterToken(x, token) ==
    CASE token.kind \in LeafKind -> Result(x, Leaf(token.kind, token))
      [] token.kind = "(" -> Capture(ParseParenthesis(x))
      [] token.kind = ":" -> ParseParenthesis(x)
      [] OTHER ->
           IF StrictRegExp
             THEN Result(RegExpError(x, "REGEXP_EXPECT_PRIMARY"),
                         Leaf("Invalid", token))
             ELSE Result(x, Leaf("Literal", token))
ParsePrimary(x) == AfterToken(Consume(x), x.token)

AfterPrimary(x) ==
    IF TokenIs(x, "Repeat")
      THEN Result(Consume(x), <<"Repeat", x.node, x.token.start, x.token.end>>)
      ELSE x
ParseRepeat(x) == AfterPrimary(ParsePrimary(x))

(* ParseSequence: literals next to each other become one. *)
CanMergeNodes(node1, node2) == node1[1] = "Literal" /\ node2[1] = "Literal"
AddLastLiteral(patterns, node) ==
    LET n == Len(patterns) IN
    IF n > 0 /\ CanMergeNodes(patterns[n], node)
      THEN [patterns EXCEPT ![n] = node]
      ELSE Append(patterns, node)
AddPattern(patterns, node) ==
    LET n == Len(patterns) IN
    IF n > 0 /\ CanMergeNodes(patterns[n], node)
      THEN [patterns EXCEPT ![n] = <<"Literal", @[2], node[3]>>]
      ELSE Append(patterns, node)
RECURSIVE ParsePatterns(_, _)
AfterPattern(x, patterns) ==
    IF x.token.kind \in {"end", "|"} \/ (TokenIs(x, ")") /\ x.groups_ > 0)
      THEN Result(x, IF Len(patterns) = 1 THEN Head(patterns)
                     ELSE <<"Sequence", patterns>>)
    ELSE ParsePatterns(x, patterns)
NextPattern(x, patterns) == AfterPattern(x, AddPattern(patterns, x.node))
ParsePatterns(x, patterns) == NextPattern(ParseRepeat(x), patterns)
ParseSequence(x) == ParsePatterns(x, <<>>)

(* ParseOr: a member may be empty.  The closing parenthesis after a bar is *)
(* left to the caller, whoever that is.                                    *)
EmptyAt(token) == <<"EmptyPattern", token.start, token.end>>
RECURSIVE ParseMembers(_, _)
AfterMember(x, members) == ParseMembers(x, Append(members, x.node))
AfterBar(x, members) ==
    LET more == Append(members, EmptyAt(x.token)) IN
    IF x.token.kind \in {"end", ")"} THEN Result(x, <<"Or", more>>)
    ELSE IF TokenIs(x, "|") THEN ParseMembers(Consume(x), more)
    ELSE AfterMember(ParseSequence(x), members)
ParseMembers(x, members) ==
    IF TokenIs(x, "|") THEN AfterBar(Consume(x), members)
    ELSE Result(x, IF Len(members) = 1 THEN Head(members) ELSE <<"Or", members>>)
ParseOr(x) ==
    IF ~HasToken(x) THEN PeekForRange(x)
    ELSE IF TokenIs(x, "|") THEN ParseMembers(x, <<EmptyAt(x.token)>>)
    ELSE AfterMember(ParseSequence(x), <<>>)

(* RegExpParser::Parse *)
ParsePattern(start, end) == ParseOr(NewRegExpParser(start, end))

(* The ranges of a tree, in the order of the text. *)
RECURSIVE LeavesOf(_), LeavesOfAll(_)
LeavesOfAll(nodes) ==
    IF nodes = <<>> THEN <<>> ELSE LeavesOf(Head(nodes)) \o LeavesOfAll(Tail(nodes))
LeavesOf(node) ==
    CASE node[1] \in {"Or", "Sequence"} -> LeavesOfAll(node[2])
      [] node[1] = "Capture" -> LeavesOf(node[2])
      [] node[1] = "Repeat" -> LeavesOf(node[2]) \o <<<<node[3], node[4]>>>>
      [] OTHER -> <<<<node[2], node[3]>>>>
================================================================================
