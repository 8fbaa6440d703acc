------------------------------ MODULE TypeGrammar ------------------------------
(***************************************************************************)
(* The type expressions as a grammar over sequences of tokens, stated with *)
(* splits of the sequence and without any look-ahead, and the tokens that  *)
(* a tree of the parser stands for.  The grammar is the one that the       *)
(* comments of parser/type/type_parser.cc give in pieces, with the         *)
(* parameters of functions.  A question mark is a type, and starts one     *)
(* when a type follows.                                                    *)
(***************************************************************************)
EXTENDS TypeParser

CONSTANT Prefixes   \* the tokens of "!" and "..." with which a parameter, and
                    \* the type behind a question mark, may begin
MayStart(kind) == CanStartType(kind) \/ kind \in Prefixes

(* The tokens of a range, from the lexer. *)
RECURSIVE TokensOf(_, _)
TokensOf(start, end) ==
    LET token == NextToken(start, end) IN
    IF token.kind = "end" THEN <<>>
    ELSE <<token.kind>> \o TokensOf(token.end, end)

Rest(ts, n) == SubSeq(ts, n, Len(ts))
Inner(ts, n) == SubSeq(ts, n, Len(ts) - 1)
StartsWith(ts, kind) == ts # <<>> /\ Head(ts) = kind
EndsWith(ts, kind) == ts # <<>> /\ ts[Len(ts)] = kind
Splits(ts, kind) == {i \in DOMAIN ts : ts[i] = kind}
Before(ts, i) == SubSeq(ts, 1, i - 1)
After(ts, i) == SubSeq(ts, i + 1, Len(ts))

(* A list with a separator; Ends says whether the separator may end it. *)
RECURSIVE IsList(_, _, _)
IsList(ts, Item(_), ends) ==
    \/ Item(ts)
    \/ \E i \in Splits(ts, ",") :
          /\ Item(Before(ts, i))
          /\ (ends /\ i = Len(ts)) \/ IsList(After(ts, i), Item, ends)

RECURSIVE IsUnionType(_), IsSimpleType(_)

IsQualifiedName(ts) ==
    /\ Len(ts) % 2 = 1
    /\ \A i \in DOMAIN ts :
          IF i % 2 = 1 THEN IsName(ts[i]) /\ (i = 1 => ts[i] # "function")
                       ELSE ts[i] = "."
IsTypeName(ts) ==
    \/ IsQualifiedName(ts)
    \/ \E i \in Splits(ts, "<") :
          /\ EndsWith(ts, ">") /\ IsQualifiedName(Before(ts, i))
          /\ LET arguments == Inner(ts, i + 1) IN
             arguments = <<>> \/ IsList(arguments, IsUnionType, TRUE)

IsParameter(ts) ==
    LET type == IF EndsWith(ts, "=") THEN Inner(ts, 1) ELSE ts IN
    type # <<>> /\ MayStart(Head(type)) /\ IsUnionType(type)
IsParameterList(ts) ==
    \/ ts = <<>>
    \/ Head(ts) \notin {"new", "this"} /\ IsList(ts, IsParameter, FALSE)
    \/ /\ Len(ts) > 2 /\ ts[1] \in {"new", "this"} /\ ts[2] = ":"
       /\ IsList(Rest(ts, 3), IsParameter, FALSE)
IsFunctionType(ts) ==
    /\ StartsWith(ts, "function")
    /\ \/ Len(ts) = 1
       \/ /\ Len(ts) > 2 /\ ts[2] = "("
          /\ \E i \in Splits(ts, ")") :
                /\ i > 2 /\ IsParameterList(SubSeq(ts, 3, i - 1))
                /\ \/ i = Len(ts)
                   \/ ts[i + 1] = ":" /\ IsUnionType(Rest(ts, i + 2))

IsRecordMember(ts) ==
    /\ ts # <<>> /\ IsName(Head(ts))
    /\ \/ Len(ts) = 1
       \/ ts[2] = ":" /\ IsUnionType(Rest(ts, 3))

IsSimpleType(ts) ==
    \/ ts = <<"*">>
    \/ ts = <<"?">>
    \/ /\ Len(ts) > 1 /\ ts[1] = "?" /\ MayStart(ts[2])
       /\ IsUnionType(Tail(ts))
    \/ StartsWith(ts, "!") /\ IsUnionType(Tail(ts))
    \/ StartsWith(ts, "...") /\ IsUnionType(Tail(ts))
    \/ IsFunctionType(ts)
    \/ IsTypeName(ts)
    \/ /\ StartsWith(ts, "{") /\ EndsWith(ts, "}")
       /\ (Len(ts) = 2 \/ IsList(Inner(ts, 2), IsRecordMember, TRUE))
    \/ /\ StartsWith(ts, "[") /\ EndsWith(ts, "]")
       /\ IsList(Inner(ts, 2), IsUnionType, TRUE)
    \/ StartsWith(ts, "(") /\ EndsWith(ts, ")") /\ IsUnionType(Inner(ts, 2))

IsUnionType(ts) ==
    /\ ts # <<>>
    /\ \/ IsSimpleType(ts)
       \/ \E i \in Splits(ts, "|") :
             IsSimpleType(Before(ts, i)) /\ IsUnionType(After(ts, i))

IsType(ts) ==
    IsUnionType(ts) \/ (EndsWith(ts, "=") /\ IsUnionType(Inner(ts, 1)))

(* The tokens of a tree. *)
RECURSIVE TypeTokens(_), ListTokens(_, _)
ListTokens(nodes, separator) ==
    IF nodes = <<>> THEN <<>>
    ELSE TypeTokens(Head(nodes))
         \o (IF Len(nodes) = 1 THEN <<>> ELSE <<separator>>)
         \o ListTokens(Tail(nodes), separator)

TypeTokens(node) ==
    CASE node[1] = "AnyType" -> <<"*">>
      [] node[1] = "UnknownType" -> <<"?">>
      [] node[1] \in {"TypeName", "Name"} -> <<node[2]>>
      [] node[1] = "MemberType" -> TypeTokens(node[2]) \o <<".", node[3]>>
      [] node[1] = "NullableType" -> <<"?">> \o TypeTokens(node[2])
      [] node[1] = "NonNullableType" -> <<"!">> \o TypeTokens(node[2])
      [] node[1] = "RestType" -> <<"...">> \o TypeTokens(node[2])
      [] node[1] = "OptionalType" -> TypeTokens(node[2]) \o <<"=">>
      [] node[1] = "UnionType" -> ListTokens(node[2], "|")
      [] node[1] = "TypeGroup" -> <<"(">> \o TypeTokens(node[2]) \o <<")">>
      [] node[1] = "TypeApplication" ->
           TypeTokens(node[2]) \o <<"<">> \o ListTokens(node[3], ",") \o <<">">>
      [] node[1] = "Property" -> <<node[2], ":">> \o TypeTokens(node[3])
      [] node[1] = "RecordType" -> <<"{">> \o ListTokens(node[2], ",") \o <<"}">>
      [] node[1] = "TupleType" -> <<"[">> \o ListTokens(node[2], ",") \o <<"]">>
      [] node[1] = "FunctionType" ->
           <<"function", "(">>
           \o (IF node[2] = "normal" THEN <<>> ELSE <<node[2], ":">>)
           \o ListTokens(node[3], ",") \o <<")">>
           \o (IF node[4][1] = "VoidType" THEN <<>>
               ELSE <<":">> \o TypeTokens(node[4]))
      [] OTHER -> <<"no type">>

(* A list may end with a comma, which no node holds. *)
RECURSIVE WithoutLastCommas(_)
WithoutLastCommas(ts) ==
    LET last == {i \in DOMAIN ts :
                   /\ 1 < i /\ i < Len(ts)
                   /\ ts[i - 1] \notin {",", "<", "{", "["}
                   /\ ts[i] = "," /\ ts[i + 1] \in {">", "}", "]"}} IN
    IF last = {} THEN ts
    ELSE LET i == CHOOSE i \in last : TRUE IN
         WithoutLastCommas(Before(ts, i) \o After(ts, i))
================================================================================
