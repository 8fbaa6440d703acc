------------------------------- MODULE Scanners --------------------------------
(***************************************************************************)
(* What the lexer of scripts and the parsers that it hands text to promise *)
(* of any text: the properties of Lexer, JsDocParser, TypeParser and       *)
(* RegExpParser.                                                           *)
(***************************************************************************)
EXTENDS Lexer

(* The grammar of type expressions; and without the parameters that begin  *)
(* with "!" or "...", and the types that begin so behind a question mark.  *)
Types == INSTANCE TypeGrammar WITH Prefixes <- {"!", "..."}
Unprefixed == INSTANCE TypeGrammar WITH Prefixes <- {}

Kind == current_token_.kind
Inside == current_token_.start..(current_token_.end - 1)
IsComment == Kind \in {"comment", "jsdoc"}

(* The flag on which the semicolons are inserted tells whether a line break *)
(* lies between the token and the one before, or inside a comment; a line   *)
(* break in a string or in a regular expression does not set it.            *)
LineBreakFlagIsExact ==
    is_separated_by_newline_ <=>
        \/ HasLineBreak(last_end, current_token_.start)
        \/ IsComment /\ HasLineBreak(current_token_.start, current_token_.end)

(* A string without a bad escape ends at the first delimiter that no         *)
(* backslash escapes.  A backslash before CR LF is left out: there the       *)
(* lexer takes one character too many.                                       *)
RECURSIVE Backslashes(_)
Backslashes(i) == IF CharAt(i) = "bs" THEN 1 + Backslashes(i - 1) ELSE 0
IsEscaped(i) == Backslashes(i - 1) % 2 = 1
HasEscapedCrLf ==
    \E i \in Inside : /\ CharAt(i) = "\r" /\ IsEscaped(i)
                      /\ i + 1 < Len(text) /\ CharAt(i + 1) = "\n"
StringEndsAtDelimiter ==
    LET delimiter == CharAt(current_token_.start)
        last == current_token_.end - 1
        bad == {"STRING_LITERAL_NOT_CLOSED", "STRING_LITERAL_BACKSLASH_HEX_DIGIT",
                PastEnd} IN
    Kind = "string" /\ current_token_.errors \cap bad = {} /\ ~HasEscapedCrLf =>
        /\ last > current_token_.start /\ CharAt(last) = delimiter
        /\ \A i \in Inside \ {current_token_.start} :
              CharAt(i) = delimiter => (IsEscaped(i) <=> i # last)

(* The value of digits, with all the width it takes. *)
RECURSIVE ValueOf(_, _)
ValueOf(digits, base) ==
    IF digits = <<>> THEN 0
    ELSE base * ValueOf(SubSeq(digits, 1, Len(digits) - 1), base)
         + digits[Len(digits)]

(* An integer with a base, accepted without an error, has the value that its *)
(* digits spell, as long as that fits in 64 bits, or the double next to it   *)
(* where there is no such double: no digit is lost to the check of overflow, *)
(* which lets pass what is above MaxInteger (lexer.cc:445, a digit 0 is not  *)
(* looked at), and of two doubles equally far the even one is taken.         *)
Doubles == {m * 2^k : m \in 0..MaxInteger, k \in 0..(Word \div MaxInteger)}
Distance(a, b) == IF a < b THEN b - a ELSE a - b
IsEvenBetween(double, other) == (double \div Distance(double, other)) % 2 = 0
IntegerIsNearest ==
    Kind = "number" /\ current_token_.errors = {} /\
    "base" \in DOMAIN current_token_.detail =>
        LET number == current_token_.detail.value
            digits == Digits(current_token_.detail.digits[1],
                             current_token_.detail.digits[2])
            spelled == ValueOf(digits, current_token_.detail.base) IN
        spelled < Word =>
            /\ number \in Doubles
            /\ \A double \in Doubles \ {number} :
                  \/ Distance(number, spelled) < Distance(double, spelled)
                  \/ /\ Distance(number, spelled) = Distance(double, spelled)
                     /\ IsEvenBetween(number, double)

(* Documents. *)
Document == current_token_.detail
Covers(range, i) == range.start <= i /\ i < range.end
LeafRanges ==
    UNION {IF node.kind = "text" THEN {node}
           ELSE {node.parts[k] : k \in DOMAIN node.parts} :
           node \in {Document.nodes[k] : k \in DOMAIN Document.nodes}}
HasDoubleBrace == \E i \in Inside \ {current_token_.start} :
                     CharAt(i) = "{" /\ CharAt(i - 1) = "{"

(* No text of a documentation comment is lost: what is not blank lies in one *)
(* text or one part of a tag, except the braces and commas of a tag, unless  *)
(* an error was reported.  Two braces next to each other are left out: when  *)
(* a blank follows them the second one is lost.                              *)
DocumentKeepsText ==
    Kind = "jsdoc" /\ current_token_.errors = {} /\ ~HasDoubleBrace =>
        \A i \in Inside :
           LET covering == {range \in LeafRanges : Covers(range, i)} IN
           \/ IsWhitespace(CharAt(i)) /\ Cardinality(covering) <= 1
           \/ Cardinality(covering) = 1
           \/ covering = {} /\ CharAt(i) \in {"{", "}", ","}

(* A tag is never part of a text: an at sign after a blank starts a tag,   *)
(* except in the braces of an inline tag and on the line of a tag whose    *)
(* parameter is a line.                                                    *)
IsTagOf(range, names) ==
    range.kind = "name" /\ GetString(range.start, range.end) \in names
InInlineTag(i) ==
    \E k \in Inside :
       /\ k + 1 < i /\ CharAt(k) = "{" /\ CharAt(k + 1) = "@"
       /\ \A j \in k..i : CharAt(j) # "}"
TagsAreNotText ==
    Kind = "jsdoc" =>
        \A k \in DOMAIN Document.nodes :
           LET node == Document.nodes[k]
               texts == IF node.kind = "text" THEN {node}
                        ELSE IF IsTagOf(node.parts[1], {"@author", "@see"}) THEN {}
                        ELSE {node.parts[n] : n \in DOMAIN node.parts} IN
           \A range \in texts :
              \A i \in Inside :
                 /\ range.kind = "text" /\ Covers(range, i)
                 /\ CharAt(i) = "@" /\ IsWhitespace(CharAt(i - 1))
                 => InInlineTag(i)

(* What is made of a type expression: the parser reports no error and its    *)
(* tree holds all of the tokens.                                             *)
TypeTokensOf(type) == Types!TokensOf(type.start, type.end)
IsAccepted(type) ==
    /\ type.errors = {}
    /\ Types!TypeTokens(type.node) = Types!WithoutLastCommas(TypeTokensOf(type))

(* A type expression is accepted only when it is a sentence of the grammar,  *)
(* and then it is, with one exception: a parameter that begins with "!" or   *)
(* "..." ends the list of the parameters (type_parser.cc:354), and a         *)
(* question mark before them is the unknown type (:302).                     *)
AcceptsExactlyTypes ==
    Kind = "jsdoc" =>
        \A k \in DOMAIN Document.types :
           LET type == Document.types[k]
               tokens == TypeTokensOf(type) IN
           PastEnd \notin type.errors =>
               /\ IsAccepted(type) => Types!IsType(tokens)
               /\ Unprefixed!IsType(tokens) => IsAccepted(type)

(* Every function type is accepted.  The declarations of the library that    *)
(* the repository ships say so of parameters like "!Array<T>"                *)
(* (externs/es3.js:723), and the comment at type_parser.cc:255 counts the    *)
(* non-nullable types among the types.                                       *)
FunctionTypesAreAccepted ==
    Kind = "jsdoc" =>
        \A k \in DOMAIN Document.types :
           LET type == Document.types[k]
               tokens == TypeTokensOf(type) IN
           /\ PastEnd \notin type.errors
           /\ Types!StartsWith(tokens, "function") /\ Types!IsType(tokens)
           => IsAccepted(type)

(* The pattern of a regular expression is read to its end, and what is not   *)
(* in its tree is only the syntax of groups and alternatives.  Left out are  *)
(* the patterns of which the parser leaves a rest: with two bars next to     *)
(* each other, with a look-ahead or an empty group, which the lexer counts   *)
(* as open groups and the parser does not, and, with strict_regexp, with a   *)
(* parenthesis that closes nothing.                                          *)
HasPair(a, b) == \E i \in Inside : i + 1 \in Inside /\ CharAt(i) = a /\ CharAt(i + 1) = b
PatternIsReadWhole ==
    LET pattern == current_token_.detail
        leaves == RegExp!LeavesOf(pattern.node)
        end == RegExpRange(current_token_.start, current_token_.end).end IN
    Kind = "regexp" /\ PastEnd \notin current_token_.errors /\
    ~HasPair("|", "|") /\ ~HasPair("?", "=") /\ ~HasPair("?", "!") /\
    ~HasPair("(", ")") /\ ~options.strict_regexp =>
        /\ pattern.token.kind = "end"
        /\ \A i \in (current_token_.start + 1)..(end - 1) :
              \/ \E k \in DOMAIN leaves : leaves[k][1] <= i /\ i < leaves[k][2]
              \/ CharAt(i) \in {"(", ")", "|"}
              \/ CharAt(i) \in {"?", ":"} /\ ~IsEscaped(i)

================================================================================
