--------------------------------- MODULE Lexer ---------------------------------
(***************************************************************************)
(* The lexer of scripts (parser/lexer/lexer.cc), with what it makes of the *)
(* text that it hands on: a documentation comment is parsed by             *)
(* JsDocParser, and a regular expression, when the parser asks for one, by *)
(* RegExpParser (Parser::ParseRegExpLiteral).                              *)
(*                                                                         *)
(* The Handle operators take the lexer as a record x: its reader, the flag *)
(* for line breaks and the token read.  A token holds its kind, its range, *)
(* the errors added while it was read, and for a number its value, for a   *)
(* comment the document, for a regular expression the tree.                *)
(***************************************************************************)
EXTENDS CharacterReader

CONSTANTS
    MaxInteger,      \* kMaxInteger and kMaxIntegerPart, 2^53
    Word,            \* the range of uint64_t, 2^64
    MaxCodePoint,    \* kMaxUnicodeCodePoint
    IntWord,         \* the range of int, 2^32
    RegExpInfinity

ASSUME WidthAssumption ==
    /\ {MaxInteger, Word, MaxCodePoint, IntWord, RegExpInfinity} \subseteq Nat
    /\ 10 * MaxInteger + 9 < Word
    /\ 2 * MaxCodePoint < IntWord

JsDoc == INSTANCE JsDocParser
RegExp == INSTANCE RegExpParser

VARIABLES
    location,                 \* where the reader is
    current_token_,
    is_separated_by_newline_,
    last_end                  \* where the token before the current one ends

lexerVars ==
    <<text, options, location, current_token_, is_separated_by_newline_, last_end>>

NoToken == [kind |-> "none", start |-> 0, end |-> 0, errors |-> {}]
NewToken(x, kind, start) ==
    [x EXCEPT !.token =
        [kind |-> kind, start |-> start, end |-> x.at, errors |-> x.errors]]
NewTokenWith(x, kind, start, detail) ==
    [x EXCEPT !.token =
        [kind |-> kind, start |-> start, end |-> x.at, errors |-> x.errors,
         detail |-> detail]]

(* Punctuators: all that begins one is one, so the longest is read. *)
Punctuators ==
    {"!", "!=", "!==", "%", "%=", "&", "&&", "&=", "(", ")", "*", "*=", "**",
     "**=", "+", "++", "+=", ",", "-", "--", "-=", ".", "..", "...", "/", "/=",
     ":", ";", "<", "<=", "<<", "<<=", "=", "==", "===", "=>", ">", ">=", ">>",
     ">>=", ">>>", ">>>=", "?", "[", "]", "^", "^=", "{", "}", "|", "||", "|=",
     "~"}
PunctuatorFrom(start, x) ==
    LET kind == GetString(start, x.at) IN
    NewToken(IF kind = ".." THEN AddError(x, "PUNCTUATOR_DOT_DOT") ELSE x,
             kind, start)
NewPunctuator(x) ==
    LET ends == {i \in (x.at + 1)..(x.at + 4) :
                   i <= x.end /\ GetString(x.at, i) \in Punctuators} IN
    PunctuatorFrom(x.at, MoveTo(x, CHOOSE i \in ends : \A k \in ends : k <= i))

(* HandleLineComment and HandleBlockComment, at the slash. *)
HasLineBreak(start, end) == \E i \in start..(end - 1) : IsLineTerminator(CharAt(i))
WithNewline(x, start) ==
    [x EXCEPT !.newline = @ \/ HasLineBreak(start, x.at)]

HandleLineCommentAsBlank(x) ==
    LET IsInLine(c) == ~IsLineTerminator(c)
        y == SkipWhile(IsInLine, x) IN
    NewToken(IF CanPeekChar(y) THEN ConsumeChar(y) ELSE y, "comment", x.at)
HandleLineComment(x) ==
    LET IsInLine(c) == ~IsLineTerminator(c)
        y == SkipWhile(IsInLine, x)
        z == IF CanPeekChar(y) THEN ConsumeChar(y) ELSE y IN
    NewToken(WithNewline(z, x.at), "comment", x.at)

WithDocument(x, start, document) ==
    LET y == [x EXCEPT !.errors = @ \cup document.errors] IN
    IF JsDoc!IsDocument(document) THEN NewTokenWith(y, "jsdoc", start, document)
    ELSE NewToken(y, "comment", start)
CommentFrom(start, x) ==
    IF CharAt(start + 2) # "*" THEN NewToken(x, "comment", start)
    ELSE WithDocument(x, start, JsDoc!ParseDocument(start, x.at))
HandleBlockComment(x) ==
    LET closes == {i \in (x.at + 2)..(x.end - 2) :
                     CharAt(i) = "*" /\ CharAt(i + 1) = "/"}
        close == CHOOSE i \in closes : \A k \in closes : i <= k IN
    IF closes = {}
      THEN NewToken(AddError(WithNewline(MoveTo(x, x.end), x.at),
                             "BLOCK_COMMENT_NOT_CLOSED"), "comment", x.at)
    ELSE CommentFrom(x.at, WithNewline(MoveTo(x, close + 2), x.at))

(* Numbers.  Characters of names after the digits belong to the token. *)
SkipBadDigits(x, error) ==
    LET y == SkipWhile(IsIdentifierPart, x) IN
    IF y.at > x.at THEN AddError(y, error) ELSE y

IsDecimal(c) == IsDigitChar(c, 10)
Digits(start, end) == [i \in 1..(end - start) |-> FromDigitChar(CharAt(start + i - 1))]

(* The value of digits and the number of digits that it leaves out. *)
RECURSIVE IntegerPart(_, _)
IntegerPart(digits, part) ==
    IF digits = <<>> THEN part
    ELSE LET digit == Head(digits)
             value == part.value IN
         IntegerPart(Tail(digits),
            IF value + digit > (Word - 1) \div 10
              THEN [part EXCEPT !.scale = @ + 1]
              ELSE [part EXCEPT !.value = 10 * value + digit])

(* Digits after the point; those beyond the precision are ignored. *)
RECURSIVE DigitsPart(_, _)
DigitsPart(digits, part) ==
    IF digits = <<>> \/ part.value > MaxInteger THEN part
    ELSE DigitsPart(Tail(digits),
            [value |-> 10 * part.value + Head(digits), scale |-> part.scale - 1])

(* HandleDecimalAfterDot.  The exponent is multiplied with the sign in     *)
(* uint64_t; the sign is 0 when none is written.  The token keeps the parts *)
(* of the number: how pow and the product round them is left out.           *)
RECURSIVE ExponentPart(_, _)
ExponentPart(digits, value) ==
    IF digits = <<>> \/ value > MaxInteger THEN value
    ELSE ExponentPart(Tail(digits), 10 * value + Head(digits))
DecimalToken(x, start, number, exponent) ==
    NewTokenWith(SkipBadDigits(x, "NUMERIC_LITERAL_DECIMAL_BAD_DIGIT"),
                 "number", start,
                 [value |-> number.value, scale |-> number.scale,
                  exponent |-> exponent])
Exponent(sign, value) ==
    CASE PeekIs(sign, "+") -> value
      [] PeekIs(sign, "-") -> (Word - value) % Word
      [] OTHER -> 0
AfterExponent(x, y, sign, start, number) ==
    DecimalToken(y, start, number,
                 Exponent(sign, ExponentPart(Digits(x.at, y.at), 0)))
AfterExponentSign(x, sign, start, number) ==
    AfterExponent(x, SkipWhile(IsDecimal, x), sign, start, number)
AfterFraction(x, start, number) ==
    IF CanPeekChar(x) /\ CharAt(x.at) \in {"E", "e"}
      THEN LET sign == ConsumeChar(x) IN
           AfterExponentSign(ConsumeCharIf(ConsumeCharIf(sign, "+"), "-"), sign,
                             start, number)
      ELSE DecimalToken(x, start, number, 0)
AfterDot(x, y, start, part) ==
    AfterFraction(y, start, DigitsPart(Digits(x.at, y.at), part))
HandleDecimalAfterDot(x, start, part) ==
    IF PeekIs(x, ".")
      THEN AfterDot(ConsumeChar(x), SkipWhile(IsDecimal, ConsumeChar(x)), start, part)
      ELSE AfterFraction(x, start, part)

AfterIntegerPart(y, start, digits) ==
    HandleDecimalAfterDot(y, start,
        IntegerPart(Tail(digits), [value |-> Head(digits), scale |-> 0]))
HandleDecimal(x, start) ==
    LET y == SkipWhile(IsDecimal, x) IN
    AfterIntegerPart(y, start, Digits(x.at, y.at))

(* HandleInteger: overflow is looked for only at a digit that is not 0. *)
RECURSIVE Accumulate(_, _, _, _)
AccumulateSilently(digits, base, value, is_overflow) ==
    IF digits = <<>> THEN [value |-> value, is_overflow |-> is_overflow]
    ELSE LET digit == Head(digits)
             overflow == digit # 0 /\ value > MaxInteger \div base IN
         Accumulate(Tail(digits), base,
                    IF overflow THEN value ELSE (value * base + digit) % Word,
                    is_overflow)
Accumulate(digits, base, value, is_overflow) ==
    IF digits = <<>> THEN [value |-> value, is_overflow |-> is_overflow]
    ELSE LET digit == Head(digits)
             overflow == digit # 0 /\ value > MaxInteger \div base IN
         Accumulate(Tail(digits), base,
                    IF overflow THEN value ELSE (value * base + digit) % Word,
                    is_overflow \/ overflow)

(* NewNumericLiteral takes a double: an integer is rounded to the nearest    *)
(* multiple of the unit its significand leaves, half to an even multiple.  *)
Rounded(n, unit) ==
    LET rest == n % unit
        isUp == 2 * rest > unit \/ (2 * rest = unit /\ (n \div unit) % 2 = 1)
    IN  n - rest + (IF isUp THEN unit ELSE 0)
Unit(n) == 2^(CHOOSE k \in 0..n : /\ n < MaxInteger * 2^k
                                  /\ k > 0 => n >= MaxInteger * 2^(k - 1))
ToDouble(n) == Rounded(n, Unit(n))
IntegerToken(x, first, start, base, result) ==
    LET y == IF result.is_overflow
               THEN AddError(x, "NUMERIC_LITERAL_INTEGER_OVERFLOW") ELSE x
        last == SkipBadDigits(y, "NUMERIC_LITERAL_INTEGER_BAD_DIGIT") IN
    NewTokenWith(IF last.at = first
                   THEN AddError(last, "NUMERIC_LITERAL_INTEGER_NO_DIGITS") ELSE last,
                 "number", start,
                 [value |-> ToDouble(result.value), scale |-> 0, exponent |-> 0,
                  base |-> base, digits |-> <<first, x.at>>])
HandleInteger(x, start, base) ==
    LET IsDigit(c) == IsDigitChar(c, base)
        y == SkipWhile(IsDigit, x) IN
    IntegerToken(y, x.at, start, base,
                 Accumulate(Digits(x.at, y.at), base, 0, FALSE))

(* HandleDigitZero, after the zero. *)
BaseOf(c) == CASE c \in {"b", "B"} -> 2 [] c \in {"o", "O"} -> 8
               [] c \in {"x", "X"} -> 16 [] OTHER -> 10
AfterZero(x, start, c) ==
    CASE c \in {"8", "9"} -> HandleDecimal(x, start)
      [] c # "end" /\ IsDigitChar(c, 8) ->
           [HandleInteger(x, start, 8) EXCEPT
              !.token.errors = @ \cup {"NUMERIC_LITERAL_INTEGER_OCTAL"}]
      [] BaseOf(c) # 10 -> HandleInteger(ConsumeChar(x), start, BaseOf(c))
      [] OTHER -> HandleDecimalAfterDot(x, start, [value |-> 0, scale |-> 0])
HandleDigitZero(x, start) ==
    AfterZero(x, start, IF CanPeekChar(x) THEN CharAt(x.at) ELSE "end")

(* Strings: a machine over the characters.  An escape with hexadecimal     *)
(* digits goes through one state for each; the accumulator is an int,      *)
(* which wraps.                                                            *)
AfterHexDigitEscaped ==
    [BackslashX |-> "BackslashX1", BackslashX1 |-> "Backslash",
     BackslashU1 |-> "BackslashU2", BackslashU2 |-> "BackslashU3",
     BackslashU3 |-> "Backslash"]
AfterHexDigit ==
    [BackslashX |-> "BackslashX1", BackslashX1 |-> "Normal",
     BackslashU1 |-> "BackslashU2", BackslashU2 |-> "BackslashU3",
     BackslashU3 |-> "Normal"]
SimpleEscape == {"sq", "dq", "bs", "b", "f", "n", "r", "t", "v", "\n", "ls", "ps"}
IsTooLarge(accumulator) ==
    accumulator > MaxCodePoint /\ accumulator < IntWord \div 2
StringError(x, error) == AddError(x, error)

RECURSIVE ReadString(_, _, _, _)
ReadString(x, delimiter, state, accumulator) ==
    LET c == CharAt(x.at)
        is_hex == IsDigitChar(c, 16)
        y == ConsumeChar(x)
        Goto(z, next) == ReadString(z, delimiter, next, accumulator)
        GotoWith(next, value) == ReadString(y, delimiter, next, value)
        BadHexDigit == Goto(AddError(y, "STRING_LITERAL_BACKSLASH_HEX_DIGIT"), "Normal")
        BadBackslash(z, bad) ==
            Goto(IF options.strict_backslash /\ bad
                   THEN AddError(z, "STRING_LITERAL_BACKSLASH") ELSE z, "Normal") IN
    IF ~CanPeekChar(x) THEN AddError(x, "STRING_LITERAL_NOT_CLOSED")
    ELSE CASE state = "Normal" ->
           (CASE c = delimiter -> y
              [] c = "bs" /\ c # delimiter -> Goto(y, "Backslash")
              [] c \notin {"bs", delimiter} ->
                   Goto(IF IsLineTerminator(c) /\ delimiter # "bq"
                          THEN AddError(y, "STRING_LITERAL_NEWLINE") ELSE y,
                        "Normal"))
      [] state = "Backslash" ->
           (CASE c \in SimpleEscape -> Goto(y, "Normal")
              [] c = "\r" -> Goto(y, "BackslashCr")
              [] c = "x" -> Goto(y, "BackslashX")
              [] c = "u" -> Goto(y, "BackslashU")
              [] c = "0" -> BadBackslash(y, CanPeekChar(y) /\ IsDecimal(CharAt(y.at)))
              [] OTHER -> BadBackslash(y, TRUE))
      [] state = "BackslashCr" ->
           IF c = "\n" THEN Goto(ConsumeChar(y), "Normal") ELSE Goto(x, "Normal")
      [] state \in DOMAIN AfterHexDigit ->
           IF is_hex THEN Goto(y, AfterHexDigit[state]) ELSE BadHexDigit
      [] state = "BackslashU" ->
           (CASE is_hex -> Goto(y, "BackslashU1")
              [] c = "{" -> Goto(y, "BackslashUB")
              [] OTHER -> BadHexDigit)
      [] state = "BackslashUB" ->
           IF is_hex THEN GotoWith("BackslashUBx", FromDigitChar(c)) ELSE BadHexDigit
      [] state = "BackslashUBx" ->
           (CASE is_hex -> GotoWith("BackslashUBx",
                             (16 * accumulator + FromDigitChar(c)) % IntWord)
              [] c = "}" -> Goto(IF IsTooLarge(accumulator)
                                   THEN AddError(y, "STRING_LITERAL_BACKSLASH_UNICODE")
                                   ELSE y, "Normal")
              [] OTHER -> BadHexDigit)
HandleStringLiteral(x) ==
    NewToken(ReadString(ConsumeChar(x), CharAt(x.at), "Normal", 0), "string", x.at)

HandleName(x) == NewToken(SkipWhile(IsIdentifierPart, x), "name", x.at)

(* HandleCharacter *)
HandleCharacter(x) ==
    LET c == CharAt(x.at)
        next == IF x.at + 1 = x.end THEN "end" ELSE CharAt(x.at + 1) IN
    CASE c = "/" /\ next = "*" -> HandleBlockComment(x)
      [] c = "/" /\ next = "/" -> HandleLineComment(x)
      [] c = "." /\ IsDecimal(next) ->
           HandleDecimalAfterDot(x, x.at, [value |-> 0, scale |-> 0])
      [] c \in {"sq", "dq", "bq"} -> HandleStringLiteral(x)
      [] c = "0" -> HandleDigitZero(ConsumeChar(x), x.at)
      [] c # "0" /\ IsDecimal(c) -> HandleDecimal(x, x.at)
      [] IsIdentifierStart(c) -> HandleName(x)
      [] OTHER -> NewPunctuator(x)

(* NextToken: blanks and invalid characters make no token. *)
IsInvalid(c) == c \in {"#", "@", "bs"}
RECURSIVE ReadToken(_)
ReadToken(x) ==
    LET c == CharAt(x.at)
        y == [x EXCEPT !.newline = @ \/ IsLineTerminator(c)] IN
    IF ~CanPeekChar(x) THEN NewToken(x, "end", x.at)
    ELSE IF IsWhitespace(c) THEN ReadToken(ConsumeChar(y))
    ELSE IF IsInvalid(c) THEN ReadToken(AddError(ConsumeChar(y), "CHARACTER_INVALID"))
    ELSE HandleCharacter(y)
NextToken(start) ==
    ReadToken([at |-> start, end |-> Len(text), errors |-> {}, newline |-> FALSE,
               token |-> NoToken])

(* ConsumeToken *)
CanPeekToken == current_token_.kind \notin {"none", "end"}
ReadNextToken(start) ==
    \E x \in {NextToken(start)} :
       /\ current_token_' = x.token
       /\ is_separated_by_newline_' = x.newline
       /\ location' = x.at
ConsumeToken ==
    /\ CanPeekToken
    /\ ReadNextToken(location)
    /\ last_end' = current_token_.end
    /\ UNCHANGED <<text, options>>

(* ExtendTokenAsRegExp: a machine over the characters, as for strings. *)
RECURSIVE ReadRegExp(_, _)
ReadRegExp(x, state) ==
    LET c == CharAt(x.at)
        y == ConsumeChar(x) IN
    IF ~CanPeekChar(x) THEN AddError(x, "REGEXP_EXPECT_SLASH")
    ELSE CASE state = "Backslash" -> ReadRegExp(y, "Normal")
           [] state = "BracketBackslash" -> ReadRegExp(y, "Bracket")
           [] state = "Bracket" ->
                ReadRegExp(y, CASE c = "bs" -> "BracketBackslash"
                                [] c = "]" -> "Normal"
                                [] OTHER -> "Bracket")
           [] state = "Normal" ->
                IF c = "/" THEN y
                ELSE ReadRegExp(y, CASE c = "bs" -> "Backslash"
                                     [] c = "[" -> "Bracket"
                                     [] OTHER -> "Normal")

(* Parser::ParseRegExpLiteral parses what is between the slashes; the last *)
(* character is taken for the closing slash whenever it is a slash.        *)
RegExpRange(start, end) ==
    [start |-> start + 1, end |-> IF CharAt(end - 1) = "/" THEN end - 1 ELSE end]
RegExpToken(x, start, errors, detail) ==
    [kind |-> "regexp", start |-> start, end |-> x.at,
     errors |-> errors \cup x.errors, detail |-> detail]
WithPattern(x, token, pattern) ==
    RegExpToken(x, token.start, token.errors \cup pattern.errors, pattern)
NewRegExp(x, token, range) ==
    IF range.start <= range.end
      THEN WithPattern(x, token, RegExp!ParsePattern(range.start, range.end))
      ELSE RegExpToken(x, token.start, token.errors \cup {PastEnd}, range)
ExtendTokenAsRegExp ==
    /\ current_token_.kind \in {"/", "/="}
    /\ \E x \in {ReadRegExp([at |-> location, end |-> Len(text), errors |-> {}],
                            "Normal")} :
          /\ location' = x.at
          /\ current_token_' = NewRegExp(x, current_token_,
                                        RegExpRange(current_token_.start, x.at))
    /\ UNCHANGED <<text, options, is_separated_by_newline_, last_end>>

(* The constructor reads the first token. *)
LexerInit ==
    /\ current_token_ = NoToken
    /\ is_separated_by_newline_ = FALSE
    /\ location = 0
    /\ last_end = 0

NewLexer ==
    /\ current_token_ = NoToken
    /\ ReadNextToken(0)
    /\ UNCHANGED <<text, options, last_end>>

Next == NewLexer \/ ConsumeToken \/ ExtendTokenAsRegExp
================================================================================
