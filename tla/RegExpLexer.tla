------------------------------ MODULE RegExpLexer ------------------------------
(***************************************************************************)
(* The lexer of regular expressions (parser/regexp/regexp_lexer.cc).  Its  *)
(* state x is a reader with the start of its range and the number group_   *)
(* of parentheses that it takes for open; NextRegExpToken reads a token    *)
(* into x.token: a kind, the kind "end" after the last, and a range.       *)
(***************************************************************************)
EXTENDS CharacterReader

CONSTANT RegExpInfinity   \* ast::kRegExpInfinity

NewRegExpLexer(start, end) ==
    [at |-> start, start |-> start, end |-> end, errors |-> {}, group_ |-> 0,
     token |-> [kind |-> "end", start |-> start, end |-> start]]

StrictRegExp == options.strict_regexp
RepeatChar == {"*", "+", "?", "{"}
IsSyntaxChar(x, c) ==
    \/ c \in {"$", "*", "+", "?", "|", "(", "{", "[", "bs"}
    \/ x.group_ > 0 /\ c = ")"
    \/ StrictRegExp /\ c \in {"^", "}", "]"}

(* The token that starts at the offset and ends where the reader is. *)
Token(x, kind, start) ==
    [x EXCEPT !.token = [kind |-> kind, start |-> start, end |-> x.at]]

(* The rest of a literal; it leaves its last character to a repetition. *)
EndLiteral(x, start) ==
    LET repeated == CanPeekChar(x) /\ CharAt(x.at) \in RepeatChar IN
    Token(IF repeated /\ x.at - start > 1 THEN MoveBackward(x) ELSE x,
          "Literal", start)
HandleLiteral(x, start) ==
    LET IsPlain(c) == ~IsSyntaxChar(x, c) IN EndLiteral(SkipWhile(IsPlain, x), start)

(* HandleCharSet, after the bracket. *)
RECURSIVE EndOfCharSet(_, _)
EndOfCharSet(i, end) ==
    IF i = end \/ CharAt(i) = "]" THEN i
    ELSE IF CharAt(i) = "bs" /\ i + 1 # end THEN EndOfCharSet(i + 2, end)
    ELSE EndOfCharSet(i + 1, end)
HandleCharSet(x, start) ==
    LET kind == IF PeekIs(x, "^") THEN "ComplementCharSet" ELSE "CharSet"
        y == ConsumeCharIf(x, "^")
        z == MoveTo(y, EndOfCharSet(y.at, y.end)) IN
    Token(IF CanPeekChar(z) THEN ConsumeChar(z)
          ELSE AddError(z, "REGEXP_EXPECT_RBRACKET"), kind, start)

(* HandleDigits: a digit that would reach infinity is not taken. *)
RECURSIVE IsInvalidNumber(_, _, _)
IsInvalidNumber(i, end, number) ==
    /\ i # end
    /\ LET digit == FromDigitChar(CharAt(i)) IN
       \/ number + digit >= RegExpInfinity \div 10
       \/ IsInvalidNumber(i + 1, end, number * 10 + digit)
IsDecimal(c) == IsDigitChar(c, 10)
CheckNumber(x, start) ==
    IF start = x.at \/ IsInvalidNumber(start, x.at, 0)
      THEN AddError(x, "REGEXP_INVALID_NUMBER") ELSE x
HandleDigits(x) == CheckNumber(SkipWhile(IsDecimal, x), x.at)

(* HandleRepeat, after the brace; without strict_regexp a brace that no *)
(* digit follows is a literal.                                          *)
Expected(x, c, error) == IF PeekIs(x, c) THEN ConsumeChar(x) ELSE AddError(x, error)
PeekDecimal(x) == CanPeekChar(x) /\ IsDecimal(CharAt(x.at))
Maximum(x) == IF PeekDecimal(x) THEN HandleDigits(x) ELSE x
AfterMinimum(x) ==
    IF PeekIs(x, "}") THEN ConsumeChar(x)
    ELSE Expected(Maximum(Expected(x, ",", "REGEXP_INVALID_REPEAT")),
                  "}", "REGEXP_EXPECT_RBRACE")
HandleRepeat(x, start) ==
    IF ~StrictRegExp /\ ~PeekDecimal(x) THEN Token(x, "Literal", start)
    ELSE Token(ConsumeCharIf(AfterMinimum(HandleDigits(x)), "?"), "Repeat", start)

(* An open parenthesis, counted in group_ whatever it turns out to be. *)
HandleOpen(x, start) ==
    LET y == [x EXCEPT !.group_ = @ + 1]
        z == ConsumeChar(y) IN
    IF PeekIs(y, "?")
      THEN IF CanPeekChar(z) /\ CharAt(z.at) \in {":", "=", "!"}
             THEN Token(ConsumeChar(z), CharAt(z.at), start)
           ELSE Token(IF StrictRegExp THEN AddError(z, "REGEXP_INVALID_GROUPING")
                      ELSE z, ":", start)
    ELSE IF StrictRegExp THEN Token(y, ":", start)
    ELSE IF ~CanPeekChar(y) \/ PeekIs(y, ")") THEN Token(y, "Literal", start)
    ELSE Token(y, "(", start)

HandleBackslash(x, start) ==
    LET y == IF CanPeekChar(x) THEN x ELSE AddError(x, "REGEXP_EXPECT_CHAR") IN
    IF CanPeekChar(y) /\ CharAt(y.at) \in {"b", "B"}
      THEN Token(ConsumeChar(y), "Assertion", start)
      ELSE HandleLiteral(ConsumeChar(y), start)

(* RegExpLexer::NextToken *)
NextRegExpToken(x) ==
    LET start == x.at
        c == CharAt(start)
        y == ConsumeChar(x)
        first == start = x.start IN
    CASE ~CanPeekChar(x) -> Token(x, "end", start)
      [] CanPeekChar(x) ->
    CASE c = "$" /\ (StrictRegExp \/ ~CanPeekChar(y)) -> Token(y, "Assertion", start)
      [] c = "^" /\ (StrictRegExp \/ first) -> Token(y, "Assertion", start)
      [] c \in {"*", "+"} /\ (StrictRegExp \/ ~first) ->
           Token(ConsumeCharIf(y, "?"), "Repeat", start)
      [] c = "?" -> Token(ConsumeCharIf(y, "?"), "Repeat", start)
      [] c = "{" /\ (StrictRegExp \/ ~first) -> HandleRepeat(y, start)
      [] c = "." -> Token(y, "AnyChar", start)
      [] c = "(" -> HandleOpen(y, start)
      [] c = ")" /\ x.group_ > 0 -> Token([y EXCEPT !.group_ = @ - 1], ")", start)
      [] c = ")" /\ x.group_ = 0 /\ StrictRegExp -> Token(y, ")", start)
      [] c = "[" -> HandleCharSet(y, start)
      [] c = "|" -> Token(y, "|", start)
      [] c = "bs" -> HandleBackslash(y, start)
      [] OTHER -> HandleLiteral(y, start)
================================================================================
