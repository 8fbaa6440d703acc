---------------------------- MODULE CharacterReader ----------------------------
(***************************************************************************)
(* The source text, and the reader that the lexers and the JsDoc parser    *)
(* share (parser/utils/character_reader.cc, parser/utils/lexer_utils.cc,   *)
(* base/source_code.cc).                                                   *)
(*                                                                         *)
(* The text is a sequence of symbols.  A symbol is a character or, to keep *)
(* texts short, a run of characters that all may start an identifier: the  *)
(* symbol "type" stands for its four letters.  Offsets count symbols from  *)
(* 0, as the source counts characters.                                     *)
(*                                                                         *)
(* A reader holds the offset, the end of the range that it reads and the   *)
(* errors added so far.  Reading at the end breaks the assertion of        *)
(* PeekChar; the model notes it as the error PastEnd and stays at the end. *)
(***************************************************************************)
EXTENDS Naturals, Sequences, FiniteSets

VARIABLES
    text,     \* the symbols of the source code
    options   \* [strict_backslash, strict_regexp : BOOLEAN]

(* Characters; "dq", "sq" and "bq" are the quotes, "bs" the backslash. *)
LineTerminator == {"\n", "\r", "ls", "ps"}
Blank == {" ", "\t", "nbsp"} \cup LineTerminator
DecimalDigit == {"0", "1", "2", "3", "4", "5", "6", "7", "8", "9"}
HexLetter == {"a", "b", "c", "d", "e", "f", "A", "B", "C", "D", "E", "F"}
NotInName ==
    Blank \cup
    {"!", "dq", "%", "&", "sq", "(", ")", "*", "+", ",", "-", ".", "/", ":",
     ";", "<", "=", ">", "?", "bq", "[", "]", "bs", "^", "~", "{", "}", "|",
     "#", "@"}

IsLineTerminator(c) == c \in LineTerminator
IsWhitespace(c) == c \in Blank
IsIdentifierPart(c) == c \notin NotInName
IsIdentifierStart(c) == c \notin NotInName \cup DecimalDigit
IsDigitChar(c, base) ==
    CASE base = 2 -> c \in {"0", "1"}
      [] base = 8 -> c \in DecimalDigit \ {"8", "9"}
      [] base = 10 -> c \in DecimalDigit
      [] base = 16 -> c \in DecimalDigit \cup HexLetter

LowerHexLetters == <<"a", "b", "c", "d", "e", "f">>
UpperHexLetters == <<"A", "B", "C", "D", "E", "F">>
Decimals == <<"0", "1", "2", "3", "4", "5", "6", "7", "8", "9">>
DigitValue ==
    [c \in DecimalDigit \cup HexLetter |->
       IF c \in DecimalDigit THEN (CHOOSE k \in 1..10 : Decimals[k] = c) - 1
       ELSE 9 + CHOOSE k \in 1..6 : c \in {LowerHexLetters[k], UpperHexLetters[k]}]
FromDigitChar(c) == DigitValue[c]

(* SourceCode::CharAt and SourceCode::GetString *)
CharAt(i) == text[i + 1]
RECURSIVE GetString(_, _)
GetString(start, end) ==
    IF start = end THEN "" ELSE CharAt(start) \o GetString(start + 1, end)

(* Readers. *)
PastEnd == "PastEnd"
NewReader(start, end) == [at |-> start, end |-> end, errors |-> {}]
AddError(r, error) == [r EXCEPT !.errors = @ \cup {error}]
CanPeekChar(r) == r.at # r.end
PeekIs(r, c) == CanPeekChar(r) /\ CharAt(r.at) = c
ConsumeChar(r) ==
    IF CanPeekChar(r) THEN [r EXCEPT !.at = @ + 1] ELSE AddError(r, PastEnd)
ConsumeCharIf(r, c) == IF PeekIs(r, c) THEN ConsumeChar(r) ELSE r
MoveBackward(r) == [r EXCEPT !.at = @ - 1]
MoveTo(r, i) == [r EXCEPT !.at = i]

(* The loop that consumes while a test holds of the next character. *)
EndOfRun(Test(_), start, end) ==
    CHOOSE i \in start..end :
       /\ i = end \/ ~Test(CharAt(i))
       /\ \A k \in start..(i - 1) : Test(CharAt(k))
SkipWhile(Test(_), r) == MoveTo(r, EndOfRun(Test, r.at, r.end))
================================================================================
