------------------------------- MODULE TypeLexer -------------------------------
(***************************************************************************)
(* The lexer of type expressions (parser/type/type_lexer.cc) in the mode   *)
(* of documents: an asterisk that starts a line belongs to the comment,    *)
(* not to the type.  A token holds its kind, where it ends and whether     *)
(* reading it added an error; after the last token the kind is "end".      *)
(***************************************************************************)
EXTENDS CharacterReader

Punctuation ==
    {"!", "(", ")", ",", "*", ":", "<", "=", ">", "?", "[", "]", "{", "|", "}"}
TypeToken(kind, end) == [kind |-> kind, end |-> end, error |-> FALSE]

(* Where the next token starts: blanks, and asterisks after line breaks, are *)
(* skipped.                                                                  *)
RECURSIVE TokenStart(_, _)
SkipAsterisk(start, i, end) ==
    LET found_newline == \E k \in start..(i - 1) : IsLineTerminator(CharAt(k)) IN
    IF found_newline /\ i # end /\ CharAt(i) = "*"
      THEN TokenStart(i + 1, end)
      ELSE i
TokenStart(start, end) ==
    SkipAsterisk(start, EndOfRun(IsWhitespace, start, end), end)

(* Of the names, the parser tells "function", "new" and "this" apart. *)
NameToken(start, end) == TypeToken(GetString(start, end), end)

DotToken(start, end) ==
    LET dots == end - start IN
    CASE dots = 1 -> TypeToken(".", end)
      [] dots = 3 -> TypeToken("...", end)
      [] OTHER -> [TypeToken("Invalid", end) EXCEPT !.error = TRUE]

TokenAt(start, end) ==
    LET IsDot(c) == c = "." IN
    IF start = end THEN TypeToken("end", end)
    ELSE IF CharAt(start) \in Punctuation THEN TypeToken(CharAt(start), start + 1)
    ELSE IF IsDot(CharAt(start)) THEN DotToken(start, EndOfRun(IsDot, start, end))
    ELSE IF IsIdentifierStart(CharAt(start))
      THEN NameToken(start, EndOfRun(IsIdentifierPart, start, end))
    ELSE TypeToken("Invalid", start + 1)
NextToken(offset, end) == TokenAt(TokenStart(offset, end), end)
================================================================================
