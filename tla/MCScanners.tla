------------------------------ MODULE MCScanners -------------------------------
(* Texts for TLC: a theme fixes how a text starts and ends; between them     *)
(* stands any sequence of at most n symbols of a set.                        *)
EXTENDS Scanners

Theme(start, symbols, n, end) ==
    [start |-> start, symbols |-> symbols, n |-> n, end |-> end]
TextsOf(theme) ==
    {theme.start \o middle \o theme.end :
       middle \in UNION {[1..k -> theme.symbols] : k \in 0..theme.n}}

TypeStart == <<"/", "*", "*", " ", "@", "type", "{">>
CommentStart == <<"/", "*", "*">>
CommentEnd == <<"*", "/">>
Tag(start) == CommentStart \o <<" ", "@">> \o start
TypeTheme(start, symbols, n) ==
    Theme(TypeStart \o start, symbols, n, <<"}">> \o CommentEnd)

MCTypes ==
    { TypeTheme(<<>>, {"a", "|", "?", "!", "=", "*", "(", ")"}, 4),
      TypeTheme(<<"function", "(">>, {"a", "new", ":", ",", ")", "=", "!"}, 4),
      TypeTheme(<<"function", "(", ".", ".", ".">>, {"a", ",", ")", ":", "."}, 4),
      TypeTheme(<<"function", "(", "a">>, {"this", "!", ",", ")", "(", " "}, 4),
      TypeTheme(<<>>, {"a", ".", "<", ">", ",", "?"}, 5),
      TypeTheme(<<"{">>, {"a", ":", ",", "{", "}", "*"}, 4),
      TypeTheme(<<"[">>, {"a", ",", "]", "[", "!"}, 4),
      TypeTheme(<<"a", "\n">>, {"*", "\n", "=", "7"}, 3) }

MCDocuments ==
    { Theme(CommentStart, {"@", "a", " ", "\n", "{", "}"}, 4, CommentEnd),
      Theme(Tag(<<"return">>), {"{", "}", "@", " ", "\n", "a"}, 4, CommentEnd),
      Theme(Tag(<<"param", "{", "a", "}">>), {"a", "@", " ", "\n", "{"}, 4, CommentEnd),
      Theme(Tag(<<"template", " ">>), {"a", ",", "7", " ", "@"}, 4, CommentEnd),
      Theme(Tag(<<"suppress">>), {"{", "a", ",", "}", " "}, 4, CommentEnd),
      Theme(Tag(<<"modifies">>), {"{", "this", "a", "}", " "}, 4, CommentEnd),
      Theme(Tag(<<"const">>), {"{", "a", "}", "@", " "}, 3, CommentEnd),
      Theme(Tag(<<"see">>), {"a", "@", " ", "\n"}, 4, CommentEnd),
      Theme(Tag(<<"license">>), {"a", "@", " ", "\n", "{", "}"}, 4, CommentEnd),
      Theme(Tag(<<"final">>), {"a", "@", " ", "final"}, 5, CommentEnd) }

MCScripts ==
    { Theme(<<"a">>, {"/", "*", "\n", "a", " "}, 5, <<>>),
      Theme(<<>>, {"=", "!", ">", "<", ".", "&"}, 4, <<>>),
      Theme(<<>>, {"7", ".", "e", "-", "+", "0"}, 5, <<>>),
      Theme(<<"0">>, {"x", "b", "1", "0", "e", "8"}, 5, <<>>),
      Theme(<<"1">>, {"7", "9", "0"}, 5, <<".", "7">>),
      Theme(<<"dq">>, {"dq", "bs", "u", "1", "{", "}"}, 5, <<>>),
      Theme(<<"sq">>, {"sq", "dq", "bs", "x", "a", "\n"}, 5, <<"sq">>),
      Theme(<<"dq">>, {"bs", "\r", "\n", "0", "n"}, 4, <<"dq", "dq">>),
      Theme(<<"dq", "bs", "u", "{", "1">>, {"0", "1", "}", "dq"}, 4, <<"dq">>),
      Theme(<<"bq">>, {"bq", "#", "\n", " ", "ls"}, 4, <<>>) }

MCPatterns ==
    { Theme(<<"/">>, {"a", "(", ")", "|", "*"}, 5, <<"/">>),
      Theme(<<"/">>, {"bs", "[", "]", "/", "^", "a"}, 5, <<>>),
      Theme(<<"/", "a">>, {"{", "1", ",", "}", "?", "7"}, 5, <<"/">>),
      Theme(<<"/", "(">>, {"?", ":", "=", ")", "a"}, 4, <<"/">>),
      Theme(<<"/", "=">>, {"$", "^", ".", "b", "bs", "+"}, 4, <<"/">>) }

MCOptions == [strict_backslash : BOOLEAN, strict_regexp : BOOLEAN]
MCThemes == MCTypes \cup MCDocuments \cup MCScripts \cup MCPatterns
InThemes(themes) ==
    /\ \E theme \in themes : text \in TextsOf(theme)
    /\ options \in {o \in MCOptions : o.strict_backslash = o.strict_regexp}
    /\ LexerInit
Init == InThemes(MCThemes)
Spec == Init /\ [][Next]_lexerVars

(* Function types only. *)
FunctionTypesInit ==
    InThemes({TypeTheme(<<"function", "(">>, {"a", ",", "!", ")"}, 3)})
FunctionTypesSpec == FunctionTypesInit /\ [][Next]_lexerVars
================================================================================
