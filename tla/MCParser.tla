------------------------------- MODULE MCParser -------------------------------
(* Texts for TLC: how they start, and the tokens that may follow.  The      *)
(* starts bring the parser to the functions that a theme is about, so that  *)
(* a few more tokens reach every branch of them.                            *)
EXTENDS Parser

Plain(kinds) == [kind : kinds, newline : {FALSE}]
Broken(kinds) == [kind : kinds, newline : {TRUE}]
Starts(kinds) == [i \in DOMAIN kinds |-> [kind |-> kinds[i], newline |-> FALSE]]
Text(start, next) ==
    [start |-> Starts(start), next |-> next, disable_automatic_semicolon |-> FALSE]
StrictText(start, next) ==
    [Text(start, next) EXCEPT !.disable_automatic_semicolon = TRUE]

(* Operators of all kinds of precedence, unary operators and calls. *)
MCExpressions ==
    { Text(<<"name", "=", "name", "+">>, Plain({"name", "+", "*", "**", "||"})),
      Text(<<"(">>, Plain({"name", "number", ")", "?", ":", "="})),
      Text(<<"name">>, Plain({"name", "[", "]", ".", "(", ")"})),
      Text(<<"name", "(">>, Plain({"name", ",", ")", ";", "]"})),
      Text(<<"new">>, Plain({"new", "name", ".", "(", ")", "["})),
      Text(<<>>, Plain({"!", "typeof", "++", "...", "name"})),
      Text(<<"yield">>, Plain({"*", ";", "yield", "true"})),
      Text(<<"[">>, Plain({"this", ",", "]", "/", "get", "enum"})),
      Text(<<"async">>, Plain({"async", "=>", "function", "(", ")", "name"})),
      Text(<<"(">>, Plain({")", "=>", "{", "}", "name", ","})),
      Text(<<"name", "=">>, Plain({"/=", "jsdoc", "function", "class", "(", ")"})) }

(* Object initializers, functions and classes. *)
MCDeclarations ==
    { Text(<<"(", "{">>, Plain({"name", ":", ",", "}", "=", "jsdoc"})),
      Text(<<"name", "=", "{">>, Plain({"static", "get", "(", ")", "{", "}"})),
      Text(<<"name", "=", "{">>, Plain({"static", "*", "number", ";", "[", "]"})),
      Text(<<"name", "=", "{", "*", "name">>, Plain({"(", ")", "{", "}", "+"})),
      Text(<<"(", "{", "static">>, Plain({":", ",", "=", "+", "}", "get"})),
      Text(<<"class">>, Plain({"name", "extends", "{", "}", ";"})),
      Text(<<"function">>, Plain({"*", "name", "(", ")", "{", "}"})),
      Text(<<"function", "(">>, Plain({"...", "[", "]", ",", "=", ")"})) }

(* Declarations with patterns, and recovery in them. *)
MCBindings ==
    { Text(<<"var">>, Plain({"name", ",", "=", "+"}) \cup Broken({"name"})),
      Text(<<"var", "[">>, Plain({"name", "...", ",", "]", "(", ")"})),
      Text(<<"var", "[", "=">>, Plain({",", "]", "[", "name", ";"})),
      Text(<<"var", "{">>, Plain({"name", ":", "=", ",", "}", "+"})),
      Text(<<"var", "{">>, Plain({"[", "]", "}", "...", "(", ",", ")"})),
      StrictText(<<"var">>, Plain({"[", "]", ","}) \cup Broken({"name", "]"})) }

(* Statements. *)
MCStatements ==
    { Text(<<"for">>, Plain({"(", ")", ";", "name"})),
      Text(<<"for", "(">>, Plain({"jsdoc", "var", "name", "in", ")", ";"})),
      Text(<<"for", "(", "var">>, Plain({"name", "of", "in", "=", ";", ")"})),
      Text(<<"for", "(">>, Plain({"name", "of", ")", "number", "in", "="})),
      Text(<<"if">>, Plain({"(", ")", "name", ";", "else"})),
      Text(<<"do">>, Plain({"while", "(", ")", ";", "name"})),
      StrictText(<<"do", "while", ";">>, Plain({"while", "(", ")", ";", "name"})),
      Text(<<"switch">>, Plain({"(", ")", "{", "}", "name"})),
      Text(<<"switch", "(", "name", ")", "{">>,
           Plain({"case", "default", ":", "}", "name"})),
      StrictText(<<"{">>, Plain({"case", "default", ":", "}", "name"})),
      Text(<<"try">>, Plain({"{", "}", "catch", "finally", "(", "name"})),
      Text(<<"try", ";", "catch", "(", "name">>,
           Plain({"=", "number", ")", "{", "}", "finally"})),
      Text(<<"try", ";", "catch", "(", "name", ";", "var", "[", "(">>,
           Plain({")", "]", ","})),
      Text(<<"try", ";", "catch", "(", "name", ";", "try", ";", "finally">>,
           Plain({"{", "}", ")", "name"})),
      Text(<<"while">>, Plain({"with", "(", ")", "name"})),
      Text(<<"throw">>, Plain({"name", ";", "debugger", "static", "catch"})),
      Text(<<"jsdoc">>, Plain({"name", ".", "=", "fileoverview", ";", "class"})),
      Text(<<"fileoverview">>, Plain({"fileoverview", "in", "name", "["})) }

(* Line breaks, with automatic semicolons and without. *)
MCLineBreaks ==
    LET names == Plain({"name", ";"}) \cup Broken({"name", "++", ":", "}"})
        jumps == Plain({"return", "break", "}"}) \cup Broken({"name", "return"}) IN
    { Text(<<>>, names), StrictText(<<>>, names),
      Text(<<"{">>, jumps), StrictText(<<"{">>, jumps),
      Text(<<"return">>, names), StrictText(<<"return">>, names),
      Text(<<"break">>, names), StrictText(<<"break">>, names),
      Text(<<"name", "=", "/">>, Plain({"name", "}"}) \cup Broken({"name"})),
      StrictText(<<"name", "=", "/">>, Plain({"name", "}"}) \cup Broken({"name"})) }

MCTexts ==
    MCExpressions \cup MCDeclarations \cup MCBindings \cup MCStatements \cup
    MCLineBreaks

(* Texts that show one thing. *)
MCPatterns == {Text(<<"var", "[">>, Plain({"name", ",", "(", ")", "]"}))}
=============================================================================
