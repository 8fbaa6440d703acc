------------------------------ MODULE MCSentences ------------------------------
(* The texts of MCParser, and texts of the tokens of the grammar: all of up  *)
(* to three, and of up to five those that begin as an expression may.        *)
EXTENDS MCParser, ParserSentences

MCSentence(start) ==
    [start |-> start, next |-> GrammarTokens, disable_automatic_semicolon |-> FALSE]
MCSentences ==
    {MCSentence(start) : start \in {<<>>} \cup (Plain({"name", "(", "+"}) \X GrammarTokens)}
MCTextsAndSentences == MCTexts \cup MCSentences
=============================================================================
