---------------------------- MODULE ParserSentences ----------------------------
(***************************************************************************)
(* Which texts the parser accepts, against a grammar: a text is accepted   *)
(* without an error exactly when it is a sentence.  The grammar is that of *)
(* expression statements with calls, groups, arrow functions, comma lists  *)
(* and additive operators, with the semicolons that may be left out; it    *)
(* does not say how to parse.  As in the parser a group in parentheses     *)
(* stands for the parameters of an arrow function, whatever it holds.      *)
(***************************************************************************)
EXTENDS Parser

CONSTANT MaxSentence   \* bound: tokens of the texts compared with the grammar

VARIABLE text   \* the tokens read so far

Name == [kind : {"name"}, newline : BOOLEAN]
Mark(k) == {[kind |-> k, newline |-> FALSE]}

(* The tokens of the grammar: only a name may follow a line break. *)
GrammarTokens == Name \cup UNION {Mark(k) : k \in {"(", ")", ",", "=>", "+", ";"}}

(* Sets of texts of at most MaxSentence tokens, and their concatenation. *)
Word(tokens) == {<<t>> : t \in tokens}
Then(S, T) ==
    UNION {{s \o t : t \in {u \in T : Len(s) + Len(u) <= MaxSentence}} : s \in S}
Enclosed(S) == Then(Word(Mark("(")), Then(S, Word(Mark(")"))))
Nothing == {<<>>}

(* One more round of the productions, the shorter sentences being known. *)
Grow(g) ==
    LET arrow == Then(Word(Mark("=>")), g.assignment)
        group == Enclosed(g.expression)
        primary == UNION {Word(Name), Then(Word(Name), arrow),
                          Then(Enclosed(Nothing), arrow), group, Then(group, arrow)}
        arguments == Enclosed(Nothing) \cup Enclosed(g.expression)
        call == primary \cup Then(g.call, arguments)
        unary == call \cup Then(Word(Mark("+")), g.unary)
        assignment == unary \cup Then(g.assignment, Then(Word(Mark("+")), unary))
    IN [call |-> call, unary |-> unary, assignment |-> assignment,
        expression |-> assignment \cup
                       Then(g.expression, Then(Word(Mark(",")), assignment))]

Empty == [call |-> {}, unary |-> {}, assignment |-> {}, expression |-> {}]
Grammar[n \in Nat] == IF n = 0 THEN Empty ELSE Grow(Grammar[n - 1])
Expressions == Grammar[MaxSentence].expression

(* Statements: the semicolon of the last one may be left out, and that of *)
(* one that is followed by a token that cannot go on and starts a line.   *)
StartsLine(s) == s # <<>> /\ s[1].newline
Prepend(programs) ==
    UNION {Nothing, Expressions,
           Then(Expressions, {p \in programs : StartsLine(p)}),
           Then(Expressions \cup Nothing, Then(Word(Mark(";")), programs))}
Programs[n \in Nat] == IF n = 0 THEN {} ELSE Prepend(Programs[n - 1])
Sentences == Programs[MaxSentence + 1]

SentencesInit ==
    /\ Init
    /\ text = IF position = 0 THEN <<>> ELSE <<current_token_>>

SentencesNext ==
    /\ Next
    /\ text' = IF position' = position THEN text ELSE Append(text, current_token_')

SentencesSpec == SentencesInit /\ [][SentencesNext]_<<parserVars, text>>
SentencesFairSpec == SentencesSpec /\ WF_<<parserVars, text>>(SentencesNext)

(* An error is reported for a text of these tokens exactly when it is no   *)
(* sentence.                                                               *)
IsCompared ==
    /\ ~StrictSemicolon /\ Len(text) <= MaxSentence
    /\ \A i \in DOMAIN text : text[i] \in GrammarTokens
AcceptsExactlySentences ==
    Terminated /\ ~crashed /\ IsCompared => (~reported <=> text \in Sentences)
=============================================================================
