------------------------------ MODULE TokenStream ------------------------------
(***************************************************************************)
(* The tokens as the parser reads them (parser/parser.cc): one token of    *)
(* look-ahead that the lexer holds, the tokens pushed back in front of it, *)
(* the flag that tells whether a line break precedes the lexer's token,    *)
(* and the bracket tracker (parser/utils/bracket_tracker.cc), which is fed *)
(* a token when it becomes the look-ahead, before the parser consumes it.  *)
(*                                                                         *)
(* A token is what the parser tells apart: its kind and whether a line     *)
(* break precedes it.  The comments between two tokens only add to the     *)
(* line break; after the last token they make one that precedes the end of *)
(* the text.  The source text is any sequence of tokens: every token is    *)
(* chosen when the lexer reads it.  A scenario fixes how the text starts,  *)
(* which tokens may follow, and the option of the parser.                  *)
(***************************************************************************)
EXTENDS Naturals, Sequences, FiniteSets

CONSTANTS
    Scenario,   \* [start: tokens read first, next: tokens read later,
                \*  disable_automatic_semicolon: the option]
    MaxTokens   \* bound: tokens read after the start of the scenario

(* The kinds of tokens, by what the parser asks of them. *)
Keyword ==
    {"break", "case", "catch", "class", "debugger", "default", "do",
     "else", "enum", "extends", "finally", "for", "function", "if", "in",
     "instanceof", "new", "return", "static", "switch", "this", "throw",
     "true", "try", "typeof", "var", "while", "with", "yield"}
NameKind == Keyword \cup {"name", "async", "get", "of"}
LiteralKind == {"number"}
OpenBracket == {"(", "[", "{"}
CloseBracket == {")", "]", "}"}
PunctuatorKind ==
    OpenBracket \cup CloseBracket \cup
    {".", "...", ";", ",", ":", "?", "=", "+=", "=>", "+", "!", "++", "*",
     "||", "<", "**", "/", "/="}
DocumentKind == {"jsdoc", "fileoverview"}
Kind == NameKind \cup LiteralKind \cup PunctuatorKind \cup DocumentKind

Token == [kind : Kind, newline : BOOLEAN]
EndOfInput == [kind : {"end"}, newline : BOOLEAN]

ASSUME ScenarioAssumption ==
    /\ MaxTokens \in Nat
    /\ \A s \in Scenario :
          /\ s.start \in Seq(Token)
          /\ s.next \subseteq Token
          /\ s.disable_automatic_semicolon \in BOOLEAN

VARIABLES
    scenario,                 \* the scenario of this text
    position,                 \* number of tokens the lexer has read
    current_token_,           \* the lexer's token, or the end of the text
    token_stack_,             \* tokens pushed back, the next one first
    is_separated_by_newline_, \* a line break precedes the lexer's token
    brackets,                 \* open brackets of the tracker, innermost first
    reported                  \* an error has been reported

stream == <<position, current_token_, token_stack_, is_separated_by_newline_,
            brackets>>
streamVars == <<scenario, stream, reported>>

StrictSemicolon == scenario.disable_automatic_semicolon

(* Which close bracket an open bracket asks for. *)
Closing == [b \in OpenBracket |->
              CASE b = "(" -> ")" [] b = "[" -> "]" [] b = "{" -> "}"]

(* A close bracket that does not match is reported and matches nothing. *)
Mismatch(k, stack) ==
    /\ k \in CloseBracket
    /\ stack = <<>> \/ Closing[Head(stack)] # k

Feed(k, stack) ==
    IF k \in OpenBracket THEN <<k>> \o stack
    ELSE IF k \in CloseBracket /\ ~Mismatch(k, stack) THEN Tail(stack)
    ELSE stack

(* BracketTracker::Finish reports an open bracket at the end of the text. *)
UnclosedBracketButOne == Len(brackets) > 1
UnclosedBracket == brackets # <<>>

(* The tokens that the source text may have as its n-th. *)
Offered(n) ==
    IF n <= Len(scenario.start) THEN {scenario.start[n]}
    ELSE EndOfInput \cup
         (IF n <= Len(scenario.start) + MaxTokens THEN scenario.next ELSE {})

(* CanPeekToken and PeekToken; at the end of the text the kind is "end", *)
(* which is none of the kinds the parser looks for.                      *)
PeekToken == IF token_stack_ # <<>> THEN Head(token_stack_) ELSE current_token_
CanPeekToken == PeekToken \notin EndOfInput
Peek == PeekToken.kind
IsName == Peek \in NameKind
IsLiteral == Peek \in LiteralKind

(* SkipCommentTokens: the lexer's next token becomes the look-ahead. *)
LookAhead(error) ==
    \E t \in Offered(position + 1) :
       /\ current_token_' = t
       /\ is_separated_by_newline_' = t.newline
       /\ position' = IF t \in EndOfInput THEN position ELSE position + 1
       /\ brackets' = Feed(t.kind, brackets)
       /\ reported' = (reported \/ error \/ Mismatch(t.kind, brackets))

(* ConsumeToken: Advance reads on only when nothing is pushed back. *)
PopTokenKeepingIt(error) ==
    /\ reported' = (reported \/ error)
    /\ UNCHANGED <<token_stack_, position, current_token_,
                   is_separated_by_newline_, brackets>>
PopToken(error) ==
    /\ token_stack_' = Tail(token_stack_)
    /\ reported' = (reported \/ error)
    /\ UNCHANGED <<position, current_token_, is_separated_by_newline_, brackets>>

ConsumeToken(error) ==
    /\ CanPeekToken
    /\ IF token_stack_ # <<>>
         THEN PopToken(error)
         ELSE LookAhead(error) /\ UNCHANGED token_stack_
    /\ UNCHANGED scenario

(* PushBackToken *)
PushBackToken(token, error) ==
    /\ token_stack_' = <<token>> \o token_stack_
    /\ reported' = (reported \/ error)
    /\ UNCHANGED <<scenario, position, current_token_,
                   is_separated_by_newline_, brackets>>

(* No token is consumed. *)
KeepToken(error) ==
    /\ reported' = (reported \/ error)
    /\ UNCHANGED <<scenario, stream>>

(* The constructor of the lexer and the first SkipCommentTokens of Run. *)
StreamInit ==
    /\ scenario \in Scenario
    /\ \E t \in Offered(1) :
          /\ current_token_ = t
          /\ is_separated_by_newline_ = t.newline
          /\ position = IF t \in EndOfInput THEN 0 ELSE 1
          /\ brackets = Feed(t.kind, <<>>)
          /\ reported = Mismatch(t.kind, <<>>)
    /\ token_stack_ = <<>>

StreamTypeOK ==
    /\ scenario \in Scenario
    /\ position \in Nat
    /\ current_token_ \in Token \cup EndOfInput
    /\ token_stack_ \in Seq(Token)
    /\ is_separated_by_newline_ \in BOOLEAN
    /\ brackets \in Seq(OpenBracket)
    /\ reported \in BOOLEAN
=============================================================================
