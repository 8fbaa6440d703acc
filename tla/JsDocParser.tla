------------------------------ MODULE JsDocParser ------------------------------
(***************************************************************************)
(* The parser of documentation comments (parser/jsdoc/jsdoc_parser.cc),    *)
(* one operator per function.  The state d of the parser is its reader,    *)
(* with the parts of the tag in progress, the nodes of the document and    *)
(* the type expressions that it had parsed.  A node is a text or a tag;    *)
(* a part of a tag is its name, a text, a name or a type.  Of nodes and    *)
(* parts the model keeps the kind and the range.                           *)
(***************************************************************************)
EXTENDS TypeParser

(* FOR_EACH_JSDOC_TAG_NAME, by the syntax of the tags. *)
TagNames ==
    [Description |-> {"@deprecated", "@fileoverview", "@license", "@preserve"},
     Modifies |-> {"@modifies"},
     NameList |-> {"@suppress"},
     None |-> {"@constructor", "@dict", "@externs", "@final", "@implicitCast",
               "@inheritDoc", "@interface", "@noalias", "@nocollapse",
               "@nocompile", "@nosideeffects", "@override", "@package",
               "@private", "@protected", "@public", "@record", "@struct",
               "@unrestricted"},
     OptionalType |-> {"@const", "@export"},
     SingleLine |-> {"@author", "@see"},
     Type |-> {"@enum", "@extends", "@implements", "@lends", "@this",
               "@throws", "@type", "@typedef"},
     TypeDescription |-> {"@define", "@return"},
     TypeNames |-> {"@template"},
     TypeParameterDescription |-> {"@param"}]
TagSyntaxOf(name) ==
    IF \E syntax \in DOMAIN TagNames : name \in TagNames[syntax]
      THEN CHOOSE syntax \in DOMAIN TagNames : name \in TagNames[syntax]
      ELSE "Unknown"

NewJsDocParser(start, end) ==
    [at |-> start, end |-> end, errors |-> {}, parts |-> <<>>, nodes |-> <<>>,
     types |-> <<>>]
RangeNode(kind, start, end) == [kind |-> kind, start |-> start, end |-> end]
AddPart(d, kind, start, end) ==
    [d EXCEPT !.parts = Append(@, RangeNode(kind, start, end))]

IsSpace(c) == IsWhitespace(c) /\ ~IsLineTerminator(c)
SkipWhitespaces(d) == SkipWhile(IsSpace, d)

(* SkipToBlockTag: the text ends before the blanks in front of a tag, and  *)
(* an inline tag in braces belongs to it.  Scan returns where it stopped,  *)
(* where the text ends, and the state it stopped in.                       *)
RECURSIVE Scan(_, _, _, _)
Scan(i, end, state, text_end) ==
    LET Goto(next, new_state, new_text_end) ==
            Scan(next, end, new_state, new_text_end) IN
    IF i = end THEN [at |-> i, text_end |-> text_end, state |-> state]
    ELSE CASE state = "Brace" ->
                IF CharAt(i) = "@" THEN Goto(i + 1, "InlineTag", text_end)
                ELSE IF CharAt(i) = "{" THEN Goto(i + 1, "Brace", text_end)
                ELSE Goto(i, "Normal", text_end)
           [] state = "Normal" ->
                IF IsWhitespace(CharAt(i)) THEN Goto(i + 1, "Whitespace", text_end)
                ELSE IF CharAt(i) = "{" THEN Goto(i + 1, "Brace", i + 1)
                ELSE Goto(i + 1, "Normal", i + 1)
           [] state = "InlineTag" ->
                IF CharAt(i) = "}" THEN Goto(i + 1, "Normal", i + 1)
                ELSE Goto(i + 1, "InlineTag", text_end)
           [] state = "Whitespace" ->
                IF IsWhitespace(CharAt(i)) THEN Goto(i + 1, "Whitespace", text_end)
                ELSE IF CharAt(i) = "@"
                  THEN [at |-> i, text_end |-> text_end, state |-> state]
                ELSE Goto(i, "Normal", text_end)
ScanFrom(start, end, state) == Scan(start, end, state, start)
BlockTagAfterText(d) == ScanFrom(SkipWhitespaces(d).at, d.end, "Normal")
BlockTag(d) == ScanFrom(SkipWhitespaces(d).at, d.end, "Whitespace")
MoveToTag(d, found) ==
    IF found.state = "InlineTag"
      THEN AddError(MoveTo(d, found.at), "TAG_EXPECT_RBRACE")
      ELSE MoveTo(d, found.at)
SkipToBlockTag(d) == MoveToTag(d, BlockTag(d))

Expect(d, c, error) == IF PeekIs(d, c) THEN ConsumeChar(d) ELSE AddError(d, error)

DescriptionAt(d) ==
    IF CanPeekChar(d) /\ IsLineTerminator(CharAt(d.at))
      THEN AddPart(ConsumeChar(d), "text", d.at, d.at)
      ELSE AddPart(SkipToBlockTag(d), "text", d.at, BlockTag(d).text_end)
ParseDescription(d) == DescriptionAt(SkipWhitespaces(d))

AddName(d, start) ==
    IF start = d.at THEN AddError(d, "TAG_EXPECT_NAME")
    ELSE AddPart(d, "name", start, d.at)
NameAt(d) == AddName(SkipWhile(IsIdentifierPart, d), d.at)
ParseName(d) == NameAt(SkipWhitespaces(d))

CheckModified(d, start) ==
    IF GetString(start, d.at) \in {"arguments", "this"} THEN d
    ELSE AddError(d, "TAG_EXPECT_ARGUMENTS_OR_THIS")
ModifiedAt(d) == CheckModified(ParseName(d), SkipWhitespaces(d).at)
ParseModifies(d) ==
    Expect(SkipWhitespaces(
               ModifiedAt(Expect(SkipWhitespaces(d), "{", "TAG_EXPECT_LBRACE"))),
           "}", "TAG_EXPECT_RBRACE")

(* ParseNames: names with commas between them. *)
RECURSIVE ParseMoreNames(_)
AfterName(d) ==
    IF PeekIs(d, ",") THEN ParseMoreNames(SkipWhitespaces(ConsumeChar(d))) ELSE d
ParseMoreNames(d) ==
    IF ~CanPeekChar(d) THEN d
    ELSE IF ~IsIdentifierStart(CharAt(d.at)) THEN AddError(d, "TAG_EXPECT_NAME")
    ELSE AfterName(SkipWhitespaces(ParseName(d)))
ExpectMore(d, parts) ==
    IF d.parts = parts THEN AddError(d, "TAG_EXPECT_NAMES") ELSE d
ParseNames(d) == ExpectMore(ParseMoreNames(SkipWhitespaces(d)), d.parts)

NameListAt(d) ==
    IF ~PeekIs(d, "{") THEN AddError(d, "TAG_EXPECT_LBRACE")
    ELSE Expect(ParseNames(ConsumeChar(d)), "}", "TAG_EXPECT_RBRACE")
ParseNameList(d) == NameListAt(SkipWhitespaces(d))

ParseSingleLine(d) ==
    LET e == SkipWhitespaces(d)
        IsInLine(c) == ~IsLineTerminator(c)
        f == SkipWhile(IsInLine, e)
        inside == {i \in e.at..(f.at - 1) : ~IsWhitespace(CharAt(i))}
        text_end == CHOOSE i \in {e.at} \cup {k + 1 : k \in inside} :
                       \A k \in inside : k < i IN
    AddPart(IF CanPeekChar(f) THEN ConsumeChar(f) ELSE f, "text", e.at, text_end)

(* ParseType: the type ends at the brace that closes the first one. *)
RECURSIVE EndOfType(_, _, _)
EndOfType(i, end, number_of_braces) ==
    IF i = end \/ (CharAt(i) = "}" /\ number_of_braces = 0) THEN i
    ELSE EndOfType(i + 1, end,
                   CASE CharAt(i) = "{" -> number_of_braces + 1
                     [] CharAt(i) = "}" -> number_of_braces - 1
                     [] OTHER -> number_of_braces)
AddType(d, type, start, end) ==
    AddPart([MoveTo(d, end) EXCEPT
               !.errors = @ \cup type.errors,
               !.types = Append(@, [start |-> start, end |-> end,
                                    errors |-> type.errors, node |-> type.node])],
            "type", start, end)
TypeBetween(d, start, end) == AddType(d, ParseTypeRange(start, end), start, end)
TypeAt(d) ==
    IF ~PeekIs(d, "{") THEN AddError(d, "TAG_EXPECT_LBRACE")
    ELSE Expect(TypeBetween(d, d.at + 1, EndOfType(d.at + 1, d.end, 0)),
                "}", "TAG_EXPECT_RBRACE")
ParseType(d) == TypeAt(SkipWhitespaces(d))

TagAt(d, syntax) ==
    LET e == SkipWhitespaces(d) IN
    CASE syntax = "Description" -> ParseDescription(e)
      [] syntax = "Modifies" -> ParseModifies(d)
      [] syntax = "NameList" -> ParseNameList(d)
      [] syntax = "None" -> d
      [] syntax = "OptionalType" -> IF PeekIs(e, "{") THEN ParseType(e) ELSE e
      [] syntax = "SingleLine" -> ParseSingleLine(d)
      [] syntax = "Type" -> ParseType(d)
      [] syntax = "TypeDescription" -> ParseDescription(ParseType(d))
      [] syntax = "TypeNames" -> ParseNames(d)
      [] syntax = "TypeParameterDescription" ->
           ParseDescription(ParseName(ParseType(d)))
      [] syntax = "Unknown" -> AddError(d, "TAG_UNKNOWN_TAG")
ParseTag(d, name) == TagAt(d, TagSyntaxOf(name))

ParseTagName(d) == SkipWhile(IsIdentifierPart, ConsumeChar(d))

(* JsDocParser::Parse: texts and tags to the end of the comment. *)
AddLongText(d, start, end) ==
    IF end > start + 1
      THEN [d EXCEPT !.nodes = Append(@, RangeNode("text", start, end))]
      ELSE d
AddText(d, start, end) ==
    IF end > start
      THEN [d EXCEPT !.nodes = Append(@, RangeNode("text", start, end))]
      ELSE d
AddTagNode(d, start) ==
    [d EXCEPT !.nodes = Append(@, [kind |-> "tag", start |-> start, end |-> d.at,
                                   parts |-> d.parts])]
TagNamed(d, start) ==
    ParseTag([d EXCEPT !.parts = <<RangeNode("name", start, d.at)>>],
             GetString(start, d.at))
AddTag(d) == AddTagNode(TagNamed(ParseTagName(d), d.at), d.at)
RECURSIVE ParseNodes(_)
AfterText(d) ==
    IF ~CanPeekChar(d) THEN d ELSE ParseNodes(SkipWhitespaces(AddTag(d)))
ParseNodes(d) ==
    AfterText(AddText(SkipToBlockTag(d), d.at, BlockTag(d).text_end))
ParseDocument(start, end) ==
    ParseNodes(SkipWhitespaces(NewJsDocParser(start, end)))
IsDocument(d) == \E i \in DOMAIN d.nodes : d.nodes[i].kind = "tag"
================================================================================
