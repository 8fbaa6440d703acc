------------------------------ MODULE SyntaxTree ------------------------------
(***************************************************************************)
(* The syntax tree: nodes made by the node factory of syntaxes shared by    *)
(* the syntax factory, names numbered by the map of names, and the          *)
(* iterators of ast/node_traversal.cc.                                      *)
(*                                                                          *)
(* A script of syntax codes says which factory members are called; their    *)
(* arguments are any nodes made so far that the assertions of the factory   *)
(* allow.  Then the tree of the last node is walked.                        *)
(***************************************************************************)
EXTENDS Naturals, Sequences, FiniteSets, SequencesExt, NodeFactory

CONSTANTS
    Scripts,           \* sequences of syntax codes
    Texts,             \* texts of names
    Numbers,           \* values of numbers, NaN among them
    NaN,               \* not a number: it compares with nothing
    MaxList            \* bound: elements of a list

ASSUME SyntaxTreeAssumption ==
    /\ Scripts \subseteq Seq(Codes \cup {"YieldStar"})
    /\ <<>> \notin Scripts       \* a program is a node at least
    /\ Numbers \subseteq Nat \cup {NaN}
    /\ MaxList \in Nat
    /\ "yield*" \notin Texts     \* an identifier has no star

VARIABLES
    script,     \* what is still to be made
    nodes,      \* the nodes: their syntax and their children
    given,      \* what the factory was given for each node
    syntaxes,   \* the syntaxes of the factory's cache
    names,      \* NameIdMap: texts and their numbers
    last_id,
    walk        \* an iteration over the last node

vars == <<script, nodes, given, syntaxes, names, last_id, walk>>

-----------------------------------------------------------------------------
(* TokenKind: the punctuators and three lists of words, each between a      *)
(* start and an end marker.                                                 *)
NumberOfPunctuators == 56

Keywords == <<"await", "break", "case", "catch", "class", "const", "continue",
    "debugger", "default", "delete", "do", "else", "enum", "export", "extends",
    "false", "finally", "for", "function", "if", "implements", "import", "in",
    "instanceof", "interface", "let", "new", "null", "package", "private",
    "protected", "public", "return", "static", "super", "switch", "this",
    "throw", "true", "try", "typeof", "var", "void", "while", "with", "yield",
    "yield_star">>

KnownWords == <<"Array", "arguments", "async", "boolean", "constructor", "from",
    "get", "global", "hasInstance", "isConcatSpreadable", "iterator", "match",
    "number", "Object", "of", "prototype", "replace", "search", "set",
    "species", "split", "string", "Symbol", "symbol", "target", "toPrimitive",
    "toStringTag", "unscopables", "undefined">>

TagNames == <<"@author", "@const", "@constructor", "@define", "@deprecated",
    "@dict", "@enum", "@export", "@extends", "@externs", "@fileoverview",
    "@final", "@implements", "@implicitCast", "@inheritDoc", "@interface",
    "@lends", "@license", "@modifies", "@noalias", "@nocollapse", "@nocompile",
    "@nosideeffects", "@override", "@package", "@param", "@preserve",
    "@private", "@protected", "@public", "@record", "@return", "@see",
    "@struct", "@suppress", "@template", "@this", "@throws", "@type",
    "@typedef", "@unrestricted">>

StartOfKeyword == NumberOfPunctuators
EndOfKeyword == StartOfKeyword + Len(Keywords) + 1
StartOfKnownWord == EndOfKeyword + 1
EndOfKnownWord == StartOfKnownWord + Len(KnownWords) + 1
StartOfJsDocTagName == EndOfKnownWord + 1
EndOfJsDocTagName == StartOfJsDocTagName + Len(TagNames) + 1

(* The number of the token kind of the i-th word of a list. *)
KindOfKeyword(i) == StartOfKeyword + i
KindOfKnownWord(i) == StartOfKnownWord + i
KindOfTagName(i) == StartOfJsDocTagName + i
YieldStar == KindOfKeyword(Len(Keywords))
DeclarationKeywords == {"const", "let", "var"}

-----------------------------------------------------------------------------
(* NameIdMap, a set of pairs of a text and its number: a word keeps the     *)
(* number it got first.                                                     *)
IdOf(map, text) == (CHOOSE entry \in map.ids : entry[1] = text)[2]
RegisterAlways(map, text) ==
    [ids |-> {entry \in map.ids : entry[1] # text} \cup {<<text, map.last + 1>>},
     last |-> map.last + 1]
Register(map, text) ==
    IF \E entry \in map.ids : entry[1] = text THEN map
                                              ELSE RegisterAlways(map, text)

NoNames == [ids |-> {}, last |-> 0]
(* Register of each text of a list, counted from start: a text that is in   *)
(* the map, or stands earlier in the list, takes no number.                 *)
RegisterList(map, start, list) ==
    LET new == {i \in DOMAIN list :
                  /\ \A entry \in map.ids : entry[1] # list[i]
                  /\ \A j \in 1..(i - 1) : list[j] # list[i]}
        id == [i \in new |-> start + Cardinality({j \in new : j <= i})]
    IN  [ids |-> map.ids \cup {<<list[i], id[i]>> : i \in new},
         last |-> start + Cardinality(new)]
PopulateInSequence ==
    RegisterList(NoNames, StartOfKeyword, Keywords \o KnownWords \o TagNames)
Populate ==
    LET keywords == RegisterList(NoNames, StartOfKeyword, Keywords)
        known == RegisterList(keywords, StartOfKnownWord, KnownWords)
    IN  RegisterList(known, StartOfJsDocTagName, TagNames)

-----------------------------------------------------------------------------
(* The caches of the syntax factory.  Numbers are keys of an ordered map,   *)
(* whose order is the one of the machine: nothing is less than NaN nor      *)
(* greater.  find takes the first key that is not less than the number, and *)
(* has found it when the number is not less than the key.                   *)
Less(a, b) == a # NaN /\ b # NaN /\ a < b

LowerBound(values, number) ==
    {v \in values : /\ ~ Less(v, number)
                    /\ \A w \in values : ~ Less(w, number) => ~ Less(w, v)}
FindExactly(code, parameters) ==
    {i \in DOMAIN syntaxes : syntaxes[i] = [code |-> code, parameters |-> parameters]}
FindLowerBound(number) ==
    LET positions == {i \in DOMAIN syntaxes : syntaxes[i].code = "NumericLiteral"}
        values == {syntaxes[i].parameters[1] : i \in positions}
    IN  {i \in positions : syntaxes[i].parameters[1] \in LowerBound(values, number)}
FindNumber(number) ==
    {i \in FindLowerBound(number) : ~ Less(number, syntaxes[i].parameters[1])}
Find(code, parameters) ==
    IF code = "NumericLiteral" THEN FindNumber(parameters[1])
                               ELSE FindExactly(code, parameters)

(* The syntax of a node and the code of its syntax. *)
CodeOf(n) == syntaxes[nodes[n].syntax].code
NumberOf(n) == syntaxes[nodes[n].syntax].parameters[1]
IsToken(n) == CodeOf(n) \in {"Name", "Punctuator"}

(* Node's constructor and NewSyntax: the node is made of the shared syntax. *)
NewNodeOf(code, parameters, arguments, text) ==
    LET present == Find(code, parameters)
        syntax == IF present = {} THEN Len(syntaxes) + 1
                                  ELSE CHOOSE i \in present : TRUE
    IN  /\ syntaxes' = IF present # {} THEN syntaxes
                       ELSE Append(syntaxes, [code |-> code, parameters |-> parameters])
        /\ nodes' = Append(nodes,
             [syntax |-> syntax, children |-> ChildrenOf(FactoryOf(code), arguments)])
        /\ given' = Append(given, [code |-> code, parameters |-> parameters,
                                   arguments |-> arguments, text |-> text])

NoArguments == [operand |-> <<>>, list |-> <<>>]

-----------------------------------------------------------------------------
Init ==
    /\ script \in Scripts
    /\ nodes = <<>>
    /\ given = <<>>
    /\ syntaxes = <<[code |-> "BooleanLiteral", parameters |-> <<0>>],
                    [code |-> "BooleanLiteral", parameters |-> <<1>>]>>
    /\ names = Populate.ids
    /\ last_id = Populate.last
    /\ walk = [phase |-> "none", stack |-> <<>>, visited |-> <<>>]

(* The script asks for this node next. *)
NextInScript(code) ==
    /\ script # <<>>
    /\ Head(script) = code
    /\ script' = Tail(script)
    /\ UNCHANGED walk

(* NewName(range): the name is registered. *)
NewName ==
    \E text \in Texts :
      LET map == Register([ids |-> names, last |-> last_id], text)
      IN  /\ NextInScript("Name")
          /\ names' = map.ids
          /\ last_id' = map.last
          /\ NewNodeOf("Name", <<IdOf(map, text)>>, NoArguments, text)

(* NewName(range, name_id): the name the parser makes of yield and a star. *)
NewYieldStar ==
    /\ NextInScript("YieldStar")
    /\ UNCHANGED <<names, last_id>>
    /\ NewNodeOf("Name", <<YieldStar>>, NoArguments, "yield*")

NewPunctuator ==
    \E kind \in {1, 2} :
      /\ NextInScript("Punctuator")
      /\ UNCHANGED <<names, last_id>>
      /\ NewNodeOf("Punctuator", <<kind>>, NoArguments, "")

NewNumericLiteral ==
    \E value \in Numbers :
      /\ NextInScript("NumericLiteral")
      /\ UNCHANGED <<names, last_id>>
      /\ NewNodeOf("NumericLiteral", <<value>>, NoArguments, "")

(* The parameters a syntax is made with: the kind of an operator, a kind or *)
(* an error code the caller passes, the method and bounds of a repeat.      *)
ParametersOf(code, operand) ==
    CASE code \in {"AssignmentExpression", "BinaryExpression", "UnaryExpression"} ->
           {<<NumberOf(operand["Operator"])>>}
      [] code \in {"ArrowFunction", "Function", "FunctionType",
                   "AssertionRegExp", "Invalid", "BooleanLiteral"} ->
           {<<0>>, <<1>>}
      [] code = "Method" -> {<<0, 0>>, <<1, 0>>}
      [] code = "RegExpRepeat" -> {<<0, 0, 1>>, <<1, 0, 1>>}
      [] OTHER -> {<<>>}

(* Every other member of the factory. *)
NewOther(code) ==
    LET factory == FactoryOf(code)
        operands == Range(factory.operands) \cup factory.dropped
    IN  \E operand \in [operands -> DOMAIN nodes],
           list \in IF factory.list = "" THEN {<<>>}
                    ELSE UNION {[1..n -> DOMAIN nodes] : n \in 0..MaxList} :
          LET Argument(name) == IF name = factory.list THEN Range(list)
                                                       ELSE {operand[name]}
              is == [name \in operands \cup {factory.list} |->
                       {CodeOf(n) : n \in Argument(name)}]
              kind == [name \in operands \cup {factory.list} |->
                         {IF given[n].text \in DeclarationKeywords
                          THEN "Const" ELSE "" : n \in Argument(name)}]
          IN  /\ NextInScript(code)
              /\ UNCHANGED <<names, last_id>>
              /\ Asserts(code, is, kind)
              /\ \E parameters \in ParametersOf(code, operand) :
                   NewNodeOf(code, parameters,
                             [operand |-> operand, list |-> list], "")

MakeNode ==
    \/ NewName
    \/ NewYieldStar
    \/ NewPunctuator
    \/ NewNumericLiteral
    \/ /\ script # <<>>
       /\ Head(script) \notin {"Name", "YieldStar", "Punctuator", "NumericLiteral"}
       /\ NewOther(Head(script))

-----------------------------------------------------------------------------
(* The iterators.  InclusiveDescendants keeps a stack of containers and     *)
(* positions in them; the container 0 stands for the null pointer under     *)
(* which the start node itself is the only node.                            *)
ArityOf(n) == Len(nodes[n].children)
ChildAt(n, index) == nodes[n].children[index + 1]
ChildNodesFrom(n, index) == SubSeq(nodes[n].children, index + 1, ArityOf(n))

Root == Len(nodes)
Begin(inclusive) == IF inclusive THEN <<<<0, 0>>>> ELSE <<<<Root, 0>>>>

AtStart(stack) == Last(stack)[1] = 0
InBounds(stack) == ~ AtStart(stack) => Last(stack)[2] < ArityOf(Last(stack)[1])
Current(stack) ==
    IF AtStart(stack) THEN Root ELSE ChildAt(Last(stack)[1], Last(stack)[2])

(* The innermost container with a child after the present one. *)
NextSibling(stack) ==
    LET open == {i \in DOMAIN stack : stack[i][2] + 1 < ArityOf(stack[i][1])}
        i == Max(open)
    IN  IF open = {} THEN <<>>
        ELSE Append(SubSeq(stack, 1, i - 1), <<stack[i][1], stack[i][2] + 1>>)

AdvanceWithinChild(stack) ==
    IF ArityOf(Current(stack)) > 0
    THEN Append(Front(stack), <<Current(stack), 0>>)
    ELSE NextSibling(stack)
AdvanceWithin(stack) ==
    IF ArityOf(Current(stack)) > 0 THEN Append(stack, <<Current(stack), 0>>)
                                   ELSE NextSibling(stack)
Advance(stack) ==
    CASE AtStart(stack) /\ ArityOf(Root) = 0 -> <<>>
      [] AtStart(stack) /\ ArityOf(Root) > 0 -> <<<<Root, 0>>>>
      [] OTHER -> AdvanceWithin(stack)

(* Of a node without children only the inclusive walk: the descendants of   *)
(* one begin with a child that it does not have.                            *)
BeginWalk ==
    /\ script = <<>>
    /\ walk.phase = "none"
    /\ \E inclusive \in BOOLEAN :
         /\ inclusive \/ ArityOf(Root) > 0
         /\ walk' = [phase |-> IF inclusive THEN "inclusive" ELSE "descendants",
                     stack |-> Begin(inclusive), visited |-> <<>>]
    /\ UNCHANGED <<script, nodes, given, syntaxes, names, last_id>>

(* The body of a range for: read the current node, advance.  Reading it     *)
(* where there is none is stopped by the assertion of child_at.             *)
Visit ==
    /\ walk.stack # <<>>
    /\ InBounds(walk.stack)
    /\ walk' = [walk EXCEPT !.visited = Append(@, Current(walk.stack)),
                            !.stack = Advance(@)]
    /\ UNCHANGED <<script, nodes, given, syntaxes, names, last_id>>

Next == MakeNode \/ BeginWalk \/ Visit

Spec == Init /\ [][Next]_vars

-----------------------------------------------------------------------------
Given(n, name) ==
    IF name \in DOMAIN given[n].arguments.operand
    THEN given[n].arguments.operand[name] ELSE 0

(* A node gives back what the factory was given: every accessor of its      *)
(* syntax reads the argument it is named for, whatever place the factory    *)
(* stored it at, the list accessors the list, and there are as many         *)
(* children and parameters as its format says.  (node_factory.cc against    *)
(* the accessors of expressions.cc, statements.cc, types.cc and the others.) *)
ArgumentsAreReadBack ==
    \A n \in DOMAIN nodes :
      LET syntax == SyntaxOf(CodeOf(n))
      IN  /\ CodeOf(n) = given[n].code
          /\ IF syntax.variadic THEN ArityOf(n) >= syntax.arity
                                ELSE ArityOf(n) = syntax.arity
          /\ Len(syntaxes[nodes[n].syntax].parameters) = syntax.parameters
          /\ \A name \in DOMAIN syntax.child :
               ChildAt(n, syntax.child[name]) = Given(n, name)
          /\ \A name \in DOMAIN syntax.list :
               ChildNodesFrom(n, syntax.list[name]) = given[n].arguments.list

NumericLiterals == {n \in DOMAIN nodes : CodeOf(n) = "NumericLiteral"}
FirstNumericLiteral ==
    CHOOSE n \in NumericLiterals : \A m \in NumericLiterals : n <= m

(* The numbers of a program keep their values although their syntaxes are   *)
(* found in an ordered map by a key that may be NaN, which the lexer makes  *)
(* of 0e-1: a number that is not NaN has its own value, unless the first    *)
(* number of all was NaN (then every number is NaN), and NaN in a map of    *)
(* numbers takes the place of none of them.                                 *)
NumbersKeepTheirValue ==
    \A n \in NumericLiterals :
      /\ given[n].parameters[1] # NaN
      /\ given[FirstNumericLiteral].parameters[1] # NaN
      => NumberOf(n) = given[n].parameters[1]

(* A name has the number of a token kind exactly when it is written as that *)
(* word, and two names have the same number exactly when they are written   *)
(* the same: what every comparison of a name with a kind rests on.  The one *)
(* exception is the identifier yield_star, which is the word of the kind    *)
(* the parser gives to yield and a star.                                    *)
NamesAreTokenKinds ==
    LET Named == {n \in DOMAIN nodes : CodeOf(n) = "Name"}
        text == [n \in Named |-> given[n].text]
    IN  /\ \A n \in Named :
             /\ \A i \in DOMAIN Keywords :
                  text[n] = Keywords[i] => NumberOf(n) = KindOfKeyword(i)
             /\ \A i \in DOMAIN KnownWords :
                  text[n] = KnownWords[i] => NumberOf(n) = KindOfKnownWord(i)
             /\ \A i \in DOMAIN TagNames :
                  text[n] = TagNames[i] => NumberOf(n) = KindOfTagName(i)
        /\ \A n, m \in Named :
             NumberOf(n) = NumberOf(m)
               <=> text[n] = text[m]
                   \/ {text[n], text[m]} = {"yield*", "yield_star"}

(* A node and what is under it, each node before its children and they in   *)
(* their order.                                                             *)
PreOrder[n \in DOMAIN nodes] ==
    <<n>> \o FlattenSeq([i \in 1..ArityOf(n) |-> PreOrder[nodes[n].children[i]]])

(* The iterator visits every descendant once for each place it has in the   *)
(* tree, in preorder, and stops after the last one: what it has visited is  *)
(* a prefix of the preorder, the whole of it when its stack is empty.       *)
WalkIsPreOrder ==
    walk.phase # "none" =>
      LET order == IF walk.phase = "inclusive" THEN PreOrder[Root]
                                               ELSE Tail(PreOrder[Root])
      IN  IF walk.stack = <<>> THEN walk.visited = order
                               ELSE IsStrictPrefix(walk.visited, order)

===============================================================================
