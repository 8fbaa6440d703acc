# Aoba, in TLA+

Aoba checks JavaScript programs in the style of the Closure compiler: it parses
every file, resolves names and types, and prints the errors it finds.  This
directory models the parts of it that carry its logic, checks them with TLC and
proves theorems about them with TLAPS.  Paths below are relative to `src/`.

`PROJECT.json` lists, for every definition that models code, the lines it stands
for (`map`); what is hard to test in the code (`hazards`); the runs, the
mutants that show that each property can fail, and the theorems.

## 1. The system

The checker is one single-threaded process (`aoba/checker/checker_main.cc`):

    files --> Lexer --> Parser --> syntax trees --> NameResolver --> TypeResolver --> TypeChecker
                 |         |                             |               |
                 +-- bracket tracker, error sink --------+               +--> ClassTreeBuilder

It parses all files first, then `Controller` (`aoba/analyzer/controller.cc:113`)
runs the three passes, each over all trees, and prints what the error sink has
collected.  There is no concurrency and nothing is persisted.  What makes the
code hard is order: classes and names are used before they are declared, tokens
are pushed back, calls nest inside loops over what they change, and an error in
one place must leave the rest in a usable state.

| component | state it keeps | operations | what makes it correct |
|---|---|---|---|
| Class tree builder (`analyzer/class_tree_builder.cc`) | graph of waiting classes, base classes, class lists, pending constructed classes | ProcessClassDefinition, ProcessClassReference, Build | a class is finalized exactly when all its bases are, whatever the order of definitions; errors name what is undefined or cyclic |
| Name resolver (`analyzer/name_resolver.cc`) | chain of environments with variables, types, forward references; maps from nodes to values and types; the properties of the global object | one handler per kind of syntax; the environment's destructor | every name gets the innermost binding around it, once, or is reported |
| Parser core (`parser/parser*.cc`, `parser/utils/bracket_tracker.cc`) | token look-ahead and push-back, line-break flag, open brackets, the call stack of the descent | one function per production, recovery functions | accepts its language, always returns, reports what it skips |
| Lexer (`parser/lexer/lexer.cc`, `parser/utils/character_reader.cc`) | position, current token, line-break flag | CanPeekToken, PeekToken, Advance, ExtendTokenAsRegExp | every token ends where it should, has its value, and knows whether a line break stands before it |
| Type, JsDoc and regexp parsers (`parser/type`, `parser/jsdoc`, `parser/regexp`) | look-ahead token, open brackets, tags in progress | one function per production | they accept their language, and drop no text without an error |
| Type resolver (`analyzer/type_resolver.cc`) | heritage of classes, types of nodes | the visits of annotated constructs, SetClassHeritage, ResolveClass | a class gets well-formed bases; annotated nodes get the types their documents say |
| Types (`analyzer/type_factory.cc`, `type_transformer.cc`, `type_annotation_transformer.cc`) | shared types | NewXxxType, Transform, Compile | equal types are one object, unions are flat; both notations of a function give one type |
| Annotation compiler (`analyzer/annotation_compiler.cc`) | tags by role | Compile | conflicting tags are reported, the kind is that of the tag |
| Controller, type checker (`analyzer/controller.cc`, `context.cc`, `type_checker.cc`) | the passes | Analyze | the passes run in order; not modelled |
| Syntax tree (`ast`) | immutable nodes; caches of syntaxes, numbers of names | node factory, accessors, traversal | what the factory stores the accessors read; a walk visits every node once, in preorder |
| Intermediate representation (`ir`) | caches of nodes, operators, types; lists of uses | factories, use edges | a call returns a node of what it asked for; the lists of uses name the edges; no other part uses it yet |
| Graphs, containers (`base/graphs`, `base/double_linked.h`) | nodes and edges; intrusive links | editors, sorter, iterators | edges as the class tree uses them are modelled; the rest is not |
| Zone, line caches (`base/memory`, `base/*line*`) | segments; line starts found so far | Allocate; lookups | not modelled |
| Printers, test support, externs, build files, `third_party` | none | output, helpers, data | not modelled |

How they interact: the parser *calls* the lexer and the node factory and *reports
to* the error sink; the passes *visit* the trees; the name resolver leaves values
and types in maps that the type resolver *reads*; the type resolver *calls* the
class tree builder in program order, once per definition and per constructed
class, and Build at the end.

## 2. The modules

    ClassLists -> ClassTree -> MCClassTree            ClassHierarchy   (abstract)
        |            |  \-- implements ----------------^
        |            \-> ClassTreeProofs
        \-> ClassListsProofs --^
    Induction ----^

    NameResolver -> MCNameResolver                    LexicalScopes    (abstract)
         |  \-- implements ----------------------------^
         \-> NameResolverProofs

    TokenStream -> ParserMachine -> ParserBindings, ParserExpressions,
        ParserStatements -> Parser -> MCParser
                              |\-> ParserSentences -> MCSentences  (extends MCParser too)
                              \-> ParserProofs

    CharacterReader -> TypeLexer -> TypeParser -> JsDocParser    (instances of Lexer)
                  \        \-> TypeGrammar                       (reference grammar)
                   \-> RegExpLexer -> RegExpParser
                    \-> Lexer -> Scanners -> MCScanners

    TypeFactory -> TypeTransformer -> TypeAnnotationTransformer -> TypeResolver
        |           AnnotationCompiler --^                             -> MCTypeResolver
        \-> TypeProofs <-------/   (with Induction)

    Syntaxes -> NodeFactory -> SyntaxTree -> MCSyntaxTree
                                   \-> SyntaxTreeProofs   (with Induction)

    IrNodes -> MCIrNodes
        \-> IrNodesProofs

### Class tree: ClassLists, ClassTree, ClassHierarchy

`ClassLists` holds the pure part: what a constructed class such as `G<N>` is,
substitution of type arguments, and the class list (the linearization of the
ancestors, computed breadth first from the bases).  `ClassTree` is the builder.
`FinalizeClass` calls itself from a loop over a copy of the successors of the
class it finalizes, while the nested calls remove nodes and edges; the model has
one step per turn of that loop and one per return (`stack` is the C++ stack), so
the half-done states between the turns are states of the model.  Build is three
actions (`SweepNodes`, `FinalizePendingConstructedClass`, `ValidateClassTree`),
one per loop in the code.  The sets of the code are ordered by pointer or by
insertion; the model takes any order.

`ClassHierarchy` says what is promised without a graph: a definition is accepted
only when nothing is ready, a class is finalized only when its bases are, and the
verdict is clean exactly when no definition is left waiting.  The refinement
mapping takes the bases to their origins (the generic class of a constructed
one), the finalized classes to the domain of the class lists, and the verdict to
the reported errors.

### Names: NameResolver, LexicalScopes

The syntax tree is *any* tree: a walk is a sequence of visits chosen freely, in
which what is entered is left in the reverse order (`frames`).  A handler that
does all its work before or after its children is one action; one that works on
both sides leaves a frame.  Environments are numbered; the C++ stack of
`Environment` objects and their `outer_` pointers are `enclosing`.  The two lists
of forward references of an environment are one set of visits; the destructor is
`LeaveEnvironment`, and the destructor of the resolver, which closes the global
environment, is the same action at environment 1.  `assignments` counts to two
("many"), all that any reader distinguishes.

`LexicalScopes` says the promise: scopes open and close like brackets; a use
denotes the innermost binding at that moment or the first closing scope around it
that has one; what none has is undefined when the last scope closes.

Left out: computed member expressions and members of objects other than the
global one, object initializers, the members of enum documents.  They bind
nothing in an environment except the parameters of an object initializer's
methods (`name_resolver.cc:592`).

### Parser: TokenStream, ParserMachine, ParserBindings, ParserExpressions, ParserStatements, Parser

The recursive descent is a machine with an explicit stack `todo`: the item on top
is the function that runs, or the rest of a function that waits for what it
called.  One step reads at most one token.  Conditions and their order are those
of the code; of the syntax node a function returns, `node` keeps what a caller
asks of it (which syntax, which precedence).

`TokenStream` is `Parser`'s token interface over the lexer: one token of
look-ahead, the stack of tokens pushed back, the line-break flag computed when
the lexer's token was read, and the bracket tracker, which is fed a token when it
*becomes* the look-ahead.  The text is not fixed in advance: each token is chosen
when the lexer reads it, so one run covers every text within the bounds.

Tokens that the parser treats alike are one kind.  `"var"` is var, let and const;
`"break"` break and continue; `"typeof"` await, delete, typeof and void; `"true"`
true, false and null; `"this"` this and super; `"extends"` also export, import
and implements; `"enum"` the other reserved words; `"get"` get and set; `"<"` the
relational operators; `"+="` the assignment operators without `=` and `/=`; `"!"`
also `~`; `"+"` also `-`; `"++"` also `--`.  The operators of the categories between
`||` and `<`, and the shifts, are left out: they only repeat the step from one
category to the next.
Left out: source ranges, the contents of literals and comments (regular
expressions are well-formed), and three branches that no text reaches (`async` as
a keyword in ParseKeywordStatement, the comma in ParseArgumentList, comments in
ParseBlockStatement).  A release build that peeks past the end dereferences a
null pointer; the model records that in `crashed` and stops.

`ParserSentences` adds a history variable, the tokens read, and an independent
grammar of expression statements given as sets of sentences.  Its start
`MCSentence` and the starts of `MCParser` make up the scenario of one run.

### Scanners: CharacterReader, Lexer, TypeLexer, TypeParser, JsDocParser, RegExpLexer, RegExpParser

A text is a sequence of symbols: characters, and runs of letters that are read as
one (`"type"` stands for its four letters).  `CharacterReader` is the reader that all
scanners share; `Lexer` reads scripts and hands a documentation comment to
`JsDocParser`, which hands the braces of a tag to `TypeParser`, and the text between
two slashes to `RegExpParser`.  Each function of the source is an operator from a
state to a state; the state machines inside a function (strings, numbers,
documents) are loops over the symbols with the source's state as a field.  One step
of the model is one token of the script: its documents, types and patterns are read
in it.  Integers have a width (`Word`) and a largest exact value (`MaxInteger`) that
are small in the instance, so that both are passed.  An integer token is converted to
a double (`ToDouble`, by NewNumericLiteral at `lexer.cc:706`); the rounding inside
`pow` and of the product of a decimal with a fraction or an exponent is left out.  A
read past the end, which an assertion forbids, is noted as the error PastEnd.

`TypeGrammar` states the type expressions as a grammar over splits of the token
sequence, without look-ahead or state, and what tokens a tree stands for.  It is read
twice: with `Prefixes` = {`!`, `...`} it is the grammar that the comments in the code
give (`type_parser.cc:255`, `:387`), and with none the part of it whose parameters do
not begin with one of them.

### Types: TypeFactory, TypeTransformer, AnnotationCompiler, TypeAnnotationTransformer, TypeResolver

A type is its address: the position in the sequence of the types made so far, and
the caches are searches in it.  `FactorySpec` is the factory by itself, whose members
are called in any order with any types; the runs call it as the code above it does.
`TypeTransformer` turns a type expression into a
type, `AnnotationCompiler` sorts the tags of a document, `TypeAnnotationTransformer`
counts parameters and makes the type of a function, a method or a variable.
`TypeResolver` visits annotated constructs one by one: what a visit registers, which
bases it gives to a class, and the assertions it fails (`failed`), after which a
debug build stops.  What NameResolver leaves behind (which names are classes,
parameters, aliases) are constants.

`MoveKeepsKind` is FALSE for the code as it is.  The move constructor of Annotation
leaves `kind_` behind, so every reader sees the kind None and all of the code that
asks for a kind is dead; `type_resolver_kind_lost` shows that.  The passing run sets
it to TRUE, that is, the code with that member copied, so that the code behind it is
checked too; OnlyMoveLosesKind compares both and does not depend on the constant.

### Syntax tree: Syntaxes, NodeFactory, SyntaxTree

`Syntaxes` is a table: for each syntax its format and the positions its accessors
read.  `NodeFactory` gives, for each member of the factory, the children in the
order they are stored and the assertions on the arguments.  `SyntaxTree` makes nodes:
a *script* names the members that are called in turn, their arguments are any nodes
made so far that the assertions allow.  It also has the maps of numbers and names,
and the iterators of `node_traversal.cc`, one step per node visited.  The walk over
the descendants of a childless node is left out: it starts at a child that does not
exist (see the disagreements below).

### Intermediate representation: IrNodes

Nodes, operators and types are sequences in the order they were made; the order of
addresses, which sorts the members of a union, is that order.  The caches are
searches restricted to what the keys hold: tuples and unions are looked up in one
map, nodes of more than two inputs in none.  The constructor of a node links its
inputs one per step (`LinkInput`), so the lists of uses are looked at between any two
links.  The history variable `asked` holds the members that tuple types were asked
for with, and the type that came back.  What a caller must respect guards the actions,
in the terms in which callers know it: a projection is taken of any node whose type was
asked for as a tuple, whatever member made it, a control is one or a tuple asked for
with a control in front, a function and a start node get a type asked for as a tuple.
That these types *are* tuples, and that the inputs fit, a caller cannot know; there the
members of the factory have assertions, which stop the program (`failed`).  A projection
of a projection takes five types and nodes, one more than the run has; the proofs
cover it.

## 3. Runs

Every property of a passing run has a mutant in `PROJECT.json`: the definition it
guards changed as a plausible bug would, under which TLC finds the property
violated.

| run | asks | instance |
|---|---|---|
| class_tree_normal | edges, lists and errors of classes without type parameters; refinement | 4 classes, up to 2 bases each, defined in any order, any left undefined |
| class_tree_generic | constructed classes, their lists, references at any time; all calls return | generic G and H, a class A, a parameter each, 6 heritages that nest them into each other, one of a bare generic class, 2 referable constructed classes |
| name_resolver_scopes | outcome of every use; refinement | 1 name, 3 environments, 2 uses, nesting 2 |
| name_resolver_declarations | global variables and properties | 2 names, 2 environments, 1 report |
| parser | return, flags, precedence, brackets; accepts exactly the grammar of expressions | 53 starts, each with up to 3 more tokens; of the tokens of the grammar all texts of up to 3, and of up to 5 those that begin with a name, `(` or `+` |
| parser_list_recovery | *violation*: recovery stays in its list | `var [` and 4 more tokens |
| scanners | tokens, documents, types and patterns | texts of 33 themes with up to 5 free symbols each |
| scanners_function_types | *violation*: every function type is accepted | one theme, parameters of function types |
| type_resolver | sharing, kinds, function types, heritage, null | 2,121 constructs, alone and followed by one that shares types or class |
| type_resolver_kind_lost | *violation*: an annotated variable has a type | the same, with the move constructor as it is |
| syntax_tree | accessors, numbers, names, walks | every member of the factory with every argument allowed; trees three levels deep |
| ir | lists of uses, sharing, assertions | up to 4 types and nodes, 2 of them types; tuples of 0, 2, 3, 7 and 8 inputs |

Why the bounds are enough.  *Classes*: the builder treats a class by its pending
bases and its successors only; four classes have chains, diamonds, self-loops,
cycles of every length up to four, a cycle with a tail, and two classes waiting
for the same undefined one.  The classes are symmetric there, and the
specification does not tell them apart, so SYMMETRY is used (no liveness is
checked in that run).  For generic classes two that nest into each other are what
it takes for a constructed class to be made while its generic class waits.
`MaxClassList` only stops a list from growing without end when references are
repeated.  *Names*: three environments are a global one with two nested or two
adjacent ones; two uses, one of each fate.  `MaxReports` bounds a log, `MaxFrames`
the nesting.  *Parser*: each of the 53 starts
brings the parser to the functions of one theme, and three tokens reach every
disjunct of every action; the recovery functions take two tokens to go wrong.
Two starts are long: they lead recovery and a block astray inside an open parenthesis.
*Scanners*: a theme fixes what brings a scanner to a function and leaves open the
symbols that the function tells apart; four or five reach every state of the state
machines, pairs of states, and the end of the text in each.  *Types*: type
expressions of two levels, documents of two tags (three for parameters), lists of
two parameters: all that the state machines compare are neighbours.  *Syntax tree*:
a member is called with all kinds of children it distinguishes; lists of two
elements have a first, a next and a last.  *IR*: two types and two nodes show every
pair of calls that share a key; `Widths` and `RepeatedWidths` have the last number of
inputs that is shared, the first that is not, the last that fits and the first that
does not.  The proofs about class trees, names, the parser's flags,
operands and brackets, numbers, names and walks of the syntax tree, and the
intermediate representation remove these bounds.

CHECK_DEADLOCK is off everywhere because all of these programs end: after Build,
after the global environment, after Run, at the end of the text, the program or the
script, or at an assertion.

Fairness.  One thread runs a call to its end.  `ClassTree` has weak fairness of
the steps inside a call (ReleaseSuccessor, ReturnFromFinalizeClass and the three
of Build), none of the steps that begin a call: nobody has to define a class.
`Parser` has weak fairness of its whole next-state relation, as Run is one call
that waits for nothing (`SentencesFairSpec` is the same with the history variable).  The other modules need none: their promises are about what
has happened when a call is over.

### What the runs show

*Class tree.*  Between two calls the edges into a waiting class are exactly the
bases it waits for (EdgesTrackPendingBases), and the refinement says that nothing is
ready then: the incremental algorithm never forgets a class, so the sweep in Build
has nothing to do.  During the nested calls the copies of successors stay true to
the graph (SuccessorCopyNeverStale), which is why RemoveEdge always finds its edge.
Errors: undefined classes are reported exactly, and every edge of every cycle is
reported.  Lists: ClassListIsBreadthFirst compares them with a definition by
distance; NamedClassesAreFinalized, ConstructedAfterGeneric and
BareGenericsAreInherited say what a reader of a constructed class finds.

*Names.*  OneOutcomePerVisit is the bookkeeping of the forward references: handed
outwards by a chain of destructors, an entry is neither lost nor settled twice.
ResolvedInScope and UndefinedIsUnbound say the outcome is right.
GlobalVariablesAreProperties says which data a global property has; it says nothing of
the names that were members of the global object before (`rejected`, see below).

*Parser.*  FlagIsOfPeekedToken: no function looks at the line-break flag while a
token is pushed back, when the flag is that of another token.
OpenBracketIsReported: the functions take some close brackets only if present and
rely on the tracker; nothing stays open without an error, unless a function goes
astray: recovery that reads to the end of the text closes everything on its way, and
a block behind `finally` takes whatever it finds for its brace.  AcceptsExactlySentences
compares with a grammar that does not know how to parse; it is a cover grammar,
in which as in the parser a parenthesized group stands for arrow parameters.  It is
asked of the texts made of the grammar's tokens only (`IsCompared`).

*Scanners.*  LineBreakFlagIsExact, StringEndsAtDelimiter and IntegerIsNearest compare
tokens with what the text says when it is looked at as a whole.  An integer is not
always exact: the check at `lexer.cc:445` lets `0x20000000000001` pass, whose value
becomes 2^53 as a double.  The property says that of what fits 64 bits no digit is lost
and the token has the nearest double, the even one of two.  DocumentKeepsText
and TagsAreNotText: every character of a document lies in one node, and tags are
found.  AcceptsExactlyTypes compares the type parser with the grammar, what it
keeps included: all that it accepts is in the grammar, and it accepts all but function
types with a parameter that begins with `!` or `...`.  That these are accepted too is
FunctionTypesAreAccepted, which does not hold (see the violations).  PatternIsReadWhole: the parser of patterns drops nothing, outside
the forms its comment names, which it does not read to the end.

*Types.*  OneTypePerMeaning: types that mean the same are one, though unions are
built from unions in any order.  OnlyMoveLosesKind: the two ways to ask for the kind of
an annotation, its kind and its kind tag, differ of every document with a kind tag, as
the move to the reader loses the one, and would agree if it did not: what ClassifyTag
makes of the tags is consistent unless an error was reported.  ShorthandIsEquivalent: the
comment of TransformAsFunctionType, for its two state machines.
HeritageIsWellFormed: what SetClassHeritage lets through.

*Syntax tree.*  ArgumentsAreReadBack: for every member, what was given is what the
accessors return.  NumbersKeepTheirValue and NamesAreTokenKinds are about the caches,
WalkIsPreOrder about the iterator's stack.

*IR.*  UseListsMatchInputs holds at every step of every constructor;
CallsReturnWhatWasAsked says that the caches share no more than they may;
OnlyWideOrSharedTuplesFail names the two reasons for which a legal call stops: a tuple
of more than seven inputs, and a tuple type for which the cache has returned the union
of the same members, whatever it is needed for next (the parameters of a function, a
start node, a projection, a control).

### Violations found

Three runs state what the source says of itself and show that it does not hold:

1. `parser.cc:264`: SkipToListElement, called with the open bracket already fed
   to the tracker, waits for a depth that never comes back and reads on past the
   list; `var [(a), b] = c;` is accepted without an error.
2. `annotation.cc:19`: the move constructor of Annotation does not copy `kind_`, so
   no annotated node gets a type, against `type_resolver_test.cc:108`.
3. `type_parser.cc:354`: ParseParameters ends the list at a token with which CanStartType
   says no type begins; `!` and `...` are such tokens.  `function(!a)` becomes a
   function without parameters, and no error is reported, though `!` begins a type in
   the grammar of the comments (`:255`) and the library's declarations write
   `function(?, T, number, !Array<T>) : R` (`externs/es3.js:723`, also `:736`, `:747`
   and `:758`).

Other disagreements met while modelling, which no run claims:

*Class tree*

- A second reference to a finalized constructed class sets its class list again
  (`class_tree_builder.cc:121`, DCHECK in `value_editor.cc:40`); the model does the
  same, and `MaxClassList` bounds it.
- A referenced constructed class is finalized by Build though its generic class was
  never defined (`:83`, against the DCHECK at `:222`); ConstructedAfterGeneric names
  this case.
- `class_tree_builder.cc:265` reports CLASS_TREE_CYCLE for every edge between two
  waiting processed classes, also when they merely derive from a cycle or from an
  undefined class; the tests at `class_tree_builder_test.cc:265` and `:289` expect
  that.  EveryCycleStepReported therefore goes one way only.
- A generic class inherited without arguments stands bare in the list of its heir; when
  the heir is generic too, ConstructClass is called with it against its DCHECK at
  `class_tree_builder.cc:148` (BareGenericsAreInherited).
- A constructed base ends the breadth-first expansion (`:191`), its own list is
  not expanded in place (comment at `:186`).

*Name resolver*

- A type name in a document shared by two bindings is kept twice as a forward
  reference and registered twice (`name_resolver.cc:1041`, `type_map.cc:33`).
- A member of the global object used before the global variable of that name keeps
  its own data (`name_resolver.cc:295`, DCHECK in `properties_editor.cc:20`); these
  names are `rejected` in the model.
- `name_resolver_test.cc:569` expects hoisting; `name_resolver.cc:932` reports a
  variable that is declared further down as undefined.  A value found late is
  registered by `value_map.cc:32` again when its document is revisited (`:933`).
- `var Foo = class Foo {}` binds the type Foo twice and reports the second;
  `@constructor` together with `@typedef` reads a child of the wrong tag (`:401`).
- `context.cc:125` reads the assignments of a property it has not tested for null.

*Parser*

- ParseTryStatement calls ParseBlockStatement behind `finally` without looking at the
  token (`parser_statements.cc:575`), against the assertion at `:135`: in
  `try ; finally x` a name is taken for the brace, without an error of its own
  (`TakesTokenForBrace`).
- A unary operator, `...`, `:` or `catch (` at the end of the text peeks a token that
  is not there (`parser_expressions.cc:712`, `parser_bindings.cc:47`, DCHECK in
  `lexer.cc:144`): `crashed` in the model.
- `var [a = ] )` violates DCHECK_GT(current_depth, 0) in SkipToListElement; a
  function without `(` makes an inverted range (`source_code_range.cc:17`);
  `{"a",}` makes a reference of a literal (`parser_expressions.cc:642`, DCHECK in
  `node_factory.cc:414`); `try {} finally x` enters ParseBlockStatement without a
  brace; `**` groups to the left; the `)` of catch is optional.

*Scanners*

- Numbers (`lexer.cc:372-397`): an exponent without a sign is read as 0, one with `-`
  wraps and gives infinity, `0e-1` is not a number; integers can wrap (`:445`, a digit 0
  is not tested); `\u{...}` overflows; an invalid hexadecimal escape takes the
  closing quote; backslash, CR, LF is two line breaks (`:600`).
- Line breaks inside strings and patterns do not set the line-break flag.
- Patterns: `a||b` leaves `b` unread (`regexp_parser.cc:152`), `(?:a)` merges literals,
  an empty group stays open for the lexer (`regexp_lexer.cc:202`), a pattern that ends
  at `(` or without a slash is read past its end (`regexp_parser.cc:52`,
  `parser_expressions.cc:685`, against the DCHECK at `regexp_lexer.cc:63`).
- Documents: of `{{` followed by a blank a brace is lost (`jsdoc_parser.cc:380`); an
  inline tag that is not closed loses its text.
- Types: `function(...x)`, as `function(!x)` above, and `{a b}` skip tokens silently;
  `a|` at the end peeks past it (`type_parser.cc:465`).

*Annotations and types*

- `@type` without a brace reads a child that is not there (`annotation_compiler.cc:206`);
  ValidateForEnum is never called.
- `...x` never sets has_rest, against a DCHECK in `types.cc:55`
  (`type_transformer.cc:151`); FindParameterTag looks at one tag too few
  (`type_annotation_transformer.cc:225`); RecordName records nothing (`:317`); tags after
  a rest tag are pushed against the arity's DCHECK (`:487`).
- The left side of an assignment is given its type twice (`type_resolver.cc:361`); so
  are the nodes of a declaration with two patterns (`:274`); `@type {number}` at a
  function fails TypeMap's DCHECK; a class in an annotated variable loses its extends
  clause (`:208`), a class annotated twice fails the DCHECK in `value_editor.cc:32`.

*Syntax tree*

- `NewLabeledStatement` drops the label (`node_factory.cc:667`), two members drop the
  error code; the identifier `yield_star` gets the kind of `yield *`
  (`lexical_grammar.h:79`); the map of numbers treats NaN as every number
  (`syntax_factory.cc:68`).
- The walk over the descendants of a node without children begins with its child 0
  (`node_traversal.cc:78`, DCHECK in `node.cc:64`); the type checker walks an empty
  program so (`type_checker.cc:31`).

*Intermediate representation*

- A tuple type and a union of the same members are one cache entry, so that after the
  union NewTupleType returns the union (`composite_type_factory.cc:93`).  What is done
  with it next fails: NewFunctionType (`:83`), NewStartNode (`node_factory.cc:279`), a
  projection (`:267`) and the members that take a control.  A tuple of eight inputs fails `node.cc:89`, as the builder at
  `node_factory.cc:28` copies the number without the test of `set_arity`.
- `-0` is given the literal of `+0`, NaN is never shared (`operator_factory.cc:140`);
  tuples of more than two inputs are never shared; a string literal's key is a piece
  of the caller's memory (`:152`).

## 4. Proofs

TLAPS checks the following for every value of the constants that satisfies the named
assumptions of the modules: `ClassAssumption` and `ChoicesAssumption` (classes and
constructed classes are disjoint, generic classes have parameters, there are finitely
many of them, as a program is finite; the choices are of the right type),
`NameAssumption`, `ScenarioAssumption` (the text a scenario begins with and those that
follow are tokens), `SyntaxTreeAssumption` (numbers are natural numbers or NaN; no
identifier has a star in it; a scenario is a sequence of members of the factory and is
not empty) and `IrNodesAssumption`.

*Class tree: the graph.*  `ClassTreeProofs` proves the invariant `Inv` of ClassTree, of
six parts.  The safety properties alone are not inductive because they speak of the
states between calls, and in a nested call a finalized class still has edges.
`EdgesAreJustified` says an edge from a finalized class belongs to a call on the
stack; `FramesFollowGraph` that each call's copy of successors is what the graph says
and that no class is on the stack twice; `WaitingHaveEdges` that a waiting class has an
edge from each base it waits for and at least one edge, so the last edge's removal is
noticed; `NodesAreNeeded` and `ErrorsFollowGraph` tie the graph to the errors.  From it
follow EdgesTrackPendingBases, NothingReadyBetweenCalls, SuccessorCopyNeverStale,
GraphHoldsWhatWaits, UndefinedBasesReportedExactly, FinalizedOnlyWhenReady, and, step
by step, ImplementsHierarchy.  FinalizedIsLeast is proved of ClassHierarchy,
and the refinement carries it down as NoClassFinalizedWithoutCause.  EveryCycleStepReported
holds for cycles of any length: a class of a cycle is never finalized (the processed
classes outside the cycle are closed under the definitions), so each step is an edge
that the validation sees; that classes are processed one at a time
(FinitelyManyProcessed) makes the bound of the closure large enough.

*Class tree: the lists.*  `ClassListsProofs` is about the loops that make a class list,
without state.  The list of a class of the program: each turn of the outer loop appends
the absent bases of one class, keeps the distances in ascending order and spans at most
two of them (`Layers`), so that the loop ends with all ancestors, each once, by
distance.  The list of a constructed class substitutes arguments in the list of its
generic class, which makes further constructed classes, recursively.  That this
recursion ends, and finalizes all it names, is the hard part: nothing in the code says
so.  Generic classes are ranked by the order of their finalization, and the list of a
generic class names constructions of lower rank only (`AreRanked`).  `ClassTreeProofs`
shows that each step of the builder keeps this (ListsInv, ListsInOrder), from which
ConstructedAfterGeneric, NamedClassesAreFinalized, BareGenericsAreInherited and
ClassListIsBreadthFirst follow.

*Induction.*  The library's induction theorems take an operator as a parameter.  For
these loops it is enough to state induction for a *set* of numbers (`SetInduction`),
which follows from the least member of a set.  From it `Iteration` and `LoopExists`
show that a function defined by recursion over numbers satisfies its equation.

*Names.*  `NameResolverProofs` proves that, whichever handler takes it, a step is of
one of five kinds: it opens an environment, binds keys in the current one, closes it,
looks a name up, or leaves the scopes alone (`StepKinds`).  Then the invariant, the
properties and the refinement of LexicalScopes are proved once for the five
kinds.  `Inv` says that the chains of environments nest, that after the global
environment nothing is left, and the four properties of uses.  They are inductive only
together: that a name handed outwards is bound in no closed environment
(PendingIsUnbound) is what makes the answer of the outer destructor the innermost one.
GlobalVariablesAreProperties needs the stack of handlers: the handler that binds the
names of `@param` tags does not look whether it runs in the global environment.
`FramesUnwind` says that ending the handlers one by one leads through the enclosing
environments to the global one, which it does not reach before the last handler that
opened an environment.

*Parser: operands.*  Both properties are about the whole stack of calls.  Each item of `todo`
*needs* a node of some precedence when it goes on and *leaves* one (`Needs`, `Leaves`);
the invariant `IInv` says that what each item leaves is enough for the next (`Chain`),
and that a token is pushed back only while the running function is on the way from
Expression to PrimaryExpression, which reads it (`PushedBackIsRead`).  A step replaces
the running item by a chain between the same bounds (`ChainTurn`), so each production is
shown once to make a fitting chain: those that make no operand (`PlainTurn`) need no
more than the names of what they call, the others are taken one by one.  From it follow
OperandsBindTighter and FlagIsOfPeekedToken for texts of any length, and TypeOK.

*Parser: brackets.*  `ParserProofs` also proves OpenBracketIsReported.  Each item of
`todo` *owes* a number of close brackets (`Owes`), and what all of them owe together is
bounded by a number n (`Debt`, `Account`).  A turn *pays*: what it calls owes no more
than the function did that calls it, and the bracket that it reads (`Paid`).  This is
shown for each production (`EveryTurnPays`).  Hence, when more brackets are open in
front of the lexer's token (`Depth`) than the calls owe, this stays so (`LeavesOne`,
`WillReport`), until Run meets the end of the text with a bracket open or the tracker
sees one that does not match (`BracketsMatch`: without an error the tracker has matched
every bracket so far).  A statement at the top that leaves a bracket open is such a
state (`OpenBracketIsLeft`).  SkipToListElement has no fixed debt: it counts brackets
itself, from the depth at its call, and its steps are treated apart (`SkipGoesOn`).
The proof showed that the property is false without `GoesAstray`, with texts longer
than the run had reached: after `try ; catch ( name ; var [ (`, recovery
in the list counts from a depth that never comes back (violation 1), reads on to the
end and closes the parenthesis of the catch clause with whatever it finds; and in
`try ; catch ( name ; try ; finally )` the block takes the parenthesis for its brace
(`TakesTokenForBrace`).  Both texts are starts of the run now.

*Syntax tree.*  `SyntaxTreeProofs` is about the two caches, the iterator and the
children.
`NumbersInv`: unless the first number was NaN there is no NaN in the map of numbers,
since NaN finds the least number that is there and is given its syntax; and in a map
without NaN a number finds itself only.  `NamesInv`: the map of names is one-to-one; the
three lists of words are disjoint and without repetition, so that each word is numbered
from the marker of its list and no later name moves it; and every name node carries the
number of its text. The walk: a member of the factory takes nodes that are made, so a
child is older than its node (`IsTree`) and the recursive preorder exists
(`Iteration`).  The iterator's stack is a path from the root (`IsPath`), and what is
visited is, level by level, the container and the trees of its children before the
present one (`VisitedOn`).  A turn pushes a level or closes the finished ones
(`LevelsClose`), which appends one node; and the preorder of the whole tree continues
what is visited down to each level (`WholeContinues`), so that WalkIsPreOrder holds of
every tree.  ArgumentsAreReadBack rests on two facts.  One is about the tables:
`MemberAgrees` says of each of the 106 syntaxes that its member of the factory stores
its operands where the accessors read them and takes no list unless the format allows
one (`Fits`); it is proved group by group, from one lemma per shape of format, and
covers every pair of groups, since each table is looked up in the group that has the
code.  The other is about sequences: operands followed by a list are read back by
position and by suffix (`StoredIsRead`), for lists of any length and nodes of any
tree.  The invariant is `StoredInv`: every node has the children its member makes of
what was given, and every syntax the parameters of its code (a number may share the
syntax of another number, but never of another code).

*Intermediate representation.*  `UseListsMatchInputs` is nearly inductive: `IInv` adds
the type invariant (nodes use nodes made before them, so a new node has no uses) to
it.  A constructor leaves the linked edges as they are (`ConstructKeepsEdges`);
`LinkInput` adds the edge <<node, linked + 1>>, which is newer than all others, in front
of one list and changes at most the former first edge of that list
(`LinkInputKeepsLists`).  What calls return rests on `CallInv`: types, operators and
nodes only grow at their ends, so what was said of a number stays true, and a tuple node
has the type of its inputs, or the union that was found in its place (TuplesAreTyped).
The same is true of every type that was asked for as a tuple (`AskedAreTyped`), from
which OnlyWideOrSharedTuplesFail follows: what is not a tuple there is a union of the
members asked for.
NothingIsMadeTwice is the other direction: no two types, operators or shared nodes have
one key.

*Types.*  `TypeProofs` proves OneTypePerMeaning of the factory, whatever it is
asked for (`FactorySpec`).  Its caches compare addresses only.  Every type refers to
types made before it (`RefersBack`), no two have the same parts (`NoTwins`), and no
member of a union is a union, any or nil (`UnionsAreFlat`); `Sound` joins them, and
each member of the factory keeps it.  Then types of one meaning have, by induction
over the later of them, the same parts (`SameParts`), and so are one type.  That
Meaning, a recursion over the types, is defined at all follows from RefersBack too
(`MeaningIsDefined`).  The assumption is that the declared types come once each.

`KindLostByMoveOnly` is what OnlyMoveLosesKind says, for a document of any length with
any tags.  What the reader gets is the annotation after the move, of which kind and kind
tag differ exactly when there is a kind tag and the move drops the kind; that the move
alone is to blame is the lemma `KindsAgree`, about the annotation before it.
`IsCompiled` is what the loop of Classify keeps (while nothing is reported, a kind tag
is the only one, the kind is its own, and a type annotation has the type of that tag),
and each case of `ClassifyTag` keeps it (`TagKeeps`).  It needs the whole history: `kind_`
is overwritten by every kind tag and `kind_tag_` by the first only, so they agree because
the second one is reported; and `@param` sets a kind without a tag, which is why a kind
tag after it is not one too many.

*Only model-checked.* Liveness (FinalizeClassReturns, BuildReturns, ParserReturns) is
out of the prover's reach.  The scanners and types recurse over texts and trees with
RECURSIVE operators or compare with a grammar that does (AcceptsExactlySentences too),
which the prover does not take; their properties stay with TLC. So of the types only
what the factory promises is proved, for every order of calls, and what the annotation
compiler does; that the transformers
and TypeResolver reach the store through it alone can be seen in the modules, and the
run checks OneTypePerMeaning of what they make and OnlyMoveLosesKind of what they read.  Proved but not checked by a run,
because a refinement or a property implies them or because they serve the proofs:
TypeOK, Inv, NothingReadyBetweenCalls, GraphHoldsWhatWaits, FinalizedOnlyWhenReady,
NoClassFinalizedWithoutCause, FinitelyManyProcessed, ListsInv and ListsInOrder of
ClassTree; TypeOK, Inv, PendingIsUnbound, NothingPendingAtEnd and FramesUnwind of
NameResolver; TypeOK, IInv and BracketsInv of Parser; NumbersInv, NamesInv, TreeInv,
WalkInv and StoredInv of SyntaxTree; FactoryInv of TypeFactory; TypeOK, TuplesAreTyped
and NothingIsMadeTwice of IrNodes.

## 5. Not modelled, and what could come next

- **Controller, context, type checker.**  Three passes in a row over all trees, and a
  walk that reports variables without assignments.  Worth a module that composes
  NameResolver, TypeResolver and ClassTree: the forward references of the global
  environment are settled by a destructor, after the dumps.
- **The rest of NameResolver**: object initializers, members of objects other than the
  global one, computed members, enum documents.
- **Proofs**: HeritageIsWellFormed, for heritages of any length, once the transformers
  are written without RECURSIVE operators.
- **Base library**: the intrusive list against a sequence, with removal during a walk;
  the line caches against a scan of the text; the depth-first sorter and the zone.
  They are templates and pure algorithms that the parts above use as data
  structures, and the sorter and flow graph have no caller outside their tests.
- **Printers, test support, the checker's file reading, externs**: output and data.
