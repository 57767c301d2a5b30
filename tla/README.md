# Verification of the dGen compiler

dGen is a small statically typed language; the compiler in this repository translates it to
SQF. This directory holds TLA+ specifications of the compiler, the TLC models that check
them, and proofs of their main properties that TLAPS checks. All paths below are paths of the
repository; the C sources are under `src/`, the headers under `include/`.

The compiler is sequential: there is one thread, no callback from outside and no persistent
state. What is hard about it are long sequences of legal steps: a state machine over
characters, two stacks that hand nodes to each other, functions that call each other
recursively over one token cursor, arrays that are filled without a test, loops that end only
if somebody else consumes a token, trees that must be freed node by node.

## 1. Inventory

The driver (`compiler/src/main.c`, and the test harness `tests/parsing.c`) calls, in this
order: `get_dgen_language`, `read_file`, `lexer_analyze`, `create_parser` and
`parser_analyze`, frees the parser, the tokens and the text, then `print_node`,
`sem_validate_node`, `generator_create` and `generator_generate`, and at the end
`parser_free_ast` and `lang_free`.

| Component | State | Operations | Talks to | What makes it correct |
|---|---|---|---|---|
| Lexer (`src/lexer.c`) | position, state of the machine, token being built, list of 4096 tokens | one loop, 19 states | reads the keyword and operator tables | the text is cut into the longest lexemes; tokens are in the tables; one end of file, at the end; lines; array bounds; it ends |
| Token cursor, AST helpers (`src/utils.c`) | `parser->current` | `current_token`, `match`, `consume`, `alloc_node`, `ast_list_insert` | used by both parsers | the cursor stays in the list and only moves forward |
| Statement parser (`src/parser.c`) | cursor, C call stack | `parser_analyze`, `parse_block`, `parse_stmt_declaration`, `parse_arguments`, `parse_declaration`, `parse_identifier`, ... | calls the expression parser and is called back by it | brackets nest; every word is in the tree once; the parts of a statement are where they belong; it ends |
| Expression parser (`src/rpn_parser.c`) | holding stack, solve stack, parenthesis balance, nodes | reading loop, solving loop, linking of the results | calls the statement parser for a whole construct | precedence and associativity; every node owned once; stack bounds; it stops at the end of the expression |
| Language tables, types, scopes (`src/lang.c`) | types, scopes, symbols, `lang->current` | add and find types and symbols, enter and leave scopes, free | written by the parser (types) and the validator (symbols) | scopes balance; a name is found in the nearest scope; nothing is lost |
| dGen definition (`src/lang/dgen.c`) | constant tables | `get_dgen_language`, `dgen_struct_init_node` | parameters of the lexer and the parsers | |
| Semantic validator (`src/semanter.c`) | `lang->current` | a walk of the tree | scopes and symbols | names are declared before they are used; scopes balance |
| Generator and SQF backend (`src/generator.c`, `src/lang/sqf.c`) | output position, indent | a walk of the tree | calls back through `language_generator_t` | brackets and indent balance; the output fits its buffer |
| Driver, tests | who owns text, tokens, tree, language | the sequence above | everything | nothing is used after it was freed |
| Printing, file input and output | | | | not modelled: pure input and output |

`PROJECT.json` lists the same parts with their status, and under `hazards` every place of the
code that is hard to test, at its line, with the properties that cover it.

## 2. Plan

1. Expression parser: `RpnParser`, its reference definition `RpnTree`, its proofs. **Done.**
2. Lexer: `Lexer`, the abstract `Lexemes` it implements, its proofs. **Done.**
3. Statement parser: `Parser`, `ParserTree`, `ProgramText`, their proofs. **Done.**
4. `Scopes`, the symbols and scopes of `lang.c`, and `Semanter`, the validator that enters,
   searches and leaves them; the abstract specification of both is `NameRules`, which has neither.
   **Done.**
5. `Generator`, the generator core with the SQF backend; the abstract specification is
   `SqfText`. **Done.**
6. `Driver`: what the phases allocate, share and free. **Done.**
7. Proofs: the safety invariants of `Parser`, `Semanter`, `Generator` and `Driver`, for every input, and that the
   generator writes the text of the tree. **Done.** Section 5 says what is proved, from which assumptions, and what stays with TLC.

## 3. Modules

| Module | Models | Notes |
|---|---|---|
| `DgenLanguage`, `DgenStatements` | the operator table, the shapes of the statements (`dgen.c`) | values for the constants of the others |
| `RpnParser` | one call of `rpn_parse_expression` | one action per kind of item and phase |
| `RpnTree` | the grammar and the trees of expressions, without stacks | recursive, used by TLC only |
| `RpnParser_proofs` | theorems on `RpnParser` | |
| `Lexer` | one call of `lexer_analyze` | one action per state and outcome |
| `Lexemes` | the abstract lexer: cuts whole lexemes | refined by `Lexer` |
| `Lexer_proofs` | theorems on `Lexer` | |
| `Parser` | one call of `parser_analyze` | explicit call stack, one frame per active C call |
| `ParserTree` | the words and the structs of a tree | recursive functions on the trees of so many levels |
| `ProgramText` | writes a tree out again | recursive, used by TLC only |
| `Parser_proofs` | theorems on `Parser` and `ParserTree` | |
| `Tree` | a node of the syntax tree as a value (`ast_node_t`), and when trees are finite | used by the validator and the generator |
| `Scopes` | scopes, symbols and `lang_find_symbol` (`lang.c`) | one action per step of the search |
| `Semanter` | one call of `sem_validate_node` on a program | one action per case, extends `Scopes` |
| `Semanter_proofs` | theorems on `Semanter` and `Scopes` | |
| `NameRules` | the rules of names, on the tree alone | recursive functions on the nodes |
| `Generator` | one call of `generator_generate` with the SQF handlers | one action per handler |
| `Generator_proofs` | theorems on `Generator` | |
| `SqfText` | the text of a tree, and the properties that compare the output with it | a recursive function on the nodes |
| `SqfText_proofs` | theorems on `SqfText` | |
| `Brackets` | the closing brackets a sequence of tokens asks for | used by `Parser` and `Generator` |
| `Driver` | the calls of `main`, `parser_free_ast` and `lang_free` | objects and pointers |
| `Driver_proofs` | theorems on `Driver` | |
| `SequenceLemmas` | lemmas on sequences, `FlattenSeq`, `Brackets`, paths of steps, and induction over a set | used by the proofs |
| `MCRpnParser`, `MCLexer`, `MCParser`, `MCSemanter`, `MCGenerator`, `MCDriver` | the inputs and constants of the runs | |

### Expression parser

The input is a sequence of items: the tokens the loop of `rpn_parse_expression` consumes
itself, and whole constructs that a callee parses (an identifier, a call, a keyword statement
with its block, an array literal), nested calls included. What the loop distinguishes is kept:
operators with their precedence and arity, operands (pushed on the solve stack), array
literals (pushed on the *holding* stack, as the code does), parentheses, the semicolon, tokens
that stop the loop, and constructs that fail. A node is named by the position of its item;
`left`, `right` and `roots` are the pointers `l`, `r` and `next`, and `freed` what was freed.
`pos` is `parser->current`, `holding` and `solve` are the two stacks. A push past the array
ends in `overflow`, a read through a NULL operator in `nullderef`, `exit(1)` in `exit`.
`Drained` is the inner loop that moves nodes from one stack to the other, in one step.

### Lexer

`state` is the state of the machine; the ten states that take one punctuation character are
one here. `At(Len(source) + 1)` is the NUL of the C string, over which the machine runs, and
`In` is `strchr`, which finds NUL in every set: both matter for the last lexeme of a file. The
`op_next` that is looked up under the shorter name is modelled as it is. `token.from`, the
position of the first character, stands for the column. Writes past `token.value` or
`list->tokens` end in `overflow`.

`Lexemes` has no state machine: `Skip` passes over white space or a comment, `Cut` takes a whole
lexeme, `Fail` and `Finish` end. Under the mapping in `Lexer` (`Cuts`), everything the machine does
between the first and the last character of a lexeme is a stutter. The specification records
three things about this lexer that a reader might not expect: a run of operator characters is always
one operator (`=-` is an error, although both characters are operators), the stars in front of
a slash are read in pairs (`**/` does not close a comment), and a word, number or operator that the
text ends in is dropped.

### Statement parser

`stack` is the C call stack. A frame holds the locals of its function: the node it fills, the
parts of the declaration that are left, the list so far, and whether the expression it called
has returned. Trees are values; NULL is the empty list. Operators are left out of the tokens,
since their only effect is inside an expression; parentheses and array literals are in, because they
share tokens with the other functions. `types` is what `lang_find_type` searches; a struct
enters it when its body has been parsed. The functions, not their names, decide: `number x (`
is a function declaration, `number x {` an object initialiser, which always ends in an error.

`OneStructPerName` is about the types the parser hands on: the fields of a type come from one
declaration. The code does not refuse a second struct of a name; `dgen_struct_init_node` has no type to add the fields of the
second to (and follows a NULL pointer), so of two structs of one name the later has no fields, and neither does any of a primitive
type. In the tree the later one is also the one behind, except next to an array literal: `rpn_parse_expression`
holds it like an operator and puts it behind what was declared after it, with the structs inside it. Then all
that holds is that at most one of the two has fields (`MayFollow`). `Semanter` relies on it: its
`structs` is a function of the name. For the same reason `KeepsEveryWord` says nothing of texts with array
literals, some of which lose words (`rpn_held`).

`TypesAreComplete` is about when a struct is a type: behind its last brace and not before, so `struct S { S x }` is an error and
no struct has itself as a field, and in an accepted text always. It compares `types` with the brackets of the text that
has been consumed, not with the tree. That a type can be used once it is there is shown by `GivesProgramBack`, whose programs declare variables,
arrays, functions and fields of another struct with the type of a struct.

### Validator and scopes

The scopes are numbered as they are created; `current` is `lang->current`. `lang_find_symbol`
*moves* `lang->current` while it searches, calls itself and puts it back. The search is
therefore modelled step by step: `LookHere` (the first symbol of the name in the current scope),
`LookOutside` (to the parent, with the scope to put back in `search.saved`), `NotThere`, and `PutBack`
once for each level. `walk` is the recursion of the validator: a frame for each construct that has
entered a scope, with the nodes still to visit in it. Nodes without a scope of their own
(expressions) are replaced in that list by their operands, in the order of the code.

`Call_lang_find_symbol` starts the search that the validator or `lang_add_symbol` makes, and the
`Visit` and `Declare` actions act on its answer. `VisitAccess` and `VisitMember` follow
`sem_validate_member_access`, first from a symbol and then from a field. The specification
records what the code does with names, and `NameRules` says the same with a set of visible
declarations instead of scopes:

* an inner declaration may not reuse an outer name, but a name may be declared again once the
  scope it was in has been left;
* arguments of calls, subscripts and array literals are not looked into;
* `x.s.a`, which the parser nests to the left, is always rejected: the name on the left of the
  outer dot is looked up in a node that has none;
* the fields of a struct are symbols of a scope of their own, like the statements of any block, and may not
  have the name of a variable declared before.

### Generator

A handler is replaced by what it does, in order: `todo` holds the tasks of all active calls, the next one
first (write some tokens, generate a node, change the indent, print it). Text is a sequence of
tokens with a width each, so that the buffer can be overrun: `generator_put` ignores its size, and
a write that does not fit, NUL included, ends in `overrun`. `stray` marks the tokens that no rule of
brackets can cover, and there are two kinds: the parenthesis `sqf_gen_member_access_set` opens and
nobody closes, and the name of a parameter that is no declaration. The latter is read from a union
in which expressions, constants and keywords keep a pointer: `PutParam` writes any text of `Garbage`.
`Sound` is the output without them. `Nodes` is a set of nodes that has the operands, arguments and bodies of
its members and of all programs, so that the theorems can speak of trees of any depth.
`IndentIsNesting` compares the levels that `generator_print_indent` wrote on each line with the braces
that are open around it, which is what `gen->indent` is meant to be and nowhere is.

`SqfText` defines the text of a tree without tasks, by the equation `NodeText` of the text of a node with the texts
of the nodes below it. It shows what SQF has no text for:
keywords other than `return`, accesses to members, the operator `in`, assignments to a variable. In front of an array
literal or a subscript the compiler ends with an error, although the validator accepts both. The parenthesis that
nobody closes is part of that text; the bytes of a pointer are not, and are told from it as tokens of their own
kind (`ParenthesisAssumption`).

### Driver

Objects are pairs of a kind and a number, `links` the pointers between them. The phases are one
action each: what it uses must be live, what it allocates becomes live, and it may exit. The
two functions that take the data apart are modelled call by call, with an explicit stack:
`parser_free_ast` goes through `l` and `r` in expressions only (in other nodes these bytes belong
to another member of the union: `bytes`), writes NULL into the pointer it was given, in main's `root`
or in a node; `lang_free` frees a list while it walks it. `fault` is the use of
an object that is not live. `Runs` are the heaps the phases may leave behind: `RunsAssumption` says
that one pointer leads to each object, and none to the heads and to the fields of structs.
For nodes this is `OneOwner` of the expression parser, for scopes `EveryScopeOwned` of the validator, both proved
for every input; types and symbols are inserted in front of their list, once. The numbers of the objects
are names; that they grow along the pointers says that there is no cycle.

## 4. Runs

| Run | Checks | Shows |
|---|---|---|
| `rpn_short` | `TypeOK`, `OneOwner`, `HoldingTightens`, `NodeLimit`, `MarkersMatchBalance`, `BalanceDecides`, `StopsAtEnd`, `Terminates` | on every item list up to length 4 (ten items) or 5 (six items), with stacks of 3 |
| `rpn_long` | `AcceptsWellFormed`, `BuildsReferenceTrees` | on every expression of up to 7 items, the trees are the reference trees |
| `lexer` | `TypeOK`, `TokensInTables`, `EndsWithEndOfFile`, `LinesCount`, `ImplementsLexemes`, `Terminates` | on every text up to length 4 over words, 4 over operators, 6 over comments and strings |
| `lexer_full` | `ShortTextsFit` | the same texts with arrays of 5 characters and 4 tokens |
| `parser_short` | `TypeOK`, `BracketsOwed`, `KeepsEveryWord`, `OneStructPerName`, `TypesAreComplete`, `EndsOrLoops` | on every token list of length 3 to 5 behind nine prefixes, most of them wrong programs |
| `parser_programs` | `GivesProgramBack` | on the texts of programs nested three deep, with declarations of the type of a struct |
| `semanter` | `TypeOK`, `ScopesNest`, `NoShadowing`, `FindsNearest`, `EveryScopeOwned`, `DecidesByRules`, `Terminates` | exactly the programs that keep the rules of names are accepted; scopes balance and stay linked |
| `generator` | `TypeOK`, `BracketsNest`, `IndentIsNesting`, `WritesText`, `OverrunsIffTooLong` | the output is the text of the tree; exactly the texts that are too long overrun the buffer |
| `driver` | `TypeOK`, `UsesLive`, `NoDangling`, `OnlyFieldsAreLost` | nothing is used after it was freed; the fields of structs and the generator are never freed |
| `rpn_full` | `FullStackIsReported`, violated | the test for a full stack is one too late |
| `rpn_held` | `FreesOnlyParentheses`, violated | `([1])` frees the array |
| `parser_else_if` | `ElseIfIsAccepted`, violated | `else if` is rejected |

**Bounds.** The stacks of `rpn_short` have three places instead of 100, so that inputs of four and
five items overrun them; the real size is used where the trees are checked (`rpn_long`, `rpn_full`).
Precedence matters pairwise between neighbours, so expressions with three operators over six
operators of five precedences (and both arities) contain every case of the draining loops. The alphabets of
the lexer have one character per case the machine distinguishes, and the tables have names
that are prefixes of each other (`=`, `==`), a name that is spelled with letters (`in`) and a
keyword (`if`); a comment opens, has two stars and closes in six characters. `lexer_full` shrinks the
arrays until three characters are safe and four are not, so the bound in `ShortTextsFit` is
exact. The prefixes of `parser_short` put the parser inside each kind of statement, where the
next four or five tokens can end the part, the block or the statement in every way.

The programs of `semanter` have every pair of statements over two names, the constructs nested
three deep, two statements inside each construct, and all member accesses over two
structs one of which has the other as a field; a clash needs two declarations and a scope, a lookup
that must pass an empty scope needs three. Those of `generator` contain every kind of node inside
every other that writes text around it, functions nested two deep with every pair of statements, and parameters of each
kind, as long as `NameRules` accepts the program; the buffer has 120 characters instead of 4096, so that many but
not most texts are too long. `Garbage` is empty, a character, a closing bracket, or a brace with a line break. `driver` has every
tree of up to five nodes and every tree of up to four scopes, with and without symbols and structs.

**Fairness.** The program is one thread and every loop iteration is one step, so the only
assumption is `WF_vars(Next)`: the process keeps running. It is used for `Terminates` (lexer,
expression parser, validator) and `EndsOrLoops`. The statement parser does *not* always end: `EndsOrLoops`
says that the only two ways not to are `parser_analyze` in front of a stray `) ] { } , :`
(`number x = 5, y = 3;` is one) and `parse_arguments` in front of a bracket that is not its own
or of the end of file. No other loop can hang. `Terminates` of the expression parser is about its own loops: the
construct a callee parses is one item there, and whether the callee returns is `EndsOrLoops`'s question.

**Mutants.** Operators named `Slip...` next to a definition are that definition with one plausible
mistake. Each property is there because some such mistake violates it, which `PROJECT.json` lists
under `mutants`. No behaviour uses them.

## 5. Proofs

For every value of the constants, that is for all inputs, tables, precedences and array sizes
that satisfy the named assumptions:

* `RpnParser_proofs`: `TypeCorrect` (`TypeOK`), `Tightens` (`HoldingTightens`), `Ownership`
  (`OneOwner`), `Limit` (`NodeLimit`), `MarkersAlwaysMatch` (`MarkersMatchBalance`),
  `BalanceAlwaysDecides` (`BalanceDecides`), `AlwaysStopsAtEnd` (`StopsAtEnd`).
  The assumptions are that operators are not also other items, that unary operators are
  operators and have a precedence, that stacks have a place, and that every input ends with a token
  that stops the loop (the lexer's end of file).
  `HoldingTightens` is inductive with `TypeOK`: an operator is pushed only when the draining loop
  stopped at a node that is no operator or binds more loosely. `OneOwner` is not: that the roots
  are empty until the call returns, that the child slots are empty while reading, and that a
  node on a stack of the solving loop has not been given children yet if it is still to be
  solved, are needed to see that a slot that is written does not lose a node. These are the conjuncts
  of `PhaseInv`; `OwnerInv` is the inductive invariant. The lemmas before it say what turning a
  stack over and draining it do to its elements. `NodeLimit` follows from the invariant and a
  count: the live nodes are the disjoint union of what is on the stacks, and the transfer puts them
  all on one. The parentheses need a count that outlives the reading loop: `MarkInv` says that the
  parentheses held are the open ones plus the arrays that were freed in place of one, and that there
  is none on the solve stack, so turning that stack over adds none; when the holding stack is empty
  both numbers are zero. It uses `OneOwner`, since an array that was freed twice would be counted once.
  `EndInv` says that nothing passed so far ends the expression, and that `balance` is the difference
  of the parentheses passed: a close parenthesis that finds it zero is the first one in excess.
* `Lexer_proofs`: `TypeCorrect` (`TypeOK`), `NamesAreInTables` (`TokensInTables`),
  `EndOfFileLast` (`EndsWithEndOfFile`), `NothingOverrun` (`ShortTextsFit`), `LinesAlwaysCount`
  (`LinesCount`), `LexerImplementsLexemes` (`ImplementsLexemes`).
  The inductive invariant is `LexInv`. `Handover` says what one state leaves for the next: the
  punctuation character that is about to be taken is there, and a complete token has its kind.
  `Tables` extends `TokensInTables` to the complete token that is not in the list yet, `Marked` says by
  status where an end of file may be. `Sizes` counts what was consumed: every token but the end of file has
  taken a character (`Paid`), which is why a list can be no longer than the text, and the value is
  shorter than what was read; `ShortTextsFit` is inductive only with it. Every step but
  `Complete` and `EndOfFile` leaves the list alone (`ReadsKeepTheList`), so the invariants about
  the list have three cases each. `LinesInv` adds what makes the line right or
  explains why it is not: a newline is passed uncounted only in a string or behind a star (`Passing`).
  The refinement is proved step by step: `CutInv` says, for each state of the machine, what the
  characters from `token.from` to `cur` are (`Begun`; for a comment, that its stars do not end it), so that
  the step into `COMPLETE_TOKEN` or out of a comment is where `Lexemes` cuts or skips, and every other
  step is a stutter. It assumes `TextsFit`, the bounds of `ShortTextsFit` for every text, because
  `Lexemes` has no arrays to overrun. The assumptions on the constants are that the character sets do not
  overlap, that no punctuation character has the kind of a name, that the empty string is no operator, and that
  no name is both a keyword and an operator.

* `Parser_proofs`: `TypeCorrect` (`TypeOK`), `BracketsMatch` (`BracketsOwed`), `WordsKept` (`KeepsEveryWord`),
  `StructsOnce` (`OneStructPerName`).
  The assumptions are that the kinds of tokens do not overlap, that a list of tokens has its end of file at
  the end and nowhere else (`EndOfFileLast`), and that no declaration in the tables closes a bracket it has
  not opened or nests brackets. The statements are otherwise free: the theorems hold of any
  language the tables can describe. `ParserInv` is inductive. `StackOK` gives each frame its shape and says who may
  call whom (`MayCall`): arguments and statements are parsed for an expression, a block for a statement, and
  a statement waits only at a part that asks for a call. `ExpressionOK` bounds the balance by the number of parentheses held, not by equality, because
  closing a parenthesis may free an array in its place. `Debt` is what the active calls are
  going to close, concatenated; with it, a step consumes tokens exactly as its frame says, and the list is
  balanced when no call is left.
  The theorems about the tree have one more assumption (`OrderAssumption`): a declaration gives its name before its
  expressions, these before its one block, and a token after each name, in the order in which a node keeps its
  words, arguments and body. TLC checks it on the tables of `dgen.c`. `TreesGrow` is inductive together with
  `ParserInv`. The nodes a frame has built (`NodesOf`) are taken in the order they will have in the tree; what all
  frames say, from `parser_analyze` up, is what has been consumed (`WordsGrow`), and the structs they have
  are declared one after the other (`StructsGrow`). An object initialiser on the stack suspends the first: its type is in no tree,
  and its end is an error. The trees have levels, so that `Words` and `Structs` can be
  recursive functions on a set (`WordsDefined`, `StructsDefined`), and `FramesGrow` shows that three levels for each
  token suffice. `StackGrows` says what a step has to show of the frames it touches; `Onwards`, `EntersTree` and `Backwards`
  are its cases for a frame that goes on, calls, or returns, and there is one lemma for each action.
  A node that is completed moves from its own frame into its caller's without a word said twice
  (`CompleteTree`). `BracketPlace` is there because an array literal is recognised in the text by the token before it:
  no expression starts with a bracket right behind a name.
* `Semanter_proofs`: `TypeCorrect` (`TypeOK`), `Nesting` (`ScopesNest`), `NamesUnique` (`NoShadowing`),
  `NearestFound` (`FindsNearest`), `ScopesOwned` (`EveryScopeOwned`), `RulesDecided` (`DecidesByRules`).
  The assumptions are that programs have roots and are built of nodes of `Nodes`, whose children are in
  `Nodes`, and that the fields of structs have types. `SemInv` is inductive. `Chain` ties the constructs of the
  walk to the parents of the scopes. `Climbing` says where `lang->current` is in the middle of a search and what is
  still to be put back, without which nothing is known of the scope after it. `Searching` says that the scopes
  already left do not have the name, `Pending` for which node the search is made; with both, a
  name that is added is in no scope around. `Owned` says that the lists of children are inverse to `parent`.
  `RulesDecided` has the hypothesis `FiniteTrees`: the nodes have heights, each more than those below it. A node that
  hangs from itself follows no rules one could state, and the parser builds none. TLC cannot search for a height, so
  this is a hypothesis of the theorem and no assumption on the constants; `TreesAreFinite` of `MCSemanter` gives one
  for the programs of the run. The first half of the proof is that the three recursive functions of `NameRules` are
  what their equations say (`DeclaredDefined`, `FieldsDefined`, `FollowsDefined`): `RecursionExists` of
  `SequenceLemmas` shows it for every recursive function that descends a height. The second half is that the walk
  decides by them. `Judge` is the rules for one node, for what is left of a member access too, `Fit` those for a list
  of them, each of which sees what the ones before it declare, and `Seen` what each construct on the walk sees. The inductive
  invariant, together with `SemInv`, is `RuleInv`: while the validator runs, the program follows the rules exactly
  if all that is left on the walk does (`Fitting`). `AfterFits` and `EnteredFits` say when replacing a node by others,
  or entering it, keeps that, and one lemma for each kind of action (`EnterKept`, `UseKept`, `DeclareKept`,
  `MemberKept`, ...) that the code does so, or gives up at a node that breaks a rule. That an answer decides as the
  rules do needs `NoShadowing`: `Found` says that the symbol found is the only one of the name that is visible.
* `Generator_proofs`: `TypeCorrect` (`TypeOK`), `BracketsAlwaysNest` (`BracketsNest`),
  `IndentIsAlwaysNesting` (`IndentIsNesting`).
  The assumptions are that the handlers' own tokens have a width, that names, numbers and operators are
  tokens of their own kind, that an operator that is not unary has two operands, and that trees are built of
  `Nodes`. The argument is about layouts: what is owed, how many braces are open, and what
  the last line has so far (`Lines`). `Goes` says which layout a task may start in and which it leaves, `Reaches` lifts
  it to lists of tasks, and one lemma for each handler (`ListReaches`, `ParamsReaches`,
  `ArrayReaches`, `FunctionReaches`, ...) shows that its tasks do to the layout what the task of its node promised.
  `GenInv` says that the text written has some layout (`Written`), that `indent` is the one of that layout
  (`IndentOf`) and that the tasks lead from there to a layout that owes nothing. It cannot be evaluated by
  TLC (it speaks of all layouts); the properties that follow from it are what the run checks.
* `SqfText_proofs`: `TextIsWritten` (`WritesText`), `OverrunIsLength` (`OverrunsIffTooLong`).
  Beside the assumptions of `Generator` they need that the mark for what cannot be written and the bytes of a pointer
  are no tokens of the handlers (`UnwritableAssumption`, `ParenthesisAssumption`), and both theorems have the
  hypothesis `FiniteTrees`, as `RulesDecided` has; `TreesAreFinite` of `MCGenerator` says so for the programs of the run.
  The first half of the proof is that the equation of `Text` has a solution (`TextDefined`), by `RecursionExists`. The second half is about what tasks write, whatever is in the
  buffer already: `Does` is one task, `Leads` a list of them, and one lemma for each handler (`ListWrites`, `ParamsWrites`,
  `FunctionWrites`, ...) says that its tasks write the text of its node (`Writes`) and give the indent back. `TextInv` is inductive together with
  `GenInv`: from what is in the buffer, the tasks that remain lead to the text of the program, and a call that exits stands
  in front of a node SQF has no text for. As tasks take nothing back (`LeadsFurther`), the buffer is a beginning of the text at any time.
* `Driver_proofs`: `TypeCorrect` (`TypeOK`), `NoUseAfterFree` (`UsesLive`), `NoneDangles` (`NoDangling`),
  `AllElseFreed` (`OnlyFieldsAreLost`).
  The assumption is `RunsAssumption`, see above. `DriverInv` says of every object that is not freed, while main frees, that a call has it in hand,
  that a pointer still to be followed leads to it, or that it waits behind one of those (`Closed`), and that no two
  calls have or hold the same. `InHand` follows the fields of the nodes on the stack: those that are done
  are NULL. `AllElseFreed` needs that nothing can wait forever behind nothing: the waiting object
  with the smallest number would have an owner with a smaller one.

Induction over data is not available for predicates, so the lemmas that need it (on `Total`, `Owing`,
`Without`, `FlattenSeq`, lists of tasks) are stated of sets: `SetInduction` and `AppendInduction` of
`SequenceLemmas` say that a set with `0` and the successors of its members has all of `Nat`, and one with the
empty sequence and every sequence that is longer by one has all of `Seq(V)`.

Only model-checked: liveness (`Terminates`, `EndsOrLoops`), `TypesAreComplete`, which speaks of the braces of dGen's `struct`
where the theorems about the parser leave the statements of the language free, and the properties whose definitions are
recursive operators, so that no theorem can be stated in a module that reaches them (`AcceptsWellFormed`,
`BuildsReferenceTrees`, `GivesProgramBack`).

## 6. What is not modelled

* Columns, the wording of messages, the conversion of numbers, `print_node`, and the files:
  `read_file` only allocates, and nothing calls `write_file`.
* The ternary operator, which the parser rejects and whose code is commented out, and functions
  nobody calls: `lang_symbol_add_argument`, `lang_find_struct`, `get_field_strict_offset`.
* `lang_add_type` and `lang_add_primitive_type` run at startup only, on fixed names that do not
  clash; they are part of `get_dgen_language`. `vec3` is an alias and has no fields, like a primitive type.
* What happens after memory has been overrun (`overflow`, `overrun`) or a NULL pointer followed
  (`nullderef`): these statuses are final. `Driver` lets no phase overrun its buffer.
* String constants are tokens, so a bracket inside one is not one of `BracketsNest`'s brackets.

## 7. Running

`tlc -config MCRpnShort.cfg MCRpnParser` (and so on, as listed in `PROJECT.json`) checks a run;
`tlapm RpnParser_proofs.tla` checks the proofs of a module.
