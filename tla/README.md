# A verification project for the BARZ compiler

BARZ is a compiler for a small object-oriented language. It is a sequential
pipeline: the scanner turns a source file into tokens, a table-driven parser
reads them and builds a syntax tree through semantic actions, three visitors
construct the symbol tables, check types and lay out memory, and a last one
emits assembly for the Moon machine. There are no threads, no messages and
nothing is persisted. What makes it hard to test is different: stacks that are
popped without a test by actions placed in a table of 308 cells, error recovery
that leaves half of a derivation behind, state that one visit leaves for the
next, tables that are copied while others point into them, and a calling
convention that spreads over four visitors.

This directory holds TLA+ modules translated from the code, TLC configurations
that check them on small instances, and proofs that TLAPS checks.

## The system

| Component | State | Operations | Talks to |
|---|---|---|---|
| Scanner (`Scanner/`) | position in the file, current line, tokens, comment depth | `processFile`, one automaton per class of token | fills the tokens that the parser copies |
| Parsing table (`Parser/ParsingTable.h`, a CSV file) | productions, FIRST and FOLLOW sets | load, two fixpoint computations, queries | read by the parser |
| Parser (`Parser/Parser.cpp`) | parse stack, lookahead, error flag, messages, derivation | `parse`, `nextToken`, `skipErrors` | calls `AST::performAction` for each action on its stack |
| AST builder (`ASTGenerator/`) | a stack of trees, the root | `performAction`, 83 actions | hands the root to the visitors |
| Symbol tables (`Semantics/SymbolTableVisitor.*`) | nested tables of symbols, overloads by signature | one visit per node, consistency and cycle checks | copied into the next phases |
| Semantic checks (`Semantics/SemanticCheckingVisitor.*`) | current table, current expression type, messages | one visit per node | only reads the tables |
| Memory allocation (`CodeGenerator/MemSizeVisitor.*`) | the tables, with sizes and offsets; temporaries | sizes, offsets, frames | writes metadata into tree and tables |
| Code generation (`CodeGenerator/CodeGenVisitor.*`) | register pool, labels, emitted text, current table | one visit per node | reads metadata that memory allocation left |
| Compiler driver (`CompilerDriver.cpp`) | phase, flags | runs the phases in order, stops on some failures | all of the above |

What is hard in each of them, and what makes it correct:

- **Parsing table.** Two fixpoint loops over the whole table, with sets that
  are read while they grow. They must end, FOLLOW must hold only what can
  follow (recovery pops on it), and the file must be an LL(1) table.
- **Parser.** `top()` and `pop()` are never guarded; panic-mode recovery pops
  symbols or drops tokens, and the actions behind the popped symbols stay. The
  stack must keep its `$`, no token may vanish silently, the answer TRUE must
  mean a sentence of the grammar, and every parse must end.
- **AST builder.** Each action pops what earlier actions pushed. One tree must
  be left, with the shape that the visitors assume, and it must say what the
  program says: names, order, precedence.
- **Symbol tables.** An overload replaces its predecessor in the map by name
  and joins it in the map by signature; `currentTable` and `currentClassName`
  must fit each other on every path out of a visit. A declaration that breaks a
  rule must be reported and no other; the tables must form a tree and their
  insertion order must list every symbol once, since the layout of memory walks
  it.
- **Memory allocation and code generation.** Offsets are computed twice, a
  preliminary one while temporaries are made and the real one at the end; some
  code reads the first and some the second. Caller and callee share words
  beyond the frame of each. The code must write what the source means, give
  back stack, link and registers, and halt.
- **Semantic checks.** The current table, class, return type and expression type
  are four variables that each visit sets and restores in places of its own; a
  condition is judged by whatever expression was visited last. What breaks a rule
  must be reported, and nothing else, whatever was visited before. The search for
  circular dependencies is recursive with one shared set; it must end and find
  exactly the classes that lead to a cycle.
- **Scanner.** It looks ahead in three ways and counts a line when it reads its
  newline. No character may be lost, no element cut in two, nested comments must end
  where they are closed, and each token must have its line.
- **Compiler driver.** Arguments in any order say where to stop; each phase works on
  a copy of the tables. Phases must run in order up to the one asked for, on the
  right copy, and every run must end.

## Modules

| Module | What it models | Source |
|---|---|---|
| `Grammar` | the table as data: cells, symbols, right-hand sides; what one cell adds to FIRST and FOLLOW | `ParsingTable.h`, `Parser::inverseMultiplePush` |
| `ParsingTable` | the sweeps of `computeFirstSets` and `computeFollowSets`, one cell at a step | `ParsingTable.h` |
| `TextbookSets` | reference: FIRST, FOLLOW and the LL(1) columns by their definitions | none |
| `BarzGrammar` | the productions of the table, with the columns they stand under | the CSV file |
| `LeftmostDerivation` | abstract specification of a predictive parser: a sentential form and a verdict | none |
| `Parser` | `parse`, `nextToken`, `skipErrors`: one action per iteration of the loop | `Parser.cpp` |
| `ParserProofs`, `ParsingTableProofs` | theorems about `Parser` and `BarzParser`; about `ParsingTable` and `TextbookSets` | |
| `AstBuilder` | `performAction`: what each of the actions does to a stack of trees | `AST.cpp` |
| `BarzParser` | `Parser` composed with `AstBuilder`: `Build` is `PerformAction` with its effect on the trees | `Parser.cpp`, `AST.cpp` |
| `AstShape` | what the visitors take for granted of a tree, and how a tree spells its program | the visitors |
| `SymbolTable` | `addSymbol`, `addNestedTable`, `setDefined` and the copy constructor as operators on a table; the texts made of types | `SymbolTableVisitor.cpp` |
| `SymbolTableVisitor` | the pass that fills the tables: one action per declaration visited | the same |
| `ScopeRules` | the rules of declarations, over the history of a program | `polynomialsemanticerrors.src` |
| `ScopeReportProofs` | theorems about `SymbolTableVisitor`: that the tables are sound; what is reported and what the tables hold | |
| `ProgramTables` | the tables of a program without declaration errors, as a function of the program | the same |
| `ClassCycles` | `checkClassCircularDependency`, one frame of the recursion at a step | `SemanticCheckingVisitor.cpp` |
| `SemanticChecking` | the visits that check types and uses of names, composed with `ClassCycles` | the same |
| `SemanticProofs` | theorems about `ClassCycles` and `SemanticChecking` | |
| `SemanticRules` | reference: the types of a program by its declarations; what the visitor makes of the rules | `polynomialsemanticerrors.src` |
| `Scanner` | the automata of the tokens; a block comment character by character | `Scanner.cpp` |
| `LexicalRules` | reference: the lexical elements; what the scanner makes of a text | `docs/lexical_analyzer_specifications.pdf` |
| `Compiler` | `main`, composed with `Scanner`; what the phases need of each other | `CompilerDriver.cpp` and its usage text |
| `ScannerProofs`, `CompilerProofs` | theorems about `Scanner` with `LexicalRules`; about `Compiler` | |
| `SequenceLemmas` | lemmas about filters of sequences and about counting, which the proofs share | |
| `Common`, `SyntaxTree` | functions of sequences, registers and addresses that code generator and machine agree on; trees as the last two visitors read them | |
| `Frames` | sizes and offsets: the frame of a table, the sizes of the classes | `MemSizeVisitor.cpp` |
| `MemSize` | the visit: temporaries, tables of the functions, and their frames | the same |
| `CodeGen` | the instructions of a program; register pool, labels; the visit of a node as a function of the visits of the nodes below it | `CodeGenVisitor.cpp` |
| `Moon` | the machine: the checks of the loader, one action per kind of instruction, a library routine as one step | `moon.c`, `lib.m` |
| `Meaning` | reference: the lines a program writes, by the constructs of the language | `docs/README.md` |
| `CodePromises` | what the compiled programs promise | |
| `CodeProofs` | theorems about `CodeGen` and `Frames`: the registers, the slots | |
| `MCParsingTable`, `MCParser`, `MCBarzParser`, `MCScopes`, `MCSemantics`, `MCCompiler`, `MCMoon` | instances for TLC; `MCParser` holds a grammar of blocks and a recogniser of its sentences, `MCBarzParser` generators of programs from the productions | |

State and code correspond as follows.

- `Parser`: `stack` is `parseStack`, top first; `look` the position of
  `lookahead` in the tokens (one past the end is the `$` that `nextToken` makes
  up); `currentLexeme` the position of the token last matched; `error` and
  `result` the flag and the value of `parse`; `syntaxErrors` its messages. `done`
  and `at` are history: what left the stack by a match or an action. `Match`,
  `Expand`, `PerformAction`, `Mismatch` and `NoProduction` are the branches of the
  loop, the last two with the whole of `skipErrors`, `Begin` and `Finish` what
  stands around it.
- `AstBuilder`: `nodes` is `ASTStack`; a tree is a value with a kind, the token
  whose lexeme it carries and its children. `Reads` says how deep an action looks,
  so that reading below the bottom, undefined in C++, sets `undefined` and stops.
- `SymbolTableVisitor`: `tables` maps paths of keys to tables, `scope` is
  `currentTable`, `place` where in the tree the visit is, `pending` the parameters
  still to be visited, `errors` the messages. `seen` is history. A program is not
  chosen beforehand: any declaration that the grammar allows next may come, so a
  run covers all programs up to its bound.
- `SemanticChecking`: `scope` is `currentTable`, `class` is `currentClassName`,
  `expected` and `expr` are the return type and the type of the current expression,
  `errors` the messages, each with the statement it is about. `todo` is what the
  recursion has left to visit. Declarations and statements are actions; an expression
  is an operator (`Visited`) on the type and the errors, in the order of the visits.
  In `ClassCycles`, `calls` is the stack of `checkClassCircularDependency` with what
  the loops of each frame have left, `visited` the set that the calls share. The maps
  are hash maps, so that the order of classes and members is any.
- `Scanner`: `pos` is the position of `currentChar` (past the text for the end of the
  file), `tokens` what was found, `opened` and `nesting` the comment that is being read.
  A character is a model value for what the automata tell apart.
- `Compiler`: `argv` and `arg` the arguments, `phase`, `status` and `written` how far
  the compiler got, `declared`, `sized` and `coded` the copies of the tables, as sets
  of what was done to each. The parser and the visitors appear as the answers that
  they may give.
- `Moon`: `pc`, `regs`, `mem`, `status` are those of the simulator; `calls`, `prog`
  and `typed` are for the properties. `Code` is what `CodeGen` makes of the
  programs of the run: with comments removed it is the code of the compiler itself,
  instruction by instruction, on the programs on which the two were compared (13:
  expressions, loops, recursion, arrays, methods, methods inside sums, locals of
  class type). What `MemSize` leaves of the programs (their trees with temporaries,
  and the frames) is a constant of `CodeGen`, `Layouts`; so is what they mean
  (`Meanings`), and the proofs assume nothing of either but the shape of the trees.

Three of these models were compared with the compiler itself, built from the
sources: 3,120 programs and 224 class graphs for `SemanticChecking` (the same
statements reported), 44,892 texts for `Scanner` (the same tokens and lines), 13
programs for `CodeGen` (the same instructions).

## Runs

| Run | Question | States | Answer |
|---|---|---|---|
| `parsing_table` | do the fixpoint loops end, at a fixpoint, is FOLLOW sound for recovery, and is the file an LL(1) table? | 9,265 | yes |
| `parser_blocks` | does the parser accept exactly the sentences, derive leftmost, lose nothing, and return? | 16,633 | yes |
| `barz_programs` | do the actions find their operands, and does the tree spell the program? | 84,646 | yes |
| `empty_bodies` | does a statement join its block when a body is empty? | | no |
| `scopes` | are repeats and missing definitions reported, is every report about a broken rule, and do the tables and their copies stay sound? | 566,460 | yes |
| `overloads` | is every declared function without an implementation reported? | | no |
| `semantic_checks` | are mistakes reported and nothing else, in the right context, and are cycles found? | 228,354 | yes, with named exceptions |
| `unchecked_bodies` | is the body of every function checked? | | no |
| `compiler` | do the tokens cover the text by the rules, do the phases run as asked, and does the compiler end? | 491,172 | yes, with named exceptions |
| `moon_code` | does the code write what the source means, give back stack and registers, and halt? | 12,681 | yes, for the programs named under the bounds |
| `feature_table` | do five features of the code generator work, as the documentation lists them? | | no, none of them |
| `array_slots` | are the elements of an array in its slot? | | no |

The five runs with the answer "no" end in a counterexample. Each checks
sentences of comments or of the documentation, quoted in `PROJECT.json`
(`findings`) with their lines:

- `empty_bodies`: a statement with an empty body takes the list around it as a block.
- `overloads`: the check at the end sees one overload of each name, the last.
- `unchecked_bodies`: `visitFunction` looks for the table of a free function under its
  bare name, and the table of one with parameters has another.
- `array_slots`: elements are subtracted from the lowest address of the array, and land
  in the variables declared after it.
- `feature_table`, one program with a line for each of five features that
  `docs/README.md` lists as implemented. It halts with five wrong lines, each for a
  reason of its own:
  `q.u := p.u` stores the address of `p.u` (3.1, 4.3, 5.3); `p.c[1]` is `p.c[0]`, since
  the index has no part in the address of a member array (4.4); `a[b[0]]` takes the
  address of `b[0]` for the index (5.2); a method reads `self` from a word that is also
  the slot of its last temporary, so that a loop that writes it and goes on to use its
  object uses another (2.4); and a returned value goes to the lowest slot of the caller,
  which is that of the call only if the call is the last temporary of the function
  (2.3).

Two comments of the code say what it does not do, and the properties here state what it
does:

- `Parser.cpp:140`: 'Always return true if the parse reaches "$", even if errors were
  encountered'. Line 141 returns FALSE after any error, which is what the driver relies
  on (`CompilerDriver.cpp:123` stops on FALSE). `AcceptMeansMatched` and
  `AcceptsSentences` contradict the comment on every input with an error.
- `SemanticCheckingVisitor.cpp:1243`: 'Condition should be boolean'. The visit of a
  comparison does nothing, so that a condition is judged by the type of the expression
  visited before it: `while (1 < 1)` is reported behind `write(1.5)`. `MistakesAreFound`
  and `ReportsAreJust` except comparisons, by name.

### Exceptions, by name

`SemanticRules` states the rules over the declarations of a program, and then what
the visitor makes of them. Each difference is an operator that says for which
statements it holds, so that the runs check the rules for all others:

- `Overlooked`, mistakes that are passed over: the operands of a comparison are not
  visited (the condition is judged by an earlier expression); a whole array where
  one value is needed; a function called by its name in another case; the name of a
  class or function used as a variable (`NamesNoVariable`); behind a dot, the name of
  a free function (`OutsideClass`), or one that the class around has too
  (`Shadowed`).
- `Refused`, statements that break no rule and are reported: a comparison after an
  expression of another type, a shadowed member, a member that the class of the object
  inherits, a bare call of a member function, an array parameter of a member function,
  an array argument whose dimensions are not the same from right to left (the tree has
  them reversed).

For the scanner, `LoneUnderscore` (the line of an underscore alone before a newline is
one too high), `IsScaledInteger` (`89e10` is an integer: the specification has no
such literal, `tests/TestDriver.cpp` expects it) and the second letter of `IsExponent`
(the scanner takes `E` where the specification has `e` only). An unterminated block comment is
accepted as a token that takes the rest of the text, and `endLine` is one too low
unless a newline follows.

### Bounds, and why they are enough

- `parsing_table` uses the real table, with no bound. The sets it ends with are those
  that `barz_programs` is given, which an assumption of `MCBarzParser` checks.
- `parser_blocks`: `MaxTokens = 4` over six token types, one of them a comment
  that is passed over. The grammar has a production for `&epsilon`, one with an
  action after it, recursion, and a nonterminal that recovery pops before the end
  (`EXPR` before `semi`); four tokens reach a recovery by popping, one by
  skipping, and a sentence after each. The theorems of `ParserProofs` lift all of
  the safety properties but `AcceptsSentences` to any table and any input.
- `barz_programs`: every sentence of `FUNCALLORASSIGN`, of expressions, of control
  statements and of declarations of up to 8, 10, 12 and 15 tokens over small
  alphabets, and short ones with any token missing (`DamagedLength = 5`). Two
  operators of each rank, two nested accesses and two members of a class occur.
  The programs leave out what the actions do not build (`NotBuilt`).
- `scopes`: six declarations over two classes, one function name with no parameter or
  one that is repeated, once with a dimension that is no size, inheritance from both
  classes in one order (of which one is declared later, or not at all, or is the class
  itself), an array with odd dimensions, and two variable names, one of them that of the function and the
  other that of the parameter, so that every pair of kinds can clash; a class with two
  overloads, its implementation and a body for each takes six. `MaxInt` stands for the
  largest int. The properties about the tables are proved for any program.
- `semantic_checks`: each of 780 statements behind each of four that leave another
  type behind, in the bodies of a main function, a member function of each of two
  classes, one of which inherits from the other, and a free function with a parameter;
  and all graphs of three classes in which A has up to two attributes of class type, B
  and C up to one each, and B may inherit from A. A cycle of three, two cycles
  that share a class, and a class that leads to a cycle without being on one occur.
- `compiler`: every text of up to seven characters over those of comments, six over
  those of numbers with `e`, four over those of numbers with `E`, of words and of
  operators, with one command line;
  and every command line of up to four arguments with one text. Seven characters close
  a nested comment but for one; six reach an exponent behind a fraction.
- `moon_code`: 47 programs with the inputs given in `MCMoon`: every pair of binary
  operators in both groupings with an operand of zero, every comparison on
  smaller, equal and greater operands, nested loops, a recursion four deep, a value
  returned through three calls, methods of two objects, arrays of one and two
  dimensions, as parameters too. The memory is 4,000 bytes, enough for every frame;
  numbers stay small, so that words do not wrap. `MaxHeight = 7` is the height of the
  highest tree, which an assumption of `CodeGen` makes TLC check. Every program of the run
  indexes arrays only, so that `RegistersAreFreed` speaks of all of them. Its programs keep to what the
  generator supports: a call is the last temporary of its function, an array has
  another one below it for its elements, a member is copied as part of a sum, arrays
  are variables and their indices are no elements, a method does not use its object
  behind its last temporary, and main is the last function. The runs
  `array_slots` and `feature_table` show why. A member
  is read again after each way of assigning it that the run has.

### Fairness and stopping

The compiler is one sequential process, and so is the simulator: a step that can be
taken is taken next. The only fairness assumed is weak fairness of the whole
next-state relation, `WF_vars(Next)`, where a property needs it (`Terminates`,
`Halts`, `CompilerEnds`): the process is scheduled. No single action is favoured. In
`SemanticChecking` it is weak fairness of `SearchForCycles`, the only actions that are
enabled when the visits are over, which is all that `SearchEnds` needs.
`CHECK_DEADLOCK FALSE` is set where the program ends; `Moon` has a stuttering step
for a machine that has stopped, so that in `moon_code` a machine that is stuck in
an instruction, for want of input or for an instruction that it has not, is a
deadlock and an error.

## Proofs

`ParserProofs` proves, for every table, token alphabet and set of inputs that
satisfy the assumptions of `Grammar` and `Parser` (`SymbolAssumption` and
`TableAssumption`: terminals, nonterminals and actions are disjoint, `$` is a
terminal, and the cells hold right-hand sides over them without `$`;
`SetsAssumption`, `TokensAssumption`: the sets range over terminals, and no token
has the type `$`):

- `TypeCorrect` and `StackKeepsBottom`. The invariant `TypeInv` is `TypeOK` with
  `BottomMarker` and a bound on the lookahead: `TypeOK` alone is not inductive,
  since a pop needs the `$` at the bottom and a match needs a token to match.
- `ParserDerivesLeftmost`: `Parser` implements `LeftmostDerivation` under the
  mapping of `Parser`. A step up to the first error is a match or an expansion of
  the form `done \o stack` or leaves it as it is; the step that finds an error ends
  the derivation; later steps stutter. `StartInv` gives the initial steps.
- `NoTokenIsLost`, from `AccountInv`: the tokens before the lookahead are the
  matched and the reported ones, no position in the history is after that of the
  last match, which is before the lookahead, and a lookahead is a significant token
  or the end.
- `AcceptedInputIsMatched`, from the same, with what `result` and `error` say of
  the messages.
- `BuilderKeepsParser`: `BarzParser` implements `Parser`, since `performAction` works on
  a stack of its own and stops the model at the latest where it would read below its
  bottom; so the properties above hold of the parser that builds the tree as well
  (`BuilderAccountsForTokens`).

`ParsingTableProofs` proves for any table, and any order of its rows and columns
(`OrderAssumption`): `TableTypes`; `FixpointIsReached`, from the invariant that while
a sweep has changed nothing (`changed` is FALSE) the cells visited so far add nothing
to the sets as they are (`Swept`), so that a sweep that ends so ends at a fixpoint
(`Settled`); and `FirstSetsStayEmpty`: the first word of a cell is its own left-hand
side, so that what `computeFirstSets` adds to FIRST of a row is FIRST of that row. The
comments of `ParsingTable.h:81` and `:103` describe the usual construction; the parser
lives with empty sets, because the table is loaded and not computed, and recovery
then depends on FOLLOW alone. `FollowStaysSound` says that this is safe: what is in a
FOLLOW set can follow the nonterminal, whatever the table (`MarksAssumption`: it is
finite, and `->` and `&epsilon` are no words of its grammar). `TextbookSets` gives
FOLLOW as what edges lead to, from a nonterminal to what begins behind it and to the
left-hand side that it ends. The proof shows that this is the least set closed under
the edges (`ReachedIs`, `ReachedCloses`: by the number of symbols outside the set, which
is where the table has to be finite), and that what a visit to a cell adds is reached
by an edge: with empty sets of FIRST only a terminal next to a nonterminal counts
(`NextWordFollows`), and only the last word of a cell inherits (`LastWordFollows`).
That the file is the LL(1) table of its grammar (`TableIsLL1`) is a fact about one
table, and TLC evaluates it.

`ScopeReportProofs` proves, for programs of any size over any names, that the tables
are sound, `TablesStaySound` (by `OrderIsEnumeration`, `SignaturesHaveSymbols` and
`TablesFormATree`), and `CopiesAreFaithful`: a copy has the signatures of its original,
and a function that has no overload keeps its symbol and its flag. The
inductive invariant `IInv` has three parts: `ScopeFits` (the path of the current
table has the length that the place in the tree calls for), the current table is
there, and `WellFormed` (each table enumerates its symbols and gives each signature
a function, each is nested in one that is there, and each symbol of a class has a
table). The second is not inductive without the others: an implementation enters
the table of a class because its symbol says that there is one, and leaving a scope
takes a prefix of its path, which is a table because of the nesting.

It goes on to all that the run `scopes` checks. The rules speak of the
declarations of a program (`seen`), the code looks into its tables, and the invariant
`LInv` (`TablesFollowDeclarations`) says what the one knows of the other: a name, a
signature or a definition in the table of a class or in the global one comes from a
declaration, and what was declared is in the table of its scope; before the first body
there is nothing but classes and their members, and the table of a class that is being
visited is that of its symbol. Without it a report, which a lookup in a table decides,
says nothing about the program. For bodies, `BInv` (`BodiesStandBehindDefinitions`) adds
that every table has the name of a class or the key of a function (`TablesNamed`), that
local variables stand behind a definition (`LocalsHaveBodies`), and that the body that
is being visited is that of the last definition, and its table has the parameters
visited so far and the local variables (`Bodies`).

- `RepeatsStayReported`, from `BInv`: the second of two declarations is reported.
- `ErrorsStayJust`: each error, of any kind, has its reason among the declarations
  visited (`ErrorsAreJust`): a class, member, function, parameter or local variable that
  is declared twice, a definition without a declaration and the reverse, a dimension
  that is no size, a parent or an implementation without a class before it. `JustInv`
  has what the tables are known to hold where the code decides to report: the body of a
  free function is its own (`OwnBodies`), the table of an open body has the key of the
  definition visited last (`KeyedBody`), the parameters that are left of a declaration
  are those of the declaration that made the table (`DeclaredPending`), and each name in
  the table of a member function was put there by a declaration or a definition with
  that key (`MemberNames`).
- `SingleFunctionsStayDemanded`, from `LInv`: a member function without an overload that
  is not implemented is reported, since its entry survives in the map by name.
- `ScopesStayOwn`: the body of a free function holds its own names only.
- `SymbolsStayUsable`: inheritance is ordered, and arrays have a size
  (`DimensionsStayUsable`, which needs no hypothesis).

The hypotheses are named in `ScopeRules` and say where these rules stop to hold of the
code. A function with the name of a class replaces its symbol in the map by name, so
that the class is no class any more (`NamesApart`). The table of a function has a key
made of its name and the types of its parameters, so that a function `A` without
parameters gets the table of class `A` (`KeysOffClasses`), and `f(int)` and `f_int()`
get one table between them (`KeysApart`). TLC evaluates the first two on the names
of `scopes` (`ApartAssumption`); their keys, `f` and `f_int_int`, are apart too.
`ListsAssumption` says what the lists of the tree are sequences of.

`SemanticProofs` proves `SearchFindsCycles` for any tables that satisfy
`TablesAssumption` (the global table is there, and parents are sequences of names): what the search
reports leads to a cycle, what it finished does not, and in the end each class is one
or the other. The frames on the stack are a path of dependencies without a repetition
and `visited` is its classes (`CallsArePath`); a dependency that a frame has no longer
before it is finished or next on the path (`DoneIsFinished`). So a class that is met on
the path closes a cycle, and a class that finishes depends on finished classes only:
no set of classes in which each has a dependency in the set can hold one of them.
`SemanticChecking` implements `ClassCycles` (`VisitorSearches`), so that the errors about
circular classes are right for every program (`VisitorFindsCycles`).

The same module proves of the visit itself `StatementsSeeTheirContext` (`OwnContext`).
Table, class and return type are three variables that the visitor restores at three
places, so that the property alone is far from inductive: what a function finds when it
begins depends on what was left when the last one ended. `VisitInv` gives what is left to
visit an order (`Ordered`, by `Rank`): statements, the end of their function, the other
member functions of a class, the end of that class, then the rest, with at most one of
each end. What the three variables hold follows from which ends are still to come
(`Context`): with none of them, no table and no return type; with the end of a class, the
table of that class, and member functions of it; with the end of a function, one return
type, and a table found under the key that `TableKey` makes, which in the class is the
function's own (`MemberKey`). `ProgramsAssumption` says what the earlier phases leave:
tables in which the name of a member function stands for that function. Of a class with
two overloads this does not hold, and its bodies are checked in the table of the last.
`NodesAssumption` is what the blocks and statements have as children. `Visited` is a
recursive function on the trees that may occur, `Trees`, about which nothing is assumed,
since what expressions come to does not matter to the context.

`ScannerProofs` proves for any text over any alphabet (`CharsAssumption`: the classes of
characters that the automata tell apart are disjoint) all that the run `compiler`
checks of the tokens:

- `NothingIsLost`, that the tokens cover the text but for white space and do not
  overlap, and `LinesAreRight`. The invariant says that each token ends before the
  character reached, behind the one before it, and that what they leave out is white
  space; while a comment is being read, what was reached is where it began. The lines
  need that the newlines before a position are counted one by one (`LineAt`); where a
  run of characters ends is the least position at which another kind begins, which
  exists because the naturals are well-founded.
- `CommentsStayNested`. `LexicalRules` gives by a grammar the places where a comment may
  be closed (`Inside`), the scanner counts. The invariant (`CommentInv`) connects them:
  while the level is n, the comment may be closed where n comments that are open at the
  present position may be closed one behind the other, and nowhere else.
- `LiteralsFollow` and `ElementsAreWhole`. What a token is depends on the text alone: it
  ends where a character comes that its automaton does not take (`AllWhole`). A number
  has one division into integer, fraction and exponent, because digits, the point and
  the letters are different characters, so that the definitions of the language, which
  say that there is a division, and the scanner, which takes the longest parts, agree;
  and an element that two tokens without a gap spelled together would have been taken
  by the automaton of the first.

`CompilerProofs` proves of the driver, for any command line and any text
(`CommandsAssumption`, `PhasesAssumption`):

- `CompilerScans`: `Compiler` implements `Scanner`, so that what is proved of the scanner
  holds of it (`TokensAreRight`).
- `PhasesStand`, from `ArgumentsInv` (the argument read next is not the value of an
  option, no help was asked for before it, and the target is that of the last option
  before it that names one), `PhasesInv` (what was written, by the phase and the status)
  and `CodeIsSized` (code is generated from the tables that the memory phase sized).
- `InvalidTokensReported`: the errors of the lexical phase are the invalid tokens, in
  their order. Messages are a filter of the tokens; since no prover can be told what
  `SelectSeq` does, the modules use `Kept` (`Common`), and `SequenceLemmas` shows that
  the recursive function exists and what it keeps.

`CodeProofs` proves `RegistersStayFree`, which states `RegistersAreFreed` for any number
of programs with any trees, frames and operators: when the code of a program is
complete, every register is in the pool again, once. The pool has twelve registers and an
empty one answers -1, so that a register that is kept makes a later part of the program
fail, and one that is freed twice is given to two values. The argument is that each visit
keeps what the pool holds, whatever that is: if the pool is a list without repetitions of
a set R of registers before, it is one after (`Good`). It has three layers.

- `Take` and `Give`, with the versions for two and three registers: what was taken is
  missing from the pool, and freeing what was taken brings it back once; with an empty
  pool -1 is taken and freeing it does nothing, so that the argument does not need
  enough registers.
- A lemma for each kind of node (`OperationKeeps`, `AccessKeeps`, `CallKeeps`,
  `AssignKeeps`, `IfKeeps` and their like), given that the visits of the nodes below keep
  the pool (`GenKeeps` puts them together). Between a register being taken and freed,
  other visits may run, as in an assignment to an element: there R is smaller by what is
  held, which is why the invariant is for every R and not for the whole pool.
- The induction. A visitor recurs on the tree, here `visit[h]` visits trees of height up to h
  by `visit[h - 1]` (`Visits`), and `VisitsKeep` is by counting on h; blocks, arguments,
  indices and functions are runs over a sequence (`RunExists`, `RunKeeps`).

What is assumed is `LayoutsAssumption`: the children of a node are nodes, as many as its
visit reads, and no tree is higher than `MaxHeight`, which is any number. The code has one
path that keeps a register: an index of a name without dimensions, where
`visitArrayAccess` asks for the register of the sum and returns before it frees it
(`AccessTotal`, `GenAccess`). The semantic phase reports such an index, but the driver goes
on to generate code whatever was reported. The property names this case
(`OnlyArraysIndexed`).

The same module proves `FramesStayApart`, about the other half of what a compiled program
relies on. The frame of a function is laid out by one pass over its table, and a call moves
the stack pointer by the lowest offset of the caller, so that the words of callee and caller
are told apart by these offsets alone. For any classes, and any table of a function, with
symbols of any type and dimensions (`AreClasses`, `IsTable`: dimensions are integers, and the
order lists symbols): slots do not overlap, they are below the word in which the link is
saved, and that word and all slots of a function that is called are below the slots of its
caller. The invariant of the pass (`AreApart`, `HasSlots`) is that the slots so far lie
between the start and the scope offset. It needs that no symbol has a negative size, which
is where the product of the dimensions comes in (`SizeIsNumber`: a dimension that is not
positive makes a pointer of the array), and the sizes of the classes, which are recorded
while the frames of the classes are laid out in the same way (`ClassesKnown`, which says of
the members of an object what the theorem says of the slots of a function). Two things are
left out of it on purpose: the word at 0 of the callee, where a returned value goes, is the
lowest slot of the caller, which `feature_table` shows; and an element of an array is not
in the slot of the array (`array_slots`). The arithmetic of the model does not wrap: the
theorem is about frames that are smaller than the largest int. The table itself is the
outcome of a recursive visit (`MemSize`), and the theorem holds for any; that the code keeps
to the slots (`CallsKeepTheFrames`) is checked by TLC.

The induction theorems of the library take an operator and cannot be used, but
induction over a set of numbers can: `SequenceLemmas` has `LeastNumber` and `CountingOn`,
from the well-foundedness of the naturals, and the proofs use them for loops of the
scanner, for nested comments, for `Kept` and for the closure of FOLLOW.

Only model-checked: liveness, which is out of the prover's reach; `TableIsLL1`; and the
properties over whole programs (`AcceptsSentences`, `StaysDefined`, `LeavesOneTree`,
`SpellsProgram`, `KeepsPrecedence`, `MistakesAreFound`, `ReportsAreJust`,
`WritesTheMeaning`, `ReturnsToItsCall`, `CallsKeepTheFrames`). All but the last two walk
trees or compare with references by recursive operators, which the prover does not accept;
the last two hold of code in which each instruction writes where its frame says, for which
there is no invariant yet. One half of `AcceptsSentences` is a theorem in another form: an accepted input
is matched, and what the parser does is a leftmost derivation from the start symbol.

## What is not modelled, and what is known to differ

- The phase drivers (`ASTDriver.cpp` and the like). Formatting of files, DOT output
  and warnings: not part of any property.
- The pointers of `ASTNode`: a tree is a value. No run finds a tree whose sharing
  matters.
- `main` keeps the answer of the semantic phase and does not look at it: the comment at
  `CompilerDriver.cpp:404` announces a stop that is commented out. `CheckSemantics` goes
  on whatever it finds.
- `checkUndefinedMemberFunctions`, `checkShadowedInheritedMembers` and their like in
  `SemanticCheckingVisitor` are never called.
- The derivation string of the parser: it replaces the first occurrence of a name as
  a substring and serves only for a file.
- Floats, constructors and overloads in code generation. `performAction` cannot
  build a constructor: `_setConstructor` renames the node on top of the stack
  instead of pushing one.
- Signs and `not`: `_pushSign`, `_applySign` and `_createNotExpr` have no branch in
  `performAction`, so `-x` is compiled as `x`. `f().g()`, an index on a member of a
  member, and an access by `read` of anything but a variable are not built or not
  compiled as their grammar suggests; the runs leave them out (`NotBuilt`,
  `IndexesDeepMember`, `ReadValue`).
- After some syntax errors an action reads below the bottom of the stack of trees
  (`function id ) => void { }`): `BarzParser` sets `undefined` and stops.
- The table of a function has a key made of a string, so that `k(x: int)` and `k_int()`
  share one; `UniqueKey` models it, and the theorems about bodies name it
  (`KeysApart`).
- A member on the right of an assignment gives its address, `p.a[i]` is `p.a[0]` for
  every i, and an element used as an index gives its address: modelled (`Fetch`,
  `MemberAddress`, `AddIndex`), and shown by `feature_table`. The documentation lists
  all three as working (`docs/README.md`, 3.1, 4.3, 4.4, 5.2, 5.3).
- A method loses its object when its last temporary is written (`ObjectAddress`, shown
  by `feature_table`; `docs/README.md`, 2.4).
- The comment at `Parser.cpp:140` promises TRUE for every parse that reaches `$`; the
  code answers FALSE after an error.
- The visit of a comparison leaves the type of an earlier expression behind, by which the next condition is judged.
- A write or a sum of the value of a method reads the preliminary offset of the
  node (`OffsetOnNode`) and stops at an address error; modelled, and in no run.
- An argument that contains a call overwrites arguments stored before it; modelled,
  and in no run.
- An object returned by value: the space for it is rounded towards zero
  (`MemSizeVisitor.cpp:206`); modelled (`InitialOffset`), and no run returns an object.
- A program whose last function is not main runs on after it, since the only hlt is
  behind the last function; every example of the repository ends with main.

## What could come next

The pointers of `ASTNode`, with a refinement to the sequences of `AstBuilder`;
literals beyond 16 bits and arguments with calls in the code generation. A theorem worth
proving: that the code of a function without arrays writes to its own slots and below
them only, from the registers and the frames, so that `CallsKeepTheFrames` holds for every
such program.
