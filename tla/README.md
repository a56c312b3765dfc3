# A TLA+ model of cint

cint is an interpreter for a small C-like language. `application.cpp` runs one
pipeline per source file: lexer, parser, symbol registry, type checker,
interpreter; a stage runs only if the diagnostic sink holds no error of the
stages before it. The program is single-threaded. What is hard in it is not
concurrency but

- re-entrancy: evaluating an expression calls functions, which change the
  tables the caller holds references into;
- aliasing: arrays are shared, structs are owned, and references lead into both;
- one data structure, `scoped_map`, under two scoping disciplines: the checker
  follows the text, the interpreter follows the calls;
- exceptions and returns that unwind through RAII guards from any depth;
- error paths that leave a stage in a state no test looks at;
- error recovery: the parser goes on after a syntax error, in some block or
  other, and must neither loop nor lose text without a report;
- the boundaries of the arena's arithmetic.

## Inventory

| Component | State it keeps | Operations | What makes it correct | Where it is |
|---|---|---|---|---|
| `scoped_map`, `scope_guard` (core/utils/scoped_map.hpp) | `entries_`, `current_depth_` | push, pop, define, get, contains_in_current_scope | behaves as a stack of scopes; a pop removes exactly one scope | ScopeEntries, ScopedMap, ScopeStack |
| `arena` (core/memory) | `blocks_`, `destructors_`, `current_`, `end_` | allocate_raw, allocate, reset | pointers stay inside owned memory, apart and aligned; objects are destroyed once, youngest first | Arena |
| AST and types (ast, core/type) | none (immutable) | construction, comparison, field lookup | | Syntax, Types |
| values and operations (core/value) | none, but arrays are shared vectors | conversions, operators, default values, copies | operators obey arithmetic of the width; no struct is shared | Values, Objects |
| `type_checker` (semantics) | `symbols_`, `curr_return_type_`, the sink | check of each statement, type_of of each expression | accepts only closed, well-typed programs; looks at all of a program; what it accepts keeps its types | TypeChecker, Soundness |
| `interpreter` (runtime) | `values_`, `recursion_depth_`, the C++ stack and its locals, the sink | execute, evaluate, evaluate_lvalue of each node, call of each callable | scopes and depth follow the stack on every way out; references stay good; one error ends the run | Interpreter |
| `application` (app) | the sink | run, run_pipeline | what it prints is what happened | Pipeline |
| `symbol_registry` (core/symbol) | `entries_`, sorted by name | build, find, resolve_type | a map from names to first declarations; a type is resolved if and only if it has a finite layout | Types, SymbolRegistry, SymbolTable |
| builtins (core/builtins) | none | library functions | a failed conversion in one is reported at the call | Interpreter |
| `lexer` (lexer) | `current_`, `loc_`, `tokens_`, the sink | scan_token | each token is the longest lexeme; no text is dropped without a report; locations are those of the lexemes; every source ends | Lexer |
| `parser` (parser) | `current_`, the C++ stack and the nodes under construction, the sink | one function per construct, consume, synchronize | the tree is the one that was written; what gets no report is a program; recovery goes forward and passes blocks as a whole | Parser, Grammar |
| token tables (core/token) | none (constants) | | | in Lexer and Parser |
| diagnostics (core/error) | the reports | report | | the sink of each module |
| debug writer, utils, main | none or output only | | | not modelled |

Interactions: the parser allocates the nodes in the arena and the registry
copies callables out of them. The checker and the interpreter both read the
nodes and the registry, each through a `scoped_map` of its own, and both report
into the one sink. `application` starts a stage if the sink is empty, and turns
`runtime_error` and everything else that `interpret()` lets through into what it
prints.

## Modules

**Lexer** is the scanner, one action per way through `scan_token()`. A source is
a sequence of characters; a token is a view `[from, to)` of it with the kind of
its lexeme and the location the code gives it. What loops do is said by where
they stop (`WordEnd`, `NumberEnd`, `CommentEnd`, `ClosingQuote`), what nested
calls of `match()` do by the texts they try, in order (`Tries`). `Type` is the
reference: what is a lexeme and of which kind, as a predicate on texts.

**Parser** is recursive descent as a pushdown machine. `todo` is the C++ stack:
the calls still to make and the tokens still to `consume()`; a function that is
called replaces itself by what it does. `built` holds the nodes under
construction, and `Add` hangs a finished node under its parent. `declaration()`
leaves a `Catch` under its body; `Raise` reports, unwinds to the innermost one,
drops the nodes built since, and runs `synchronize()`, which is the least
position outside the braces it has skipped where it may stop (`SkipTo`,
`OutsideBraces`). Tokens are their types; numbers are of three sorts
because a literal that does not fit leaves `parse()` with a `value_error`
(`Escape`) and zero is no array size. **Grammar** is what the parser promises,
to be the inverse of `Unparse`, which writes a tree with the parentheses that
the levels of C's operators require and no others.

**ScopeEntries** has the representation of `scoped_map<T>` as operators on a
sequence of entries `[name, value, scope_depth]`. **ScopedMap** is the class as
a state machine: one action per member function, and `Assign` for a client that
writes through the pointer `get()` returned. `answer` is what the last call
returned. Only `~scope_guard()` calls `pop()`, so `Pop` needs a pushed scope.
**ScopeStack** is what the class promises, a stack of mappings; `ScopedMap`
implements it under the mapping `ScopeAt`, which keeps the last entry of each
name in a scope.

**Arena** is the allocator over natural-number addresses. `operator new` may
place a block anywhere that overlaps no other block. `AllocateRaw` and
`Allocate` are whole calls; `reset()` is a step per destructor (`BeginReset`,
`Destroy`, `Release`), because a destructor is code. `regions` and `alive` are
history: what was handed out, and which objects have a destructor to come.

**Syntax** has a record constructor for each node type, and types: a base and
the sizes of the arrays around it. Children are the names of other nodes, so
that a program is a table and a list of top-level statements. **Types** is
`resolve_type()` as a recursive function with its set of structs in progress. In
the code a resolved struct type carries its fields; here it stays a name, with
the structs it was found inside (`seen`), and `FieldType` gives a field's type
when it is asked for. **SymbolRegistry** is the registry as a vector: `build()`
one statement at a time, the sort, the binary search; **SymbolTable** is what it
promises, a map from names to first declarations and a definition by
reachability of which structs have a layout. The refinement maps the vector to
the map and `resolve_type()`'s result to the paths at which a type is missing.

**Values** has the alternatives of `value`, two's complement integers of
`IntBits` bits (64 in the code), doubles counted in halves, and every operator.
A text is the number it spells, or none. Operations that throw `value_error`
give a failed value; the one quotient that traps the processor gives `Trap`.
**Objects** has the values made of several: `heap` holds the vectors of arrays
and structs by location, `DefaultValue` makes one for a type, and `Copy` is the
copy constructor, which copies the vector of a struct and shares that of an
array.

**TypeChecker** types expressions with a recursive function and runs statements
as a stack of tasks `todo`: the `check()` calls and the `scope_guard`s still to
come. Reports are appended to `sink`.

**Interpreter** is the tree walk as a small-step machine. `kont` is the C++
stack: each frame is an active `execute()`, `evaluate()` or `evaluate_lvalue()`
of a node, suspended at a point of its body, and `temps` holds its locals. The
points at which a `scope_guard` or the `depth_guard` is alive are `HoldsScope`
and `HoldsDepth`; leaving a frame at one of them runs the destructor (`Leave`).
A return leaves blocks and loops, but its result is dropped at the top level and
in the initializer of a `for`, where the loop then runs (`DropsResult`).
`mode` is what is happening: running, returning an `execution_result`, or
unwinding with a `runtime_error` or a `value_error`. A reference is a slot of
`values_` together with the capacity of the vector when it was taken, or an
element of a vector on the heap; it is stale when the table's vector has moved,
or when no variable and no operand owns the element's vector any more. A
builtin is a node with parameters; where a library decides (input, random
numbers, mathematics) its result is one of a small set.

Undefined behaviour (a stale reference used, the null pointer of a failed
lookup, a missing field, a trap) ends a behaviour in mode "undefined". What
follows in a build depends on the allocator: with glibc and no sanitizer the
reads of freed memory that the runs reach often go unnoticed, and a moved-from
`value` gives a "valueless" exception.

**Pipeline** composes the registry, TypeChecker and Interpreter over one program
and one sink, as `run_pipeline()` does, with what `run()` prints as the final
`stage`. **Soundness** adds the properties that relate a program's text to its
run.

## Runs

| Run | Bounds | What it shows |
|---|---|---|
| scoped_map | 2 names, 2 values, depth 2, 4 entries | the vector with depth markers is a stack of scopes: every answer is the abstract one; pop is exact |
| arena | blocks of 4, 3 addresses, sizes 0, 2, 4, alignments 0 and 2, 4 regions | regions owned, apart, aligned; destruction in reverse; reset ends |
| programs | 4053 programs: a global, 5 functions and up to 2 of 16 statements; functions that call without end and up to 2 of 7 statements; an array, structs and 1 or 2 of 23 expressions on them; arrays of arrays, structs in structs and arrays, and up to 2 of 26 assignments and copies where an array of arrays shares one, 1 where it does not; every operator on 8 x 8 operands; pairs of 14 builtin calls. Depth limit 3, 4 bits | scopes, depth and table follow the stack through return, loops and exceptions; one error ends the run; the two tables agree on globals; a missed name is a global still to come; where a reference is used its variable is there, and only under an index can it have moved; variables keep their types and structs their owner; operators obey arithmetic, and a right operand of `&&` and `||` runs only when it has to; every run ends, by the depth limit where calls have no end |
| checker | 9450 programs: 6 environments, 63 statements right and wrong, functions in blocks among them, 4 later uses; and pairs of those statements where arrays are nested and structs contain structs, themselves or not | guards are balanced; an accepted program of known types is closed and its calls fit; nothing but a parameter is declared twice in a scope; an erroneous program is still checked to its end |
| registry | 3 structs with up to 2 fields out of 5, 4 and 4 types, alone and with each other; up to 3 of 8 statements that compete for names with each other and with 2 builtins; 4 types and 7 names asked for | the registry implements the abstract table |
| lexer | all texts of up to 3 of 11 operator characters, up to 5 of the characters of words and numbers, of strings, of comments, up to 3 of a mixture of 13 | every lexeme is the longest; text is in a token, blank, commented out or reported; locations increase; every source ends |
| parser | 1091 programs written from trees (all pairs of infix operators, triples of 6, each construct); 8 programs with one token removed, replaced or inserted; all texts of up to 5 of `;` `{` `}` `(` `id` `int` | a program is read back as it was; a text without a report is a program; reports advance; recovery enters no block halfway and leaves none but its own; every text ends |

Why the bounds are enough. Two names and two depths are the least with
shadowing, and four entries let one scope hold a redeclaration while another is
open. A block of 4 with requests of 2 and 4 has a request that fits, one that
fills, and one that after alignment does not fit; addresses 1, 6 and 12 make
the first block misaligned, and leave one address unused between the first two
blocks. A depth limit of 3 is reached by `down(4)` and not by `down(1)`, and
leaves room for a call nested in an argument. Two functions end by nothing but
the limit: `deep()`, which returns its own call, and `spin()`, which calls itself
in an endless loop and would turn in it if the call at the limit were left out.
(Without any limit the run has no end to its states, and `TypeOK` shows it.)
A third, `skip()`, has the loops whose initializer returns. `grow()` has four locals, so its
frame makes the vector of `values_` grow at one of the capacities that programs
reach before the call. Four bits make `-8 / -1` and an overflowing shift
reachable, and let every pair of interesting operands be tried; a width of two
or three would make some of them the same number. Three structs are the least for a cycle that does not
pass through the struct that is asked for, and two fields the least for a struct
used twice. Three characters are the longest operator; five are a string with
two characters that are escaped, or two lines with a comment on one. Five
brackets open a block in a block and fail inside, and the programs with one
wrong token fail at every place of every construct. `MaxReports` is above what
any of these texts gets, so that no behaviour stops at it. The programs of
programs and checker are enumerated, not generated by a grammar: each group has
the node kinds of its question, and statements come in pairs so that one runs in
the state the other leaves.

The models were compared with the program. For every text of the runs lexer and
parser, the tokens with their locations, the tree and the reports of the
program are those of the final state of the model. For the terminal states of
the enumerated programs, what the real `cint` printed was what the model says,
but where the model says "undefined" and for the integers that only four bits
overflow. (Programs that were added later, with the arrays of undeclared structs
that have an initializer, were compared one by one.)

`KnownTypes` is the condition of what is said about accepted programs: every
struct that the program names is declared, and none contains itself, not even
through an array. Without it the statements are false: of `struct N a[2] = y;`,
where there is no `N` and no `y`, the checker reports nothing (type_check.cpp:42
reports a type that is written as a struct, and returns before it looks at the
initializer), although type_check.hpp:29 lists the existence of variables among
what is checked.

Soundness is stated for programs that are `Regular`: their types are known, and
a name has one type wherever it is declared. For others it does not
hold, and no_type_error shows why: the interpreter finds names by the calls. The
programs of the run are regular but for those with a hidden name or a cyclic
struct, which the other properties still cover.

Fairness: one thread always takes its next step, so weak fairness of `Next` for
the lexer, the parser, the checker and the pipeline, and of the steps of a
`reset()` that has begun. For the checker and the pipeline it is spelled out as
`[]<>Over \/ []<><<Next>>_vars`, because TLC is slow on their `ENABLED`; that a
step is possible until they are over is what the deadlock check of these runs
shows. No fairness is assumed of clients: nobody has to call `reset()`, or to ask
the registry anything, and the run registry, where an answer may be the last
thing that happens, is not checked for deadlock.

Violations: five runs state what a comment of the source promises and show
programs for which it does not hold.

| Run | The promise | What happens |
|---|---|---|
| no_type_error | no type errors after check(), type_check.hpp:38 | a callee finds its caller's variable of another type |
| returns_only_in_calls | return only inside a function, type_check.hpp:31 | `prev_return_type` is a reference, nothing is restored |
| no_value_error_escapes | interpret() throws runtime_error, interpreter.hpp:58 | a `value_error` outside a call escapes |
| locations_are_real | lines and columns start at 1, token.hpp:23 | the first column of every line but the first is 0 |
| success_means_finished | "Program finished successfully.", application.cpp:86 | a member of a call's result ends the run silently |

The models also show disagreements that have no run. `int x = get();` where
`get` reads `x` is accepted and finds no variable: `MissesOnlyGlobalsToCome`
says that this is the only way to miss one. `int += double` leaves a double in
the variable, and `%` of doubles is an int where the checker says double:
`VariablesKeepTheirTypes` and `OperatorsObeyArithmetic` allow exactly this. Two
parameters may have one name (type_check.hpp:32 promises no repeated
declarations in a scope): `RepeatedNamesAreParameters`. A user function with the
name of a builtin is a redeclaration (symbol_registry.cpp:35) and overrides
nothing (builtins.hpp:46). `resolve_type()` gives an array of an undeclared
struct the type unknown, an array of such arrays an array of unknown, and a
field that is an array of one a field of unknown type, where
symbol_registry.hpp:82-85 speaks of unknown_type only. And parser.hpp:342 gives
the sizes of `int[3][5]` in the order opposite to the code's, which is that of
C. parser.hpp:352-355 calls three places a safe point to go on after an error: the
end of a statement, a closing brace, and the keyword of a declaration.
`synchronize()` takes less. A keyword counts only right behind a closing brace
(parser.cpp:490-492), so that in `int = 3 int y = ;` the second declaration is
skipped, with the error in it; `; {` skips the block, since the braces are looked at
before the semicolon (473-487), and `; }` goes on behind the brace, out of the
block that the error is in, while the parser is still inside it and will report
a missing brace at the end; the brace may also be the token that is dropped first
(466), without being counted. `RecoveryKeepsNesting` says what does hold: of what
is skipped behind the first token, blocks go as a whole, and at most the one
around the error is left. And `for (return 1; c; i) { }` is parsed and accepted, but
interpreter.cpp:135 drops what the initializer gives, so that the function does
not return: no comment of interpreter.hpp speaks of it, and the model does what
the code does.

## Proofs

All theorems are for every value of the constants, under the assumptions named
in the modules. Proofs about a vector or a stack need that a backward scan finds
the last match, which is the least-number principle, and how the number of
certain elements changes when a stack does. **ScopeEntries_proofs** has these
lemmas once, with what define, store and pop do to a table sorted by depth.

| Module | Theorems | Assumptions | Inductive invariant |
|---|---|---|---|
| ScopedMap_proofs | ScopedMapTypeCorrect, ScopedMapSorted, ScopedMapPopIsExact, ScopedMapImplementsScopes | BoundsAssumption, AbsentAssumption | types with `EntriesSorted` |
| Arena_proofs | ArenaTypeCorrect, ArenaRegionsOwned, ArenaRegionsDisjoint, ArenaRegionsAligned, ArenaDestroysInReverse | ArenaAssumption | `MemoryInv`, `OrderInv` |
| Lexer_proofs | LexerTypeCorrect, LexerLocationsIncrease, LexerLosesNothing, LexerTakesLongest | LexerAssumption, ClassesAssumption | `LInv`, `PInv`, `NInv` |
| Parser_proofs | ParserTypeCorrect, ParserReportsAdvance, ParserRecoveryKeepsNesting | ParserAssumption | `IInv` |
| TypeChecker_proofs | CheckerBalanced, CheckerDeclaresOnce, CheckerAcceptsClosed | AstAssumption | `CInv`, `XInv` |
| Interpreter_proofs | InterpreterBalanced, InterpreterTableSorted, InterpreterSlots, InterpreterReferences | DepthAssumption | `IInv`, `TInv`, `OInv` |
| Pipeline_proofs | PipelineBalanced, PipelineReferences, FirstErrorIsLast, AcceptedFindsItsNames, AcceptedCallsFit, AcceptedGlobalsMatch | DepthAssumption, ProgramsAssumption | `IInv`, `TInv`, `OInv`, `PInv` with the stage |

**ScopedMap.** `EntriesSorted` is inductive together with the types: `define()`
appends at the current depth, which no entry exceeds, and `pop()` removes the
entries of that depth, which sortedness puts at the end. For the refinement,
`ScopeOf` is the mapping a depth stands for, its last entry of each name; the
lemmas say which of these mappings each operation of the vector changes, and
that the last entry of a name in the whole vector is in the innermost scope
that has the name. The answers of the vector and of the stack of scopes are then the same.

**Arena.** Disjointness is not inductive. `MemoryInv` says that no region
reaches into the free zone `[current_, end_)`, that this zone lies inside one
owned block, and that blocks do not overlap. `OrderInv` gives each registered
destructor the region it belongs to, in increasing order; the objects alive are
then those of the destructors still to run, a prefix, and the next to run is the
youngest of them.

**Lexer.** Each way through `scan_token()` moves `current_` forward and not past
the end, moves the location forward, and places at most one token or report,
where it started. So whatever was placed lies behind the scanner, and `Apart`
holds: tokens do not overlap, and no report is at a character of one. With it
`NInv` says that each character behind the scanner is owned by a token or
passed: blank, commented out, or under a report. A step adds the characters
between the old `current_` and the new, which are all of the token, or all
passed; a comment is what lies between its `//` and the newline, a string that
never ends has the rest of the source under its report.

For `LongestLexeme`, a text is a lexeme of one kind at most, and its first
character tells of which: `ClassesAssumption` says that letters, digits and
punctuation are apart, as they are in the "C" locale, which no call of
`setlocale()` changes. So each scanner need be compared only with the lexemes of
its own kind: a word, a number or an operator that goes on is one character
longer, and is refused at that character. For a string it is the backslashes
that matter: the scanner goes from one character to the next and skips what
follows a backslash, while `Type` counts the backslashes before a quote; that
both agree is `EscapedIs`, along the run of backslashes.

**Parser.** The parser is a stack of tasks over a stack of nodes, and the types
need that no production finds the stack of nodes too low, whatever errors came
before. `IInv` says so by a height for each task that is still to run (`Runs`):
a task adds one node, takes one away, or works on the top one, so the heights
are known in advance; a task has what it needs above the nodes that each
`declaration()` around it found, and when a `catch` is reached, one node is on
top of these. An error then falls back to the innermost catch: the heights under
it are still right, since the nodes built since are dropped and a node for the
failed declaration is left. The proof is one lemma on stacks (a task is replaced
by tasks whose heights fit) and then, for each function of the parser, that its
tasks fit. For the reports, everything reported lies before `current_`, because
`synchronize()` takes a token before it looks for a boundary. Where it stops is
a minimum over the tokens, so that it stops at all, on every text, is part of
the argument. For `RecoveryKeepsNesting`, the nesting goes down by one at a
closing brace and nowhere else. If it ever fell below zero before the stop, the
first such brace would be at nesting zero, and there `synchronize()` stops; and
it stops at nesting zero or at the end of the text, with one brace more at most.

**TypeChecker.** `CInv` says that the depth of the symbol table is the number of
`scope_guard`s among the tasks, that the table is sorted, and that a name twice
in one scope is a parameter twice. `XInv` is for acceptance. Its heart is
`Supplied`: each task on the stack has in reach the variables it will use, from
the entries of the table that are still there when its turn comes, or from what
the tasks above it and in its scope will declare. If a stack is supplied then
the program is closed. This is trivial for the empty stack to have, and a step
carries it backwards: if the new stack is supplied, so was the old one, for a
handler that reports nothing has found the variables of its own expressions.
Beside it `XInv` keeps `Progress`: the symbols of the global scope are those that
the statements no longer on the stack declare, in their order (`Lists`).
Two inductions are behind this.

- `ExpressionsSound`, over the height of a node: an expression that gets a type
  without reports has all its variables in the table; one that gets no type has
  a report. The checker does not look at a right operand when the left one has
  no type, and the induction shows that this happens only after a report. The same
induction shows that every call inside it names a function and has as many
arguments as there are parameters. Types
  that contain an undeclared struct would break it, hence `KnownTypes`.
- over the rank of a struct: `resolve_type()`, with its set of structs in
  progress, finds a layout for each struct of a program whose types are known,
  so that no declaration is dropped.

Induction over data is done with sets: the nodes (or ranks, or positions) for
which the statement fails have a least one, and there the recursive function is
unfolded once. The functions that are recursive over the tree (`TypeOf`, `Free`,
`Within`, `Resolves`) are functions on the nodes for this reason, and `IsTree`,
that a node is above its children, is what the boxes of ast/node.hpp guarantee.

**Interpreter.** Open scopes and recursion depth are exactly what the active
frames hold. Counting is over the stack, so the argument is about what a step
does to the stack: it keeps it, removes the top frame, replaces it, or replaces
it and calls (`Move`), and changes the depths by what these frames hold. `IInv`
adds that frames are well formed, that `interpret()` is the bottom frame, that a
return or an exception in flight has a frame to leave, and that the depth is
within the limit. `MoveKeepsInvariant` does the counting once; then there is a
lemma for each group of handlers, that its steps are moves. The table of
variables is sorted because a step opens an empty scope, closes the innermost
one, defines at the current depth, or stores a value; that the depth is the
stack's, from `IInv`, is what makes the closed scope the innermost one. Hence a
slot keeps its name and depth until its scope is closed.

`ReferencesFresh` is about locals of `evaluate()` that point into `values_` while
other code runs, and is not inductive: it says nothing of frames below the top.
`OInv` says what each of them has on `temps`. Three tables by point of suspension
do it: what a frame gives to the one below (an end, a value, a reference), what
it waits for, and how many operands it needs. The gift of a frame is what the one
below it waits for, so heights `h` in `temps`, and numbers `c` of open scopes, are
fixed along the stack. A frame that waits for an index has the object's reference
at the bottom of its operands, and if that is a slot, it is one of a depth that
was open when the frame was suspended. Scopes opened since are all closed above
it, so `pop()` never takes the slot. Every other reference is on top of `temps`
only between the step that makes it and the one that uses it. There are three
ways to change the stack (`Ends`, `GoesOn`, `CallsOn`); then each handler is
compared with the tables. A `return` gives its value to frames that wait for an
end until a call takes it, and an exception leaves `temps` as it is: nothing is
claimed of it until `interpret()` ends. At a `for` whose
initializer returned, as at `interpret()`, the value is taken off and the frame
stays, with the operands it needs: none.

**Pipeline.** A step is one of the interpreter's or leaves its variables alone,
so its invariants carry over; a stage is entered only with an empty sink, and
in the running stage a report comes with an exception that nothing catches but
the end.

What the checker promises of the text is used of the run. `PInv` hands it over:
the checker is in `XInv` until it is done, and a program that runs is then
`Vetted`, closed and with calls that fit, if its types are known. Names need an
invariant of the stack. The checker follows the text, in which a function's body
sees what is declared around the function; the interpreter looks a name up in
whatever is open, and a caller's variables are. `VInv` says of each frame that
the variables it still has to read (`Rest`, from the checker's `Free`) are in the
table in a scope open up to this frame, or global, or declared by the frame it
waits for (`Promised`). Scopes are counted along the stack as in `OInv`, and an
entry goes only with the scope it is in, which no frame below counts on. A call
is where text and run part: the frame of a body reads what is free in the
function, and of this `Closed` says that its parameters, which have just been
bound, and globals are all. So a name is missed only if it is a global whose
declaration has not been executed: `AcceptedFindsItsNames`. `AcceptedCallsFit`
says what `registry_.find(name)` and the pairing of parameters and arguments
rely on without a look, that every call made has its function and its number of
arguments.

`AcceptedGlobalsMatch` compares two tables that never meet: the checker's symbols
and, when a run is over, the interpreter's variables. Both are compared with the
text. `Lists(es, i)` says that the entries of depth 0 come first in a table and
are those which the first `i` statements declare, in their order; it determines
the names (`ListsOnce`). `XInv` gives it of the symbols for the whole program.
Of a run, `Nests` says that the table lists what `interpret()` has executed, but
for a declaration that is still under way, and that any other declaration waits
inside a block or a body, with a scope open: a branch of an `if` and the body of
a loop is what `statement()` reads, which is no declaration, and the header of a
`for` has the loop's scope. It then defines at a depth that is not 0, and no
other step adds a global or takes one away (`SameGlobals`). The run is over only
when `interpret()` has come to the end of the program (`Finishing`).

Only model-checked:

- everything with liveness and fairness, which the provers cannot do:
  `ResetCompletes`, `Terminates`, `ChecksEverything`, `ScanEnds`, `ParsingEnds`;
- of the parser, what its trees are: `Unparse` is recursive over trees without a
  name for their nodes, so that the parser reads what is written, and nothing
  else, is out of the prover's reach. The same holds of `ImplementsSymbolTable`,
  whose abstract side speaks of paths through structs;
- the interpreter's `TypeOK` and what depends on the values it computes:
  `VariablesKeepTheirTypes`, `OperatorsObeyArithmetic`,
  `ConversionsFailOnTextsOnly`;
- what relates the table to the heap: `StructsAreNotShared`, and
  `ReferencesInside` for references to elements: what owns a vector of the heap
  (`Owned`, `Copy`, `DefaultValue`) is recursive over values.

## Not modelled

- The joints of lexer, parser and checker: each stage has inputs of its own, and
  programs of the later stages start as trees.
- The values of literals, escape sequences one by one, and which name is which
  in the parser.
- `call(struct_ptr)`: the checker rejects a call of a struct name.
- The texts and numbers that input, random numbers and mathematical builtins
  give: a choice of two or of the range that was asked for. Of builtins that
  differ in the library function alone the runs have one.
- Text of values, diagnostics rendering, the debug writer.
- Exhaustion of memory.

## Plan

Done, in the order in which they were written: scoped map and arena;
interpreter; type checker and pipeline; values, objects and the registry; lexer;
parser; the proofs above, last those of the parser, of `NothingLost`, of
acceptance, and of what acceptance means for a run. Left, what adds most first:

1. `TypeOK` of the interpreter for every program that is a tree, on top of `OInv`:
   what remains is that the operands are values, and nodes are those of the table.
2. One run through all stages: a source text whose tokens are parsed, and whose
   tree becomes the node table the checker and the interpreter read. Names would
   have to be told apart in the parser.
3. The escape sequences of string literals one by one, and the builtins that
   differ from others in the library function alone.
