# Verification of the live-programming compiler

TLA+ models of the incremental compiler under `src/compiler/src`, the TLC runs
that check them and the theorems TLAPS proves about them.  Paths below are
relative to the repository; a bare file name is one of `src/compiler/src/`.

The compiler keeps a process alive while modules are compiled, linked into it,
run, unloaded and compiled again.  A load makes one *unit* for the module and
one for every instance of a polymorphic function it needs; units refer to each
other by id.  Nearly everything that can go wrong and that a unit test does not
see lies in one of two places: in the tables that relate those units over a long
history of loads, failures and unloads, and in the stages that turn one text
into types and code while hash tables choose the order.  The first is modelled
with sources reduced to a few names (`Compiler`), the second with real programs,
character by character to the value they run to (`Repl`, `Pipeline`).


## 1. The parts of the system

| Part | State it keeps | Operations | What makes it correct |
|---|---|---|---|
| **Ids and strings** (`common.rs`) | next id; interned strings | `next`, `get` | an id is handed out once |
| **Code store** (`code_store.rs`) | one table per stage of a unit: names, text, expressions, nodes, imports, types, mappings, generated code, values; `poly_instances`, `poly_parents` | `create_unit`, `add_import`, `remove_unit`, queries that unwrap | tables agree with each other; `remove_unit` forgets a unit everywhere and no other unit |
| **Compiler pipeline** (`compiler.rs`, `llvm_compile.rs`) | the list of new units of the load in progress | `load_module`, `load_expr_as_module`, `find_all_dependents`, `get_function`; stages parse, structure, typecheck, instantiate, codegen, link, run | a load succeeds whole or leaves nothing; instances are unique per symbol and type and die with what they are made of; groups are linked after what they refer to; a load comes to an end |
| **Unit graph** (`graph.rs`) | a graph per call | strongly connected components, graph of subgraphs, topological order | the components partition the units and can be ordered |
| **Type inference** (`types/*.rs`) | slots, constraints, a graph from slots to constraints, a round of work and the slots it touched | `typecheck_module`, `typecheck_polymorphic_function`, unify, resolve symbols, harden literals | the verdict, the types and the meanings do not depend on hash order; what is found satisfies the constraints; nothing unknown is left without an error; it ends |
| **Structure** (`structure.rs`) | scopes, labels, node tree | `structure` | names and labels resolve to the innermost binding of their function |
| **Lexer, parser** (`lexer.rs`, `parser.rs`, `expr.rs`) | token stream | `lex`, `parse` | markers lead back to the text; grouping follows the table of precedences; a text that can be completed is told from one that cannot |
| **Code generation** (`llvm_codegen.rs`) | blocks, labels with phi inputs, cache of composite types | one function per node kind | every label gets one input per predecessor; layouts hold what is stored; the code does what the program says |
| **Intrinsics** (`intrinsics.rs`) | unit 0 | none after start | always present |
| **Interpreter** (`interpret.rs`) | list of imports | load core modules, load a module, run an expression | a module is imported by later ones only if its load succeeded |
| **C interface** (`c_interface.rs`) | file watchers, shared libraries, timers | load, unload, find dependents, look up functions, quote templates, poll watchers | running code may use the compiler that runs it |
| **Live loaders** (`src/code/tetris/loader.code`, `src/code/loader.code`) | ids of the hosted module | poll, unload, load, call `update` | the last version of the file ends up loaded and no code of an older one is called |
| **Watcher** (`watcher.rs`) | child process, stdin and file threads | restart on input or write | one child, and no event is lost |
| **REPL, command line** (`repl.rs`, `main.rs`) | text typed so far | read, load, print | an incomplete line is continued |
| **Errors, tests** (`error.rs`, `test.rs`) | none | formatting; the language's test programs | |
| **Core library** (`src/code/core/*.code`) | lists, strings | written in the language | a list never reads behind its end |
| **Legacy** (`src/compiler/legacy`, `src/code/legacy`) | | not built | |

**How they interact.** All compiler calls are function calls on one thread.
The interpreter calls `load_module`; the pipeline reads and writes the code
store through every stage and calls the graph algorithms in codegen; at the end
of a load it *runs the top level of the module*, and that code may call back
through the C interface into `load_expr_as_module`, `unload_module` and
`find_all_dependents`.  Loads therefore nest, and the tables are changed while a
load is on the stack.  The watcher is a process of its own that starts and
kills the compiler process; file events reach running code by polling.

**What is hard.**
* *Order out of hash tables*: the edges Tarjan's algorithm follows, the
  references instantiated, the constraints of a round come in hash order, and a
  constraint looks at how much is known when it is taken.
* *Failure half way*: every stage returns `Result`; instances registered and
  groups generated before the failure have to go.
* *Long histories*: `poly_instances` is a cache that outlives loads; imports
  are never removed; generated code belongs to a group of units, and units are
  removed one by one.
* *Reentrancy*: a nested load and unload in the middle of an outer load.
* *Termination*: recursion in a cyclic graph; a work list that grows; rounds of
  inference that start each other.
* *Texts that come in pieces*: a line that ends too early, a statement that
  begins with an operator or a parenthesis, a break out of nested blocks.
* *Bytes*: layouts of unions, signs, widths, and what is a place and what a copy.

There is no shared memory between threads in the compiler and nothing is
persisted, so data races and crash recovery do not occur here.  `PROJECT.json`
lists each hazard at its line, with the properties that cover it.


## 2. What is modelled, and how it corresponds to the code

| Module | Models | State and actions |
|---|---|---|
| `UnitGraph` | vocabulary of `graph.rs` | a graph is a function from `0..n-1` to sets of vertices; `GraphOfDisjointSubgraphs` is the function of that name; below the line the *reference* definitions (reachability, strongly connected components, topological order) the algorithms are compared with |
| `Tarjan` | `get_strongly_connected_components` | the recursion as a stack `calls`; `lowlink`, `stack`, `components` as in `TarjanVert`; one action per way through `strong_connect`: `StartRoot`, `Recurse`, `SkipEdge`, `Return` |
| `TopoSort` | `valid_topological_ordering` | flags `active` and `complete` as sets; `VisitRoot`, `VisitEdge`, `CompleteVisit`, `ReturnOk`; the `?` of a failing visit unwinds all calls in one step |
| `CodeStore` | `code_store.rs` | one variable per table, an operator per query and per update, `RemoveUnits` for `remove_unit` of several units |
| `Compiler` | `compiler.rs`, `llvm_compile.rs`, the requests of `interpret.rs`, `c_interface.rs` and the loaders | EXTENDS `CodeStore`, contains an instance of `Tarjan` whose steps are those of the phase `components`; a frame of `loads` is a call of `load_module` with its local variables; one action per stage, per reference looked at, per group generated |
| `UnitTable` | abstract specification: what the holder of a unit id may rely on | a load happens at once (`Load`) or not at all (`Discard`), units go only together with what needs them (`Unload`), ids are not used twice |
| `FileEvents` | a source file that is edited, and the debounced events of the notify library (external) | `file` has a version and what its text is to a reader; `unreported` is what the debouncer has still to report; `Edit`, `Report`, `Receive` |
| `LiveReload` | abstract specification of both ways to reload | what is shown is never replaced by something older; each version, or a later one, is shown in the end unless the process crashes (`Follows`) |
| `Watcher` | `watcher.rs` | EXTENDS `FileEvents`; the main loop as `PollChild`, `PollTerminal`, `PollEvents` in turn, interleaved with the child (`ChildReads`, `ChildExits`), the terminal thread (`TypeLine`, `ReadNothing`), the editor and the debouncer |
| `Loader` | `src/code/tetris/loader.code` with the functions of `c_interface.rs` it calls | EXTENDS `FileEvents`; `pc` walks the nested loops: read, load, poll, frame, clean up; the game's module is its number, `update` the module whose function it holds |
| `Lexer` | `lexer.rs` | a text is a TLA+ string; a function from it to tokens with their markers, step by step through `LexSymbol`, `LexNumber`, `LexStringLiteral`, `LexSyntax` |
| `Parser` | `parser.rs`, `expr.rs` | Pratt parsing with a stack of precedences; an answer is an expression, an error, or the want of a token |
| `Structure` | `structure.rs` | the converter is a record that is passed along (nodes, symbols, scopes, labels); one operator per construct; a node's number is the order in which it is made |
| `Repl` | `repl.rs`, `main.rs` | EXTENDS `Lexer`, `Structure` (which EXTENDS `Parser`); a text grows by chunks (`Type`); `EnterLine` is a turn of the inner loop, `RunFile` a file, `CloseInput` the end of the terminal |
| `Types` | `types.rs`, `type_graph.rs`, `slots.rs`, `intrinsics.rs` | types as trees; merging, matching a polytype, defaults, and the intrinsics' signatures |
| `Constraints` | `constraints.rs` | a unit's nodes give its slots, constraints and assertions; the definitions in scope of a name |
| `Solver` | `solver.rs` | what is known is a record; one operator per kind of constraint; the boundary, hardening, the verdict, and the whole of inference in one fixed order as reference |
| `Llvm` | LLVM (external) | types, sizes and layouts on x86-64, instructions, `Verify`, and a machine with cells that runs blocks |
| `Codegen` | `llvm_codegen.rs` | EXTENDS `Solver`, `Llvm`; one operator per kind of node that appends instructions to the current block, as `GenFunction` does; places and registers as `GenVal` |
| `Meaning` | abstract specification of `Codegen` | an evaluator of typed nodes without blocks, registers and layouts; not a translation of any code |
| `Pipeline` | the same texts through `compiler.rs`, stage after stage | EXTENDS `Meaning`, `Lexer`; `Load`, `Take` (a constraint, in any order), `EndRound`, `TypeChecked` or `Rejected`, `FindInstance`, `NextAsker`, `GenerateCode`, `Run` |
| `MCTarjan`, `MCTopoSort`, `MCCompiler`, `MCRepl`, `MCPipeline` | | the graphs, the small programs, the alphabets and the texts TLC uses |
| `Lemmas`, `*Proofs` | | section 5 |

`Mutant of X` above a definition marks a plausible bug of X.  Each mutant is put
in the place of X to show that the property named with it in
`PROJECT.json` has something to say about the code; no specification uses one.

**What data is reduced to.**  A piece of source code is a record of what the
pipeline can tell of it: a name, the generic functions and structs it defines,
and the types at which it uses generic functions.  A type is `i64` or a struct
with the unit that defines it (`TypeDefinition`'s name and `unit_id`), because
instance keys compare both and instance *names* only the first.  Inference is
reduced to symbol lookup by scope and ambiguity (`Matches`, `FindTypeDef`,
`AllResolve`), with the rule of `solver.rs` that two matching symbols leave a
reference open and that instances, being ordinary functions of their unit, match
too.  Everything the stages may reject otherwise (a syntax error, an ill-typed
body) is a free choice to fail at that stage.  That is `Compiler`; `Pipeline`
does all of it in detail, for modules loaded one after the other that neither
fail half way in between nor unload anything.

In `Pipeline` integers are bit patterns in the order of LLVM's widths but fewer
bits (8, 10, 12 and 14 for `i8` to `i64`), so that overflow and truncation
happen to small numbers; sizes and layouts are those of x86-64.  A floating
point number is counted in halves.  Memory is a sequence of cells with a tree of
values in each, and a pointer a cell and a path.  `Meaning` has no opinion where
the code is known to go its own way or LLVM leaves it open: two unsigned numbers
on different sides of the sign bit, which the code orders as signed
(`llvm_codegen.rs:733`), division by zero, a floating point number outside the
integer it is converted to, and calls out of the process.

**Order.** Wherever the code walks a hash table (imports, polymorphic
references, edges of the unit graph, constraints of a round) the model lets any
element come next, for the constraints within the bounds of section 3.
The topological order of the groups is any order in which each group follows
those it imports: `TopoSort` is checked and proved to give such an order or to
report a cycle, so `OrderComponents` and `Ready` use that answer and not its
steps.

**Assumptions on what is outside.**
* Code under `load` runs on the same thread; it may load, and unload by itself
  or with dependents (constant `UnloadKinds`), what it holds ids of.
* It does not unload a module in progress on the stack, nor one the interpreter
  imports into everything: `MayUnload`.  The log says of this: "you can destroy
  the module that is in active use. I can just carefully not do that for now"
  (`src/LOG.md:594`).  Without it nothing could be said of later loads.
* `Top.imports` of a module are all taken as direct link targets: the code
  finds the few it uses, and more targets make `LinkedAfterGenerated` stronger.
* In `Compiler` a generic function calls others at its own type argument.
  Polymorphic recursion at growing types, which the code follows without end, is
  a program of `MCGrowing`.
* `FileEvents`: a save is one or several writes to the file, each of which is
  reported as `Write` some time later.  Editors that save by renaming a new file
  over the old one give other events, which `watcher.rs` and `c_interface.rs`
  throw away; they are left out.
* `Watcher`: processes can be started, and killing one that has just ended does
  not fail.  The thread that copies the child's output has no effect on the rest.
* `Loader`: the hosted game returns from its calls or ends the process, and
  loads nothing itself, so its dependents are its own instances; what unloading
  does to the tables is the subject of `Compiler`.


## 3. The runs

Passing runs:

| Run | Question | Properties |
|---|---|---|
| `tarjan` | Does the component search end, and what does it give, on every graph of at most 3 vertices and every loop-free load graph of 4, edges in any order? | `EachVertexInOnePlace`; `NothingLeftBehind`: empty stack between roots and a partition at the end; `ExactWhenDiscoveredInOrder`: right answer, in dependency order, *if* vertices are discovered in the order of their numbers; `TarjanTerminates` (liveness) |
| `toposort` | Does the ordering end with `Ok` exactly on acyclic graphs, and is the order right? All graphs of at most 3 vertices, loop-free ones of 4 | `AnswerIsValid`: `Ok` if and only if there is no cycle, and with every vertex after those it leads to; `AnswersRightly` (liveness) |
| `reload` | A library with two generic functions, one calling the other, and a program, loaded, unloaded with dependents and loaded again by a running loader; any stage may fail | `CompilerTypeOK`; `PolyTablesAgree`; `LoadedUnitsAreWhole`; `CodeLostOnlyByMisgrouping`; `LinkedAfterGenerated`; `FailureLeavesOthersAlone` |
| `structs` | Instances at struct types of two modules and a third module that reuses one of them; unloading takes all dependents along | `NoDanglingImport`; `InstancesAreOfLiveCode`; refinement `LoadsAreAtomic` |
| `settle` | Mutually recursive generic functions, and modules unloaded alone as `src/code/loader.code` does: does a load come to an end, and are its groups right where they can be? | `GroupsAreExactInOrder`: if units are discovered in the order they were made, the groups can be ordered and two units share one exactly if each depends on the other; `LoadsSettle` (liveness) |
| `watcher` | Lines, exits, writes and reports in any order against the main loop | `OnlyOneChildLives`; `StaleIsNoticed`; refinement `WatcherIsLive` (with liveness) |
| `loader` | Every sequence of good, bad and broken texts saved while the game is loaded, polled, run and unloaded | `UpdateIsLive`; `NameIsFree`; `LoaderNotices`; refinement `LoaderIsLive` (with liveness) |
| `frontend` | What do the lexer, the parser and the conversion make of every small text, given as a file or line by line? | `MarkersLeadToTheToken`; `LinesLexApart`; `OnlyAnOpenEscapeKills`; `FailureIsFinal`; `IncompleteCanBeFinished`; `ClimbingMeetsTheTable`; `NewlineEndsStatementButNotMethod`; `JumpsLeaveTheirFunctionsLabels`; `NamesMeanTheLatestVisible` |
| `pipeline` | 69 programs, most of them from `test.rs`, with the constraints of each round in many orders: are they typed alike, is what is typed well typed, and does the code do what they say? | `VerdictIsOfTheProgram`; `NothingUnknownIsUnreported`; `TypedMeansWellTyped`; `CodeForAllThatIsSupported`; `RunsAsMeant`; `KnownTypesOnlyNarrow`; `EveryProgramEnds` (liveness) |

Of the type invariants only `CompilerTypeOK`, which is not inductive and whose
proof is the longest, is checked by a run.  Those of `Tarjan`, `TopoSort`,
`Loader` and `Watcher` are proved (section 5), and so are `ComponentsOnlyGrow`,
`SearchAdvances` and `SortAdvances`, which hold in the runs `tarjan` and `toposort`
when given as properties; `TypeOK` of `Repl` and
`TypeInvariant` of `Pipeline` hold in the configurations of the runs `frontend`
and `pipeline` when given as invariants there.

What these show: whatever was loaded, whatever failed and was unloaded, the two
tables of instances agree, a failed load is undone to the last table entry, a
loaded unit has passed all stages and, if unloading follows dependents, no
import dangles and no stale instance is reused.  Seen from outside, a load is
one step (`LoadsAreAtomic`: `Compiler` implements `UnitTable` under the
mapping that counts a unit as live when its load has reached its top level).

Both reloaders implement `LiveReload`: although each takes one event at a time
and throws away all but writes, no write gets lost between the polls, and the
last text runs in the end.  The loader also never calls an `update` whose module
is gone, and never asks for a name that is taken.

From text to tree: every token's markers lead back to it, also behind strings and
comments that go over lines, whose two peculiarities (`lexer.rs:280`, `lexer.rs:327`)
`MarkersLeadToTheToken` spells out; a text is taken apart as the table of precedences says, with
the newline as an operator of its own; the repl gives a text up only if no
further line could save it, and each text it asks to continue can be finished;
the one text the lexer dies of ends in a backslash within a string; jumps lead
to labels of their own function, and names to the latest binding that is
visible.

From tree to value: `Solver` compares what it found in any order with what it
finds in the order of the program, so that the hash tables decide nothing in
these programs; what is found satisfies each constraint under its declarative
reading (`Holds`); a program that is typed either uses one of the few things
that have no code, which `Unsupported` lists, or gets blocks that pass LLVM's
verifier; and these blocks compute what `Meaning` says, also through unions,
pointers into structs, statics of other modules and instances made for them.

Runs in which the code does not do what a comment or the log says:

| Run | Finding |
|---|---|
| `cyclic_components` | `graph.rs:149` uses vertex numbers as discovery times, so that a component may be wrong (`MCTarjanClaim` below).  The graph of components may then have a cycle, and a correct program with mutually recursive generic functions may end in the panic at `compiler.rs:236`, depending on the order of a hash set. |
| `verdict_race` | A `Branch` constraint looks at what is known when it is taken (`solver.rs:264`).  `let a : () = if true { true } else { false } ; 5` is typed if the annotation comes first and rejected if the branches do, as the hash map has it.  `solver.rs:2` says that only the reports of errors depend on the order. |
| `contaminated` | An instance imports what its generic function's unit imports, and to that belong the instances the unit has asked for (`compiler.rs:172`).  If a library has used its own `g` at `i64`, an instance of another of its functions that calls `g` at `i64` finds it twice and is rejected, although `src/LOG.md:61` says that this was dealt with. |

Configurations beside the runs, for the same kind of disagreement; TLC finds
each violated too:

| Configuration | What it shows |
|---|---|
| `MCTarjanClaim` | `graph.rs:149` uses vertex numbers as discovery times.  On 0→1, 0→2, 2→1 with 2 visited first, the output is {1}, {2, 0}, although the graph has no cycle.  `graph.rs:88-89` defines a component as mutually reachable vertices. |
| `MCLostCode` | `remove_unit` drops the generated code of the whole group (`code_store.rs:72`).  If a module was grouped with an instance that does not depend on it, unloading the module leaves the instance without code. |
| `MCLeak` | A parse error returns before `new_units` exists (`compiler.rs:70`), so the unit and its name stay; loading the corrected text under that name panics. |
| `MCNameClash` | `@poly[name][type]` leaves out the unit of a struct (`compiler.rs:163`): two structs of the same name make the second `create_unit` panic. |
| `MCGarbled` (module `Loader`) | `load_expression` unwraps the parser's answer (`c_interface.rs:173`): saving a file that does not parse ends the process that hosts the game. |
| `MCNewlineCall` (module `MCRepl`) | A parenthesis after a method's name is its arguments even on the next line (`parser.rs:361`), where `parser.rs:262` says that a new line ends a statement. |
| `MCGrowing` (module `MCPipeline`) | A generic function that calls itself at a larger type makes instances without end (`compiler.rs:147`), and `fun f ( ) { f }` makes a type that contains itself (`solver.rs:500`); TLC reports a deadlock at `MaxUnits` and `MaxDepth`. |
| `MCDoubled` (module `MCPipeline`) | Two statics of one name in a unit are two definitions and one global (`llvm_codegen.rs:637`): `RunsAsMeant` fails. |
| `MCUndecided` (module `MCPipeline`) | A struct whose type variable nothing decides ends inference with the panic at `solver.rs:537`: `NothingUnknownIsUnreported` fails. |
| `MCWatchLate` (module `Watcher`) | `watch` starts the child, which reads the file, before it begins to observe the file (`watcher.rs:50`, 63): a write in between is never noticed. |
| `MCTerminalEnds` (module `Watcher`) | At its end the terminal gives empty lines for ever (`watcher.rs:43`), each of which restarts a child that has ended. |

`cyclic_components` and `MCLostCode` both follow from the components of
`MCTarjanClaim`, and `CodeLostOnlyByMisgrouping` in the
passing run `reload` shows that it has no other cause.

### Bounds

* Graphs: 3 vertices hold every shape in which a vertex number and a discovery
  time differ; 4 adds a second path into a component.  The theorems of section 5
  hold for all graphs.
* `MaxUnits` (4 to 9): unit ids ever handed out.  A load is begun only if every
  instance it might need has an id, so the bound never cuts a load short.  With
  8 ids the library, the loader and the program with two instances fit, with
  enough left to unload the program and load it again; with 8 in `structs`
  the loader, the library, a module with its instance and one more module that
  reuses it or makes its own, with 9 in `MCNameClash` the library and both users;
  with 9 in `settle` the library is loaded once and the program several times over
  its two instances, or over new ones.
* `MaxDepth` (1 to 3): loads on the stack.  The repository's programs reach 2, a
  loader and the program it loads; `MCNameClash` takes 3 to have three modules
  of the running code's choice at once.
* Two generic functions, nested, unrelated or mutually recursive, give all ways
  in which instances may depend on each other pairwise.
* `MaxWrites` (1 to 3): two writes are a write that races with the reload the
  first one caused; three let a bad text come between two good ones.
* `MaxLines` (2 in `watcher`): one line while the child runs, which is used up,
  and one when it has ended.  `MaxChildren` (3): from the third child on they no
  longer end by themselves, but are still killed on a write; so each kind of
  restart follows each other one.
* `EditsAtStart` and `StdinEnds` say whether the situations of `MCWatchLate` and
  `MCTerminalEnds` may occur; `watcher` allows the second and not the first, for
  which `StaleIsNoticed` fails.
* `frontend`: seven alphabets of chunks, each with the number of chunks a text may
  have.  Single characters, newlines within strings and comments, and operators up
  to 4, which holds an escape within a string, a token behind a string or a comment
  that goes over two lines, and three operators of different precedence; brackets and keywords up to 3 in the repl, statements with scopes
  up to 3 and templates up to 2 in a file.  `NextLines` are the lines that may
  follow, `Finishers` those that `IncompleteCanBeFinished` tries, `MaxFinish` (20)
  more than any of these texts needs; `MaxDigits` bounds numbers.
* `pipeline`: `early` and `late` say how far from both ends of what is left of a
  round the next constraint may be.  Programs of a few nodes have 2 and 2, those
  of middle size 1 and 1, so that a constraint may come before or after all
  others; long ones have 0 and 1, the order that is the reverse of the program's,
  whose verdict is compared with that in the program's order all the same.
  `Steps` (40 calls and turns of loops, 20 machine steps for each), `MaxUnits`
  (6), `MaxDepth` (6, how deep a type is) and `MaxDigits` are met by no program
  of this run.  The second and third would be reported as a deadlock; if the
  meaning of a program ran out of `Steps`, `RunsAsMeant` would not speak of it.
* No symmetry is used: unit ids are ordered (`FindTypeDef` looks at the imports
  from the last to the first, vertices are numbered).

### Fairness

`WF(TarjanStep)`, `WF(SortStep)` and `WF(CompilerStep)`: one thread executes the
algorithm and nothing in the process preempts it, so if a step is enabled a
step is eventually taken.  There is no fairness on a *choice*: any hash order,
and any stage may fail or never fail.  There is none on requests, and none on
`Complete`, since nothing makes running code return.  For `Watcher` weak fairness of `MainStep` (a
thread that never blocks), of `ChildReads` (a started process runs) and of
`ReportWrite` (the debouncer answers after its interval); for `Loader` of
`LoaderStep`, which includes that the game returns from `update`, and of
`ReportWrite`.  Nobody has to edit, to type or to end.  Properties that need
liveness are stated accordingly: `LoadsSettle` asks that a load reaches its
top level, fails or panics, and not that the top level returns.  For `Pipeline`
weak fairness of its whole `Next`, written with ENABLED resolved (`Fairness`):
some step is always possible, which the check for deadlock confirms, and nothing
is assumed of the order of constraints.  `Repl` is a matter of its user and has none.

Deadlock is checked in all runs but `frontend`, where a file that was run, or a
process that is gone, takes no further step.  The resting states (`Finished` of the
algorithms; `Rest` when the interpreter waits for its user or the process has
panicked) are stuttering steps of their own, so that a load that cannot go on
is reported.


## 4. What is only model-checked

* **Liveness** (`TarjanTerminates`, `AnswersRightly`, `LoadsSettle`,
  `EveryProgramEnds`, and the temporal part of `WatcherIsLive` and `LoaderIsLive`): the
  prover handles neither fairness nor ENABLED in such proofs.  Of the two graph
  algorithms it is proved that each step leaves fewer to take, and how many there are
  at most; that a step is taken as long as one can be is the fairness.
* **Unloading modules singly** (`UnloadKinds = {"single"}`): a unit is unloaded
  from under those that import it, and what section 5 proves under
  `DependentsOnly` is not to be expected.  The other theorems hold of it, and the
  run `settle` asks whether loads still come to an end.
* **Everything of `frontend` and `pipeline`**: texts, trees and types are recursive
  data, their functions are RECURSIVE operators, which the prover does not
  take, and what they compute for every input is an induction over data.  These runs say something of the texts and
  programs enumerated, and nothing of others.


## 5. What is proved

For every value of the constants (all graphs, all programs, all texts, all
bounds, all ways to unload), from the assumptions `GraphsAssumption` (the inputs are
directed graphs as the comment at `graph.rs:87` demands), `FileAssumption` (a
file has some text), and `ProgramAssumption` (uses name functions and types that exist).
Five theorems have a hypothesis besides, `DependentsOnly`: running code unloads a
module with all its dependents, as `src/code/tetris/loader.code` does, and not
alone, as `src/code/loader.code` does.  They are marked with a D.

| Theorem | Says |
|---|---|
| `TarjanTypes`, `OnePlace`, `AnswerIsPartition`, `AnswerOnlyGrows` (`TarjanProofs`) | `TarjanTypeOK`, `EachVertexInOnePlace`, `NothingLeftBehind`, `ComponentsOnlyGrow` |
| `ExactInOrder` (`TarjanProofs`) | `ExactWhenDiscoveredInOrder` |
| `SearchOnlyAdvances`, `SearchEnds` (`TarjanProofs`) | `SearchAdvances`; `SearchRunsOut`: a number of steps left that is at most 2·vertices + edges and that each step lessens |
| `SortTypes`, `AnswerIsRight` with its halves `OkIsRight`, `ErrIsRight` (`TopoSortProofs`) | `SortTypeOK`, `AnswerIsValid`: `OkIsTopological`, `AnswerMeansAcyclic` |
| `SortOnlyAdvances`, `SortEnds` (`TopoSortProofs`) | `SortAdvances`; `SortRunsOut`: a number of steps left that is at most 3·vertices + edges + 1 and that each step lessens |
| `CompilerTypes`, `PolyTables` (`CompilerProofs`) | `CompilerTypeOK`, `PolyTablesAgree` |
| `LinksAreToGeneratedCode`, `FailuresAreUndone` (`CompilerSafetyProofs`) | `LinkedAfterGenerated`, `FailureLeavesOthersAlone` |
| `GroupsInOrder` (`CompilerSafetyProofs`) | `GroupsAreExactInOrder` |
| D: `ImportsDoNotDangle`, `InstancesOutliveNothing`, `UnitsAreWhole`, `OnlyMisgroupingLosesCode` (`CompilerSafetyProofs`) | `NoDanglingImport`, `InstancesAreOfLiveCode`, `LoadedUnitsAreWhole`, `CodeLostOnlyByMisgrouping` |
| D: `LoadingIsAtomic` (`CompilerSafetyProofs`) | `LoadsAreAtomic`: `Compiler` implements `UnitTable` |
| `LoaderTypes`, `NoStaleUpdate`, `NameFree`, `NoWriteLost`, `LoaderNeverGoesBack` (`LoaderProofs`) | `LoaderTypeOK`, `UpdateIsLive`, `NameIsFree`, `LoaderNotices`, and the safety part of `LoaderIsLive` |
| `WatcherTypes`, `OneChild`, `NoWriteLost`, `WatcherNeverGoesBack` (`WatcherProofs`) | `WatcherTypeOK`, `OnlyOneChildLives`, `StaleIsNoticed` (if `EditsAtStart` is false), and the safety part of `WatcherIsLive` |

**Tarjan.**  With lowlinks computed from vertex numbers the usual proof does not
apply: components may be wrong.  What saves the partition is that the outer
loop starts at the *least* vertex not visited.  The inductive invariant
`TarjanInv` says that the bottom of the stack is the root of the search
(`StackOK`), that lowlinks never exceed vertex numbers (`LowlinksOK`) and that
no vertex this search can meet has a number or a lowlink below that of its root
(`RootIsLeast`).  So the root keeps `lowlink = index`, and when its call
returns it takes the rest of the stack with it: nothing is left over.

**Tarjan, when the numbers happen to be discovery times.**  Reachability needs no
recursion: a vertex is reached from another if it belongs to every closed set
(one that no edge leaves) that the other belongs to.  It is reflexive, transitive
and contains the edges (`ReachSelf`, `ReachTrans`, `ReachEdge`), and that no path
leads out of a set is shown by the set being closed (`ReachClosed`).
`OrderInv` says that, as long as the order of discovery ascends, calls and
stack ascend with it (`AscendingOK`); a call reaches what is above it on the
stack, and what is on the stack reaches a call below it (`PathsOK`); the lowlink
of a call is a vertex on the stack that it reaches, and no followed edge of what
belongs to the call leads lower on the stack (`LowestOK`); and what is output is a
component, whose edges lead into components output before (`OutputOK`).  When a call
returns with its own number for a lowlink, what is above it on the stack and all
that was output form a closed set, so that nothing below is reached, and the top of the stack is
one component.  When it returns with a lesser one, its caller inherits the lowlink
and the vertices.  So vertex numbers in the place of discovery times
(`graph.rs:149`) are the only thing wrong with the search.

**TopoSort.**  `SortInv` says what the flags and the stack of calls mean: the
active vertices are the calls in progress, the complete ones are those in the
ordering and lead to earlier ones only (`OrderOK`), and an edge that was
followed leads to a complete vertex or to the next call (`EdgesOK`).  The calls
are a path, so that each reaches those after it (`PathOK`), and an edge back to
an active vertex closes a cycle (`ErrOK`).  And where an ordering of all
vertices is topological, the vertices up to any place in it are a closed set, so
that no path leads back (`TopologicalIsAcyclic`).

**Why they end.**  `SearchAdvances` and `SortAdvances` say of each step that it makes
a call, follows an edge, or ends a call that it has not made, followed or ended
before, and that none of this is ever undone.  What is left of it (`SearchLeft`,
`SortLeft`) is therefore a natural number that each step lessens (`LessLeft`), the
last one included, and it is never more than the edges and two, or three, times the
vertices: the algorithms end, and in linear time.  Both `SearchRunsOut` and
`SortRunsOut` hold in the runs of the two algorithms as well when given as properties.

**Compiler types.**  `CompilerTypeOK` is not inductive.  `mappings[Top.queue[2]]`
has a value only if queued units have a mapping, `Return` uncovers a frame that
must be in the phase `run`, and the units of a component are well defined only
if the search's graph is that of the frame's new units.  `FramesOK` adds these
and includes the invariant `TarjanInv` itself; the lemmas of `TarjanProofs`
are used through an instance.

**Instances.**  `PolyInv` adds to `PolyTablesAgree` that instances have ids
handed out before and that no frame's own unit is an instance.  An id is handed
out once, so a new instance collides with no entry; typechecking a module
leaves the type information of instances alone; and `remove_unit` finds the
entry of the unit it removes because `poly_parents` names the symbol in its
key.  Unloading with dependents is not assumed.

**Dependents.**  `FindAllDependents` is the last of a recursive function's
layers.  The library's induction theorems take a predicate as a parameter, which
the provers cannot instantiate; but that a set of natural numbers that is not
empty has a least element follows from a theorem of the library without such a
parameter (the strict subsets of finite sets are well founded), and with it
induction for the elements of a set (`LeastLemma`, `NatSetInduction` in
`Lemmas`).  From that: the layers exist, none leaves a set closed under
importers (`FindsOnlyDependents`), and since a layer that still grows has more
elements than its number, while there are no more units than ids, the last is
closed itself (`FindsAllDependents`).

**The life of a unit.**  None of the properties of `CompilerSafetyProofs`
is inductive by itself.  The invariant, `UnitsInv`, has eight parts.
`ProgressInv` says what the tables have of the units of a load, by its phase: a
unit has a `TypeInfo` and a mapping from the phase *instances* on, code from *run*
on, and so forth; and that frames further up hold younger units.  `OlderInv` says
that what the interpreter imports is older than any load.  The other parts are about
the units that are *young*, the ids from the module of the load on that is
making units now (at most one is, the innermost):
* `YoungOK`: every young unit that has a name is in the frame's list of new units,
  and no older unit imports a young one;
* `ResolvedOK`: what the code of a young unit refers to is there and imported;
* `InstancesOK`, `InstancedOK`: an instance imports the units of its function
  and its types; the references of a unit the search queue is done with have theirs;
* `GroupsOK`: a unit is in its own group, a young group is complete and has its
  code, an older one has no young unit in it, and the groups still to be generated are
  disjoint (for which the partition `AnswerIsPartition` of `Tarjan` is needed);
* `WholeInv`: a unit of no load in progress has passed all stages, is left
  over from a text that did not parse, or is the unit of the intrinsics.

So a failed load deletes exactly what is young (`FailuresAreUndone`): an older
unit neither imports it nor shares code with it.  And what is linked to is
imported, and therefore older and whole, or young and in an earlier group
(`LinksAreToGeneratedCode`; that within a group it may be later is what groups are for).

With `DependentsOnly` one more invariant holds, `EdgesInv`: what a loaded unit
imports is loaded.  Unloading keeps it since the dependents are a closed set, the
clean-up since nothing older imports the young.  Dangling imports, instances
without their function and incomplete units are then excluded.  That
code is lost by misgrouping only is inductive relative to `UnitsInv`: a new edge comes from a
young unit, so that no search for dependents that missed a unit with lost code ever finds
it later.

**Groups.**  `SearchInv` says that the search of a load runs on the graph of the units
it has made (`graph = UnitGraphOf(Top.new)`), that those are all ids from its module's
on, and that `OrderInv` holds of it; only the innermost load can be searching.  A path in that graph is a chain of
imports and the other way round (`PathsAreDependencies`): `FindAllDependents` and
`ReachableFrom` are both least closed sets.  `GroupsInOrder` follows: components whose
edges lead to earlier ones have an acyclic graph (`DescendingIsAcyclic`), so the
ordering does not panic.  No assumption about unloading is needed.

**A load is one step.**  A unit is live in `UnitTable` if it is generated and not
young.  `Execute` makes all young units live at once, and everything they import is
live by then (`ExecuteLoads`); `UnloadDependents` removes live units, and
whatever else it removes was given up before (`UnloadUnloads`); `CleanUp` gives
up ids that were never live (`CleanUpDiscards`); any other step builds something
young (`Builds`) and lets nobody come of age (`AgesKept`): the table stutters.

**Loader.**  `LoaderInv` adds to the type invariant that `loaded` is just what
`tetris` holds from a load to its clean-up (`HeldOK`), that a write that comes
after the text was read has a report due until the next look at the queue
(`NoticedOK`), and that what was read is never older than what is shown
(`AgeOK`).  What the file and its queue do is the subject of the lemmas of
`FileEventsProofs`: a write makes a report due, and only receiving it takes it
away.

**Watcher.**  `OnlyOneChildLives` is inductive with the types: a child is started
only where none is alive, after the kill or when `process` is none.  For
`StaleIsNoticed` each step other than a write or a reading child keeps the
warning (`KeepsWarning`), and a write of a watched file makes one.  For both,
`[][LiveNext]` of the abstract specification follows step by step; the
`Follows` part of it is left to TLC.

No theorem speaks of a RECURSIVE operator: the one recursive function of the
models that are proved about, `FindAllDependents`, is a function definition, and
these models use none of the modules of `Repl` and `Pipeline`.


## 6. What is not modelled, and the plan

Not modelled, for good:
* formatting of errors and values, and the order in which errors are reported;
* argument parsing and the history of the terminal;
* the demo programs and the legacy compiler, which are not built, and the
  core library: programs in the language that a run would have to compile first;
* dropping and cloning of values, which the code generator visits but which
  generate nothing in this version, `SetIndex`, which nothing calls, and
  `references.rs`, which nothing uses;
* the cache of composite types (`llvm_codegen.rs:582`): a type is made anew from
  its definition, and no program of the runs has two structs of one name in a group;
* a union read through another field than the one written last, whose bytes
  depend on the machine;
* quotes when they run, and calls from running code to the C interface: a
  program of `Pipeline` computes, and `Compiler` has the requests it may make;
* `tombstones` of the code store, which is written nowhere.

Not modelled yet: template quoting, shared libraries and `SArray` of
`c_interface.rs`; the interpreter's core modules; the loop of
`src/code/loader.code`, written for an older interface.

The order of the work, most important first.  Steps 1 to 9 are done.

1. `UnitGraph`, `Tarjan`, `TopoSort` and their proofs.
2. `CodeStore`, then `Compiler`, which composes it with `Tarjan`.
3. `UnitTable`, the abstract specification, and the refinement as a run.
4. Proofs of `CompilerTypeOK` and `PolyTablesAgree`.
5. `FileEvents`, `LiveReload` and `Loader`, with the refinement as a run, and their safety proofs.
6. `Watcher`, an implementation of the same abstract specification, with its proofs.
7. `Lexer`, `Parser`, `Structure` and `Repl`.
8. `Types`, `Constraints` and `Solver`: unification in place, the rounds of
   constraints in many orders, growing types.
9. `Llvm`, `Codegen`, `Meaning` and `Pipeline`: blocks, phi inputs and layouts
   against what the program says, with several modules and instances.
10. Several watched files; a loader over the real `Compiler`; template quoting;
    `src/code/core/list.code` as programs of `Pipeline`.
11. Proofs of the other properties of `Compiler` and of the refinement of
    `UnitTable`.  Done.
12. Proof of `ExactWhenDiscoveredInOrder` of `Tarjan`, with the lemmas on
    reachability that it takes, of what follows for the groups of `Compiler`, and
    that the two graph algorithms answer on every graph.  Done.
