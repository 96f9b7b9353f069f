# Formal models of undertaker

undertaker reads C files whose code is guarded by `#if` blocks and asks, for
each block, whether some configuration that the Kconfig model of the program
allows can enable it (else it is *dead*) or leave it out (else *undead*). It
also computes configurations that together cover a file, and answers questions
about single blocks and symbols. The core is the C++ program `undertaker/`; the
rest of the repository produces its models, drives it, or is vendored.

Every definition here is translated from the source under `src/`; `PROJECT.json`
maps it to the lines it stands for. TLC checks the modules on small instances,
and TLAPS proves the main invariants for all values of the constants.

```
tlc -workers 2 -config MCDeadRun.cfg MCDeadRun      # one of the runs below
tlapm JobPoolProofs.tla                             # one of the proof modules
```

## 1. The system

A run of undertaker (`undertaker.cpp`, `main`) loads models into the
`ModelContainer`, selects a main model, and calls the job's function for each
file. Several files are given to a pool of forked children; one file is
processed in the process itself; with the file name `-` a prompt reads files and
commands from the standard input.

A job parses a file into a tree of `ConditionalBlock`s (`PumaConditionalBlock`,
`ConditionalBlock`), and asks a block for its *code constraints*: a formula that
says when the preprocessor enables it. A `ConfigurationModel` adds the slice of
the Kconfig model that the formula's symbols depend on (`doIntersect`). The
joined formula goes to `SatChecker`, which parses it (`bool.cpp`), translates it
to clauses (`CNFBuilder`), merges it with a model in CNF (`incrementWith`), and
asks the one PicoSAT instance of the process (`PicosatCNF`).
`BlockDefectAnalyzer` and the `CoverageAnalyzer`s decide what to ask.

Around the core: the Kconfig language is evaluated by the configuration tool in
`scripts/kconfig`, whose trees `satyr` and `rsf2cnf` translate to the CNF models
the core reads; and `vampyr` runs undertaker's coverage analysis on a file and
compiles it in each of the configurations that were written.

| Part | State | Operations | What is hard | What makes it correct |
|---|---|---|---|---|
| batch pool (`undertaker.cpp` 797–846, 1127–1148) | counters, pid → file map, the kernel's children | fork, wait, shut down | order of exits, reused pids, failing forks | bound on children, exact counts, every failure named, one verdict |
| dead run (633–682) | report files on disk | delete leftovers, write reports, time out | workers in one directory, a timeout between any two steps, unlinks and opens that fail and are only logged | after a success the reports on disk are this run's, but for names in the log |
| defect analysis (`BlockDefectAnalyzer.cpp`) | the defect object, types saved in blocks, reports | check, classify, crosscheck, report | an object that every check mutates, exceptions in the middle, reports that do not open | a report's name, type, list of architectures and formula are true; none is missing without an error in the log |
| solver sharing (`PicosatCNF.cpp`, `SatChecker.cpp`) | clauses and assumptions of each object, the solver, the pointer to the object it holds | create, copy, destroy, push, assume, check, read | many objects on one solver, objects at reused addresses | every answer is the asking object's |
| CNF merging (`PicosatCNF.cpp` 176–270) | two CNFs, their name tables | rename, transfer | two numberings of variables meet | no capture; the result is the conjunction |
| CNF building, expressions (`CNFBuilder.cpp`, `bool.cpp`, …) | expression nodes with cached variables, the CNF under construction | visit, look up, add clauses; parse, simplify, delete | shared sub-expressions, constants and ignored names that mean something else in each user | the CNF says of the names what the expression says, alone and merged with a model |
| model slicing (`RsfConfigurationModel.cpp`, `ConfigurationModel.cpp`) | worklist, item set, missing set | extend, emit, intersect | cyclic formulas, the second call excludes what the first returned | the slice is the reachable part, with its lists |
| code constraints (`PumaConditionalBlock.cpp`, `ConditionalBlock.cpp`) | block tree, versions of symbols, cached formulas | read directives, query | recursion between blocks and defines, a cache filled half-way | the formula is the preprocessor's meaning of the file |
| coverage (`CoverageAnalyzer.cpp`) | covered blocks, configuration under construction, solver's last answer | solve, add, reject, emit | the last answer is not the one that counted | all coverable blocks covered, the loop ends |
| command line and prompt (`undertaker.cpp` 848–1153, `ModelContainer.cpp`) | models, main model, job, static variables of jobs | load, choose, switch, process | a long session of legal commands | a job gets the model and the settings it was asked to use |
| coverage output and vampyr (`undertaker.cpp` 299–440, `python/vampyr`) | the files `.config<n>`, `.cppflags<n>`, `.source<n>`, `.h`, `.report`; the container of messages | remove, write, time out; find, compile, merge | two programs meet on disk, neither checks its files, and the second ignores how the first ended | what is compiled is this run's list, nothing a compiler says is merged away |
| Kconfig evaluation (`scripts/kconfig`: `symbol.c`, `confdata.c`, `menu.c`, `expr.c`) | answers and flags of symbols, picks of choices, computed values, a .config | read, set, write | values depend on each other; reading and writing drop what is not visible | what is written is read back as it was |
| satyr (`SymbolTranslator.cpp`, `ExpressionTranslator.cpp`, …) | a formula | translate, assume a .config, check | three values in two variables, defaults behind invisible prompts, choices | the formula's solutions are the tool's configurations |
| block configurations, queries | a cache of solvable files | join, print | numbering | see the plan |
| `rsf2cnf`, `predator` | – | read, print | – | – |
| `tailor/` | ftrace parser, hash set, module table; kernel bit field | parse, add, rescan; set, snapshot, read | state kept across lines; unlocked setters | every executed address is reported once |
| `ziz/`, `python/`, `scripts/`, `picosat/`, `fm/`, `doc/`, `contrib/` | see `PROJECT.json` | | | |

Two kinds of concurrency exist: processes of the batch pool, which share the
directory tree, and a helper thread a job joins with a timeout, after which the
process exits. Within a process everything else is sequential; what is hard
there is state that outlives its purpose: a solver shared by objects, a cache,
an object that is checked repeatedly, static variables of a prompt session.

## 2. The modules

`X.tla` is a component, `MCX.tla` gives it constants for TLC, `XProofs.tla`
holds its theorems. Operators named `...` after "Mutation of" in a comment are
plausible bugs: with one of them in place of the original the run must fail, and
`PROJECT.json` lists which property notices.

**WorkPool, JobPool** – `WorkPool` is what the batch mode promises, without
processes: a file is started at most once, at most `Threads` are in progress, a
verdict is given once and is a success exactly if no file ended with an exit
code. `JobPool` is `main`'s loop and `wait_for_forked_child`: `running`, `args`
and `stats` are `running_processes`, `arguments` and `process_stats`; `child`,
`pidOf` and `outcome` are the kernel's. `Fork`, `ForkFails`, `Reap`,
`WaitReturns`, `StartDrain` and `Shutdown` are the steps of the parent between
two system calls, `ChildEnds` is the child's. Pids come from a finite set and
are reused once reaped. `ImplementsPool` maps an unreaped child to an active file.

**DeadRun** extends `JobPool`: each child runs `process_file_dead_helper`, and
its steps interleave with `main`'s and with the other children's. `Glob` and
`Unlink` are separate steps because the code globs first and then unlinks name by
name; an unlink that fails leaves the file and an error in the log (`logged`), and
the next name is tried. `ProcessBlock` writes the report of a block with a defect,
and with `MusAnalysis` what picomus says of it; either file may fail to open, which
the exit code does not show. A report's name contains what was found
(`Titles`), so an old report of a block and a new one are different files; the
`.mus` files have names the glob does not match, so nothing ever removes them.
`WorkerEnds` (`ChildEnds` of the pool) may end a worker anywhere (timeout, signal),
and with success only behind its last block. `found` is what the analysis of
`DefectAnalysis` would find. Its theorems are in `JobPoolProofs`.

**DefectAnalysis** – one file with a chain `#if … #elif … #else`, and a
configuration is the block it selects, so a formula is a set of configurations
and the solver is emptiness. `dies[m][c]` is the formula of model `m` (kconfig,
build system, missing items) that excludes `c`. The record `defect` is the
`BlockDefect` object, with everything that later checks overwrite. The actions
follow `analyzeBlock_helper`: `MainFinds`/`MainClears`, `Classify`, the
crosscheck loop `CrossSkips`/`CrossFinds`/`CrossClears`/`CrossEnds`, `Report`. Four
errors lose a report and are logged: a formula of a model that does not parse
(`CheckThrows`; `breaks` says at which stage it is met), a code formula that does
not parse or a lack of memory (`BlockThrows`), and a report that does not open
(`ReportUnopened`). `ConditionalBlock::defectType` is read without having
been initialised: it starts with any value.

**SatContext** – `PicosatCNF` objects at addresses that are freed and reused,
and the one solver with its clauses, pending assumptions and last answer.
`Check` has the branch of a context switch (reset, all clauses again) and that
of the current object (`Restart`: only clauses behind `pushed_clauses_index`),
and chooses any satisfying assignment. `Read` is the loop over `deref` that
fills an `AssignmentMap`.

**CnfMerge** – `incrementWith`, variable by variable: `Symbol` for the loop over
the model's names, `Unnamed` for the loop over the remaining ids, `Transfer` for
the clauses. Its initial states are all pairs of CNFs over the names.

**CnfBuild** extends `CnfMerge` by what comes before it: `CNFBuilder` visits the
nodes of each expression, operands first (`Visit`, with one operator for each
kind of node: `NewGate`, `NewNot`, `NewConst`, `NewVar`, `NewFree`), adds the
root as a clause (`PushClause`), and hands over to the merge (`LoadCnfModel`).
`lit` is the variable cached in a node, which outlives the expression it was
visited for; `builder` says which of the three users of the class it is, since
they differ in what a constant and a name on the ignorelist become.

**ModelSlice** – the item worklist of `extendWithInterestingItems`, the emission
of formulas, and `doIntersect` for the two calls of an analysis (whole slice
first, then with the first result excluded). A formula is the set of items it
mentions; lists, macros of the file and free items are sets of items.

**CodeConstraints** – the directives of a file are read one at a time
(`OpenIf`, `Alternative`, `Endif`, `Define`, `EndOfFile`, optionally
`DecisionCoverage`); then queries run with an explicit call stack
(`EnterVisited`, `EnterTop`, `EnterBlock`, `StartDefines`, `FollowDefine`,
`DefineReturns`, `Leave`), since `getCodeConstraints` and
`CppDefine::getConstraints` recurse through each other and fill `cached_code_expression`
on the way. Conditions are conjunctions of literals over symbol versions.

**Coverage** – both analyzers. The formula of the file is the set of its
assignments; a solver call picks any of them. `Simple…` are the rounds of the
simple analyzer, `Min…` those of the greedy one, `Catch` the exception handler.
`Lookalikes` are program symbols named like blocks (`B9600`).

**Vampyr** extends `Coverage` by what happens to its list. undertaker's process
removes the files of earlier runs by three patterns (`RemoveNext`: an unlink that
fails is printed, the file is `stuck`), opens and flushes three files for each
configuration without asking the streams whether they work (`Open`, `Flush`: the
destructors flush in the opposite order; a stream that does not open, or fails,
makes its file `lost`), and may be ended at any point (`Interrupt`). vampyr then
makes a configuration of each `.config<n>` it finds, in the order of their names as
strings (`Earlier`: `.config10` comes before `.config2`). Without `.cppflags<n>`, or
where a file of its own does not open, it ends with an uncaught `IOError`
(`MakeConfiguration`, `CannotMake`, `CannotReport`). It compiles the configurations
(`Check`), unless there is no gcc, and merges what gcc says (`Added`: the first
equal message the loop over a set meets). What a file holds is the number of the
solution it was written for, or that it is old or incomplete.

**Kconfig** is a session of the configuration tool: `Finalized` is what
`menu_finalize` makes of the declarations, `Calculated` is `sym_calc_value`,
with visibilities, defaults, selects, implies and choices; `Read`, `Set` and
`Write` are `conf_read`, `sym_set_tristate_value` and `conf_write`. `WellFormed`
says which Kconfig files are meant: a symbol mentions symbols before it, so that
values can be calculated in one pass where the code recurs; a choice cannot be
mentioned and selects nothing, as the grammar has it; members have no defaults of
their own and a choice none but its members, since `menu_finalize` warns of the
others (`menu.c:270`, `:515`). `Readable` leaves out lines of a .config the tool skips. **Satyr**
extends it by the translation: `AndRepr`, `NotRepr`, … are the visitors that
represent a tristate by two Booleans, `BoolClauses`, `TristateClauses` and
`ChoiceClauses` the clauses for the three kinds of symbols, `Accepted` the check
of a .config. `Legal` says that the tool, given a configuration, keeps it.

**Session** – `main` from the options to the end and `ModelContainer`: loading
arguments and directories, `Start` (lists, main model), `Process`,
`ProcessInChild`, and the prompt's `FileLine`, `ModeCommand`, `LoadCommand`. The
static variables `decision_coverage`, `useBlockWithFilename` and `timeout` are
kept because they outlive a job. The last of several `-j` is the job (`JobAsked`),
but each of them was parsed, and `cpppc_decision` leaves its setting
(`DecisionAsked`). Whether a job succeeds is open; whether it
would use a model that is not there is not (`NullModel`).

The modules meet at these interfaces: `DeadRun` runs in the children of
`JobPool`, which implements `WorkPool`; `CnfBuild` ends where `CnfMerge` begins;
`Vampyr` reads what `Coverage` returns; `Satyr` is compared with `Kconfig`.
`Session` decides which models and settings a job gets; `DefectAnalysis` assumes
such a set of models, and of its formulas only what `CodeConstraints`,
`ModelSlice` and `CnfBuild` each establish about theirs: that they mean the
file, the reachable part of the model, and the conjunction. `SatContext`
justifies that `DefectAnalysis` and `Coverage` take a check as a function of its
formula.

## 3. The runs

| Run | Instance | Question |
|---|---|---|
| `batch_run` | 3 files with 1, 1 and 0 blocks, the name of the second starts with that of the first; 2 processes, 2 pids; every possible leftover of the first file, with no defect, one, or one that is skipped in it; unlinks and opens that fail | bounds, failed files, refinement of `WorkPool`, what is on disk after success and after a timeout, end of the run |
| `defect_global` | `#if/#else`, 3 models: main is the second, the first two may fail to parse in either stage, the third is incomplete; the analysis or the report of the `#if` may fail | are reports true, is none lost without a word |
| `defect_formula` | `#if/#else`, 2 models, no errors | **violated**: the formula of a report causes the defect |
| `sat_context` | 2 addresses, 2 variables, clauses that clash under an assumption | answers belong to the asker |
| `cnf_merge` | some 200 expressions over 3 names (one on the ignorelist), built on an empty CNF or on a model's, then a model of up to 3 variables merged in | capture, name tables, meaning |
| `model_slice` | 3 known items with any formulas over one or two items, a missing one, a macro, a free name; lists | exactness of both calls and of the missing set, end of the worklist |
| `code_constraints` | all files of up to 5 directives on 2 symbols, all orders of queries | meaning, first answers, recursion |
| `code_cached` | same | **violated**: a cached answer decides as the file does |
| `coverage` | 4 blocks: B00, an `#if/#else`, an `#if`; all subsets of assignments, both analyzers; 3 kinds of leftovers, 4 files with errors, timeouts, 3 messages of the compiler | coverage, redundancy, files, tracebacks of vampyr, messages, end |
| `coverage_model` | the analysis alone, with symbols outside the model | **violated**: the simple analyzer covers what can be covered |
| `session` | 3 architectures, 5 model files, 2 directories, 540 command lines, with every argument | null models, stable models, settings |
| `kconfig` | `MODULES`, a tristate `A`, and a symbol `B` with any prompt, dependency, defaults, select or imply, or a choice of two; several .config files, 2 answers | is the formula exact, is what was saved accepted and read back |

Why the bounds are enough. *batch_run*: two pids for three files force a pid to
be given to a second file while the map holds the first; two slots let exits
arrive in any order and let a worker meet any step of another; the first file's
worker finds the report of the second, and every report and `.mus` file that may be
left of the first file is there when it starts, so that an unlink of each may fail. *defect_global*: a model before and one after the
main model, two whose formulas may not parse and one without a missing-items
stage, so the loop's
skip, early exit, exception and completion all happen after every kind of first
verdict; the #else, which reads the type saved in the #if, is analysed after the
#if's analysis or report failed. A stage the model has not, or whose formula does not
parse, excludes no assignment there: nobody asks for it. *sat_context*: an object can be destroyed, replaced at its address, and
compared with a second one. *cnf_merge*: three ids are needed for a renamed id to
meet one that is kept and one taken by the counter; two gates in every
combination, two roots that share nodes, and single nodes of each kind.
*model_slice*: cycles of length up to three, and every class of name.
*code_constraints*: five directives allow an `#if/#else` with a define before and
inside it, or a nested group. *coverage*: two groups so that a choice in one is
independent of the other; leftovers of a configuration vampyr checked beside one of
`-O kconfig`, which has no flags, or of an eleventh configuration, whose name is
among the first; one file of this run that does not open, and leftovers that cannot
be removed; messages about one line that come together, alone and with another text. *kconfig*: a symbol depends on one other at most in each of the
ways the language has, with up to two defaults and definitions; choices with
bool, tristate and mixed members. The bounds that appear as constants are
`NFiles`, `Candidates`, `ChainLen`, `NArchs`, `MaxClauses`, `MaxAssumed`, `MaxVar`,
`MaxDirectives`, `MaxSets` and `Size`; the MC modules say what the other sets
contain.

Some points of reading: `SuccessIsComplete` speaks of the files whose reports no other
worker's glob finds (`Alone`); in `batch_run` that is the first and the third. `coverage`
uses formulas where the symbols of the model determine the blocks; `coverage_model`
drops that. `LeftoversAssumption` says only that leftovers have the five names the
programs write: a `.config<n>` without its flags, as `-O kconfig` and an interrupted
removal leave it, is among them. Flags that are incomplete or old make the compiler
compile anything (`OtherFlags`). `FormulaExact` and `SavedAccepted` name the cases in which formula and
tool are known to differ (section 5); everywhere else they must agree. Deadlock
checking is off only where the modelled function or session returns or may stop
(merging, slicing, a query, an analysis, a configuration session); `JobPool`,
`DefectAnalysis`, `DeadRun` and `Session` state their end as an action instead.

**Fairness.** `DeadSpec` has weak fairness of the parent (a process that is ready
to run gets to run) and of the end of each running child (`dead` and `coverage`
join their helper with a timeout and exit, the other jobs are loops over a
file); nothing is assumed of the steps in between. `ModelSlice` and `Vampyr` are
sequential programs: weak fairness of the whole next-state relation says only
that a program which can take a step takes one; nothing is assumed of the choices
the solver makes, and that the timeout fires is not assumed either.

## 4. What is proved

All theorems hold for every value of the constants that satisfies the module's
`ASSUME`s, which TLC evaluates in the runs.

| Module | Theorem | Property |
|---|---|---|
| JobPoolProofs | `CountersExact`, `FailedFilesKept`, `PoolImplemented` (of `JobPool`) | `BoundedParallelism`, `LostOnlyByReuse`, `ImplementsPool`; with them `StatsExact` and `ListedFailed` |
| | `DeadRunKeepsPool` (of `DeadRun`) | the same three for the composition |
| | `ResultsComplete`, `NoOldReports` (of `DeadRun`) | `SuccessIsComplete`, `NoMixture` |
| DefectProofs | `GlobalReportsAreGlobal`, `LocalReportsAreLocal` | `GlobalOnEveryArch`, `LocalHasWitness` |
| | `MapsAreTruthful`, `TypesAreStrongest`, `MusInputsUnsatisfiable`, `NoReportIsLost` | `MapTruthful`, `TypeIsStrongest`, `MusUnsatisfiable`, `NothingLost` |
| SatProofs | `Invariance`, `AssignmentIsModel` | `AnswersOwn` (with `ContextInSync`, `ReadSafe`); `TableIsModel` |
| CnfProofs | `NothingCaptured`, `NamesStayInverse` (of `CnfMerge`) | `NoCapture`, `NamesInSync` |
| | `RenamingSound` | `RenameInjective`, `IdsCounted` (no run lists them) |
| | `TranslationExact`, `TranslationMerges` (of `CnfBuild`) | `FormulaCnf`; all four of the above for the composition |
| SliceProofs | `SliceSound`, `ListsSound`, `CallsCombine`, `MissingSound` | `SliceExact`, `ListsAsserted`, `CombinedExact`, `MissingExact` |
| CodeProofs | `CachedChain`, `RecursionBounded`, `FormulaIsCpp`, `OneBranch`, `FirstAnswer` | `CachedChainComplete`, `StackBounded`, `FormulaIsPreprocessor`, `OneBranchEnabled`, `FirstAnswerExact` |
| CoverageProofs | `ListCovers`, `ConfigurationsFull`, `NoneForNothing` (of `Coverage`) | `StatementCoverage` if `NoLookalikes` and `SymbolsDecide`; `GreedyMaximal`; `NoneRedundant` if `NoLookalikes` |
| | `WrittenListCovers`, `InterruptsSurvived`, `DiskShowsThisRun`, `ReportComplete` (of `Vampyr`) | the first and the last of these for the composition; `CrashExplained`; `DiskIsThisRun`; `FirstMessageReported` |
| SessionProofs | `MissingOnlyBy`, `SessionModelsStay`, `CommandLineHolds` | `NullOnlyBy`, `ModelsStay`, `JobsAsCommanded` |
| | `ToolKept`, `ReadBack` (of `Kconfig`) | the invariant `ToolInv` (no run lists it); `ReadsBack` |
| | `FormulaIsExact`, `SavedIsAccepted`, `ValuesSolve` (of `Satyr`) | `FormulaExact`; `SavedAccepted`; that all values in force solve the formula (no run lists it) |

Two hypotheses are not assumptions of the modules: `NoLookalikes` (no program symbol is
named like a block) and `SymbolsDecide` (configurations that differ in a block differ in a symbol of the
model; `coverage_model` is the counterexample without it). The first theorems
about CNFs start from any two that are merged, the others from the expressions
one of them is translated from. What `JobsAssumption` asks of these: operands are
numbered before their operators, as `accept` leaves them; a call or an arithmetic
operator, which gets a new variable whenever it is visited, is below one root
only (the parser alone makes such nodes, what it returns is a tree, and a checker
pushes it once); and one variable per node fits within `MaxVar`.

Each proof shows `Init => IInv`, `IInv /\ [Next]_vars => IInv'` with one lemma
per action or group of actions, and derives the properties. Where a property
needs more of the history than `IInv` has, a second invariant is shown inductive
relative to the first, so that neither proof has to carry the other. Why the
property is not inductive, and what the invariants add:

* *JobPool*: `BoundedParallelism` needs the phase: between `Fork` and the wait
  the counter may be at the bound, in the loop it is below (`Control`). That an
  unreaped child is found under its pid needs unreaped children to have distinct
  pids (`Lives`), and that a key of the map belongs to a started file
  (`Entries`). The refinement proof maps each action to a step of `WorkPool` or
  to a stutter; the verdict needs `StatsExact`, a file counts as failed exactly
  if the counter says so.
* *DeadRun*: every step of a worker is a step or a stutter of the pool, so the
  theorems above carry over. `DiskInv` says how far each worker is and what that
  means for the reports of its own file (`Settled`): an old one is still to be
  removed or was logged, a new one belongs to a defect of this run, and what the
  worker got past is there unless it was logged or another worker removes it.
  Other workers only ever remove these names (`OtherFiles`), so `NoMixture` needs
  no hypothesis about names at all.
* *DefectAnalysis*: `Known` says what the object knows at each point of the
  crosscheck: that the block has the defect on the main model and on every model
  the loop has passed. `VerdictSound` connects the stage a check stops at with
  the absence of a possible configuration, which uses that formulas are only
  ever added. `Recordings` adds the history: what the map has for each model that
  was asked, which stage was the strongest so far, which formula was kept for
  picomus, and how every block that was left behind ended (`Accounted`: reported,
  skipped, or an error was logged).
* *SatContext*: `TableCurrent` keeps the assignment table tied to the last
  successful check of its own checker.
* *CnfMerge*: `Ahead` (the counter is above every id in use on either side),
  `NamesSoFar` and `EntriesSoFar` (what the loop has done to the names it has
  visited) make the renaming injective; capture is then impossible.
* *CnfBuild*: `BuildInv` says of a translation under way that the literal of each
  translated node and its clauses are what its operator says of its operands
  (`Meant`), that a visited node has all its operands translated (`Seen`), and
  that nothing of the CNF that was there was lost (`BaseInv`). From these a
  solution's values of the nodes are those of `Truth`: two valuations of a set of
  nodes closed under operands that follow the operators and agree on names and
  free nodes are equal (`ConsistentUnique`). That no solution is lost is an
  invariant of its own, `Extendable`: values of names and free nodes that satisfy
  what was there and the roots so far extend to a solution that `Agrees` with
  them, since each visit adds at most one variable, whose value is then given
  (`GrownAgrees`). `Room` counts variables against nodes, so the result is a CNF
  that the merge may start from. At the end `MergedSplits` and `MergedJoins` take
  a solution of the merged clauses apart and put two together; the second needs
  all that was proved of the renaming.
* *ModelSlice*: `Worklist` says that what was reached and is not on the worklist
  has all its mentions in the set; the reachable set is least with that property,
  so when the worklist is empty both agree. `MissingSoFar` does the same for the
  missing set. `CombinedExact` is stated for runs without a blacklist: with one,
  its items are in the slice as well.
* *CodeConstraints*: blocks refer only to blocks and to versions of symbols that
  exist, and only an `#if` has no predecessor (`TreeInv`); every frame of the
  call stack has collected what its phase says (`CallsInv`, `CollectedInv`), and
  so a cached formula holds the chain of the block and of its parents.
  `StackInv`: a block has at most one call under way past its marking, a define
  call lies on a block call, and anything else is innermost. `Slot` then numbers
  the frames injectively by 1 to 2 · blocks + 1, which bounds the stack.
  For the formula, `FileInv` has three parts: the links of a block point to
  earlier blocks, the versions of a symbol are made in earlier blocks or at the
  end, and nobody goes on twice with one branch (`ShapeInv`); the blocks are those
  of the directives read so far, plus the else blocks of decision coverage, which
  complete every group (`CountInv`); and for each configuration there is a model
  of the conjuncts that has the blocks on and the symbols defined as the
  preprocessor does after these directives, whose stack of groups is in step with
  the open blocks (`Mirrors`, `MirrorInv`). Two assignments that satisfy a closed
  set of conjuncts and agree on the configuration agree on the set (`Determined`):
  the least block or version on which they differed would only depend on smaller
  ones. So the models are exactly the runs. That one branch of a group at most is
  enabled follows from the conjuncts alone (`OneOfGroup`); that one is, from the
  group having an `#else` (`ElseOfGroup`), which with decision coverage every group
  has (`CompleteGroup`). `DependsInv` says of a collection
  under way that what a visited block depends on was collected or is still owed
  by a frame; when the last call leaves, nothing is owed and the set is closed.
* *Coverage*: covered blocks are those of a returned configuration
  (`CoveredTruthfully`), and a block the loop has passed is settled: covered or
  dead for the simple analysis (`SimpleSettled`), covered or impossible together
  with the configuration under construction for the minimizing one (`MinSettled`).
  `ListInv` says that what the solver enables beyond what it was asked for was
  covered before, which makes every configuration bring a block of its own.
* *Vampyr*: an interruption of the analysis leaves an empty list, for which the
  invariants of `Coverage` hold. `FilesInv`: a `.config<n>` without its `.cppflags<n>`
  has one of the reasons `CrashExplained` names (`Excused`), since the flags are
  removed first, created first and flushed last, and an error of the file system
  leaves its mark on that number. `ThisRun`: in a run nobody interrupts the writer
  starts on a directory where only files that could not be removed are left; all
  files below the configuration being written are complete and of this run, but for
  those that were lost (`Writing`), and vampyr meets the configurations in the order
  of their names (`Ordered`), each that no error touched with its own flags
  (`Verifying`).
  `ReportInv`: the configurations are told apart by their numbers, and every
  record belongs to one that was checked. `AddedWell` is inductive over the
  messages of one configuration: records only gain configurations (`Kept`), and
  one of this configuration's own about the line of a message means that gcc
  spoke of the line before (`Made`).
* *Session*: that a main model is missing only if none could be chosen is kept
  through the prompt's commands because models are never removed and
  `main_model` changes only to one just loaded. `AllListed` and `Commanded` say
  which models have the lists and which static variables may be set while no
  prompt was reached.

* *Kconfig*: `Settles(v, h, u, p)` says that `v` solves the equations of
  `sym_calc_value` for all symbols at once, given the flags, values and picks of
  a user; the one pass of `Values` does (`ValuesSettle`), since a symbol's answer
  depends only on what it may mention (`SameAlike`). `ToolInv` keeps of the history
  that the values in force solve the equations for *some* user, and that after a
  write the file holds them. `AllBack` then compares these values `v` with the ones
  `w` calculated from the file. They need not be equal: a visible choice that was
  `n` because it had no visible member may be `m` the second time, as its members,
  all off, left no line. So the induction is over `Matches`, which allows this, and
  the proof shows that it disturbs nothing: members of such a choice are `n` both
  times, and a select by one of them mentions the member beside its choice
  (`PullsMatch`). For the rest, what was written gives a plain symbol its value
  again whatever its prompt, selects and implies say (`RaisedBack`), a choice gets
  its own from its members' lines (`ChoiceUser`), and a choice that is `y` picks the
  member that was `y` (`MemberBack`). No flag is lost in between, because no choice
  has an `m` beside a `y` in a file that was written (`NothingLost`).

* *Satyr*: what an expression is translated to says the value it has
  (`AtomReprIs` to `AnyReprIs`, and `DefReprIs` for the chain of defaults, which is
  compared with the first visible one from the last default backwards). So the
  clauses of a symbol are inequalities between values: what its definitions allow,
  what selects it, its visibility, its default (`BoolClausesAre`,
  `TristateClausesAre`). They are compared with the equation of `sym_calc_value` in
  both directions. That values which settle any user's answers satisfy the clauses
  (`SettledSolves`) needs only the first four exceptions of section 5 (`Harmless`),
  and `menu_finalize`: every condition of a prompt or default contains the
  dependencies of its definition, and `MODULES` wherever it has an `m`
  (`FinalizedBuilt`). The other direction takes a solution, gives the tool its
  values as answers, and shows that the solution settles them
  (`SolutionSettles`); since the equations have one solution for given answers
  (`OneAnswer`, by the least symbol on which two would differ), it is what the
  tool calculates. The remaining exceptions are needed here: a formula says
  nothing of values above a visibility.

The type invariants of the modules are part of these proofs.

**Model-checked only.** Liveness (`RunEnds`, `Returns`, `Ends`) is out of the
prover's reach; every other property of the passing runs is stated by a theorem. Where
the proofs above need an induction over blocks or directives they take the least
counterexample, whose existence `WellFoundedInduction` has as a theorem
(`LeastNumber`): an induction rule would need a predicate as a parameter.

## 5. Where code and documents disagree

Shown by a run (`PROJECT.json`, findings):

* `defect_formula`: after a crosscheck that clears a block on some architecture,
  the report of the locally dead block contains the code formula alone, which is
  satisfiable (`BlockDefectAnalyzer.cpp:277`).
* `code_cached`: a nested `getCodeConstraints` stores what its caller has
  collected so far as the block's formula; a later query of the block misses a
  define (`ConditionalBlock.cpp:470`).
* `coverage_model`: the simple analyzer marks the blocks of an assignment as
  covered and may then drop the assignment (`CoverageAnalyzer.cpp:118`).

Met while modelling; the models contain the behaviour, no run is spent on it:

* A NoKconfig defect is named "globally" though no other model was asked
  (`BlockDefectAnalyzer.cpp:172`); an `#else` decides by uninitialised types
  (line 190).
* The glob `<file>*.*dead` also deletes the reports of `foo.cpp` when `foo.c` is
  processed (`undertaker.cpp:641`). It does not match the `.dead.mus` files, which
  stay when the block is no longer dead.
* A report that could not be removed or opened is logged, and the exit code is that
  of a success (`undertaker.cpp:145`, `BlockDefectAnalyzer.cpp:216`).
* Program symbols named `B<digits>` are taken for blocks
  (`CoverageAnalyzer.cpp:150`).
* `::cpppc_decision` and `::mergeblockconf` leave their setting behind for all
  later jobs of the prompt; models loaded at the prompt do not get the lists; a
  path given to `::load` is also processed as a file, which may end the session;
  `::main-model` of an architecture that is already loaded has no effect.
* A batch in which every child was killed by a signal ends with success.
* vampyr ignores that undertaker failed (`BuildFrameworks.py`): after a timeout it
  checks an incomplete list, after one in the middle of writing also incomplete
  flags. For a `.config<n>` without its `.cppflags<n>` `Configuration.py` raises an
  `IOError` that ends the whole batch: an interrupted removal leaves one, `-O kconfig`
  writes them, and so does `formatCombined` where the flags do not open, since it
  checks none of its streams (`SatChecker.cpp:466`).
* vampyr compiles in the order of the names as strings, `.config10` before `.config2`
  (`utils.py:149`).
* `-j cpppc_decision -j dead` runs the dead analysis with decision blocks
  (`undertaker.cpp:776`).
* Of two different messages of gcc about one line in one configuration only the
  first is kept (`Messages.py:133`).

Cases in which satyr's formula and the configuration tool differ. `Excepted` in
`Satyr` names them; `FormulaExact` holds elsewhere, and `FormulaIsExact` shows that
the list is complete. A configuration may be lost, so that `SavedAccepted` has to
except it, only by the first four:

* `HalfHidden`: the comment at `SymbolTools.cpp:94` says "defaults to the first
  visible default"; where that default is visible with `m`, the negation of its
  visibility is `m` as well and the defaults behind it shine through.
* `ByImply`: what `imply` adds is not translated, so a symbol that is on because
  of one has no solution.
* `NothingToChoose`: a visible choice without a visible member rejects a
  configuration the tool accepts.
* `WithoutModules`: the formula of a tristate does not mention `MODULES`: it may be
  `m` there without modules, and where the tool makes a `y` of the `m` of a select or
  a default, the formula has none.
* `AboveVisibility`: in the formula a tristate may be `y` above the `m` of its prompt,
  and a choice may be on whose prompt is not visible.
* `MemberLeft`: a bool choice needs one member that is `y`, the formula is satisfied
  with one that is `m`.
* `FirstDefinitionHidden`: a symbol with exactly one prompt whose condition reads like
  its first definition's dependencies counts as always visible, also where it has
  further definitions, and where the prompt of a tristate member is hidden because
  its choice is `y`.

In the configuration tool itself, a second write without a change in between
calculates everything again and may take the flag from a choice that the first
one had kept; what was written is still read back (`ReadsBack`). Two things that
`ReadBack` has to exclude: a default may exceed what the prompt allows, and reading
cuts it down (`Exceeding`); and a member that is not visible may be on by a default
of its own, is written beside the member that was picked, and may be taken for the
pick when the file is read (`WellFormed`).

Read in the code, in parts no module covers: the reference configuration is
appended to one list once for each tool; a `.expanded` of an earlier run is used
again by the kbuild frameworks, since `LinuxStdConfiguration` sets its kconfig
name after the base class looked for one; sparse and coccinelle, run behind gcc
through `fakecc`, may return gcc's cached output; `pprintAssignments`
(`SatChecker.cpp:529`) erases elements of the map it iterates over and may add a
symbol again when a later solution equals the first.

## 6. Not modelled

`PROJECT.json` lists every part with its reason. Most lines of the repository are
not the program's logic: test inputs and kernel sources under
`undertaker/validation*` and `*-tests`, models under `fm`, the vendored PicoSAT,
and the graphical front ends of the vendored Kconfig. In short:

* PicoSAT is external: a solver whose answers are right. The Kconfig parser and
  front ends are left out; their evaluation is `Kconfig`.
* Printing, logging and file formats hold no state the properties could speak
  about; readers are sequential file input.
* `#include` handling and positions of blocks are left out of `CodeConstraints`,
  types and metadata of symbols out of `CnfMerge`.
* Numbers and strings are left out of `Kconfig` and `Satyr`, and the random and
  all-yes modes out of the former.
* Of the coverage job's output modes only `combined` is modelled, which vampyr
  uses; of vampyr the bare framework with gcc. The kbuild frameworks hand each
  configuration to `make`, whose behaviour is not in this repository.
* Expression parser (generated), simplifier and the deletion of shared nodes are
  tree walks without interaction with the rest.
* The tracing tailor and the flipper device run beside a kernel, apart from the
  analyses; `golem`, `rsf2model`, `busyfix` and the drivers are scripts that pass
  text between programs.

## 7. Plan

Done: `WorkPool`/`JobPool`, `DeadRun` on the pool, `DefectAnalysis`,
`SatContext`, `CnfBuild` with `CnfMerge`, `ModelSlice`, `CodeConstraints`,
`Coverage` with `Vampyr`, `Session`, `Kconfig` with `Satyr`, and the proofs of
section 4.

Next, extending the model:

1. `BlockConf` – joined preconditions with the cache of solvable files; composed
   with the lists of `ModelSlice`.
2. `Tailor` – the ftrace automaton with its rescans and the address set, and the
   flipper device: setters without locks, snapshot under a semaphore.
3. `rsf2model` against `Kconfig`, the way `Satyr` is compared with it.
4. The kbuild frameworks of vampyr, with `make` as an external step that may
   change any symbol the configuration leaves open.
5. The simplifier and the deletion of shared nodes, behind `CnfBuild`.
