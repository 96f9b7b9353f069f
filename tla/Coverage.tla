------------------------------ MODULE Coverage ------------------------------
(***************************************************************************)
(* The coverage analysis (-j coverage): a list of configurations that      *)
(* together enable every block of a file that any configuration enables.   *)
(* SimpleCoverageAnalyzer asks the solver once for every block not enabled *)
(* so far; MinimizeCoverageAnalyzer packs as many blocks as it can into    *)
(* each configuration.                                                     *)
(*                                                                         *)
(* The formula of the file is the set of its satisfying assignments; the   *)
(* solver returns any of them that fits the assumptions.  An assignment is *)
(* [on, sym]: the names of the form B<number> it sets, and the values of   *)
(* the other symbols the analyzer looks at (those of the model's           *)
(* configuration space when there is a model, all of them when not).       *)
(***************************************************************************)
EXTENDS Naturals, Sequences, FiniteSets

CONSTANTS
    Size,        \* the number of blocks; block 1 is B00, pushed to the front
    Prev,        \* Prev[b]: the block before b in its #if group, 0 for an #if
    Lookalikes,  \* symbols of the program that are named like a block: B57600
    Assignments, \* what the formula of a file may be satisfied by
    Analyzers    \* the analyzers -C may select

Blocks == 1 .. Size

Names == Blocks \cup Lookalikes

\* The blocks the conflict check of b looks at: b and those before it in its group. It
\* does not look at B00.
Group[b \in Blocks] ==
    IF b = 1 THEN {}
    ELSE {b} \cup (IF Prev[b] = 0 THEN {} ELSE Group[Prev[b]])

ASSUME SizeAssumption == Size \in Nat \ {0}

ASSUME PrevAssumption ==
    Prev \in [Blocks -> 0 .. Size] /\ Prev[1] = 0 /\ \A b \in Blocks : Prev[b] < b

ASSUME LookalikesAssumption == Lookalikes \cap Blocks = {}

\* The formula enables at most one block of a group (CodeConstraints: BlockHolds).
ASSUME AssignmentsAssumption ==
    \A a \in Assignments :
      /\ a.on \subseteq Names
      /\ \A b \in Blocks : \A c \in Group[b] : {b, c} \subseteq a.on => b = c

ASSUME AnalyzersAssumption == Analyzers \subseteq {"simple", "min"}

VARIABLES
    analyzer,        \* which of the two runs
    formula,         \* the satisfying assignments of baseFileExpression
    pc,              \* start, for, while, dump, done or failed
    pos,             \* the block the for loop is at
    blocks_set,      \* the names taken to be covered
    configuration,   \* min: the names the next configuration is to enable
    found_solutions, \* simple: the symbol values seen
    ret              \* the configurations returned

vars == <<analyzer, formula, pc, pos, blocks_set, configuration, found_solutions, ret>>

-----------------------------------------------------------------------------
\* What the solver may return under the assumption that all of B are set.
Solutions(B) == {a \in formula : B \subseteq a.on}

Satisfiable(B) == Solutions(B) # {}

Advance == pos' = pos + 1

Input == UNCHANGED <<analyzer, formula>>

(* SimpleCoverageAnalyzer::blockCoverage *)

Simple == analyzer = "simple" /\ pc = "for" /\ pos \in Blocks

\* A block enabled by an assignment seen before, or that no configuration enables.
SimpleSkip ==
    /\ Simple
    /\ pos \in blocks_set \/ ~Satisfiable({pos})
    /\ Advance
    /\ UNCHANGED <<pc, blocks_set, configuration, found_solutions, ret>>
    /\ Input

\* Mutation of Credited: only the block asked for counts as covered.
CreditedOne(a) == {pos}

Credited(a) == a.on

\* All blocks of the assignment count as covered. It is returned unless one with the same
\* symbol values was (the block asked for is new, so new_solution is always set).
SimpleSolve ==
    /\ Simple
    /\ pos \notin blocks_set
    /\ \E a \in Solutions({pos}) :
         /\ blocks_set' = blocks_set \cup Credited(a)
         /\ found_solutions' = found_solutions \cup {a.sym}
         /\ ret' = IF a.sym \in found_solutions THEN ret ELSE Append(ret, a)
    /\ Advance
    /\ UNCHANGED <<pc, configuration>>
    /\ Input

SimpleEnd ==
    /\ analyzer = "simple" /\ pc = "for" /\ pos = Size + 1
    /\ pc' = "done"
    /\ UNCHANGED <<pos, blocks_set, configuration, found_solutions, ret>>
    /\ Input

-----------------------------------------------------------------------------
(* MinimizeCoverageAnalyzer::blockCoverage *)

\* The whole formula: all names its assignment sets form the first configuration.
MinFirst ==
    /\ analyzer = "min" /\ pc = "start"
    /\ \E a \in formula : configuration' = a.on /\ blocks_set' = a.on
    /\ pc' = "dump"
    /\ UNCHANGED <<pos, found_solutions, ret>>
    /\ Input

\* No configuration at all.
MinNone ==
    /\ analyzer = "min" /\ pc = "start"
    /\ formula = {}
    /\ pc' = "while"
    /\ UNCHANGED <<pos, blocks_set, configuration, found_solutions, ret>>
    /\ Input

\* blocks_set.size() < file->size()
MinWhile ==
    /\ pc = "while"
    /\ IF Cardinality(blocks_set) < Size
         THEN pc' = "for" /\ pos' = 1
         ELSE pc' = "done" /\ UNCHANGED pos
    /\ UNCHANGED <<blocks_set, configuration, found_solutions, ret>>
    /\ Input

Min == analyzer = "min" /\ pc = "for" /\ pos \in Blocks

\* Mutation of Conflicting: the walk does not stop at the #if.
ConflictingAny(b) == \E c \in configuration : c \in Blocks /\ 1 < c /\ c <= b

Conflicting(b) == Group[b] \cap configuration # {}

\* Enabled in an earlier configuration, or in conflict with one chosen for this one.
MinSkip ==
    /\ Min
    /\ pos \in blocks_set \/ Conflicting(pos)
    /\ Advance
    /\ UNCHANGED <<pc, blocks_set, configuration, found_solutions, ret>>
    /\ Input

MinAdd ==
    /\ Min
    /\ pos \notin blocks_set /\ ~Conflicting(pos)
    /\ Satisfiable(configuration \cup {pos})
    /\ configuration' = configuration \cup {pos}
    /\ blocks_set' = blocks_set \cup {pos}
    /\ Advance
    /\ UNCHANGED <<pc, found_solutions, ret>>
    /\ Input

\* Mutations of Dead: a block that does not fit is dead; a dead block is not remembered.
DeadAnyway == {pos}
DeadNever == {}

\* The block that did not fit is dead if nothing else was assumed.
Dead == IF configuration = {} THEN {pos} ELSE {}

\* The block does not fit.
MinReject ==
    /\ Min
    /\ pos \notin blocks_set /\ ~Conflicting(pos)
    /\ ~Satisfiable(configuration \cup {pos})
    /\ blocks_set' = blocks_set \cup Dead
    /\ Advance
    /\ UNCHANGED <<pc, configuration, found_solutions, ret>>
    /\ Input

MinRoundEnd ==
    /\ analyzer = "min" /\ pc = "for" /\ pos = Size + 1
    /\ pc' = IF configuration = {} THEN "while" ELSE "dump"
    /\ UNCHANGED <<pos, blocks_set, configuration, found_solutions, ret>>
    /\ Input

\* dump_configuration: the assert solves once more (which getAssignment relies on), and
\* the assignment is returned. An empty first configuration is passed over.
MinDump ==
    /\ pc = "dump"
    /\ IF configuration = {}
         THEN UNCHANGED ret
         ELSE \E a \in Solutions(configuration) : ret' = Append(ret, a)
    /\ configuration' = {}
    /\ pc' = "while"
    /\ UNCHANGED <<pos, blocks_set, found_solutions>>
    /\ Input

-----------------------------------------------------------------------------
\* std::bad_alloc, or a syntax error of the formula: the list so far is returned.
Catch ==
    /\ pc \notin {"done", "failed"}
    /\ pc' = "failed"
    /\ UNCHANGED <<pos, blocks_set, configuration, found_solutions, ret>>
    /\ Input

Init ==
    /\ analyzer \in Analyzers
    /\ formula \in SUBSET Assignments
    /\ pc = IF analyzer = "min" THEN "start" ELSE "for"
    /\ pos = 1
    /\ blocks_set = {} /\ configuration = {} /\ found_solutions = {} /\ ret = <<>>

Next ==
    \/ SimpleSkip \/ SimpleSolve \/ SimpleEnd
    \/ MinFirst \/ MinNone \/ MinWhile
    \/ MinSkip \/ MinAdd \/ MinReject \/ MinRoundEnd \/ MinDump
    \/ Catch

Spec == Init /\ [][Next]_vars

\* One thread, which goes on until the function returns.
FairSpec == Spec /\ WF_vars(Next)

-----------------------------------------------------------------------------
(* Properties. *)

TypeOK ==
    /\ analyzer \in Analyzers
    /\ formula \subseteq Assignments
    /\ pc \in {"start", "for", "while", "dump", "done", "failed"}
    /\ pos \in 1 .. Size + 1
    /\ blocks_set \subseteq Names
    /\ configuration \subseteq blocks_set
    /\ found_solutions \subseteq {a.sym : a \in formula}
    /\ ret \in Seq(formula)

Covered(n) == UNION {ret[i].on : i \in 1 .. n}

\* When the analysis is done, every block that some configuration enables is enabled by a
\* configuration of the list: statement coverage, as far as it is possible.
StatementCoverage ==
    pc = "done" => \A b \in Blocks : Satisfiable({b}) => b \in Covered(Len(ret))

\* The configuration under construction can be solved: the assertion at the dump holds,
\* and the solver has an assignment to return.
ConfigurationSolvable == configuration # {} => Satisfiable(configuration)

\* Every configuration enables a block no configuration before it does. (The first one of
\* the minimizing analyzer was not built greedily: the solver may enable more blocks when
\* asked again than it did when the configuration was read off, so that one is set aside.)
NoneRedundant ==
    \A i \in DOMAIN ret : \E b \in ret[i].on \cap Blocks : \A j \in 1 .. i - 1 :
      b \in ret[j].on => analyzer = "min" /\ j = 1

\* Every configuration of the minimizing analyzer but the first is full: none of the
\* blocks left uncovered fits into it, whatever the order of the conflict checks.
GreedyMaximal ==
    analyzer = "min" =>
    \A i \in 2 .. Len(ret) : \A b \in Blocks \ Covered(i) : ~Satisfiable(ret[i].on \cup {b})

\* The analysis ends: each round of the minimizing analyzer covers a block or finds one
\* dead, although most blocks may be skipped or rejected in it.
Ends == <>(pc \in {"done", "failed"})
=============================================================================
