----------------------------- MODULE SatContext -----------------------------
(***************************************************************************)
(* PicosatCNF objects sharing the one PicoSAT solver of the process.       *)
(*                                                                         *)
(* PicoSAT 9xx keeps its state in globals, so PicosatCNF.cpp remembers in  *)
(* currentContext the object whose clauses the solver holds.  A check of   *)
(* another object resets the solver and loads that object's clauses; a     *)
(* check of the same object adds only what it pushed since.  Objects are   *)
(* created, copied (SatChecker's constructor copies a model's CNF) and     *)
(* destroyed in any order, and the allocator hands their addresses out     *)
(* again, which is why the destructor clears currentContext.               *)
(*                                                                         *)
(* A clause is a set of literals, and a formula contributes one clause:    *)
(* what the translation of a formula pushes is CnfBuilder's business.      *)
(***************************************************************************)
EXTENDS Naturals, Sequences, FiniteSets

CONSTANTS Addr,        \* addresses of PicosatCNF objects
          NoAddr,      \* nullptr
          Var,         \* names of boolean variables
          Clause,      \* the clauses the formulas contribute
          MaxClauses,  \* bound: clauses per object
          MaxAssumed   \* bound: assumptions for one check

Lit == Var \X BOOLEAN
Assignment == [Var -> BOOLEAN]
Phase == {"MIN", "MAX"}

\* The checkers that are built: a BaseExpressionSatChecker, which has no phase
\* argument and so gets SAT_MAX, or a SatChecker of either phase.
Kind == {[base |-> TRUE, phase |-> "MAX"]} \cup [base : {FALSE}, phase : Phase]

ASSUME SatContextAssumption == /\ NoAddr \notin Addr
                               /\ Clause \subseteq SUBSET Lit

VARIABLES
  alive,        \* the addresses that hold an object
  clauses,      \* clauses: what the object was given, in order
  pushed,       \* pushed_clauses_index: how much of it the solver has
  assumptions,  \* assumptions for the object's next check
  names,        \* cnfvars: the variables the object knows
  phase,        \* defaultPhase
  base,         \* the object belongs to a BaseExpressionSatChecker
  table,        \* assignmentTable of the SatChecker that owns the object
  context,      \* currentContext
  solver,       \* PicoSAT's globals
  answer        \* the latest check: who asked what, and what it was told

objVars == <<alive, clauses, pushed, assumptions, names, phase, base, table>>
vars == <<objVars, context, solver, answer>>

Holds(m, c) == \E l \in c : m[l[1]] = l[2]
Models(cs) == {m \in Assignment : \A c \in cs : Holds(m, c)}
Mentioned(c) == {l[1] : l \in c}
Units(ls) == {{l} : l \in ls}
Own(a) == {clauses[a][i] : i \in 1..Len(clauses[a])}
Loaded(a) == {clauses[a][i] : i \in 1..pushed[a]}

\* What a check of a has to decide: the object's clauses and its assumptions.
Question(a) == Own(a) \cup Units(assumptions[a])

NoAnswer == [by |-> NoAddr, asked |-> {}, sat |-> FALSE]
FreshSolver(p) == [clauses |-> {}, phase |-> p, state |-> "READY", model |-> <<>>]

Init == /\ alive = {}
        /\ clauses = [a \in Addr |-> <<>>]
        /\ pushed = [a \in Addr |-> 0]
        /\ assumptions = [a \in Addr |-> {}]
        /\ names = [a \in Addr |-> {}]
        /\ phase = [a \in Addr |-> "MIN"]
        /\ base = [a \in Addr |-> FALSE]
        /\ table = [a \in Addr |-> <<>>]
        /\ context = NoAddr
        /\ solver = [clauses |-> {}, phase |-> "MIN", state |-> "RESET", model |-> <<>>]
        /\ answer = NoAnswer

\* SatChecker's constructor without a CNF model: an empty object at a free
\* address (the members of an address without an object have their initial values).
New(a, k) ==
  /\ a \notin alive
  /\ alive' = alive \cup {a}
  /\ phase' = [phase EXCEPT ![a] = k.phase]
  /\ base' = [base EXCEPT ![a] = k.base]
  /\ UNCHANGED <<clauses, pushed, assumptions, names, table, context, solver, answer>>

\* The delegating copy constructor: every member is copied, the index too,
\* and then the phase is set.
Copy(a, o, k) ==
  /\ a \notin alive
  /\ o \in alive
  /\ alive' = alive \cup {a}
  /\ clauses' = [clauses EXCEPT ![a] = clauses[o]]
  /\ pushed' = [pushed EXCEPT ![a] = pushed[o]]
  /\ assumptions' = [assumptions EXCEPT ![a] = assumptions[o]]
  /\ names' = [names EXCEPT ![a] = names[o]]
  /\ phase' = [phase EXCEPT ![a] = k.phase]
  /\ base' = [base EXCEPT ![a] = k.base]
  /\ table' = [table EXCEPT ![a] = <<>>]
  /\ UNCHANGED <<context, solver, answer>>

\* The object's members go with it, and so does the answer it was given.
Forget(a) ==
  /\ a \in alive
  /\ alive' = alive \ {a}
  /\ clauses' = [clauses EXCEPT ![a] = <<>>]
  /\ pushed' = [pushed EXCEPT ![a] = 0]
  /\ assumptions' = [assumptions EXCEPT ![a] = {}]
  /\ names' = [names EXCEPT ![a] = {}]
  /\ phase' = [phase EXCEPT ![a] = "MIN"]
  /\ base' = [base EXCEPT ![a] = FALSE]
  /\ table' = [table EXCEPT ![a] = <<>>]
  /\ answer' = IF answer.by = a THEN NoAnswer ELSE answer

\* A destructor that forgets the context: Mutation of Destroy.
DestroyKeepsContext(a) == Forget(a) /\ UNCHANGED <<context, solver>>

\* A destructor that resets PicoSAT whoever owns it: Mutation of Destroy.
DestroyResets(a) ==
  /\ Forget(a)
  /\ context' = NoAddr
  /\ solver' = [solver EXCEPT !.state = "RESET"]

\* ~PicosatCNF: PicoSAT is left as it is, only the pointer to it goes.
Destroy(a) ==
  /\ Forget(a)
  /\ context' = IF context = a THEN NoAddr ELSE context
  /\ UNCHANGED solver

\* The translation of a formula: new variables are registered, the clause is kept.
Push(a, c) ==
  /\ a \in alive
  /\ Len(clauses[a]) < MaxClauses
  /\ clauses' = [clauses EXCEPT ![a] = Append(@, c)]
  /\ names' = [names EXCEPT ![a] = @ \cup Mentioned(c)]
  /\ UNCHANGED <<alive, pushed, assumptions, phase, base, table,
                 context, solver, answer>>

\* pushAssumption by name, of a name to be true as undertaker's only caller does: a name
\* the object does not know is ignored.
Assume(a, x) ==
  /\ a \in alive
  /\ x \in names[a]
  /\ Cardinality(assumptions[a]) < MaxAssumed
  /\ assumptions' = [assumptions EXCEPT ![a] = @ \cup {<<x, TRUE>>}]
  /\ UNCHANGED <<alive, clauses, pushed, names, phase, base, table,
                 context, solver, answer>>

\* A switch of contexts that goes on where the object was: Mutation of Restart.
RestartKeepsIndex(a) == pushed[a]

\* The first clause picosat_add gets in this check: a new context starts over.
Restart(a) == IF context # a THEN 0 ELSE pushed[a]

\* The solver a check of a starts from: reset and initialised for a new context.
Started(a) == IF context # a THEN FreshSolver(phase[a]) ELSE solver

\* The clauses it holds once the missing ones are added.
Given(a) == Started(a).clauses \cup
              {clauses[a][i] : i \in (Restart(a) + 1)..Len(clauses[a])}

\* A table that is never cleared: Mutation of TableAfter.
TableNeverCleared(a, sat) == table[a]

\* assignmentTable is cleared by BaseExpressionSatChecker's operator() only.
TableAfter(a, sat) == IF base[a] /\ sat THEN <<>> ELSE table[a]

\* checkSatisfiable, called by operator(), with PicoSAT's search: the result
\* is right for the clauses and assumptions PicoSAT was given.  A plain
\* SatChecker is not asked again once its assignment was taken.
Check(a) ==
  LET solutions == Models(Given(a) \cup Units(assumptions[a]))
      sat == solutions # {}
  IN /\ a \in alive
     /\ base[a] \/ table[a] = <<>>
     /\ context' = a
     /\ pushed' = [pushed EXCEPT ![a] = Len(clauses[a])]
     /\ \E m \in (IF sat THEN solutions ELSE {<<>>}) :
          solver' = [clauses |-> Given(a), phase |-> Started(a).phase,
                     state |-> IF sat THEN "SAT" ELSE "UNSAT", model |-> m]
     /\ assumptions' = [assumptions EXCEPT ![a] = {}]
     /\ table' = [table EXCEPT ![a] = TableAfter(a, sat)]
     /\ answer' = [by |-> a, asked |-> Question(a), sat |-> sat]
     /\ UNCHANGED <<alive, clauses, names, phase, base>>

\* getAssignment: deref of every name, and emplace keeps a value already there.
\* Its callers ask the object they checked last, and only after a true.
Read(a) ==
  /\ a \in alive
  /\ answer.by = a
  /\ answer.sat
  /\ solver.state = "SAT"
  /\ table' = [table EXCEPT ![a] =
       [x \in names[a] \cup DOMAIN table[a] |->
          IF x \in DOMAIN table[a] THEN table[a][x] ELSE solver.model[x]]]
  /\ UNCHANGED <<alive, clauses, pushed, assumptions, names, phase, base,
                 context, solver, answer>>

Next == \/ \E a \in Addr, k \in Kind : New(a, k)
        \/ \E a, o \in Addr, k \in Kind : Copy(a, o, k)
        \/ \E a \in Addr : Destroy(a) \/ Check(a) \/ Read(a)
        \/ \E a \in Addr, c \in Clause : Push(a, c)
        \/ \E a \in Addr, x \in Var : Assume(a, x)

Spec == Init /\ [][Next]_vars

-----------------------------------------------------------------------------
TypeOK == /\ alive \subseteq Addr
          /\ clauses \in [Addr -> Seq(Clause)]
          /\ pushed \in [Addr -> Nat]
          /\ assumptions \in [Addr -> SUBSET Lit]
          /\ names \in [Addr -> SUBSET Var]
          /\ phase \in [Addr -> Phase]
          /\ base \in [Addr -> BOOLEAN]
          /\ context \in Addr \cup {NoAddr}
          /\ answer.by \in alive \cup {NoAddr}

\* The bookkeeping of checkSatisfiable and the destructor is consistent: the
\* current context is an object that exists, PicoSAT holds exactly the first
\* pushed_clauses_index of its clauses, and it searches in its phase.
ContextInSync ==
  context # NoAddr => /\ context \in alive
                      /\ pushed[context] <= Len(clauses[context])
                      /\ solver.clauses = Loaded(context)
                      /\ solver.phase = phase[context]

\* Every check answers for the clauses and the assumptions of the object that
\* asked, whatever other objects were checked, copied or destroyed before, and
\* if its address belonged to another object.
AnswersOwn == answer.by # NoAddr => (answer.sat <=> Models(answer.asked) # {})

\* getAssignment after a true, with no check in between, finds PicoSAT in its SAT
\* state (picosat_deref aborts the process otherwise), with values for the object's
\* own clauses, even if other objects were created, filled and destroyed meanwhile.
ReadSafe ==
  answer.by \in alive /\ answer.sat =>
    /\ solver.state = "SAT"
    /\ context = answer.by
    /\ solver.model \in Models(answer.asked)

\* The table getAssignment returned for the latest check is no mixture with the
\* table of an earlier one: it extends to a model of what was asked.
TableIsModel ==
  [][\A a \in Addr : Read(a) =>
       \E m \in Models(answer.asked) : \A x \in DOMAIN table'[a] : table'[a][x] = m[x]]_vars
=============================================================================
