------------------------------ MODULE SatProofs ------------------------------
(***************************************************************************)
(* Proofs about SatContext: however objects are created, copied, filled,   *)
(* checked and destroyed at however many addresses, a check answers for    *)
(* the object that asks and an assignment is one of its models.            *)
(***************************************************************************)
EXTENDS SatContext, TLAPS

\* The table of the object checked last holds values of PicoSAT's model only.
TableCurrent ==
  answer.by \in alive /\ answer.sat =>
    \A x \in DOMAIN table[answer.by] : table[answer.by][x] = solver.model[x]

Typed == /\ TypeOK
         /\ table = [a \in Addr |-> table[a]]
         /\ \A a \in Addr : pushed[a] = 0 \/ pushed[a] <= Len(clauses[a])

\* The inductive invariant.
IInv == Typed /\ ContextInSync /\ AnswersOwn /\ ReadSafe /\ TableCurrent

\* What PicoSAT is given in a check is the asking object's clauses.
LEMMA GivenIsOwn ==
  ASSUME Typed, ContextInSync, NEW a \in Addr
  PROVE  Given(a) = Own(a)
<1>1. pushed[a] \in Nat /\ Len(clauses[a]) \in Nat BY DEF Typed, TypeOK
<1>2. CASE context # a
  BY <1>1, <1>2 DEF Given, Own, Started, Restart, FreshSolver
<1>3. CASE context = a
  <2>1. pushed[a] <= Len(clauses[a]) /\ solver.clauses = Loaded(a)
    BY <1>3, SatContextAssumption DEF ContextInSync
  <2>2. Given(a) = Loaded(a) \cup {clauses[a][i] : i \in (pushed[a] + 1)..Len(clauses[a])}
    BY <1>3, <2>1 DEF Given, Started, Restart
  <2> QED BY <1>1, <2>1, <2>2 DEF Loaded, Own
<1> QED BY <1>2, <1>3

LEMMA InitIInv == Init => IInv
BY SatContextAssumption
DEF Init, IInv, Typed, TypeOK, ContextInSync, AnswersOwn, ReadSafe, TableCurrent, NoAnswer, Phase

LEMMA KindType == \A k \in Kind : k.phase \in Phase /\ k.base \in BOOLEAN
<1> SUFFICES ASSUME NEW k \in Kind PROVE k.phase \in Phase /\ k.base \in BOOLEAN
  OBVIOUS
<1>1. CASE k = [base |-> TRUE, phase |-> "MAX"] BY <1>1 DEF Phase
<1>2. CASE k \in [base : {FALSE}, phase : Phase] BY <1>2
<1> QED BY <1>1, <1>2 DEF Kind

\* What is left alone by an action that neither asks the solver nor frees anything.
LEMMA Elsewhere ==
  ASSUME IInv, UNCHANGED <<context, solver, answer>>, alive \subseteq alive',
         answer.by \in alive' => answer.by \in alive /\ table'[answer.by] = table[answer.by],
         context # NoAddr => /\ phase'[context] = phase[context]
                             /\ pushed'[context] = pushed[context]
                             /\ Len(clauses[context]) \in Nat
                             /\ Len(clauses'[context]) \in Nat
                             /\ Len(clauses'[context]) >= Len(clauses[context])
                             /\ \A i \in 1..Len(clauses[context]) :
                                  clauses'[context][i] = clauses[context][i]
  PROVE  ContextInSync' /\ AnswersOwn' /\ ReadSafe' /\ TableCurrent'
<1>1. ContextInSync'
  <2> SUFFICES ASSUME context # NoAddr
               PROVE  /\ context \in alive'
                      /\ pushed'[context] <= Len(clauses'[context])
                      /\ solver.clauses = Loaded(context)'
                      /\ solver.phase = phase'[context]
    BY DEF ContextInSync
  <2>1. pushed[context] \in Nat BY DEF IInv, Typed, TypeOK
  <2>2. /\ context \in alive
        /\ pushed[context] <= Len(clauses[context])
        /\ solver.clauses = {clauses[context][i] : i \in 1..pushed[context]}
        /\ solver.phase = phase[context]
    BY DEF IInv, ContextInSync, Loaded
  <2>3. {clauses'[context][i] : i \in 1..pushed'[context]}
          = {clauses[context][i] : i \in 1..pushed[context]}
    BY SMTT(30), <2>1, <2>2
  <2> QED BY SMTT(30), <2>1, <2>2, <2>3 DEF Loaded
<1>2. AnswersOwn' BY DEF IInv, AnswersOwn, Models, Holds
<1>3. ReadSafe' BY DEF IInv, ReadSafe, Models, Holds
<1>4. TableCurrent' BY DEF IInv, TableCurrent
<1> QED BY <1>1, <1>2, <1>3, <1>4

\* Creating an object touches neither the context nor the answer.
LEMMA NewKeeps ==
  ASSUME IInv, NEW a \in Addr, NEW k \in Kind, New(a, k)
  PROVE  IInv'
<1> USE DEF IInv
<1>1. TypeOK' BY KindType DEF New, Typed, TypeOK
<1>2. Typed' BY <1>1 DEF New, Typed
<1>3. a # NoAddr /\ answer.by \in alive \cup {NoAddr} /\ a # context
  BY SatContextAssumption DEF New, Typed, TypeOK, ContextInSync
<1>4. ContextInSync' /\ AnswersOwn' /\ ReadSafe' /\ TableCurrent'
  <2>1. answer.by \in alive' => answer.by \in alive
    BY <1>3, SatContextAssumption DEF New, Typed, TypeOK
  <2>2. context # NoAddr => context \in Addr /\ Len(clauses[context]) \in Nat
    BY DEF Typed, TypeOK
  <2>3. context # NoAddr => phase'[context] = phase[context]
    BY <1>3, <2>2 DEF New, Typed, TypeOK
  <2> QED BY <2>1, <2>2, <2>3, Elsewhere DEF New
<1> QED BY <1>2, <1>4

\* Nor does copying one: the copied index is stale, and never used.
LEMMA CopyKeeps ==
  ASSUME IInv, NEW a \in Addr, NEW o \in Addr, NEW k \in Kind, Copy(a, o, k)
  PROVE  IInv'
<1> USE DEF IInv
<1>1. TypeOK' BY KindType DEF Copy, Typed, TypeOK
<1>2. Typed' BY <1>1 DEF Copy, Typed, TypeOK
<1>3. a # NoAddr /\ answer.by \in alive \cup {NoAddr} /\ a # context
  BY SatContextAssumption DEF Copy, Typed, TypeOK, ContextInSync
<1>4. ContextInSync' /\ AnswersOwn' /\ ReadSafe' /\ TableCurrent'
  <2>1. answer.by \in alive' => answer.by \in alive /\ answer.by # a
    BY <1>3, SatContextAssumption DEF Copy, Typed, TypeOK
  <2>2. context # NoAddr => context \in Addr /\ Len(clauses[context]) \in Nat
    BY DEF Typed, TypeOK
  <2>3. context # NoAddr => /\ phase'[context] = phase[context]
                            /\ pushed'[context] = pushed[context]
                            /\ clauses'[context] = clauses[context]
    BY <1>3, <2>2 DEF Copy, Typed, TypeOK
  <2>4. answer.by \in alive' => table'[answer.by] = table[answer.by]
    BY <2>1, <1>1 DEF Copy, Typed, TypeOK
  <2> QED BY <2>1, <2>2, <2>3, <2>4, Elsewhere DEF Copy
<1> QED BY <1>2, <1>4

\* A destroyed object is not the context any more, and nobody's answer.
LEMMA DestroyKeeps ==
  ASSUME IInv, NEW a \in Addr, Destroy(a)
  PROVE  IInv'
<1> USE DEF IInv
<1> USE DEF Destroy, Forget
<1>1. /\ alive' \subseteq Addr
      /\ clauses' \in [Addr -> Seq(Clause)]
      /\ pushed' \in [Addr -> Nat]
      /\ assumptions' \in [Addr -> SUBSET Lit]
      /\ names' \in [Addr -> SUBSET Var]
  BY DEF Typed, TypeOK
<1>2. phase' \in [Addr -> Phase] /\ base' \in [Addr -> BOOLEAN] BY DEF Typed, TypeOK, Phase
<1>3. context' \in Addr \cup {NoAddr} BY DEF Typed, TypeOK
<1>4. answer'.by \in alive' \cup {NoAddr} BY DEF Typed, TypeOK, NoAnswer
<1>5. Typed'
  <2>1. TypeOK' BY <1>1, <1>2, <1>3, <1>4 DEF TypeOK
  <2> QED BY <2>1 DEF Typed, TypeOK
<1>6. ContextInSync'
  <2> SUFFICES ASSUME context' # NoAddr PROVE ContextInSync'
    BY DEF ContextInSync
  <2>1. context' = context /\ context # a /\ context # NoAddr OBVIOUS
  <2>2. context \in Addr BY <2>1 DEF Typed, TypeOK
  <2>3. clauses'[context] = clauses[context] /\ pushed'[context] = pushed[context]
        /\ phase'[context] = phase[context]
    BY <2>1, <2>2 DEF Typed, TypeOK
  <2> QED BY <2>1, <2>3 DEF ContextInSync, Loaded
<1>7. CASE answer.by = a
  <2>1. answer' = NoAnswer BY <1>7
  <2> QED BY <1>5, <1>6, <2>1 DEF AnswersOwn, ReadSafe, TableCurrent, NoAnswer
<1>8. CASE answer.by # a
  <2>1. answer' = answer BY <1>8
  <2>2. answer.by \in alive' => answer.by \in alive /\ answer.by \in Addr
    BY DEF Typed, TypeOK
  <2>3. AnswersOwn' BY <2>1 DEF AnswersOwn, Models, Holds
  <2>4. ReadSafe' BY <1>8, <2>1, <2>2 DEF ReadSafe, Models, Holds
  <2>5. answer.by \in alive' => table'[answer.by] = table[answer.by]
    BY <1>8, <2>2
  <2>6. TableCurrent' BY <2>1, <2>2, <2>5 DEF TableCurrent
  <2> QED BY <1>5, <1>6, <2>3, <2>4, <2>6
<1> QED BY <1>7, <1>8

\* Pushing a clause leaves the part the solver has as it is.
LEMMA PushKeeps ==
  ASSUME IInv, NEW a \in Addr, NEW c \in Clause, Push(a, c)
  PROVE  IInv'
<1> USE DEF IInv
<1>1. Mentioned(c) \subseteq Var BY SatContextAssumption DEF Mentioned, Lit
<1>2. clauses' \in [Addr -> Seq(Clause)] BY DEF Push, Typed, TypeOK
<1>3. TypeOK' BY <1>1, <1>2 DEF Push, Typed, TypeOK
<1>4. \A o \in Addr : /\ Len(clauses[o]) \in Nat
                      /\ Len(clauses'[o]) \in Nat
                      /\ Len(clauses'[o]) >= Len(clauses[o])
                      /\ \A i \in 1..Len(clauses[o]) : clauses'[o][i] = clauses[o][i]
  <2> SUFFICES ASSUME NEW o \in Addr
               PROVE  /\ Len(clauses[o]) \in Nat
                      /\ Len(clauses'[o]) \in Nat
                      /\ Len(clauses'[o]) >= Len(clauses[o])
                      /\ \A i \in 1..Len(clauses[o]) : clauses'[o][i] = clauses[o][i]
    OBVIOUS
  <2>1. clauses[o] \in Seq(Clause) BY DEF Typed, TypeOK
  <2>2. CASE o = a
    <3>1. clauses'[o] = Append(clauses[o], c) BY <2>2 DEF Push, Typed, TypeOK
    <3> QED BY <2>1, <3>1
  <2>3. CASE o # a
    <3>1. clauses'[o] = clauses[o] BY <2>3 DEF Push, Typed, TypeOK
    <3> QED BY <2>1, <3>1
  <2> QED BY <2>2, <2>3
<1>5. Typed'
  <2>1. \A o \in Addr : pushed[o] \in Nat /\ pushed'[o] = pushed[o]
    BY DEF Push, Typed, TypeOK
  <2>2. table' = [o \in Addr |-> table'[o]] BY DEF Push, Typed
  <2>3. \A o \in Addr : pushed'[o] = 0 \/ pushed'[o] <= Len(clauses'[o])
    <3> SUFFICES ASSUME NEW o \in Addr
                 PROVE  pushed'[o] = 0 \/ pushed'[o] <= Len(clauses'[o])
      OBVIOUS
    <3>1. pushed[o] = 0 \/ pushed[o] <= Len(clauses[o]) BY DEF Typed
    <3> QED BY <3>1, <1>4, <2>1
  <2> QED BY <1>3, <2>2, <2>3 DEF Typed
<1>6. ContextInSync' /\ AnswersOwn' /\ ReadSafe' /\ TableCurrent'
  <2>1. context # NoAddr => context \in Addr BY DEF Typed, TypeOK
  <2> QED BY <1>4, <2>1, Elsewhere DEF Push
<1> QED BY <1>5, <1>6

\* An assumption waits in the object.
LEMMA AssumeKeeps ==
  ASSUME IInv, NEW a \in Addr, NEW x \in Var, Assume(a, x)
  PROVE  IInv'
<1> USE DEF IInv
<1>1. <<x, TRUE>> \in Lit BY DEF Lit
<1>2. TypeOK' BY <1>1 DEF Assume, Typed, TypeOK
<1>3. Typed' BY <1>2 DEF Assume, Typed
<1>4. context # NoAddr => Len(clauses[context]) \in Nat BY DEF Typed, TypeOK
<1>5. ContextInSync' /\ AnswersOwn' /\ ReadSafe' /\ TableCurrent'
  BY <1>4, Elsewhere DEF Assume
<1> QED BY <1>3, <1>5

\* A check asks PicoSAT exactly the object's question.
LEMMA CheckKeeps ==
  ASSUME IInv, NEW a \in Addr, Check(a)
  PROVE  IInv'
<1> USE DEF IInv
<1> DEFINE S == Models(Question(a))
<1>1. Given(a) = Own(a) BY GivenIsOwn
<1>2. Given(a) \cup Units(assumptions[a]) = Question(a) BY <1>1 DEF Question
<1>3. /\ a \in alive /\ context' = a /\ a # NoAddr
      /\ base[a] \/ table[a] = <<>>
      /\ pushed' = [pushed EXCEPT ![a] = Len(clauses[a])]
      /\ assumptions' = [assumptions EXCEPT ![a] = {}]
      /\ table' = [table EXCEPT ![a] = TableAfter(a, S # {})]
      /\ answer' = [by |-> a, asked |-> Question(a), sat |-> S # {}]
      /\ UNCHANGED <<alive, clauses, names, phase, base>>
  BY <1>2, SatContextAssumption DEF Check
<1>4. PICK m \in (IF S # {} THEN S ELSE {<<>>}) :
        solver' = [clauses |-> Own(a), phase |-> Started(a).phase,
                   state |-> IF S # {} THEN "SAT" ELSE "UNSAT", model |-> m]
  BY <1>1, <1>2 DEF Check
<1>5. Len(clauses[a]) \in Nat BY DEF Typed, TypeOK
<1>6. TypeOK' BY <1>3, <1>5 DEF Typed, TypeOK
<1>7. Typed'
  <2>1. table' = [o \in Addr |-> table'[o]] BY <1>3 DEF Typed
  <2>2. \A o \in Addr : pushed'[o] = 0 \/ pushed'[o] <= Len(clauses'[o])
    BY <1>3, <1>5 DEF Typed, TypeOK
  <2> QED BY <1>6, <2>1, <2>2 DEF Typed
<1>8. ContextInSync'
  <2>1. pushed'[a] = Len(clauses[a]) BY <1>3 DEF Typed, TypeOK
  <2>2. Loaded(a)' = Own(a) BY <1>3, <2>1 DEF Loaded, Own
  <2>3. Started(a).phase = phase[a]
    BY <1>3 DEF Started, FreshSolver, ContextInSync
  <2> QED BY <1>3, <1>4, <1>5, <2>1, <2>2, <2>3 DEF ContextInSync
<1>9. AnswersOwn' BY <1>3 DEF AnswersOwn, Models, Holds
<1>10. ReadSafe'
  <2> SUFFICES ASSUME S # {} PROVE ReadSafe' BY <1>3 DEF ReadSafe
  <2>1. m \in S /\ solver'.state = "SAT" /\ solver'.model = m BY <1>4
  <2>2. Models(answer'.asked) = S BY <1>3
  <2> QED BY <1>3, <2>1, <2>2 DEF ReadSafe, Models, Holds
<1>11. TableCurrent'
  <2> SUFFICES ASSUME S # {}, NEW x \in DOMAIN table'[a] PROVE FALSE
    BY <1>3 DEF TableCurrent
  <2>1. TableAfter(a, S # {}) = <<>> BY <1>3 DEF TableAfter
  <2>2. table'[a] = <<>> BY <1>3, <2>1 DEF Typed
  <2> QED BY <2>2
<1> QED BY <1>7, <1>8, <1>9, <1>10, <1>11

\* Reading takes PicoSAT's values for the names that have none yet.
LEMMA ReadKeeps ==
  ASSUME IInv, NEW a \in Addr, Read(a)
  PROVE  IInv' /\ \A x \in DOMAIN table'[a] : table'[a][x] = solver.model[x]
<1> USE DEF IInv
<1>1. /\ a \in alive /\ answer.by = a /\ answer.sat /\ a # NoAddr
      /\ UNCHANGED <<alive, clauses, pushed, assumptions, names, phase, base,
                     context, solver, answer>>
  BY SatContextAssumption DEF Read
<1>2. table'[a] = [x \in names[a] \cup DOMAIN table[a] |->
                     IF x \in DOMAIN table[a] THEN table[a][x] ELSE solver.model[x]]
  BY DEF Read, Typed
<1>3. Typed' BY <1>1 DEF Read, Typed, TypeOK
<1>4. \A x \in DOMAIN table[a] : table[a][x] = solver.model[x]
  BY <1>1 DEF TableCurrent
<1>5. \A x \in DOMAIN table'[a] : table'[a][x] = solver.model[x]
  BY <1>2, <1>4
<1>6. ContextInSync' BY <1>1 DEF ContextInSync, Loaded
<1>7. AnswersOwn' /\ ReadSafe' BY <1>1 DEF AnswersOwn, ReadSafe, Models, Holds
<1>8. TableCurrent' BY <1>1, <1>5 DEF TableCurrent
<1> QED BY <1>3, <1>5, <1>6, <1>7, <1>8

LEMMA NextIInv == IInv /\ [Next]_vars => IInv'
<1> SUFFICES ASSUME IInv, [Next]_vars PROVE IInv'
  OBVIOUS
<1>1. CASE \E a \in Addr, k \in Kind : New(a, k) BY <1>1, NewKeeps
<1>2. CASE \E a, o \in Addr, k \in Kind : Copy(a, o, k) BY <1>2, CopyKeeps
<1>3. CASE \E a \in Addr : Destroy(a) BY <1>3, DestroyKeeps
<1>4. CASE \E a \in Addr : Check(a) BY <1>4, CheckKeeps
<1>5. CASE \E a \in Addr : Read(a) BY <1>5, ReadKeeps
<1>6. CASE \E a \in Addr, c \in Clause : Push(a, c) BY <1>6, PushKeeps
<1>7. CASE \E a \in Addr, x \in Var : Assume(a, x) BY <1>7, AssumeKeeps
<1>8. CASE UNCHANGED vars
  <2> USE <1>8 DEF vars, objVars, IInv
  <2>1. Typed' BY DEF Typed, TypeOK
  <2>2. ContextInSync' BY DEF ContextInSync, Loaded
  <2>3. AnswersOwn' /\ ReadSafe' BY DEF AnswersOwn, ReadSafe, Models, Holds
  <2>4. TableCurrent' BY DEF TableCurrent
  <2> QED BY <2>1, <2>2, <2>3, <2>4
<1> QED BY <1>1, <1>2, <1>3, <1>4, <1>5, <1>6, <1>7, <1>8 DEF Next

\* The bookkeeping of the shared solver, right answers and safe reads (TypeOK,
\* ContextInSync, AnswersOwn, ReadSafe) hold in every state, for every set of
\* addresses, variables and clauses: they are parts of the inductive invariant.
THEOREM Invariance == Spec => [](TypeOK /\ ContextInSync /\ AnswersOwn /\ ReadSafe)
<1>1. IInv => TypeOK /\ ContextInSync /\ AnswersOwn /\ ReadSafe BY DEF IInv, Typed
<1> QED BY InitIInv, NextIInv, <1>1, PTL DEF Spec

\* An assignment that getAssignment returns is a model of what was asked.
THEOREM AssignmentIsModel == Spec => TableIsModel
<1>1. IInv /\ [Next]_vars =>
        [\A a \in Addr : Read(a) =>
           \E m \in Models(answer.asked) : \A x \in DOMAIN table'[a] : table'[a][x] = m[x]]_vars
  <2> SUFFICES ASSUME IInv, NEW a \in Addr, Read(a)
               PROVE  \E m \in Models(answer.asked) :
                        \A x \in DOMAIN table'[a] : table'[a][x] = m[x]
    OBVIOUS
  <2>1. \A x \in DOMAIN table'[a] : table'[a][x] = solver.model[x] BY ReadKeeps
  <2>2. solver.model \in Models(answer.asked) BY DEF IInv, ReadSafe, Read
  <2> QED BY <2>1, <2>2
<1> QED BY InitIInv, NextIInv, <1>1, PTL DEF Spec, TableIsModel
=============================================================================
