---------------------------- MODULE CoverageProofs ----------------------------
(***************************************************************************)
(* Proofs about Coverage, for every file, every satisfiable or             *)
(* unsatisfiable formula of it and every answer of the solver; and, for    *)
(* every set of leftovers, about what vampyr makes of an interrupted run   *)
(* and of what gcc says.                                                   *)
(***************************************************************************)
EXTENDS Vampyr, SequenceTheorems, FiniteSetTheorems, WellFoundedInduction, TLAPS

\* The two conditions under which the list covers the file: no symbol is named like a
\* block, and the symbols that are looked at decide which blocks are enabled.
NoLookalikes == Lookalikes = {}

SymbolsDecide == \A a, b \in Assignments : a.sym = b.sym => a.on = b.on

\* A name taken to be covered is enabled by a configuration of the list or by the one
\* under construction, or is the name of a dead block.
CoveredTruthfully ==
    analyzer = "min" \/ SymbolsDecide =>
    \A b \in blocks_set \cap Blocks :
      \/ \E i \in 1 .. Len(ret) : b \in ret[i].on
      \/ b \in configuration
      \/ ~Satisfiable({b})

\* Where a configuration may be under construction.
ConfigurationInv ==
    /\ analyzer = "simple" => configuration = {} /\ pc \notin {"start", "while", "dump"}
    /\ pc \in {"start", "while", "done"} => configuration = {}
    /\ pc = "start" => ret = <<>>

\* The simple analyzer remembers the symbols of exactly the configurations it returned.
FoundInv ==
    \A a \in formula : a.sym \in found_solutions => \E i \in 1 .. Len(ret) : ret[i].sym = a.sym

\* What the for loop has settled of the blocks it has passed.
SimpleSettled ==
    analyzer = "simple" =>
    \A b \in Blocks : b < pos \/ pc = "done" => b \in blocks_set \/ ~Satisfiable({b})

MinSettled ==
    analyzer = "min" =>
    \A b \in Blocks :
      (pc = "for" /\ b < pos) \/ (pc = "dump" /\ ret # <<>>) =>
      b \in blocks_set \/ ~Satisfiable(configuration \cup {b})

MinDone == NoLookalikes /\ analyzer = "min" /\ pc = "done" => Blocks \subseteq blocks_set

IInv ==
    /\ TypeOK
    /\ ConfigurationInv
    /\ ConfigurationSolvable
    /\ CoveredTruthfully
    /\ FoundInv
    /\ SimpleSettled
    /\ MinSettled
    /\ MinDone
    /\ GreedyMaximal

-----------------------------------------------------------------------------
LEMMA AppendFacts ==
  ASSUME NEW S, NEW s \in Seq(S), NEW e \in S
  PROVE  /\ Append(s, e) \in Seq(S)
         /\ Len(s) \in Nat
         /\ Len(Append(s, e)) = Len(s) + 1
         /\ \A i \in 1 .. Len(s) : Append(s, e)[i] = s[i] /\ s[i] \in S
         /\ Append(s, e)[Len(s) + 1] = e
OBVIOUS

\* What was covered stays covered, and the new configuration's blocks are.
LEMMA CoveredAppend ==
  ASSUME NEW a \in formula, TypeOK, ret' = Append(ret, a)
  PROVE  /\ \A n \in 1 .. Len(ret) : Covered(n)' = Covered(n)
         /\ Covered(Len(ret))' = Covered(Len(ret)) \cup a.on
<1>1. /\ Len(ret) \in Nat
      /\ Len(ret') = Len(ret) + 1
      /\ \A i \in 1 .. Len(ret) : ret'[i] = ret[i]
      /\ ret'[Len(ret) + 1] = a
  BY AppendFacts DEF TypeOK
<1>2. ASSUME NEW n \in 1 .. Len(ret) PROVE Covered(n)' = Covered(n)
  <2>1. \A i \in 1 .. n : ret'[i] = ret[i] BY <1>1
  <2> QED BY <2>1 DEF Covered
<1>3. Covered(Len(ret))' = Covered(Len(ret)) \cup a.on
  <2>1. \A i : i \in 1 .. Len(ret') <=> i \in 1 .. Len(ret) \/ i = Len(ret) + 1 BY <1>1
  <2>2. Covered(Len(ret))' = UNION {ret'[i].on : i \in 1 .. Len(ret')} BY DEF Covered
  <2>3. Covered(Len(ret)) = UNION {ret[i].on : i \in 1 .. Len(ret)} BY DEF Covered
  <2>4. ASSUME NEW x PROVE x \in Covered(Len(ret))' <=> x \in Covered(Len(ret)) \/ x \in a.on
    <3>1. x \in Covered(Len(ret))' <=> \E i \in 1 .. Len(ret') : x \in ret'[i].on BY <2>2
    <3>2. x \in Covered(Len(ret)) <=> \E i \in 1 .. Len(ret) : x \in ret[i].on BY <2>3
    <3> QED BY <1>1, <2>1, <3>1, <3>2
  <2> QED BY <2>4
<1> QED BY <1>2, <1>3

\* As many numbers as there are: all of them.
LEMMA FullSubset ==
  ASSUME NEW n \in Nat, NEW T \in SUBSET (1 .. n), ~(Cardinality(T) < n)
  PROVE  T = 1 .. n
<1>1. IsFiniteSet(1 .. n) /\ Cardinality(1 .. n) = n BY FS_Interval
<1>2. /\ IsFiniteSet(T)
      /\ Cardinality(T) <= Cardinality(1 .. n)
      /\ Cardinality(1 .. n) = Cardinality(T) => 1 .. n = T
  BY <1>1, FS_Subset
<1>3. Cardinality(T) \in Nat BY <1>2, FS_CardinalityType
<1> QED BY <1>1, <1>2, <1>3

\* More assumptions leave fewer solutions.
LEMMA FewerSolutions ==
  ASSUME NEW A, NEW B, A \subseteq B, ~Satisfiable(A)
  PROVE  ~Satisfiable(B)
BY DEF Satisfiable, Solutions

\* A block the conflict check skips cannot be enabled beside the configuration.
LEMMA ConflictExcludes ==
  ASSUME IInv, NEW b \in Blocks, b \notin blocks_set, Conflicting(b)
  PROVE  ~Satisfiable(configuration \cup {b})
<1>1. PICK c \in Group[b] : c \in configuration BY DEF Conflicting
<1>2. c # b BY <1>1 DEF IInv, TypeOK
<1>3. \A a \in formula : ~(configuration \cup {b} \subseteq a.on)
  BY <1>1, <1>2, AssignmentsAssumption DEF IInv, TypeOK
<1> QED BY <1>3 DEF Satisfiable, Solutions

LEMMA InitIInv == Init => IInv
<1> SUFFICES ASSUME Init PROVE IInv OBVIOUS
<1> USE DEF Init
<1>1. TypeOK BY SizeAssumption DEF TypeOK
<1>2. ConfigurationInv BY AnalyzersAssumption DEF ConfigurationInv
<1>3. ConfigurationSolvable BY DEF ConfigurationSolvable
<1>4. CoveredTruthfully BY DEF CoveredTruthfully
<1>5. FoundInv BY DEF FoundInv
<1>6. SimpleSettled BY DEF SimpleSettled, Blocks
<1>7. MinSettled BY DEF MinSettled
<1>8. MinDone BY DEF MinDone
<1>9. GreedyMaximal BY DEF GreedyMaximal
<1> QED BY <1>1, <1>2, <1>3, <1>4, <1>5, <1>6, <1>7, <1>8, <1>9 DEF IInv

\* The steps that leave the list alone keep what was proved of it.
LEMMA SameList ==
  ASSUME IInv, Input, ret' = ret
  PROVE  GreedyMaximal'
BY DEF IInv, Input, GreedyMaximal, Covered, Satisfiable, Solutions

LEMMA StepTypeOK ==
  ASSUME IInv, [Next]_vars
  PROVE  TypeOK'
<1> USE SizeAssumption DEF IInv, TypeOK, Input
<1>1. CASE SimpleSkip BY <1>1 DEF SimpleSkip, Simple, Advance, Blocks
<1>2. CASE SimpleSolve
  <2>1. PICK a \in Solutions({pos}) :
          /\ blocks_set' = blocks_set \cup a.on
          /\ found_solutions' = found_solutions \cup {a.sym}
          /\ ret' = IF a.sym \in found_solutions THEN ret ELSE Append(ret, a)
    BY <1>2 DEF SimpleSolve, Credited
  <2>2. a \in formula /\ a.on \subseteq Names
    BY AssignmentsAssumption DEF Solutions
  <2>3. ret' \in Seq(formula) BY <2>1, <2>2, AppendFacts
  <2>4. blocks_set' \subseteq Names /\ found_solutions' \subseteq {x.sym : x \in formula}
    BY <2>1, <2>2
  <2>5. pos' \in 1 .. Size + 1 BY <1>2 DEF SimpleSolve, Simple, Advance, Blocks
  <2>6. configuration' \subseteq blocks_set' BY <1>2, <2>1 DEF SimpleSolve
  <2> QED BY <1>2, <2>3, <2>4, <2>5, <2>6 DEF SimpleSolve, Simple
<1>3. CASE SimpleEnd BY <1>3 DEF SimpleEnd
<1>4. CASE MinFirst BY <1>4, AssignmentsAssumption DEF MinFirst
<1>5. CASE MinNone BY <1>5 DEF MinNone
<1>6. CASE MinWhile BY <1>6, SizeAssumption DEF MinWhile
<1>7. CASE MinSkip BY <1>7 DEF MinSkip, Min, Advance, Blocks
<1>8. CASE MinAdd BY <1>8 DEF MinAdd, Min, Advance, Blocks, Names
<1>9. CASE MinReject BY <1>9 DEF MinReject, Dead, Min, Advance, Blocks, Names
<1>10. CASE MinRoundEnd BY <1>10 DEF MinRoundEnd
<1>11. CASE MinDump
  <2>1. ret' \in Seq(formula) BY <1>11, AppendFacts DEF MinDump, Solutions
  <2> QED BY <1>11, <2>1 DEF MinDump
<1>12. CASE Catch BY <1>12 DEF Catch
<1>13. CASE UNCHANGED vars BY <1>13 DEF vars
<1> QED BY <1>1, <1>2, <1>3, <1>4, <1>5, <1>6, <1>7, <1>8, <1>9, <1>10, <1>11, <1>12,
           <1>13 DEF Next

LEMMA StepConfiguration ==
  ASSUME IInv, [Next]_vars
  PROVE  ConfigurationInv' /\ ConfigurationSolvable'
<1> USE DEF IInv, ConfigurationInv, ConfigurationSolvable, Input, Satisfiable, Solutions
<1>1. CASE SimpleSkip BY <1>1 DEF SimpleSkip, Simple
<1>2. CASE SimpleSolve BY <1>2 DEF SimpleSolve, Simple
<1>3. CASE SimpleEnd BY <1>3 DEF SimpleEnd
<1>4. CASE MinFirst BY <1>4 DEF MinFirst
<1>5. CASE MinNone BY <1>5 DEF MinNone
<1>6. CASE MinWhile BY <1>6 DEF MinWhile
<1>7. CASE MinSkip BY <1>7 DEF MinSkip, Min
<1>8. CASE MinAdd BY <1>8 DEF MinAdd, Min
<1>9. CASE MinReject BY <1>9 DEF MinReject, Dead, Min
<1>10. CASE MinRoundEnd BY <1>10 DEF MinRoundEnd
<1>11. CASE MinDump BY <1>11 DEF MinDump
<1>12. CASE Catch BY <1>12 DEF Catch
<1>13. CASE UNCHANGED vars BY <1>13 DEF vars
<1> QED BY <1>1, <1>2, <1>3, <1>4, <1>5, <1>6, <1>7, <1>8, <1>9, <1>10, <1>11, <1>12,
           <1>13 DEF Next

\* The list and what is counted as covered.
LEMMA StepCovered ==
  ASSUME IInv, [Next]_vars
  PROVE  CoveredTruthfully' /\ FoundInv'
<1>0. TypeOK /\ ConfigurationInv /\ CoveredTruthfully /\ FoundInv BY DEF IInv
<1> USE <1>0 DEF CoveredTruthfully, FoundInv, Input, Satisfiable, Solutions
<1>1. CASE SimpleSkip BY <1>1 DEF SimpleSkip, Simple
<1>2. CASE SimpleSolve
  <2>1. PICK a \in Solutions({pos}) :
          /\ blocks_set' = blocks_set \cup a.on
          /\ found_solutions' = found_solutions \cup {a.sym}
          /\ ret' = IF a.sym \in found_solutions THEN ret ELSE Append(ret, a)
    BY <1>2 DEF SimpleSolve, Credited
  <2>2. analyzer = "simple" /\ analyzer' = analyzer /\ formula' = formula
        /\ configuration' = configuration
    BY <1>2 DEF SimpleSolve, Simple
  <2>3. a \in formula /\ formula \subseteq Assignments BY DEF TypeOK
  <2>4. CASE a.sym \in found_solutions
    <3>1. ret' = ret /\ found_solutions' = found_solutions BY <2>1, <2>4
    <3>2. PICK i \in 1 .. Len(ret) : ret[i].sym = a.sym BY <2>3, <2>4
    <3>3. ret[i] \in formula BY AppendFacts, <3>2 DEF TypeOK
    <3>4. SymbolsDecide => ret[i].on = a.on BY <2>3, <3>2, <3>3 DEF SymbolsDecide
    <3> QED BY <2>1, <2>2, <3>1, <3>2, <3>4
  <2>5. CASE a.sym \notin found_solutions
    <3>1. ret' = Append(ret, a) BY <2>1, <2>5
    <3>2. /\ Len(ret) \in Nat
          /\ Len(ret') = Len(ret) + 1
          /\ \A i \in 1 .. Len(ret) : ret'[i] = ret[i]
          /\ ret'[Len(ret) + 1] = a
      BY <2>3, <3>1, AppendFacts DEF TypeOK
    <3>3. 1 .. Len(ret) \subseteq 1 .. Len(ret') /\ Len(ret) + 1 \in 1 .. Len(ret') BY <3>2
    <3>4. CoveredTruthfully' BY <2>1, <2>2, <3>2, <3>3
    <3>5. FoundInv' BY <2>1, <2>2, <3>2, <3>3
    <3> QED BY <3>4, <3>5
  <2> QED BY <2>4, <2>5
<1>3. CASE SimpleEnd BY <1>3 DEF SimpleEnd
<1>4. CASE MinFirst BY <1>4 DEF MinFirst
<1>5. CASE MinNone BY <1>5 DEF MinNone
<1>6. CASE MinWhile BY <1>6 DEF MinWhile
<1>7. CASE MinSkip BY <1>7 DEF MinSkip, Min
<1>8. CASE MinAdd BY <1>8 DEF MinAdd, Min
<1>9. CASE MinReject BY <1>9 DEF MinReject, Dead, Min
<1>10. CASE MinRoundEnd BY <1>10 DEF MinRoundEnd
<1>11. CASE MinDump
  <2>1. CASE configuration = {} BY <1>11, <2>1 DEF MinDump
  <2>2. CASE configuration # {}
    <3>1. PICK a \in Solutions(configuration) : ret' = Append(ret, a)
      BY <1>11, <2>2 DEF MinDump
    <3>2. a \in formula /\ configuration \subseteq a.on BY DEF Solutions
    <3>3. /\ Len(ret) \in Nat
          /\ Len(ret') = Len(ret) + 1
          /\ \A i \in 1 .. Len(ret) : ret'[i] = ret[i]
          /\ ret'[Len(ret) + 1] = a
      BY <3>1, <3>2, AppendFacts DEF TypeOK
    <3>4. 1 .. Len(ret) \subseteq 1 .. Len(ret') /\ Len(ret) + 1 \in 1 .. Len(ret') BY <3>3
    <3>5. UNCHANGED <<analyzer, formula, blocks_set, found_solutions>> BY <1>11 DEF MinDump
    <3>6. CoveredTruthfully' BY <3>2, <3>3, <3>4, <3>5
    <3>7. FoundInv' BY <3>3, <3>4, <3>5
    <3> QED BY <3>6, <3>7
  <2> QED BY <2>1, <2>2
<1>12. CASE Catch BY <1>12 DEF Catch
<1>13. CASE UNCHANGED vars BY <1>13 DEF vars
<1> QED BY <1>1, <1>2, <1>3, <1>4, <1>5, <1>6, <1>7, <1>8, <1>9, <1>10, <1>11, <1>12,
           <1>13 DEF Next

\* What the loops have settled.
LEMMA StepSettled ==
  ASSUME IInv, [Next]_vars
  PROVE  SimpleSettled' /\ MinSettled' /\ MinDone'
<1>0. TypeOK /\ ConfigurationInv /\ SimpleSettled /\ MinSettled /\ MinDone BY DEF IInv
<1> USE <1>0, SizeAssumption DEF SimpleSettled, MinSettled, MinDone, Input, Satisfiable,
        Solutions, Advance, Blocks
<1>1. CASE SimpleSkip BY <1>1 DEF SimpleSkip, Simple, TypeOK
<1>2. CASE SimpleSolve BY <1>2 DEF SimpleSolve, Credited, Simple, TypeOK
<1>3. CASE SimpleEnd BY <1>3 DEF SimpleEnd, TypeOK
<1>4. CASE MinFirst BY <1>4 DEF MinFirst, ConfigurationInv
<1>5. CASE MinNone BY <1>5 DEF MinNone
<1>6. CASE MinWhile
  <2>1. SimpleSettled' /\ MinSettled' BY <1>6 DEF MinWhile, ConfigurationInv
  <2>2. ASSUME NoLookalikes, pc' = "done" PROVE Blocks \subseteq blocks_set
    <3>1. blocks_set \subseteq 1 .. Size BY <2>2 DEF NoLookalikes, TypeOK, Names
    <3>2. ~(Cardinality(blocks_set) < Size) BY <1>6, <2>2 DEF MinWhile
    <3>3. blocks_set \in SUBSET (1 .. Size) BY <3>1
    <3>4. blocks_set = 1 .. Size BY <3>2, <3>3, FullSubset
    <3> QED BY <3>4
  <2>3. blocks_set' = blocks_set BY <1>6 DEF MinWhile
  <2> QED BY <2>1, <2>2, <2>3
<1>7. CASE MinSkip
  <2>1. pos \in Blocks /\ (pos \in blocks_set \/ Conflicting(pos)) BY <1>7 DEF MinSkip, Min
  <2>2. pos \in blocks_set \/ ~Satisfiable(configuration \cup {pos})
    BY <2>1, ConflictExcludes
  <2> QED BY <1>7, <2>1, <2>2 DEF MinSkip, Min
<1>8. CASE MinAdd
  <2>1. /\ pos \in Blocks /\ pos' = pos + 1 /\ pc' = "for" /\ pc = "for"
        /\ analyzer' = analyzer /\ analyzer = "min" /\ formula' = formula
        /\ configuration' = configuration \cup {pos}
        /\ blocks_set' = blocks_set \cup {pos}
    BY <1>8 DEF MinAdd, Min
  <2>2. ASSUME NEW b \in Blocks, b < pos
        PROVE  b \in blocks_set' \/ \A a \in formula : ~(configuration' \cup {b} \subseteq a.on)
    <3>1. b \in blocks_set \/ ~Satisfiable(configuration \cup {b}) BY <2>1, <2>2
    <3> QED BY <3>1, <2>1
  <2> QED BY <2>1, <2>2
<1>9. CASE MinReject
  <2>1. pos \in Blocks /\ ~Satisfiable(configuration \cup {pos}) BY <1>9 DEF MinReject, Dead, Min
  <2> QED BY <1>9, <2>1 DEF MinReject, Dead, Min
<1>10. CASE MinRoundEnd BY <1>10 DEF MinRoundEnd, TypeOK
<1>11. CASE MinDump BY <1>11 DEF MinDump, ConfigurationInv
<1>12. CASE Catch BY <1>12 DEF Catch
<1>13. CASE UNCHANGED vars BY <1>13 DEF vars
<1> QED BY <1>1, <1>2, <1>3, <1>4, <1>5, <1>6, <1>7, <1>8, <1>9, <1>10, <1>11, <1>12,
           <1>13 DEF Next

\* A configuration that is added is full, and the others stay as they are.
LEMMA StepGreedy ==
  ASSUME IInv, [Next]_vars
  PROVE  GreedyMaximal'
<1>1. CASE SimpleSkip BY <1>1, SameList DEF SimpleSkip
<1>2. CASE SimpleSolve BY <1>2 DEF SimpleSolve, Credited, Simple, Input, GreedyMaximal
<1>3. CASE SimpleEnd BY <1>3, SameList DEF SimpleEnd
<1>4. CASE MinFirst BY <1>4, SameList DEF MinFirst
<1>5. CASE MinNone BY <1>5, SameList DEF MinNone
<1>6. CASE MinWhile BY <1>6, SameList DEF MinWhile
<1>7. CASE MinSkip BY <1>7, SameList DEF MinSkip
<1>8. CASE MinAdd BY <1>8, SameList DEF MinAdd
<1>9. CASE MinReject BY <1>9, SameList DEF MinReject
<1>10. CASE MinRoundEnd BY <1>10, SameList DEF MinRoundEnd
<1>11. CASE MinDump
  <2>1. CASE configuration = {} BY <1>11, <2>1, SameList DEF MinDump
  <2>2. CASE configuration # {}
    <3>1. PICK a \in Solutions(configuration) : ret' = Append(ret, a)
      BY <1>11, <2>2 DEF MinDump
    <3>2. a \in formula /\ configuration \subseteq a.on BY DEF Solutions
    <3>3. /\ Len(ret) \in Nat
          /\ Len(ret') = Len(ret) + 1
          /\ \A i \in 1 .. Len(ret) : ret'[i] = ret[i]
          /\ ret'[Len(ret) + 1] = a
      BY <3>1, <3>2, AppendFacts DEF IInv, TypeOK
    <3>4. /\ \A n \in 1 .. Len(ret) : Covered(n)' = Covered(n)
          /\ Covered(Len(ret))' = Covered(Len(ret)) \cup a.on
      BY <3>1, <3>2, CoveredAppend DEF IInv
    <3>5. analyzer = "min" /\ UNCHANGED <<analyzer, formula>>
      BY <1>11, AnalyzersAssumption DEF MinDump, Input, IInv, ConfigurationInv, TypeOK
    <3>6. ASSUME NEW i \in 2 .. Len(ret), NEW b \in Blocks \ Covered(i)'
          PROVE  ~Satisfiable(ret[i].on \cup {b})'
      <4>1. i \in 1 .. Len(ret) BY <3>3
      <4>2. b \in Blocks \ Covered(i) /\ ret'[i] = ret[i] BY <3>3, <3>4, <3>6, <4>1
      <4>3. ~Satisfiable(ret[i].on \cup {b}) BY <3>5, <3>6, <4>2 DEF IInv, GreedyMaximal
      <4> QED BY <4>2, <4>3, <3>5 DEF Satisfiable, Solutions
    <3>7. ASSUME NEW b \in Blocks, b \notin Covered(Len(ret))', ret # <<>>
          PROVE  \A x \in formula : ~(a.on \cup {b} \subseteq x.on)
      <4>1. b \notin Covered(Len(ret)) /\ b \notin a.on BY <3>4, <3>7
      <4>2. \A i \in 1 .. Len(ret) : b \notin ret[i].on BY <4>1 DEF Covered
      <4>3. b \notin configuration BY <3>2, <4>1
      <4>4. b \in blocks_set => ~Satisfiable({b})
        BY <3>5, <4>2, <4>3 DEF IInv, CoveredTruthfully
      <4>5. pc = "dump" BY <1>11 DEF MinDump
      <4>6. b \in blocks_set \/ ~Satisfiable(configuration \cup {b})
        BY <3>5, <3>7, <4>5 DEF IInv, MinSettled
      <4> QED BY <3>2, <4>4, <4>6 DEF Satisfiable, Solutions
    <3>8. ASSUME NEW i \in 2 .. Len(ret'), NEW b \in Blocks \ Covered(i)'
          PROVE  ~Satisfiable(ret[i].on \cup {b})'
      <4>1. CASE i \in 2 .. Len(ret) BY <3>6, <3>8, <4>1
      <4>2. CASE i = Len(ret')
        <5>1. ret # <<>> BY <3>3, <3>8, <4>2
        <5>2. ret'[i] = a BY <3>3, <4>2
        <5>3. b \in Blocks /\ b \notin Covered(Len(ret))' BY <3>8, <4>2
        <5> QED BY <5>1, <5>2, <5>3, <3>5, <3>7 DEF Satisfiable, Solutions
      <4> QED BY <3>3, <3>8, <4>1, <4>2
    <3> QED BY <3>8 DEF GreedyMaximal
  <2> QED BY <2>1, <2>2
<1>12. CASE Catch BY <1>12, SameList DEF Catch
<1>13. CASE UNCHANGED vars BY <1>13, SameList DEF vars, Input
<1> QED BY <1>1, <1>2, <1>3, <1>4, <1>5, <1>6, <1>7, <1>8, <1>9, <1>10, <1>11, <1>12,
           <1>13 DEF Next

\* The inductive invariant.
THEOREM Invariance == Spec => []IInv
<1>1. Init => IInv BY InitIInv
<1>2. IInv /\ [Next]_vars => IInv'
  BY StepTypeOK, StepConfiguration, StepCovered, StepSettled, StepGreedy DEF IInv
<1> QED BY <1>1, <1>2, PTL DEF Spec

LEMMA CoversWhenDone == IInv => (NoLookalikes /\ SymbolsDecide => StatementCoverage)
<1> SUFFICES ASSUME IInv, NoLookalikes, SymbolsDecide, pc = "done",
                    NEW b \in Blocks, Satisfiable({b})
             PROVE  b \in Covered(Len(ret))
  BY DEF StatementCoverage
<1>1. configuration = {} BY DEF IInv, ConfigurationInv
<1>2. analyzer \in {"simple", "min"} BY AnalyzersAssumption DEF IInv, TypeOK
<1>3. b \in blocks_set BY <1>2 DEF IInv, SimpleSettled, MinDone
<1>4. \E i \in 1 .. Len(ret) : b \in ret[i].on
  BY <1>1, <1>3 DEF IInv, CoveredTruthfully
<1> QED BY <1>4 DEF Covered

\* CoverageAnalyzer.cpp: with a formula that names no symbol like a block, and looking at
\* symbols that decide the blocks (the simple analyzer without a model), the list covers
\* every block that can be enabled.
THEOREM ListCovers == Spec => [](NoLookalikes /\ SymbolsDecide => StatementCoverage)
BY CoversWhenDone, Invariance, PTL

\* The minimizing analyzer's assertion, and what it is for: whatever order the blocks are
\* tried in, no configuration but the first leaves out a block it has room for.
THEOREM ConfigurationsFull == Spec => [](ConfigurationSolvable /\ GreedyMaximal)
<1>1. IInv => ConfigurationSolvable /\ GreedyMaximal BY DEF IInv
<1> QED BY <1>1, Invariance, PTL
-----------------------------------------------------------------------------
\* What the configurations of the list share with the set of covered blocks: what the
\* solver enables beyond the configuration it was asked for was covered before, or the
\* for loop would have added it.
ListInv ==
    /\ analyzer = "simple" => \A i \in 1 .. Len(ret) : ret[i].on \subseteq blocks_set
    /\ analyzer = "min" =>
         \A i \in 2 .. Len(ret) : /\ ret[i].on \cap Blocks \subseteq blocks_set
                                  /\ configuration \cap ret[i].on = {}

Fresh == NoLookalikes => NoneRedundant

\* The steps that leave the list alone.
LEMMA SameListFresh ==
  ASSUME ListInv, Fresh, analyzer' = analyzer, ret' = ret, blocks_set \subseteq blocks_set',
         configuration' = configuration \/ configuration' = {}
  PROVE  ListInv' /\ Fresh'
<1>1. ListInv' BY DEF ListInv
<1>2. Fresh' BY DEF Fresh, NoneRedundant
<1> QED BY <1>1, <1>2

\* A configuration that is appended has a block of its own.
LEMMA AppendFresh ==
  ASSUME TypeOK, Fresh, NEW a \in formula, ret' = Append(ret, a), analyzer' = analyzer,
         NoLookalikes =>
           \E b \in a.on \cap Blocks : \A j \in 1 .. Len(ret) :
             b \in ret[j].on => analyzer = "min" /\ j = 1
  PROVE  Fresh'
<1>1. /\ Len(ret) \in Nat
      /\ Len(ret') = Len(ret) + 1
      /\ \A i \in 1 .. Len(ret) : ret'[i] = ret[i]
      /\ ret'[Len(ret) + 1] = a
      /\ DOMAIN ret = 1 .. Len(ret) /\ DOMAIN ret' = 1 .. Len(ret')
  BY AppendFacts DEF TypeOK
<1> SUFFICES ASSUME NoLookalikes, NEW i \in 1 .. Len(ret')
             PROVE  \E b \in ret'[i].on \cap Blocks : \A j \in 1 .. i - 1 :
                      b \in ret'[j].on => analyzer = "min" /\ j = 1
  BY <1>1 DEF Fresh, NoneRedundant
<1>2. CASE i \in 1 .. Len(ret)
  <2>1. PICK b \in ret[i].on \cap Blocks : \A j \in 1 .. i - 1 :
               b \in ret[j].on => analyzer = "min" /\ j = 1
    BY <1>1, <1>2 DEF Fresh, NoneRedundant
  <2>2. \A j \in 1 .. i - 1 : ret'[j] = ret[j] BY <1>1, <1>2
  <2>3. ret'[i] = ret[i] BY <1>1, <1>2
  <2> QED BY <2>1, <2>2, <2>3
<1>3. CASE i = Len(ret) + 1
  <2>1. PICK b \in a.on \cap Blocks : \A j \in 1 .. Len(ret) :
               b \in ret[j].on => analyzer = "min" /\ j = 1
    OBVIOUS
  <2>2. \A j \in 1 .. i - 1 : j \in 1 .. Len(ret) /\ ret'[j] = ret[j] BY <1>1, <1>3
  <2>3. ret'[i] = a BY <1>1, <1>3
  <2> QED BY <2>1, <2>2, <2>3
<1> QED BY <1>1, <1>2, <1>3

LEMMA StepFresh ==
  ASSUME IInv, ListInv, Fresh, [Next]_vars
  PROVE  ListInv' /\ Fresh'
<1>0. TypeOK /\ ConfigurationInv BY DEF IInv
<1>1. CASE SimpleSkip \/ SimpleEnd \/ Catch
  BY <1>1, SameListFresh DEF SimpleSkip, SimpleEnd, Catch, Input
<1>2. CASE SimpleSolve
  <2>1. PICK a \in Solutions({pos}) :
          /\ blocks_set' = blocks_set \cup a.on
          /\ ret' = IF a.sym \in found_solutions THEN ret ELSE Append(ret, a)
    BY <1>2 DEF SimpleSolve, Credited
  <2>2. /\ analyzer = "simple" /\ analyzer' = analyzer /\ configuration' = configuration
        /\ pos \in Blocks /\ pos \notin blocks_set /\ a \in formula /\ pos \in a.on
    BY <1>2, <2>1 DEF SimpleSolve, Simple, Input, Solutions
  <2>3. CASE ret' = ret BY <2>1, <2>2, <2>3, SameListFresh
  <2>4. CASE ret' = Append(ret, a)
    <3>1. /\ Len(ret) \in Nat
          /\ Len(ret') = Len(ret) + 1
          /\ \A i \in 1 .. Len(ret) : ret'[i] = ret[i]
          /\ ret'[Len(ret) + 1] = a
      BY <1>0, <2>2, <2>4, AppendFacts DEF TypeOK
    <3>2. \A i \in 1 .. Len(ret) : ret[i].on \subseteq blocks_set BY <2>2 DEF ListInv
    <3>3. \A i \in 1 .. Len(ret') : i \in 1 .. Len(ret) \/ i = Len(ret) + 1 BY <3>1
    <3>4. \A i \in 1 .. Len(ret') : ret'[i].on \subseteq blocks_set'
      BY <2>1, <3>1, <3>2, <3>3
    <3>5. ListInv' BY <2>2, <3>4 DEF ListInv
    <3>6. \A j \in 1 .. Len(ret) : pos \notin ret[j].on BY <2>2, <3>2
    <3>7. Fresh' BY <1>0, <2>2, <2>4, <3>6, AppendFresh
    <3> QED BY <3>5, <3>7
  <2> QED BY <2>1, <2>3, <2>4
<1>3. CASE MinFirst
  <2>1. ret = <<>> /\ ret' = ret /\ analyzer' = analyzer
    BY <1>0, <1>3 DEF MinFirst, ConfigurationInv, Input
  <2>2. analyzer = "min" BY <1>3 DEF MinFirst
  <2> QED BY <2>1, <2>2 DEF ListInv, Fresh, NoneRedundant
<1>4. CASE MinNone \/ MinWhile \/ MinSkip \/ MinRoundEnd
  BY <1>4, SameListFresh DEF MinNone, MinWhile, MinSkip, MinRoundEnd, Input
<1>5. CASE MinAdd
  <2>1. /\ analyzer = "min" /\ analyzer' = analyzer /\ ret' = ret
        /\ pos \in Blocks /\ pos \notin blocks_set
        /\ configuration' = configuration \cup {pos} /\ blocks_set' = blocks_set \cup {pos}
    BY <1>5 DEF MinAdd, Min, Input
  <2>2. ListInv' BY <2>1 DEF ListInv
  <2>3. Fresh' BY <2>1 DEF Fresh, NoneRedundant
  <2> QED BY <2>2, <2>3
<1>6. CASE MinReject BY <1>6, SameListFresh DEF MinReject, Input
<1>7. CASE MinDump
  <2>0. /\ pc = "dump" /\ configuration' = {} /\ blocks_set' = blocks_set
        /\ analyzer' = analyzer /\ analyzer = "min"
    BY <1>0, <1>7, AnalyzersAssumption DEF MinDump, Input, TypeOK, ConfigurationInv
  <2>1. CASE configuration = {}
    <3>1. ret' = ret BY <1>7, <2>1 DEF MinDump
    <3> QED BY <2>0, <2>1, <3>1, SameListFresh
  <2>2. CASE configuration # {}
    <3>1. PICK a \in Solutions(configuration) : ret' = Append(ret, a)
      BY <1>7, <2>2 DEF MinDump
    <3>2. a \in formula /\ configuration \subseteq a.on BY DEF Solutions
    <3>3. /\ Len(ret) \in Nat
          /\ Len(ret') = Len(ret) + 1
          /\ \A i \in 1 .. Len(ret) : ret'[i] = ret[i]
          /\ ret'[Len(ret) + 1] = a
      BY <1>0, <3>1, <3>2, AppendFacts DEF TypeOK
    <3>4. ret # <<>> => a.on \cap Blocks \subseteq blocks_set
      <4> SUFFICES ASSUME ret # <<>>, NEW b \in a.on \cap Blocks PROVE b \in blocks_set
        OBVIOUS
      <4>1. b \in blocks_set \/ ~Satisfiable(configuration \cup {b})
        BY <2>0 DEF IInv, MinSettled
      <4>2. a \in Solutions(configuration \cup {b}) BY <3>2 DEF Solutions
      <4> QED BY <4>1, <4>2 DEF Satisfiable
    <3>5. \A i \in 2 .. Len(ret') : i \in 2 .. Len(ret) \/ (i = Len(ret) + 1 /\ ret # <<>>)
      BY <3>3
    <3>6. \A i \in 2 .. Len(ret') : ret'[i].on \cap Blocks \subseteq blocks_set
      <4>1. ASSUME NEW i \in 2 .. Len(ret) PROVE ret'[i].on \cap Blocks \subseteq blocks_set
        BY <2>0, <3>3 DEF ListInv
      <4> QED BY <3>3, <3>4, <3>5, <4>1
    <3>7. ListInv' BY <2>0, <3>6 DEF ListInv
    <3>8. ASSUME NoLookalikes
          PROVE  \E b \in a.on \cap Blocks : \A j \in 1 .. Len(ret) :
                   b \in ret[j].on => analyzer = "min" /\ j = 1
      <4>1. PICK b \in configuration : TRUE BY <2>2
      <4>2. b \in a.on \cap Blocks BY <1>0, <3>2, <3>8 DEF NoLookalikes, TypeOK, Names
      <4>3. \A j \in 2 .. Len(ret) : b \notin ret[j].on BY <2>0, <4>1 DEF ListInv
      <4>4. \A j \in 1 .. Len(ret) : j = 1 \/ j \in 2 .. Len(ret) BY <3>3
      <4> QED BY <2>0, <4>2, <4>3, <4>4
    <3>9. Fresh' BY <1>0, <2>0, <3>1, <3>2, <3>8, AppendFresh
    <3> QED BY <3>7, <3>9
  <2> QED BY <2>1, <2>2
<1>8. CASE UNCHANGED vars BY <1>8, SameListFresh DEF vars
<1> QED BY <1>1, <1>2, <1>3, <1>4, <1>5, <1>6, <1>7, <1>8 DEF Next

\* No configuration of the list is there for nothing, whatever more the solver enables
\* than it was asked for and whatever the order of the blocks: each enables a block that
\* no earlier one does, if no symbol is named like a block.
THEOREM NoneForNothing == Spec => [](NoLookalikes => NoneRedundant)
<1>1. Init => ListInv /\ Fresh BY DEF Init, ListInv, Fresh, NoneRedundant
<1>2. IInv /\ ListInv /\ Fresh /\ [Next]_vars => (ListInv /\ Fresh)' BY StepFresh
<1>3. Fresh => (NoLookalikes => NoneRedundant) BY DEF Fresh
<1> QED BY Invariance, <1>1, <1>2, <1>3, PTL DEF Spec

-----------------------------------------------------------------------------
(* vampyr: the analysis within the timeout, and the files it leaves.         *)

LEMMA VampyrKeepsAnalysis ==
  ASSUME IInv, ListInv, Fresh, [VampyrNext]_all
  PROVE  (IInv /\ ListInv /\ Fresh)'
<1>1. CASE phase = "analysis" /\ Interrupt
  <2>1. /\ pc' = "failed" /\ pos' = 1 /\ ret' = <<>> /\ analyzer' = analyzer /\ formula' = formula
        /\ blocks_set' = {} /\ configuration' = {} /\ found_solutions' = {}
    BY <1>1 DEF Interrupt, Input
  <2>2. Len(ret') = 0 /\ 1 .. Len(ret') = {} BY <2>1
  <2>3. TypeOK' BY <2>1, SizeAssumption DEF IInv, TypeOK
  <2>4. (ConfigurationInv /\ CoveredTruthfully /\ FoundInv)'
    BY <2>1 DEF ConfigurationInv, CoveredTruthfully, FoundInv
  <2>5. ConfigurationSolvable' BY <2>1 DEF ConfigurationSolvable
  <2>6. (SimpleSettled /\ MinSettled /\ MinDone)'
    BY <2>1, SizeAssumption DEF SimpleSettled, MinSettled, MinDone, Blocks
  <2>7. GreedyMaximal' BY <2>1, <2>2 DEF GreedyMaximal
  <2>8. ListInv' BY <2>1, <2>2 DEF ListInv
  <2>9. Fresh' BY <2>1, <2>2 DEF Fresh, NoneRedundant
  <2> QED BY <2>3, <2>4, <2>5, <2>6, <2>7, <2>8, <2>9 DEF IInv
<1>2. CASE ~(phase = "analysis" /\ Interrupt)
  <2>1. [Next]_vars
    BY <1>2 DEF VampyrNext, all, Analyse, Analysed, RemoveNext, Removed, Open, Flush, Written,
                Interrupt, MakeConfiguration, CannotMake, Verified, Check, CannotReport, Report,
                vars, Input
  <2>2. IInv'
    BY <2>1, StepTypeOK, StepConfiguration, StepCovered, StepSettled, StepGreedy DEF IInv
  <2> QED BY <2>1, <2>2, StepFresh
<1> QED BY <1>1, <1>2

\* What is written and compiled covers the file, nothing of it for nothing, whenever the
\* time ran out: what an interrupted analysis had found is not mistaken for a list.
THEOREM WrittenListCovers ==
  VampyrSpec => [](NoLookalikes => NoneRedundant /\ (SymbolsDecide => StatementCoverage))
<1>1. VampyrInit => IInv /\ ListInv /\ Fresh
  <2>1. Init => ListInv /\ Fresh BY DEF Init, ListInv, Fresh, NoneRedundant
  <2> QED BY <2>1, InitIInv DEF VampyrInit
<1>2. IInv /\ ListInv /\ Fresh /\ [VampyrNext]_all => (IInv /\ ListInv /\ Fresh)'
  BY VampyrKeepsAnalysis
<1>3. IInv /\ Fresh => (NoLookalikes => NoneRedundant /\ (SymbolsDecide => StatementCoverage))
  BY CoversWhenDone DEF Fresh
<1> QED BY <1>1, <1>2, <1>3, PTL DEF VampyrSpec

\* A configuration that vampyr finds without its flags has one of the reasons the
\* property names.
Unflagged(n) ==
    File("config", n) \in DOMAIN disk /\ File("cppflags", n) \notin DOMAIN disk

Excused(n) ==
    \/ phase = "remove" \/ interrupted = "remove"
    \/ (phase = "analysis" \/ interrupted = "analysis") /\ n \in Orphans
    \/ ~Intact(n)

FilesInv ==
    /\ phase \in {"analysis", "remove", "write"} => interrupted = "no"
    /\ phase \in {"analysis", "remove"} => step = 0
    /\ step \in 0 .. 5 /\ current \in Nat
    /\ phase = "write" /\ step > 0 => File("cppflags", current) \in DOMAIN disk \cup lost
    /\ \A n : Unflagged(n) => Excused(n)
    /\ phase = "check" => Unverified = {}
    /\ CrashExplained

LEMMA PutDomain == \A f, c : DOMAIN Put(f, c) = DOMAIN disk \cup {f}
BY DEF Put

\* A set of numbers has a least one.
LEMMA LeastNumber ==
  ASSUME NEW N \in SUBSET Nat, N # {}
  PROVE  \E n \in N : \A m \in N : n <= m
<1>1. PICK n \in N : \A m \in N : ~(<<m, n>> \in OpToRel(<, Nat))
  BY NatLessThanWellFounded, WFMin
<1>2. ASSUME NEW m \in N PROVE n <= m
  <2>1. <<m, n>> \in OpToRel(<, Nat) <=> <<m, n>> \in Nat \X Nat /\ m < n
    BY Zenon DEF OpToRel
  <2>2. m \in Nat /\ n \in Nat OBVIOUS
  <2>3. ~(m < n) BY <1>1, <2>1, <2>2, Zenon
  <2> QED BY <2>2, <2>3
<1> QED BY <1>2

\* What the files and the configurations are called by.
Numbered ==
    /\ DOMAIN disk \subseteq Kinds \X Nat
    /\ current \in Nat /\ step \in 0 .. 5
    /\ configs \in Seq(Nat)
    /\ \E S : checked \in Seq(S)

LEMMA KindsAre == Kinds = {"cppflags", "source", "config", "h", "report"}
BY DEF Kinds, Rank

LEMMA InitNumbered == VampyrInit => Numbered
<1>1. SUFFICES ASSUME VampyrInit PROVE Numbered OBVIOUS
<1>2. PICK found \in Leftovers : disk = [f \in found |-> Old] BY <1>1 DEF VampyrInit
<1>3. found \subseteq Kinds \X Nat BY LeftoversAssumption, KindsAre
<1>4. checked \in Seq({}) /\ configs \in Seq(Nat) BY <1>1 DEF VampyrInit
<1> QED BY <1>1, <1>2, <1>3, <1>4 DEF VampyrInit, Numbered

LEMMA PutNumbered ==
  ASSUME Numbered, NEW k \in Kinds, NEW n \in Nat, NEW c
  PROVE  DOMAIN Put(File(k, n), c) \subseteq Kinds \X Nat
<1>1. DOMAIN Put(File(k, n), c) = DOMAIN disk \cup {File(k, n)} BY PutDomain
<1>2. File(k, n) \in Kinds \X Nat BY DEF File
<1> QED BY <1>1, <1>2 DEF Numbered

LEMMA NumbersAre ==
  ASSUME Numbered
  PROVE  \A k, n : n \in Numbers(k) <=> File(k, n) \in DOMAIN disk
<1>1. ASSUME NEW k, NEW n, n \in Numbers(k) PROVE File(k, n) \in DOMAIN disk
  <2>1. PICK f \in DOMAIN disk : f[1] = k /\ f[2] = n BY <1>1 DEF Numbers
  <2>2. f = File(k, n) BY <2>1 DEF Numbered, File
  <2> QED BY <2>2
<1>2. ASSUME NEW k, NEW n, File(k, n) \in DOMAIN disk PROVE n \in Numbers(k)
  <2>1. File(k, n)[1] = k /\ File(k, n)[2] = n BY DEF File
  <2> QED BY <1>2, <2>1 DEF Numbers
<1> QED BY <1>1, <1>2

LEMMA FirstIs ==
  ASSUME Numbered, NEW n \in FirstUnverified
  PROVE  /\ n \in Nat /\ n \in Unverified /\ File("config", n) \in DOMAIN disk
         /\ \A m \in Unverified \ {n} : Earlier(n, m)
<1>1. n \in Unverified /\ \A m \in Unverified \ {n} : Earlier(n, m) BY DEF FirstUnverified
<1>2. n \in Numbers("config") BY <1>1 DEF Unverified
<1>3. n \in Nat BY <1>2 DEF Numbers, Numbered
<1> QED BY <1>1, <1>2, <1>3, NumbersAre

LEMMA VampyrNumbered ==
  ASSUME Numbered, [VampyrNext]_all
  PROVE  Numbered'
<1>1. CASE \/ Analyse \/ Analysed \/ Removed \/ Written \/ Interrupt \/ Verified \/ CannotReport
           \/ Report \/ UNCHANGED all
  BY <1>1 DEF Analyse, Analysed, Removed, Written, Interrupt, Verified, CannotReport, Report,
              all, run, files, Numbered
<1>2. CASE RemoveNext
  <2>1. DOMAIN disk' \subseteq DOMAIN disk BY <1>2 DEF RemoveNext
  <2> QED BY <1>2, <2>1 DEF RemoveNext, Numbered
<1>3. CASE Open
  <2> DEFINE f == File(Opened[step + 1], current)
  <2>1. step \in 0 .. 2 BY <1>3 DEF Open, Numbered
  <2>2. Opened[step + 1] \in Kinds BY <2>1, KindsAre DEF Opened
  <2>3. disk' = Put(f, Partial) \/ disk' = disk BY <1>3 DEF Open
  <2>4. DOMAIN disk' \subseteq Kinds \X Nat
    BY <2>2, <2>3, PutNumbered DEF Numbered
  <2> QED BY <1>3, <2>1, <2>4 DEF Open, Numbered
<1>4. CASE Flush
  <2> DEFINE f == File(Opened[6 - step], current)
  <2>1. step \in 3 .. 5 BY <1>4 DEF Flush, Numbered
  <2>2. Opened[6 - step] \in Kinds BY <2>1, KindsAre DEF Opened
  <2>3. disk' = Put(f, current + 1) \/ disk' = disk BY <1>4 DEF Flush
  <2>4. DOMAIN disk' \subseteq Kinds \X Nat
    BY <2>2, <2>3, PutNumbered DEF Numbered
  <2>5. current' \in Nat /\ step' \in 0 .. 5 BY <1>4, <2>1 DEF Flush, Numbered
  <2> QED BY <1>4, <2>4, <2>5 DEF Flush, Numbered
<1>5. CASE MakeConfiguration
  <2>1. PICK n \in FirstUnverified : /\ disk' = Put(File("h", n), disk[File("cppflags", n)])
                                     /\ configs' = Append(configs, n)
    BY <1>5 DEF MakeConfiguration
  <2>2. n \in Nat BY FirstIs
  <2>3. DOMAIN disk' \subseteq Kinds \X Nat BY <2>1, <2>2, PutNumbered, KindsAre
  <2>4. configs' \in Seq(Nat) BY <2>1, <2>2, AppendProperties DEF Numbered
  <2> QED BY <1>5, <2>3, <2>4 DEF MakeConfiguration, Numbered
<1>6. CASE CannotMake
  <2>1. PICK n \in FirstUnverified : disk' = Put(File("h", n), Partial) \/ disk' = disk
    BY <1>6 DEF CannotMake
  <2>2. n \in Nat BY FirstIs
  <2>3. DOMAIN disk' \subseteq Kinds \X Nat BY <2>1, <2>2, PutNumbered, KindsAre DEF Numbered
  <2> QED BY <1>6, <2>3 DEF CannotMake, Numbered
<1>7. CASE Check
  <2> DEFINE c == configs[Len(checked) + 1]
  <2>1. PICK S : checked \in Seq(S) BY DEF Numbered
  <2>2. c \in Nat BY <1>7, <2>1 DEF Check, Numbered
  <2>3. DOMAIN disk' \subseteq Kinds \X Nat
    BY <1>7, <2>2, PutNumbered, KindsAre DEF Check
  <2>4. PICK on : checked' = Append(checked, [conf |-> c, on |-> on]) BY <1>7 DEF Check
  <2>5. checked' \in Seq(S \cup {[conf |-> c, on |-> on]}) BY <2>1, <2>4
  <2> QED BY <1>7, <2>3, <2>5 DEF Check, Numbered
<1> QED BY <1>1, <1>2, <1>3, <1>4, <1>5, <1>6, <1>7 DEF VampyrNext

\* More files, of another kind, change no configuration that is left to be made.
LEMMA SameUnverified ==
  ASSUME DOMAIN disk' = DOMAIN disk \/ \E k, n : k # "config" /\ DOMAIN disk' = DOMAIN disk \cup {File(k, n)},
         UNCHANGED configs
  PROVE  Unverified' = Unverified /\ FirstUnverified' = FirstUnverified
<1>1. {g \in DOMAIN disk' : g[1] = "config"} = {g \in DOMAIN disk : g[1] = "config"}
  <2>1. \A k, n : File(k, n)[1] = k BY DEF File
  <2>2. \A g : g[1] = "config" => (g \in DOMAIN disk' <=> g \in DOMAIN disk) BY <2>1
  <2> QED BY <2>2
<1>2. Numbers("config")' = Numbers("config") BY <1>1 DEF Numbers
<1>3. Unverified' = Unverified BY <1>2 DEF Unverified
<1> QED BY <1>3 DEF FirstUnverified

\* What an error kept or lost stays kept or lost.
LEMMA IntactBefore ==
  ASSUME stuck \cup lost \subseteq stuck' \cup lost', NEW n, Intact(n)'
  PROVE  Intact(n)
BY DEF Intact

LEMMA NotIntact ==
  ASSUME NEW k, NEW n, File(k, n) \in stuck \cup lost
  PROVE  ~Intact(n)
<1>1. File(k, n)[2] = n BY DEF File
<1> QED BY <1>1 DEF Intact

\* A step that adds no configuration without flags keeps the reasons of the others.
LEMMA ExcusesKept ==
  ASSUME FilesInv, stuck \cup lost \subseteq stuck' \cup lost',
         \A n : Unflagged(n)' => Unflagged(n) \/ ~Intact(n)',
         UNCHANGED interrupted, phase' = phase \/ phase \notin {"analysis", "remove"}
  PROVE  \A n : Unflagged(n)' => Excused(n)'
<1>1. SUFFICES ASSUME NEW n, Unflagged(n)', Intact(n)' PROVE Excused(n)'
  BY DEF Excused
<1>2. Intact(n) BY <1>1, IntactBefore
<1>3. Excused(n) BY <1>1 DEF FilesInv
<1> QED BY <1>2, <1>3 DEF Excused

LEMMA InitFiles == VampyrInit => FilesInv
<1>1. SUFFICES ASSUME VampyrInit PROVE FilesInv OBVIOUS
<1>2. PICK found \in Leftovers : disk = [f \in found |-> Old] BY <1>1 DEF VampyrInit
<1>3. ASSUME NEW n, Unflagged(n) PROVE n \in Orphans
  <2> DEFINE orphaned == {g \in found : g[1] = "config" /\ File("cppflags", g[2]) \notin found}
  <2>1. File("config", n) \in found /\ File("cppflags", n) \notin found
    BY <1>2, <1>3 DEF Unflagged
  <2>2. File("config", n)[1] = "config" /\ File("config", n)[2] = n BY DEF File
  <2>3. File("config", n) \in orphaned BY <2>1, <2>2
  <2> HIDE DEF orphaned
  <2>4. \E S \in {{g \in F : g[1] = "config" /\ File("cppflags", g[2]) \notin F} : F \in Leftovers} :
          File("config", n) \in S
    BY <2>3 DEF orphaned
  <2> QED BY <2>2, <2>4 DEF Orphans
<1> QED BY <1>1, <1>3 DEF VampyrInit, FilesInv, Excused, CrashExplained

LEMMA VampyrFiles ==
  ASSUME FilesInv, Numbered, [VampyrNext]_all
  PROVE  FilesInv'
<1>1. CASE Analyse \/ UNCHANGED all
  <2>1. UNCHANGED <<run>> BY <1>1 DEF Analyse, all
  <2>2. /\ UNCHANGED <<phase, interrupted, disk, stuck, lost, step, current, configs, checked>>
    BY <2>1 DEF run, files
  <2>3. /\ \A n : Unflagged(n)' = Unflagged(n) /\ Excused(n)' = Excused(n)
        /\ Unverified' = Unverified /\ CrashExplained' = CrashExplained
    BY <2>2 DEF Unflagged, Excused, Intact, Unverified, Numbers, CrashExplained, Culprit,
                FirstUnverified
  <2> QED BY <2>2, <2>3 DEF FilesInv
<1>2. CASE Analysed
  BY <1>2 DEF Analysed, FilesInv, Excused, CrashExplained
<1>3. CASE RemoveNext
  BY <1>3 DEF RemoveNext, FilesInv, Excused, CrashExplained
<1>4. CASE Removed
  <2>1. /\ phase = "remove" /\ phase' = "write" /\ Matching(3) = {}
        /\ UNCHANGED <<interrupted, disk, stuck, lost, step, current>>
    BY <1>4 DEF Removed, Patterns, files
  <2>2. ASSUME NEW n, Unflagged(n)' PROVE ~Intact(n)'
    <3>1. File("config", n) \in DOMAIN disk BY <2>1, <2>2 DEF Unflagged
    <3>2. File("config", n) \in stuck BY <2>1, <3>1 DEF Matching, Patterns, File
    <3>3. ~Intact(n) BY <3>2, NotIntact
    <3> QED BY <2>1, <3>3 DEF Intact
  <2> QED BY <2>1, <2>2 DEF FilesInv, Excused, CrashExplained
<1>5. CASE Open
  <2> DEFINE f == File(Opened[step + 1], current)
  <2>1. /\ step \in 0 .. 2 /\ step' = step + 1 /\ phase = "write" /\ phase' = phase
        /\ \/ disk' = Put(f, Partial) /\ lost' = lost
           \/ disk' = disk /\ lost' = lost \cup {f}
        /\ UNCHANGED <<interrupted, stuck, current>>
    BY <1>5 DEF Open, FilesInv
  <2>2. \/ DOMAIN disk' = DOMAIN disk \cup {f} /\ lost' = lost
        \/ DOMAIN disk' = DOMAIN disk /\ lost' = lost \cup {f}
    BY <2>1, PutDomain
  <2>3. File("cppflags", current) \in DOMAIN disk' \cup lost'
    BY <2>1, <2>2 DEF Opened, FilesInv
  <2>4. ASSUME NEW n, Unflagged(n)' PROVE Unflagged(n) \/ ~Intact(n)'
    <3>1. CASE File("config", n) \in DOMAIN disk
      BY <2>2, <2>4, <3>1 DEF Unflagged
    <3>2. CASE File("config", n) \notin DOMAIN disk
      <4>1. f = File("config", n) /\ n = current BY <2>2, <2>4, <3>2 DEF Unflagged, File
      <4>2. File("cppflags", n) \in lost' BY <2>3, <2>4, <4>1 DEF Unflagged
      <4>3. File("cppflags", n)[2] = n BY DEF File
      <4> QED BY <4>2, <4>3 DEF Intact
    <3> QED BY <3>1, <3>2
  <2>5. stuck \cup lost \subseteq stuck' \cup lost' BY <2>1, <2>2
  <2>6. \A n : Unflagged(n)' => Excused(n)' BY <2>1, <2>4, <2>5, ExcusesKept
  <2> QED BY <2>1, <2>3, <2>6 DEF FilesInv, CrashExplained
<1>6. CASE Flush
  <2> DEFINE f == File(Opened[6 - step], current)
  <2>1. /\ step \in 3 .. 5 /\ phase = "write" /\ phase' = phase
        /\ \/ disk' = Put(f, current + 1) /\ lost' = lost
           \/ disk' = disk /\ lost' = lost \cup {f}
        /\ step' = (step + 1) % 6 /\ UNCHANGED <<interrupted, stuck>>
        /\ current' = IF step = 5 THEN current + 1 ELSE current
    BY <1>6 DEF Flush, FilesInv
  <2>2. \/ DOMAIN disk' = DOMAIN disk \cup {f} /\ lost' = lost
        \/ DOMAIN disk' = DOMAIN disk /\ lost' = lost \cup {f}
    BY <2>1, PutDomain
  <2>3. File("cppflags", current) \in DOMAIN disk \cup lost BY <2>1 DEF FilesInv
  <2>4. ASSUME NEW n, Unflagged(n)' PROVE Unflagged(n) \/ ~Intact(n)'
    <3>1. CASE File("config", n) \in DOMAIN disk
      BY <2>2, <2>4, <3>1 DEF Unflagged
    <3>2. CASE File("config", n) \notin DOMAIN disk
      <4>1. f = File("config", n) /\ n = current BY <2>2, <2>4, <3>2 DEF Unflagged, File
      <4>2. File("cppflags", n) \in lost' BY <2>2, <2>3, <2>4, <4>1 DEF Unflagged
      <4>3. File("cppflags", n)[2] = n BY DEF File
      <4> QED BY <4>2, <4>3 DEF Intact
    <3> QED BY <3>1, <3>2
  <2>5. stuck \cup lost \subseteq stuck' \cup lost' BY <2>1, <2>2
  <2>6. \A n : Unflagged(n)' => Excused(n)' BY <2>1, <2>4, <2>5, ExcusesKept
  <2>7. step' \in 0 .. 5 /\ current' \in Nat /\ (step' > 0 => current' = current)
    BY <2>1 DEF FilesInv
  <2> QED BY <2>1, <2>2, <2>3, <2>6, <2>7 DEF FilesInv, CrashExplained
<1>7. CASE Written
  <2>1. /\ phase = "write" /\ phase' = "verify"
        /\ UNCHANGED <<interrupted, disk, stuck, lost, step, current>>
    BY <1>7 DEF Written, files
  <2>2. \A n : Unflagged(n)' => Excused(n)'
    BY <2>1 DEF FilesInv, Unflagged, Excused, Intact
  <2> QED BY <2>1, <2>2 DEF FilesInv, CrashExplained
<1>8. CASE Interrupt
  <2>1. /\ phase \in {"analysis", "remove", "write"} /\ interrupted' = phase /\ phase' = "verify"
        /\ UNCHANGED <<disk, stuck, lost, step, current>> /\ interrupted = "no"
    BY <1>8 DEF Interrupt, FilesInv, files
  <2>2. \A n : Unflagged(n)' => Excused(n)'
    BY <2>1 DEF FilesInv, Unflagged, Excused, Intact
  <2> QED BY <2>1, <2>2 DEF FilesInv, CrashExplained
<1>9. CASE MakeConfiguration
  <2>0. PICK n : disk' = Put(File("h", n), disk[File("cppflags", n)])
    BY <1>9 DEF MakeConfiguration
  <2>1. /\ phase = "verify" /\ UNCHANGED <<phase, interrupted, stuck, lost, current, step>>
        /\ DOMAIN disk' = DOMAIN disk \cup {File("h", n)}
    BY <1>9, <2>0, PutDomain DEF MakeConfiguration
  <2>2. \A m : Unflagged(m)' => Unflagged(m) BY <2>1 DEF Unflagged, File
  <2>3. \A m : Unflagged(m)' => Excused(m)' BY <2>1, <2>2, ExcusesKept
  <2> QED BY <2>1, <2>3 DEF FilesInv, CrashExplained
<1>10. CASE CannotMake
  <2>1. PICK n \in FirstUnverified :
          \/ n \notin Numbers("cppflags") /\ disk' = Put(File("h", n), Partial) /\ lost' = lost
          \/ disk' = disk /\ lost' = lost \cup {File("h", n)}
    BY <1>10 DEF CannotMake
  <2>2. /\ phase = "verify" /\ phase' = "crashed"
        /\ UNCHANGED <<interrupted, stuck, current, step, configs, checked>>
    BY <1>10 DEF CannotMake
  <2>3. /\ DOMAIN disk' = DOMAIN disk \/ DOMAIN disk' = DOMAIN disk \cup {File("h", n)}
        /\ stuck \cup lost \subseteq stuck' \cup lost'
    BY <2>1, <2>2, PutDomain
  <2>4. FirstUnverified' = FirstUnverified BY <2>2, <2>3, SameUnverified
  <2>5. \A m : Unflagged(m)' => Unflagged(m) BY <2>3 DEF Unflagged, File
  <2>6. \A m : Unflagged(m)' => Excused(m)' BY <2>2, <2>3, <2>5, ExcusesKept
  <2>7. Excused(n)'
    <3>1. CASE n \notin Numbers("cppflags") /\ lost' = lost
      <4>1. Unflagged(n) BY <3>1, FirstIs, NumbersAre DEF Unflagged
      <4>2. Excused(n) BY <4>1 DEF FilesInv
      <4> QED BY <2>2, <3>1, <4>2 DEF Excused, Intact
    <3>2. CASE lost' = lost \cup {File("h", n)}
      <4>1. File("h", n)[2] = n BY DEF File
      <4>2. ~Intact(n)' BY <3>2, <4>1 DEF Intact
      <4> QED BY <4>2 DEF Excused
    <3> QED BY <2>1, <3>1, <3>2
  <2>8. n \in Culprit' BY <2>4 DEF Culprit
  <2>9. CrashExplained' BY <2>2, <2>7, <2>8 DEF CrashExplained, Excused
  <2> QED BY <2>2, <2>6, <2>9 DEF FilesInv
<1>11. CASE Verified
  <2>1. /\ phase = "verify" /\ phase' = "check" /\ Unverified = {}
        /\ UNCHANGED <<interrupted, disk, stuck, lost, step, current, configs>>
    BY <1>11 DEF Verified, files
  <2>2. \A n : Unflagged(n)' => Excused(n)'
    BY <2>1 DEF FilesInv, Unflagged, Excused, Intact
  <2>3. Unverified' = {} BY <2>1, SameUnverified
  <2> QED BY <2>1, <2>2, <2>3 DEF FilesInv, CrashExplained
<1>12. CASE Check
  <2>1. /\ phase = "check" /\ UNCHANGED <<phase, interrupted, stuck, lost, current, step, configs>>
        /\ \E n : DOMAIN disk' = DOMAIN disk \cup {File("report", n)}
    BY <1>12, PutDomain DEF Check
  <2>2. \A n : Unflagged(n)' => Unflagged(n) BY <2>1 DEF Unflagged, File
  <2>3. \A n : Unflagged(n)' => Excused(n)' BY <2>1, <2>2, ExcusesKept
  <2>4. Unverified' = {} BY <2>1, SameUnverified DEF FilesInv
  <2> QED BY <2>1, <2>3, <2>4 DEF FilesInv, CrashExplained
<1>13. CASE CannotReport
  <2>0. PICK n : n = configs[Len(checked) + 1] OBVIOUS
  <2>1. /\ phase = "check" /\ phase' = "crashed" /\ Len(checked) < Len(configs)
        /\ lost' = lost \cup {File("report", n)}
        /\ UNCHANGED <<interrupted, disk, stuck, current, step, configs, checked>>
    BY <1>13, <2>0 DEF CannotReport
  <2>2. \A m : Unflagged(m)' => Unflagged(m) BY <2>1 DEF Unflagged
  <2>3. \A m : Unflagged(m)' => Excused(m)' BY <2>1, <2>2, ExcusesKept
  <2>4. FirstUnverified' = {}
    <3>1. Unverified' = {} BY <2>1, SameUnverified DEF FilesInv
    <3> QED BY <3>1 DEF FirstUnverified
  <2>5. Len(checked) + 1 \in DOMAIN configs BY <2>1 DEF Numbered
  <2>6. n \in Culprit' BY <2>0, <2>1, <2>4, <2>5 DEF Culprit
  <2>7. ~Intact(n)'
    <3>1. File("report", n)[2] = n BY DEF File
    <3> QED BY <2>1, <3>1 DEF Intact
  <2>8. CrashExplained' BY <2>6, <2>7 DEF CrashExplained
  <2> QED BY <2>1, <2>3, <2>8 DEF FilesInv
<1>14. CASE Report
  <2>1. /\ phase = "check" /\ phase' = "end"
        /\ UNCHANGED <<interrupted, disk, stuck, lost, step, current>>
    BY <1>14 DEF Report, files
  <2>2. \A n : Unflagged(n)' => Excused(n)'
    BY <2>1 DEF FilesInv, Unflagged, Excused, Intact
  <2> QED BY <2>1, <2>2 DEF FilesInv, CrashExplained
<1> QED
  BY <1>1, <1>2, <1>3, <1>4, <1>5, <1>6, <1>7, <1>8, <1>9, <1>10, <1>11, <1>12, <1>13, <1>14
  DEF VampyrNext

\* For any number of configurations, any leftovers, any errors of the file system and an
\* interruption anywhere: an uncaught IOError is about a configuration whose own files met
\* with an error, or it follows an interruption while leftovers were removed, or one before
\* that with a leftover .config of that number whose flags were not there.
THEOREM InterruptsSurvived == VampyrSpec => []CrashExplained
<1>1. VampyrInit => FilesInv /\ Numbered BY InitFiles, InitNumbered
<1>2. FilesInv /\ Numbered /\ [VampyrNext]_all => (FilesInv /\ Numbered)'
  BY VampyrFiles, VampyrNumbered
<1>3. FilesInv => CrashExplained BY DEF FilesInv
<1> QED BY <1>1, <1>2, <1>3, PTL DEF VampyrSpec

-----------------------------------------------------------------------------
(* vampyr: a run nobody interrupts leaves the files of its own run only.     *)

\* The files of a solution, and the place of each in the order they are opened.
Solution == {"cppflags", "source", "config"}

Place(k) == IF k = "cppflags" THEN 1 ELSE IF k = "source" THEN 2 ELSE 3

\* What was opened by now, and what was flushed.
Begun(f) == f[2] < current \/ (f[2] = current /\ Place(f[1]) <= step)

Ended(f) == f[2] < current \/ (f[2] = current /\ Place(f[1]) + step >= 7)

\* While undertaker writes: what it has opened, and nothing else that could be removed.
Writing ==
    /\ current \in 0 .. Len(ret) /\ (step > 0 => current < Len(ret))
    /\ \A f \in DOMAIN disk : f \in stuck \/ (f[1] \in Solution /\ Begun(f))
    /\ \A f \in Solution \X Nat :
         /\ Begun(f) => f \in DOMAIN disk \cup lost
         /\ Ended(f) => f \in lost \/ disk[f] = f[2] + 1

\* While vampyr compiles: an intact number has the files of this run's solution, and a
\* report only of what was compiled from its own flags.
Verifying ==
    /\ \A f \in DOMAIN disk : Intact(f[2]) => f[2] < Len(ret) /\ disk[f] = f[2] + 1
    /\ \A n \in Nat, k \in Solution : n < Len(ret) /\ Intact(n) => File(k, n) \in DOMAIN disk
    /\ \A n \in Nat : Intact(n) /\ File("report", n) \in DOMAIN disk =>
         \E i \in 1 .. Len(checked) : checked[i].conf = n
    /\ \A i \in 1 .. Len(configs) : File("h", configs[i]) \in DOMAIN disk
    /\ \A i \in 1 .. Len(checked) :
         /\ File("report", configs[i]) \in DOMAIN disk
         /\ Intact(configs[i]) =>
              checked[i] = [conf |-> configs[i], on |-> ret[configs[i] + 1].on]

\* The configurations are taken in the order of their names.
Ordered ==
    /\ \A i, j \in 1 .. Len(configs) : i < j => Earlier(configs[i], configs[j])
    /\ \A i \in 1 .. Len(configs), n \in Unverified : Earlier(configs[i], n)
    /\ Len(checked) <= Len(configs)
    /\ \A i \in 1 .. Len(checked) : checked[i].conf = configs[i]

Progress ==
    /\ interrupted = "no" \/ phase \notin {"analysis", "remove", "write"}
    /\ phase \in {"analysis", "remove"} => step = 0 /\ current = 0 /\ lost = {}
    /\ phase \in {"analysis", "remove", "write"} => configs = <<>>
    /\ phase \in {"analysis", "remove", "write", "verify"} => checked = <<>>
    /\ phase \in {"verify", "check", "end"} => Ordered
    /\ phase \in {"check", "end"} => Unverified = {} /\ (gcc \/ checked = <<>>)
    /\ phase = "end" /\ gcc => Len(checked) = Len(configs)

ThisRun ==
    /\ Progress
    /\ interrupted = "no" /\ phase = "write" => Writing
    /\ interrupted = "no" /\ phase \in {"verify", "check", "end"} => Verifying

LEMMA Appended ==
  ASSUME NEW s, \E S : s \in Seq(S), NEW e
  PROVE  /\ Len(s) \in Nat /\ Len(Append(s, e)) = Len(s) + 1
         /\ \A i \in 1 .. Len(s) : Append(s, e)[i] = s[i]
         /\ Append(s, e)[Len(s) + 1] = e
<1>1. PICK S : s \in Seq(S) OBVIOUS
<1>2. s \in Seq(S \cup {e}) BY <1>1
<1> QED BY <1>2, AppendProperties, LenProperties

\* The first write starts on a directory without the files that could be removed.
LEMMA RemovedThisRun ==
  ASSUME ThisRun, Numbered, Removed, Len(ret) \in Nat
  PROVE  ThisRun'
<1>1. /\ phase = "remove" /\ interrupted = "no" /\ step = 0 /\ current = 0 /\ lost = {}
      /\ configs = <<>> /\ checked = <<>> /\ phase' = "write"
      /\ UNCHANGED <<interrupted, gcc, disk, stuck, lost, current, step, configs, checked, ret>>
  BY DEF Removed, ThisRun, Progress, vars, files
<1>2. DOMAIN disk \subseteq stuck
  <2>1. Matching(1) = {} /\ Matching(2) = {} /\ Matching(3) = {} BY DEF Removed, Patterns
  <2>2. \A f \in DOMAIN disk \ stuck : f[1] \notin {"cppflags", "source", "config", "h", "report"}
    BY <2>1 DEF Matching, Patterns
  <2>3. \A f \in DOMAIN disk : f[1] \in Kinds BY DEF Numbered
  <2> QED BY <2>2, <2>3, KindsAre
<1>3. \A f \in Solution \X Nat : ~Begun(f)' /\ ~Ended(f)'
  BY <1>1 DEF Begun, Ended, Place, Solution
<1>4. Writing' BY <1>1, <1>2, <1>3 DEF Writing
<1> QED BY <1>1, <1>4 DEF ThisRun, Progress

LEMMA OpenThisRun ==
  ASSUME ThisRun, Numbered, Open, Len(ret) \in Nat
  PROVE  ThisRun'
<1>0. PICK g : g = File(Opened[step + 1], current) OBVIOUS
<1>1. /\ phase = "write" /\ interrupted = "no" /\ step \in 0 .. 2 /\ current \in Nat
      /\ current < Len(ret) /\ step' = step + 1
      /\ \/ disk' = Put(g, Partial) /\ lost' = lost
         \/ disk' = disk /\ lost' = lost \cup {g}
      /\ UNCHANGED <<phase, interrupted, gcc, stuck, current, configs, checked, ret>>
  BY <1>0 DEF Open, ThisRun, Progress, Numbered, vars
<1>2. Writing BY <1>1 DEF ThisRun
<1>3. g[1] \in Solution /\ g[2] = current /\ Place(g[1]) = step + 1
  BY <1>0, <1>1 DEF File, Opened, Place, Solution
<1>4. Begun(g)' BY <1>1, <1>3 DEF Begun
<1>5. \A f \in Solution \X Nat :
        /\ Begun(f)' => Begun(f) \/ f = g
        /\ Ended(f)' => Ended(f) /\ f # g
  <2>1. SUFFICES ASSUME NEW f \in Solution \X Nat
                 PROVE  /\ Begun(f)' => Begun(f) \/ f = g
                        /\ Ended(f)' => Ended(f) /\ f # g
    OBVIOUS
  <2>2. f = <<f[1], f[2]>> /\ f[1] \in Solution /\ f[2] \in Nat OBVIOUS
  <2>3. Place(f[1]) \in 1 .. 3 BY DEF Place
  <2>4. Place(f[1]) = step + 1 => f[1] = Opened[step + 1]
    BY <1>1, <2>2 DEF Place, Opened, Solution
  <2>5. f[2] = current /\ f[1] = Opened[step + 1] => f = g BY <1>0, <2>2 DEF File
  <2>6. Begun(f)' => Begun(f) \/ f = g BY <1>1, <2>3, <2>4, <2>5 DEF Begun
  <2>7. Ended(f)' => f[2] < current BY <1>1, <2>3 DEF Ended
  <2>8. Ended(f)' => Ended(f) /\ f # g BY <1>1, <1>3, <2>2, <2>7 DEF Ended
  <2> QED BY <2>6, <2>8
<1>6. \A f : Begun(f) => Begun(f)' BY <1>1 DEF Begun, Place
<1>7. /\ DOMAIN disk \subseteq DOMAIN disk' /\ lost \subseteq lost' /\ g \in DOMAIN disk' \cup lost'
      /\ DOMAIN disk' \subseteq DOMAIN disk \cup {g}
  <2>1. CASE disk' = Put(g, Partial) /\ lost' = lost
    <3>1. DOMAIN disk' = DOMAIN disk \cup {g} BY <2>1, PutDomain
    <3> QED BY <2>1, <3>1
  <2>2. CASE disk' = disk /\ lost' = lost \cup {g} BY <2>2
  <2> QED BY <1>1, <2>1, <2>2
<1>8. \A f \in DOMAIN disk : f # g => disk'[f] = disk[f] BY <1>1 DEF Put
<1>9. Writing'
  <2>1. \A f \in DOMAIN disk' : f \in stuck' \/ (f[1] \in Solution /\ Begun(f)')
    BY <1>1, <1>2, <1>3, <1>4, <1>6, <1>7 DEF Writing
  <2>2. ASSUME NEW f \in Solution \X Nat, Begun(f)' PROVE f \in DOMAIN disk' \cup lost'
    BY <1>2, <1>5, <1>7, <2>2 DEF Writing
  <2>3. ASSUME NEW f \in Solution \X Nat, Ended(f)' PROVE f \in lost' \/ disk'[f] = f[2] + 1
    <3>1. Ended(f) /\ f # g BY <1>5, <2>3
    <3>2. f \in lost \/ disk[f] = f[2] + 1 BY <1>2, <3>1 DEF Writing
    <3>3. Begun(f) BY <1>1, <3>1 DEF Begun, Ended, Place
    <3>4. f \in DOMAIN disk \cup lost BY <1>2, <3>3 DEF Writing
    <3> QED BY <1>7, <1>8, <3>1, <3>2, <3>4
  <2> QED BY <1>1, <2>1, <2>2, <2>3 DEF Writing
<1> QED BY <1>1, <1>9 DEF ThisRun, Progress

LEMMA FlushThisRun ==
  ASSUME ThisRun, Numbered, Flush, Len(ret) \in Nat
  PROVE  ThisRun'
<1>0. PICK g : g = File(Opened[6 - step], current) OBVIOUS
<1>1. /\ phase = "write" /\ interrupted = "no" /\ step \in 3 .. 5 /\ current \in Nat
      /\ \/ disk' = Put(g, current + 1) /\ lost' = lost
         \/ disk' = disk /\ lost' = lost \cup {g}
      /\ step' = (step + 1) % 6
      /\ current' = IF step = 5 THEN current + 1 ELSE current
      /\ UNCHANGED <<phase, interrupted, gcc, stuck, configs, checked, ret>>
  BY <1>0 DEF Flush, ThisRun, Progress, Numbered, vars
<1>2. Writing /\ current < Len(ret)
  <2>1. Writing BY <1>1 DEF ThisRun
  <2> QED BY <1>1, <2>1 DEF Writing
<1>3. g[1] \in Solution /\ g[2] = current /\ Place(g[1]) = 6 - step
  BY <1>0, <1>1 DEF File, Opened, Place, Solution
<1>4. \/ step \in {3, 4} /\ step' = step + 1 /\ current' = current
      \/ step = 5 /\ step' = 0 /\ current' = current + 1
  BY <1>1
<1>5. \A f \in Solution \X Nat :
        /\ Begun(f)' <=> Begun(f)
        /\ Ended(f)' => Ended(f) \/ f = g
  <2>1. SUFFICES ASSUME NEW f \in Solution \X Nat
                 PROVE  /\ Begun(f)' <=> Begun(f)
                        /\ Ended(f)' => Ended(f) \/ f = g
    OBVIOUS
  <2>2. f = <<f[1], f[2]>> /\ f[1] \in Solution /\ f[2] \in Nat OBVIOUS
  <2>3. Place(f[1]) \in 1 .. 3 BY DEF Place
  <2>4. Place(f[1]) = 6 - step => f[1] = Opened[6 - step]
    BY <1>1, <2>2 DEF Place, Opened, Solution
  <2>5. f[2] = current /\ f[1] = Opened[6 - step] => f = g BY <1>0, <2>2 DEF File
  <2>6. Begun(f)' <=> Begun(f) BY <1>1, <1>4, <2>2, <2>3 DEF Begun
  <2>7. Ended(f)' => Ended(f) \/ f = g BY <1>1, <1>4, <2>2, <2>3, <2>4, <2>5 DEF Ended
  <2> QED BY <2>6, <2>7
<1>6. g \in Solution \X Nat /\ Begun(g)
  <2>1. g \in Solution \X Nat BY <1>0, <1>1, <1>3 DEF File
  <2> QED BY <1>1, <1>3, <2>1 DEF Begun
<1>7. /\ DOMAIN disk \subseteq DOMAIN disk' /\ lost \subseteq lost'
      /\ DOMAIN disk' \subseteq DOMAIN disk \cup {g}
      /\ g \in lost' \/ disk'[g] = g[2] + 1
  <2>1. CASE disk' = Put(g, current + 1) /\ lost' = lost
    <3>1. DOMAIN disk' = DOMAIN disk \cup {g} BY <2>1, PutDomain
    <3>2. disk'[g] = current + 1 BY <2>1 DEF Put
    <3> QED BY <1>3, <2>1, <3>1, <3>2
  <2>2. CASE disk' = disk /\ lost' = lost \cup {g} BY <2>2
  <2> QED BY <1>1, <2>1, <2>2
<1>8. \A f \in DOMAIN disk : f # g => disk'[f] = disk[f] BY <1>1 DEF Put
<1>9. Writing'
  <2>1. ASSUME NEW f \in DOMAIN disk' PROVE f \in stuck' \/ (f[1] \in Solution /\ Begun(f)')
    <3>1. f \in stuck \/ (f[1] \in Solution /\ Begun(f))
      BY <1>2, <1>3, <1>6, <1>7, <2>1 DEF Writing
    <3>2. f = g \/ f \in Kinds \X Nat BY <1>7, <2>1 DEF Numbered
    <3>3. f \in Solution \X Nat \/ f[1] \notin Solution BY <1>6, <3>2
    <3> QED BY <1>1, <1>5, <3>1, <3>3
  <2>2. ASSUME NEW f \in Solution \X Nat, Begun(f)' PROVE f \in DOMAIN disk' \cup lost'
    BY <1>2, <1>5, <1>7, <2>2 DEF Writing
  <2>3. ASSUME NEW f \in Solution \X Nat, Ended(f)' PROVE f \in lost' \/ disk'[f] = f[2] + 1
    <3>1. CASE f = g BY <1>7, <3>1
    <3>2. CASE f # g
      <4>1. Ended(f) BY <1>5, <2>3, <3>2
      <4>2. f \in lost \/ disk[f] = f[2] + 1 BY <1>2, <4>1 DEF Writing
      <4>3. Begun(f) BY <1>1, <4>1 DEF Begun, Ended, Place
      <4>4. f \in DOMAIN disk \cup lost BY <1>2, <4>3 DEF Writing
      <4> QED BY <1>7, <1>8, <3>2, <4>2, <4>4
    <3> QED BY <3>1, <3>2
  <2>4. current' \in 0 .. Len(ret') /\ (step' > 0 => current' < Len(ret')) BY <1>1, <1>2, <1>4
  <2> QED BY <2>1, <2>2, <2>3, <2>4 DEF Writing
<1> QED BY <1>1, <1>9 DEF ThisRun, Progress

LEMMA WrittenThisRun ==
  ASSUME ThisRun, Numbered, Written, Len(ret) \in Nat
  PROVE  ThisRun'
<1>1. /\ phase = "write" /\ interrupted = "no" /\ step = 0 /\ current = Len(ret)
      /\ configs = <<>> /\ checked = <<>> /\ phase' = "verify"
      /\ UNCHANGED <<interrupted, gcc, disk, stuck, lost, current, step, configs, checked, ret>>
  BY DEF Written, ThisRun, Progress, vars, files
<1>2. Writing BY <1>1 DEF ThisRun
<1>3. \A f \in Solution \X Nat :
        (Begun(f) <=> f[2] < Len(ret)) /\ (f[2] < Len(ret) => Ended(f))
  BY <1>1 DEF Begun, Ended, Place
<1>4. \A n : Intact(n)' <=> Intact(n) BY <1>1 DEF Intact
<1>5. ASSUME NEW f \in DOMAIN disk, Intact(f[2])
      PROVE  f[1] \in Solution /\ f[2] < Len(ret) /\ disk[f] = f[2] + 1
  <2>1. f \notin stuck /\ f \notin lost BY <1>5 DEF Intact
  <2>2. f[1] \in Solution /\ Begun(f) BY <1>2, <2>1 DEF Writing
  <2>3. f \in Solution \X Nat BY <2>2 DEF Numbered
  <2>4. f[2] < Len(ret) /\ Ended(f) BY <1>3, <2>2, <2>3
  <2> QED BY <1>2, <2>1, <2>2, <2>3, <2>4 DEF Writing
<1>6. ASSUME NEW n \in Nat, NEW k \in Solution, n < Len(ret), Intact(n)
      PROVE  File(k, n) \in DOMAIN disk
  <2>1. File(k, n) \in Solution \X Nat /\ File(k, n)[2] = n BY DEF File
  <2>2. Begun(File(k, n)) BY <1>3, <1>6, <2>1
  <2>3. File(k, n) \notin lost BY <1>6, <2>1 DEF Intact
  <2> QED BY <1>2, <2>1, <2>2, <2>3 DEF Writing
<1>7. ASSUME NEW n, Intact(n) PROVE File("report", n) \notin DOMAIN disk
  <2>1. File("report", n)[1] = "report" /\ File("report", n)[2] = n BY DEF File
  <2>2. "report" \notin Solution BY DEF Solution
  <2> QED BY <1>5, <1>7, <2>1, <2>2
<1>8. Verifying'
  <2>1. 1 .. Len(configs') = {} /\ 1 .. Len(checked') = {} BY <1>1
  <2> QED BY <1>1, <1>4, <1>5, <1>6, <1>7, <2>1 DEF Verifying
<1>9. Ordered'
  <2>1. Len(configs') = 0 /\ Len(checked') = 0 BY <1>1
  <2> QED BY <2>1 DEF Ordered
<1> QED BY <1>1, <1>8, <1>9 DEF ThisRun, Progress

LEMMA InterruptThisRun ==
  ASSUME ThisRun, Interrupt
  PROVE  ThisRun'
<1>1. /\ phase \in {"analysis", "remove", "write"} /\ phase' = "verify" /\ interrupted' # "no"
      /\ configs' = <<>> /\ checked' = <<>>
  BY DEF Interrupt, ThisRun, Progress
<1>2. Ordered'
  <2>1. Len(configs') = 0 /\ Len(checked') = 0 BY <1>1
  <2> QED BY <2>1 DEF Ordered
<1> QED BY <1>1, <1>2 DEF ThisRun, Progress

LEMMA MakeThisRun ==
  ASSUME ThisRun, Numbered, MakeConfiguration, Len(ret) \in Nat
  PROVE  ThisRun'
<1>1. PICK n \in FirstUnverified : /\ n \in Numbers("cppflags")
                                   /\ disk' = Put(File("h", n), disk[File("cppflags", n)])
                                   /\ configs' = Append(configs, n)
  BY DEF MakeConfiguration
<1>2. /\ phase = "verify" /\ checked = <<>>
      /\ UNCHANGED <<phase, interrupted, gcc, stuck, lost, current, step, checked, ret>>
  BY DEF MakeConfiguration, ThisRun, Progress, vars
<1>3. /\ n \in Nat /\ n \in Unverified /\ File("config", n) \in DOMAIN disk
      /\ \A m \in Unverified \ {n} : Earlier(n, m)
  BY FirstIs
<1>4. File("cppflags", n) \in DOMAIN disk BY <1>1, NumbersAre
<1>5. DOMAIN disk' = DOMAIN disk \cup {File("h", n)} BY <1>1, PutDomain
<1>6. /\ Len(configs) \in Nat /\ Len(configs') = Len(configs) + 1
      /\ \A i \in 1 .. Len(configs) : configs'[i] = configs[i]
      /\ configs'[Len(configs) + 1] = n
  BY <1>1, Appended DEF Numbered
<1>7. Len(checked) = 0 BY <1>2
<1>8. Ordered'
  <2>1. Ordered BY <1>2 DEF ThisRun, Progress
  <2>2. Unverified' \subseteq Unverified \ {n}
    <3>1. {g \in DOMAIN disk' : g[1] = "config"} = {g \in DOMAIN disk : g[1] = "config"}
      BY <1>5 DEF File
    <3>2. Numbers("config")' = Numbers("config") BY <3>1 DEF Numbers
    <3>3. configs \in Seq(Nat) /\ configs' \in Seq(Nat)
      BY <1>1, <1>3, AppendProperties DEF Numbered
    <3>4. DOMAIN configs = 1 .. Len(configs) /\ DOMAIN configs' = 1 .. Len(configs')
      BY <3>3
    <3>5. Len(configs) + 1 \in 1 .. Len(configs') BY <1>6
    <3>6. 1 .. Len(configs) \subseteq 1 .. Len(configs') BY <1>6
    <3> QED BY <1>6, <3>2, <3>4, <3>5, <3>6 DEF Unverified
  <2>3. \A i \in 1 .. Len(configs') : i \in 1 .. Len(configs) \/ i = Len(configs) + 1 BY <1>6
  <2>4. ASSUME NEW i \in 1 .. Len(configs'), NEW j \in 1 .. Len(configs'), i < j
        PROVE  Earlier(configs'[i], configs'[j])
    <3>1. i \in 1 .. Len(configs) BY <1>6, <2>4
    <3>2. CASE j \in 1 .. Len(configs) BY <1>6, <2>1, <2>4, <3>1, <3>2 DEF Ordered
    <3>3. CASE j = Len(configs) + 1 BY <1>3, <1>6, <2>1, <3>1, <3>3 DEF Ordered
    <3> QED BY <2>3, <3>2, <3>3
  <2>5. ASSUME NEW i \in 1 .. Len(configs'), NEW m \in Unverified'
        PROVE  Earlier(configs'[i], m)
    <3>1. CASE i \in 1 .. Len(configs) BY <1>6, <2>1, <2>2, <3>1 DEF Ordered
    <3>2. CASE i = Len(configs) + 1 BY <1>3, <1>6, <2>2, <3>2
    <3> QED BY <2>3, <3>1, <3>2
  <2>6. 1 .. Len(checked') = {} /\ Len(checked') <= Len(configs') BY <1>2, <1>6, <1>7
  <2>7. \A i, j \in 1 .. Len(configs') : i < j => Earlier(configs'[i], configs'[j]) BY <2>4
  <2>8. \A i \in 1 .. Len(configs'), m \in Unverified' : Earlier(configs'[i], m) BY <2>5
  <2> QED BY <2>6, <2>7, <2>8 DEF Ordered, Earlier
<1>9. ASSUME interrupted = "no" PROVE Verifying'
  <2>1. Verifying BY <1>2, <1>9 DEF ThisRun
  <2>2. \A m : Intact(m)' <=> Intact(m) BY <1>2 DEF Intact
  <2>3. ASSUME Intact(n) PROVE n < Len(ret) /\ disk'[File("h", n)] = n + 1
    <3>1. File("cppflags", n)[2] = n BY DEF File
    <3>2. n < Len(ret) /\ disk[File("cppflags", n)] = n + 1
      BY <1>4, <2>1, <2>3, <3>1 DEF Verifying
    <3> QED BY <1>1, <1>5, <3>2 DEF Put
  <2>4. ASSUME NEW f \in DOMAIN disk', Intact(f[2]) PROVE f[2] < Len(ret) /\ disk'[f] = f[2] + 1
    <3>1. CASE f = File("h", n)
      <4>1. f[2] = n BY <3>1 DEF File
      <4> QED BY <2>3, <2>4, <3>1, <4>1
    <3>2. CASE f # File("h", n)
      <4>1. f \in DOMAIN disk /\ disk'[f] = disk[f] BY <1>1, <1>5, <3>2 DEF Put
      <4> QED BY <2>1, <2>4, <4>1 DEF Verifying
    <3> QED BY <3>1, <3>2
  <2>5. \A m \in Nat : File("report", m) \in DOMAIN disk' => File("report", m) \in DOMAIN disk
    BY <1>5 DEF File
  <2>6. \A i \in 1 .. Len(configs') : File("h", configs'[i]) \in DOMAIN disk'
    <3>1. \A i \in 1 .. Len(configs') : i \in 1 .. Len(configs) \/ i = Len(configs) + 1 BY <1>6
    <3> QED BY <1>5, <1>6, <2>1, <3>1 DEF Verifying
  <2>7. 1 .. Len(checked') = {} /\ 1 .. Len(checked) = {} BY <1>2, <1>7
  <2>8. \A m \in Nat, k \in Solution : m < Len(ret) /\ Intact(m) => File(k, m) \in DOMAIN disk'
    BY <1>5, <2>1 DEF Verifying
  <2>9. \A m \in Nat : Intact(m) => File("report", m) \notin DOMAIN disk'
    BY <2>1, <2>5, <2>7 DEF Verifying
  <2> QED BY <1>2, <2>2, <2>4, <2>6, <2>7, <2>8, <2>9 DEF Verifying
<1> QED BY <1>2, <1>8, <1>9 DEF ThisRun, Progress

LEMMA VerifiedThisRun ==
  ASSUME ThisRun, Verified
  PROVE  ThisRun'
<1>1. /\ phase = "verify" /\ Unverified = {} /\ phase' = "check" /\ checked = <<>>
      /\ UNCHANGED <<interrupted, disk, stuck, lost, current, step, configs, checked, ret>>
  BY DEF Verified, ThisRun, Progress, vars, files
<1>2. Unverified' = {} BY <1>1, SameUnverified
<1>3. Ordered => Ordered'
  BY <1>1, <1>2 DEF Ordered
<1>4. Verifying => Verifying' BY <1>1 DEF Verifying, Intact
<1> QED BY <1>1, <1>2, <1>3, <1>4 DEF ThisRun, Progress

LEMMA CheckThisRun ==
  ASSUME ThisRun, Numbered, Check, Len(ret) \in Nat
  PROVE  ThisRun'
<1>0. PICK m, c, flags : /\ m = Len(checked) + 1 /\ c = configs[m]
                         /\ flags = disk[File("cppflags", c)]
  OBVIOUS
<1>1. PICK on \in Compiled(flags) : checked' = Append(checked, [conf |-> c, on |-> on])
  BY <1>0 DEF Check
<1>2. /\ phase = "check" /\ gcc /\ Len(checked) < Len(configs)
      /\ disk' = Put(File("report", c), flags)
      /\ UNCHANGED <<phase, interrupted, gcc, stuck, lost, current, step, configs, ret>>
  BY <1>0 DEF Check, vars
<1>3. DOMAIN disk' = DOMAIN disk \cup {File("report", c)} BY <1>2, PutDomain
<1>4. /\ Len(checked) \in Nat /\ Len(checked') = m
      /\ \A i \in 1 .. Len(checked) : checked'[i] = checked[i]
      /\ checked'[m] = [conf |-> c, on |-> on]
  BY <1>0, <1>1, Appended DEF Numbered
<1>5. configs \in Seq(Nat) /\ Len(configs) \in Nat BY DEF Numbered
<1>6. m \in 1 .. Len(configs) /\ c \in Nat BY <1>0, <1>2, <1>4, <1>5
<1>7. \A i \in 1 .. Len(checked') : i \in 1 .. Len(checked) \/ i = m BY <1>0, <1>4
<1>8. Unverified' = {}
  <2>1. Unverified = {} BY <1>2 DEF ThisRun, Progress
  <2> QED BY <1>2, <1>3, <2>1, SameUnverified
<1>9. Ordered'
  <2>1. Ordered BY <1>2 DEF ThisRun, Progress
  <2>2. Len(checked') <= Len(configs') BY <1>2, <1>4, <1>6
  <2>3. \A i \in 1 .. Len(checked') : checked'[i].conf = configs'[i]
    BY <1>0, <1>2, <1>4, <1>7, <2>1 DEF Ordered
  <2> QED BY <1>2, <1>8, <2>1, <2>2, <2>3 DEF Ordered
<1>10. ASSUME interrupted = "no" PROVE Verifying'
  <2>1. Verifying BY <1>2, <1>10 DEF ThisRun
  <2>2. \A n : Intact(n)' <=> Intact(n) BY <1>2 DEF Intact
  <2>3. ASSUME Intact(c)
        PROVE  c < Len(ret) /\ flags = c + 1 /\ on = ret[c + 1].on
    <3>1. File("h", c) \in DOMAIN disk BY <1>0, <1>6, <2>1 DEF Verifying
    <3>2. File("h", c)[2] = c /\ File("cppflags", c)[2] = c BY DEF File
    <3>3. c < Len(ret) BY <2>1, <2>3, <3>1, <3>2 DEF Verifying
    <3>4. "cppflags" \in Solution BY DEF Solution
    <3>5. File("cppflags", c) \in DOMAIN disk BY <1>6, <2>1, <2>3, <3>3, <3>4 DEF Verifying
    <3>6. flags = c + 1 BY <1>0, <2>1, <2>3, <3>2, <3>5 DEF Verifying
    <3>7. Compiled(flags) = {ret[c + 1].on} BY <1>6, <3>6 DEF Compiled
    <3> QED BY <1>1, <3>3, <3>6, <3>7
  <2>4. ASSUME NEW f \in DOMAIN disk', Intact(f[2]) PROVE f[2] < Len(ret) /\ disk'[f] = f[2] + 1
    <3>1. CASE f = File("report", c)
      <4>1. f[2] = c BY <3>1 DEF File
      <4>2. disk'[f] = flags BY <1>2, <3>1 DEF Put
      <4> QED BY <2>3, <2>4, <4>1, <4>2
    <3>2. CASE f # File("report", c)
      <4>1. f \in DOMAIN disk /\ disk'[f] = disk[f] BY <1>2, <1>3, <3>2 DEF Put
      <4> QED BY <2>1, <2>4, <4>1 DEF Verifying
    <3> QED BY <3>1, <3>2
  <2>5. ASSUME NEW n \in Nat, Intact(n), File("report", n) \in DOMAIN disk'
        PROVE  \E i \in 1 .. Len(checked') : checked'[i].conf = n
    <3>1. CASE n = c
      <4>1. m \in 1 .. Len(checked') BY <1>0, <1>4
      <4> QED BY <1>4, <3>1, <4>1
    <3>2. CASE n # c
      <4>1. File("report", n) \in DOMAIN disk BY <1>3, <2>5, <3>2 DEF File
      <4>2. PICK i \in 1 .. Len(checked) : checked[i].conf = n
        BY <2>1, <2>5, <4>1 DEF Verifying
      <4>3. i \in 1 .. Len(checked') BY <1>0, <1>4
      <4> QED BY <1>4, <4>2, <4>3
    <3> QED BY <3>1, <3>2
  <2>6. ASSUME NEW i \in 1 .. Len(checked')
        PROVE  /\ File("report", configs[i]) \in DOMAIN disk'
               /\ Intact(configs[i]) =>
                    checked'[i] = [conf |-> configs[i], on |-> ret[configs[i] + 1].on]
    <3>1. CASE i = m BY <1>0, <1>3, <1>4, <2>3, <3>1
    <3>2. CASE i \in 1 .. Len(checked) BY <1>3, <1>4, <2>1, <3>2 DEF Verifying
    <3> QED BY <1>7, <3>1, <3>2
  <2>7. \A n \in Nat, k \in Solution : n < Len(ret) /\ Intact(n) => File(k, n) \in DOMAIN disk'
    BY <1>3, <2>1 DEF Verifying
  <2>8. \A i \in 1 .. Len(configs) : File("h", configs[i]) \in DOMAIN disk'
    BY <1>3, <2>1 DEF Verifying
  <2> QED BY <1>2, <2>2, <2>4, <2>5, <2>6, <2>7, <2>8 DEF Verifying
<1> QED BY <1>2, <1>8, <1>9, <1>10 DEF ThisRun, Progress

LEMMA ReportThisRun ==
  ASSUME ThisRun, Report
  PROVE  ThisRun'
<1>1. /\ phase = "check" /\ (gcc => Len(checked) = Len(configs)) /\ phase' = "end"
      /\ UNCHANGED <<interrupted, gcc, disk, stuck, lost, current, step, configs, checked, ret>>
  BY DEF Report, vars, files
<1>2. Unverified' = Unverified BY <1>1, SameUnverified
<1>3. Ordered => Ordered' BY <1>1, <1>2 DEF Ordered
<1>4. Verifying => Verifying' BY <1>1 DEF Verifying, Intact
<1> QED BY <1>1, <1>2, <1>3, <1>4 DEF ThisRun, Progress

LEMMA VampyrThisRun ==
  ASSUME ThisRun, Numbered, Len(ret) \in Nat, [VampyrNext]_all
  PROVE  ThisRun'
<1>1. CASE Analyse \/ Analysed BY <1>1 DEF Analyse, Analysed, run, files, ThisRun, Progress
<1>2. CASE RemoveNext BY <1>2 DEF RemoveNext, ThisRun, Progress
<1>3. CASE CannotMake \/ CannotReport BY <1>3 DEF CannotMake, CannotReport, ThisRun, Progress
<1>4. CASE UNCHANGED all
  <2>1. UNCHANGED <<phase, interrupted, gcc, disk, stuck, lost, current, step, configs, checked, ret>>
    BY <1>4 DEF all, run, vars, files
  <2>2. Writing => Writing' BY <2>1 DEF Writing, Begun, Ended
  <2>3. Verifying => Verifying' BY <2>1 DEF Verifying, Intact
  <2>4. Unverified' = Unverified BY <2>1, SameUnverified
  <2>5. Ordered => Ordered' BY <2>1, <2>4 DEF Ordered
  <2> QED BY <2>1, <2>2, <2>3, <2>4, <2>5 DEF ThisRun, Progress
<1> QED
  BY <1>1, <1>2, <1>3, <1>4, RemovedThisRun, OpenThisRun, FlushThisRun, WrittenThisRun,
     InterruptThisRun, MakeThisRun, VerifiedThisRun, CheckThisRun, ReportThisRun DEF VampyrNext

\* At the end of a run nobody interrupted.
LEMMA EndedThisRun ==
  ASSUME ThisRun, Numbered, phase = "end", interrupted = "no", Len(ret) \in Nat
  PROVE  DiskIsThisRun
<1>1. /\ Ordered /\ Verifying /\ Unverified = {} /\ (gcc \/ checked = <<>>)
      /\ gcc => Len(checked) = Len(configs)
  BY DEF ThisRun, Progress
<1>2. /\ DOMAIN checked = 1 .. Len(checked) /\ Len(checked) \in Nat
      /\ DOMAIN configs = 1 .. Len(configs) /\ Len(configs) \in Nat
  BY LenProperties DEF Numbered
<1>3. \A f \in DOMAIN disk : Intact(f[2]) => f[2] < Len(ret) /\ disk[f] = f[2] + 1
  BY <1>1 DEF Verifying
<1>4. ASSUME NEW i \in DOMAIN checked, NEW j \in DOMAIN checked, i < j
      PROVE  Earlier(checked[i].conf, checked[j].conf)
  <2>1. checked[i].conf = configs[i] /\ checked[j].conf = configs[j]
    BY <1>1, <1>2 DEF Ordered
  <2>2. Len(checked) <= Len(configs) BY <1>1 DEF Ordered
  <2>3. i \in 1 .. Len(configs) /\ j \in 1 .. Len(configs) BY <1>2, <2>2
  <2>4. Earlier(configs[i], configs[j]) BY <1>1, <1>4, <2>3 DEF Ordered
  <2> QED BY <2>1, <2>4
<1>5. ASSUME NEW n \in 0 .. Len(ret) - 1, Intact(n)
      PROVE  /\ \A k \in Kinds \ {"report"} : File(k, n) \in DOMAIN disk
             /\ File("report", n) \in DOMAIN disk <=> gcc
             /\ gcc => \E i \in DOMAIN checked : checked[i] = [conf |-> n, on |-> ret[n + 1].on]
  <2>1. n \in Nat /\ n < Len(ret) OBVIOUS
  <2>2. \A k \in Solution : File(k, n) \in DOMAIN disk BY <1>1, <1>5, <2>1 DEF Verifying
  <2>3. n \in Numbers("config") BY <2>2, NumbersAre DEF Solution
  <2>4. PICK i \in 1 .. Len(configs) : configs[i] = n BY <1>1, <1>2, <2>3 DEF Unverified
  <2>5. File("h", n) \in DOMAIN disk BY <1>1, <2>4 DEF Verifying
  <2>6. \A k \in Kinds \ {"report"} : File(k, n) \in DOMAIN disk
    BY <2>2, <2>5, KindsAre DEF Solution
  <2>7. ASSUME gcc
        PROVE  /\ File("report", n) \in DOMAIN disk /\ i \in DOMAIN checked
               /\ checked[i] = [conf |-> n, on |-> ret[n + 1].on]
    <3>1. i \in 1 .. Len(checked) BY <1>1, <2>7
    <3>2. /\ File("report", configs[i]) \in DOMAIN disk
          /\ checked[i] = [conf |-> configs[i], on |-> ret[configs[i] + 1].on]
      BY <1>1, <1>5, <2>4, <3>1 DEF Verifying
    <3> QED BY <1>2, <2>4, <3>1, <3>2
  <2>8. ASSUME File("report", n) \in DOMAIN disk, ~gcc PROVE FALSE
    <3>1. 1 .. Len(checked) = {} BY <1>1, <2>8
    <3> QED BY <1>1, <1>5, <2>1, <2>8, <3>1 DEF Verifying
  <2> QED BY <2>6, <2>7, <2>8
<1> QED BY <1>3, <1>4, <1>5 DEF DiskIsThisRun

\* For every list of configurations, whatever leftovers of earlier runs and whatever fails
\* to be removed, opened or written: a run nobody interrupted leaves on disk, under every
\* number no such error was about, its own list, and that is what was compiled, in the order
\* of the names.
THEOREM DiskShowsThisRun == VampyrSpec => []DiskIsThisRun
<1> DEFINE I == IInv /\ ListInv /\ Fresh /\ Numbered /\ ThisRun
<1>1. VampyrInit => I
  <2>1. Init => ListInv /\ Fresh BY DEF Init, ListInv, Fresh, NoneRedundant
  <2>2. VampyrInit => ThisRun BY DEF VampyrInit, ThisRun, Progress
  <2> QED BY <2>1, <2>2, InitIInv, InitNumbered DEF VampyrInit
<1>2. IInv => Len(ret) \in Nat BY DEF IInv, TypeOK
<1>3. I /\ [VampyrNext]_all => I'
  BY <1>2, VampyrKeepsAnalysis, VampyrNumbered, VampyrThisRun
<1>4. I => DiskIsThisRun BY <1>2, EndedThisRun DEF DiskIsThisRun
<1> QED BY <1>1, <1>3, <1>4, PTL DEF VampyrSpec

-----------------------------------------------------------------------------
(* vampyr: the report of the messages.                                       *)

\* A message of the report.
Message ==
    [loc : {Warnings[i].loc : i \in DOMAIN Warnings},
     text : {Warnings[i].text : i \in DOMAIN Warnings}, conf : Nat, in : SUBSET Nat]

\* The containers after each message of Warnings.
AddRun(c, on, E) == LET A[n \in 0 .. Len(Warnings)] == AddStep(c, on, E, A, n) IN A

LEMMA WarningsCount == Len(Warnings) \in Nat /\ DOMAIN Warnings = 1 .. Len(Warnings)
BY WarningsAssumption

LEMMA AddExists ==
  ASSUME NEW c, NEW on, NEW E, NEW n \in 0 .. Len(Warnings)
  PROVE  \E A : A = [k \in 0 .. n |-> AddStep(c, on, E, A, k)]
<1> DEFINE Bad == {k \in 0 .. Len(Warnings) :
                     ~\E A : A = [j \in 0 .. k |-> AddStep(c, on, E, A, j)]}
<1>1. SUFFICES ASSUME Bad # {} PROVE FALSE OBVIOUS
<1>2. PICK k \in Bad : \A m \in Bad : k <= m
  <2>1. Bad \in SUBSET Nat BY WarningsCount
  <2> HIDE DEF Bad
  <2> QED BY <1>1, <2>1, LeastNumber
<1>3. k # 0
  <2>1. 0 .. 0 = {0} OBVIOUS
  <2>2. [j \in 0 .. 0 |-> {E}] = [j \in 0 .. 0 |-> AddStep(c, on, E, [i \in 0 .. 0 |-> {E}], j)]
    BY <2>1 DEF AddStep
  <2> QED BY <2>2
<1>4. k - 1 \in 0 .. Len(Warnings) /\ k - 1 \notin Bad /\ k \in 1 .. Len(Warnings)
  BY <1>2, <1>3, WarningsCount
<1>5. PICK A : A = [j \in 0 .. k - 1 |-> AddStep(c, on, E, A, j)] BY <1>4
<1> DEFINE B == [j \in 0 .. k |-> IF j = k THEN AddStep(c, on, E, A, k) ELSE A[j]]
<1>6. \A j \in 0 .. k : AddStep(c, on, E, B, j) = AddStep(c, on, E, A, j)
  <2>1. \A j \in 0 .. k - 1 : B[j] = A[j] BY <1>4
  <2> HIDE DEF B
  <2>2. ASSUME NEW j \in 0 .. k PROVE AddStep(c, on, E, B, j) = AddStep(c, on, E, A, j)
    <3>1. CASE j = 0 BY <3>1 DEF AddStep
    <3>2. CASE j # 0
      <4>1. j - 1 \in 0 .. k - 1 BY <1>4, <3>2
      <4>2. B[j - 1] = A[j - 1] BY <2>1, <4>1
      <4> QED BY <3>2, <4>2 DEF AddStep
    <3> QED BY <3>1, <3>2
  <2> QED BY <2>2
<1>7. \A j \in 0 .. k : B[j] = AddStep(c, on, E, A, j)
  <2>1. \A j \in 0 .. k - 1 : A[j] = AddStep(c, on, E, A, j) BY <1>5
  <2>2. ASSUME NEW j \in 0 .. k PROVE B[j] = AddStep(c, on, E, A, j)
    <3>1. CASE j = k BY <3>1
    <3>2. CASE j # k
      <4>1. j \in 0 .. k - 1 BY <1>4, <3>2
      <4>2. B[j] = A[j] BY <3>2
      <4> QED BY <2>1, <4>1, <4>2
    <3> QED BY <3>1, <3>2
  <2> QED BY <2>2
<1>8. B = [j \in 0 .. k |-> AddStep(c, on, E, B, j)]
  <2>1. B = [j \in 0 .. k |-> B[j]] OBVIOUS
  <2> HIDE DEF B
  <2> QED BY <1>6, <1>7, <2>1
<1>9. \E A2 : A2 = [j \in 0 .. k |-> AddStep(c, on, E, A2, j)]
  <2> HIDE DEF B
  <2> QED BY <1>8
<1> QED BY <1>2, <1>9

LEMMA AddEquation ==
  ASSUME NEW c, NEW on, NEW E, NEW n \in 0 .. Len(Warnings)
  PROVE  AddRun(c, on, E)[n] = AddStep(c, on, E, AddRun(c, on, E), n)
<1>1. PICK N \in 0 .. Len(Warnings) : N = Len(Warnings)
  <2>1. Len(Warnings) \in 0 .. Len(Warnings) BY WarningsCount
  <2> QED BY <2>1
<1>2. \E A : A = [k \in 0 .. Len(Warnings) |-> AddStep(c, on, E, A, k)]
  <2>1. \E A : A = [k \in 0 .. N |-> AddStep(c, on, E, A, k)] BY SMTT(30), AddExists
  <2> QED BY <1>1, <2>1
<1>3. AddRun(c, on, E) = [k \in 0 .. Len(Warnings) |-> AddStep(c, on, E, AddRun(c, on, E), k)]
  BY <1>2, Zenon DEF AddRun
<1> QED BY <1>3

\* What a container keeps, and what it has of the first n messages: each record of E is
\* there with its configurations; those made here are about lines gcc spoke of; and the
\* first message about a line is there, with the configuration.
Kept(E, F) ==
    \A r \in E : \E q \in F :
      q.loc = r.loc /\ q.text = r.text /\ q.conf = r.conf /\ r.in \subseteq q.in

Made(c, on, n, F) ==
    \A r \in F : r.conf = c => \E k \in Given(on) : k <= n /\ Warnings[k].loc = r.loc

Owners(c, E, F) == \A r \in F : r.conf = c \/ \E q \in E : q.conf = r.conf

First(on, n) == \A k \in Given(on) : k < n => Warnings[k].loc # Warnings[n].loc

Reported(c, n, F) ==
    \E r \in F : r.loc = Warnings[n].loc /\ r.text = Warnings[n].text /\ c \in r.in

Told(c, on, n, F) == \A k \in Given(on) : k <= n /\ First(on, k) => Reported(c, k, F)

AddedWell(c, on, E, n, F) ==
    /\ F \subseteq Message
    /\ Kept(E, F) /\ Made(c, on, n, F) /\ Owners(c, E, F) /\ Told(c, on, n, F)

\* A record is replaced by one with more configurations.
LEMMA MoreConfigurations ==
  ASSUME NEW r \in Message, NEW c \in Nat, NEW q, q = [r EXCEPT !.in = @ \cup {c}]
  PROVE  /\ q \in Message /\ q.loc = r.loc /\ q.text = r.text /\ q.conf = r.conf
         /\ q.in = r.in \cup {c}
BY DEF Message

LEMMA ReportedKept ==
  ASSUME NEW c, NEW n, NEW E, NEW F, Kept(E, F), Reported(c, n, E)
  PROVE  Reported(c, n, F)
<1>1. PICK r \in E : r.loc = Warnings[n].loc /\ r.text = Warnings[n].text /\ c \in r.in
  BY DEF Reported
<1>2. PICK q \in F : q.loc = r.loc /\ q.text = r.text /\ q.conf = r.conf /\ r.in \subseteq q.in
  BY DEF Kept
<1> QED BY <1>1, <1>2 DEF Reported

LEMMA KeptTwice ==
  ASSUME NEW D, NEW E, NEW F, Kept(D, E), Kept(E, F)
  PROVE  Kept(D, F)
<1>1. ASSUME NEW r \in D
      PROVE  \E q \in F :
               q.loc = r.loc /\ q.text = r.text /\ q.conf = r.conf /\ r.in \subseteq q.in
  <2>1. PICK p \in E : p.loc = r.loc /\ p.text = r.text /\ p.conf = r.conf /\ r.in \subseteq p.in
    BY DEF Kept
  <2>2. PICK q \in F : q.loc = p.loc /\ q.text = p.text /\ q.conf = p.conf /\ p.in \subseteq q.in
    BY DEF Kept
  <2> QED BY <2>1, <2>2
<1> QED BY <1>1 DEF Kept

\* One message more: a new record, or a configuration more for an equal one.
LEMMA AddOne ==
  ASSUME NEW c \in Nat, NEW on, NEW E, NEW n \in 1 .. Len(Warnings), n \in Given(on),
         NEW G, AddedWell(c, on, E, n - 1, G), NEW F \in Added(c, Warnings[n], G)
  PROVE  AddedWell(c, on, E, n, F)
<1> DEFINE m == Warnings[n]
           same == {r \in G : Equal(r, c, m)}
           new == [loc |-> m.loc, text |-> m.text, conf |-> c, in |-> {c}]
<1>1. n \in Nat /\ n \in DOMAIN Warnings BY WarningsCount
<1>2. G \subseteq Message /\ Made(c, on, n - 1, G) /\ Owners(c, E, G) /\ Told(c, on, n - 1, G)
      /\ Kept(E, G)
  BY DEF AddedWell
<1>3. Given(on) \subseteq Nat BY WarningsCount DEF Given
<1>4. CASE same = {}
  <2>1. F = G \cup {new} BY <1>4 DEF Added
  <2>2. /\ new \in Message /\ new.loc = m.loc /\ new.text = m.text /\ new.conf = c /\ c \in new.in
    BY <1>1 DEF Message
  <2> HIDE DEF new
  <2>3. Kept(G, F) BY <2>1 DEF Kept
  <2>4. Made(c, on, n, F)
    <3>1. \A k \in Given(on) : k <= n - 1 => k <= n BY <1>1, <1>3
    <3> QED BY <1>1, <1>2, <2>1, <2>2, <3>1 DEF Made
  <2>5. Owners(c, E, F) BY <1>2, <2>1, <2>2 DEF Owners
  <2>6. Reported(c, n, F) BY <2>1, <2>2 DEF Reported
  <2>7. Told(c, on, n, F)
    <3>1. ASSUME NEW k \in Given(on), k <= n, First(on, k) PROVE Reported(c, k, F)
      <4>1. CASE k = n BY <2>6, <4>1
      <4>2. CASE k # n
        <5>1. k <= n - 1 BY <1>1, <1>3, <3>1, <4>2
        <5>2. Reported(c, k, G) BY <1>2, <3>1, <5>1 DEF Told
        <5> QED BY <2>3, <5>2, ReportedKept
      <4> QED BY <4>1, <4>2
    <3> QED BY <3>1 DEF Told
  <2>8. F \subseteq Message BY <1>2, <2>1, <2>2
  <2>9. Kept(E, F) BY <1>2, <2>3, KeptTwice
  <2> QED BY <2>4, <2>5, <2>7, <2>8, <2>9 DEF AddedWell
<1>5. CASE same # {}
  <2>1. F \in {(G \ {r}) \cup {[r EXCEPT !.in = @ \cup {c}]} : r \in same}
    BY <1>5 DEF Added
  <2>2. PICK r \in same : F = (G \ {r}) \cup {[r EXCEPT !.in = @ \cup {c}]} BY <2>1
  <2>3. PICK q : q = [r EXCEPT !.in = @ \cup {c}] OBVIOUS
  <2>4. r \in G /\ Equal(r, c, m) /\ r \in Message BY <1>2
  <2>5. /\ q \in Message /\ q.loc = r.loc /\ q.text = r.text /\ q.conf = r.conf
        /\ q.in = r.in \cup {c}
    BY <2>3, <2>4, MoreConfigurations
  <2>6. F = (G \ {r}) \cup {q} BY <2>2, <2>3
  <2>7. Kept(G, F) BY <2>5, <2>6 DEF Kept
  <2>8. Made(c, on, n, F)
    <3>1. \A k \in Given(on) : k <= n - 1 => k <= n BY <1>1, <1>3
    <3>2. \A p \in F : \E g \in G : g.conf = p.conf /\ g.loc = p.loc BY <2>4, <2>5, <2>6
    <3>3. ASSUME NEW p \in F, p.conf = c PROVE \E k \in Given(on) : k <= n /\ Warnings[k].loc = p.loc
      <4>1. PICK g \in G : g.conf = p.conf /\ g.loc = p.loc BY <3>2
      <4>2. PICK k \in Given(on) : k <= n - 1 /\ Warnings[k].loc = g.loc BY <1>2, <3>3, <4>1 DEF Made
      <4> QED BY <3>1, <4>1, <4>2
    <3> QED BY <3>3 DEF Made
  <2>9. Owners(c, E, F) BY <1>2, <2>4, <2>5, <2>6 DEF Owners
  <2>10. First(on, n) => Reported(c, n, F)
    <3>1. SUFFICES ASSUME First(on, n) PROVE Reported(c, n, F) OBVIOUS
    <3>2. ~(r.conf = c /\ r.loc = m.loc)
      <4>1. SUFFICES ASSUME r.conf = c, r.loc = m.loc PROVE FALSE OBVIOUS
      <4>2. PICK k \in Given(on) : k <= n - 1 /\ Warnings[k].loc = r.loc
        BY <1>2, <2>4, <4>1 DEF Made
      <4>3. k < n BY <1>1, <1>3, <4>2
      <4> QED BY <3>1, <4>1, <4>2, <4>3 DEF First
    <3>3. r.loc = m.loc /\ r.text = m.text BY <2>4, <3>2 DEF Equal
    <3> QED BY <2>5, <2>6, <3>3 DEF Reported
  <2>11. Told(c, on, n, F)
    <3>1. ASSUME NEW k \in Given(on), k <= n, First(on, k) PROVE Reported(c, k, F)
      <4>1. CASE k = n BY <2>10, <3>1, <4>1
      <4>2. CASE k # n
        <5>1. k <= n - 1 BY <1>1, <1>3, <3>1, <4>2
        <5>2. Reported(c, k, G) BY <1>2, <3>1, <5>1 DEF Told
        <5> QED BY <2>7, <5>2, ReportedKept
      <4> QED BY <4>1, <4>2
    <3> QED BY <3>1 DEF Told
  <2>12. F \subseteq Message BY <1>2, <2>5, <2>6
  <2>13. Kept(E, F) BY <1>2, <2>7, KeptTwice
  <2> QED BY <2>8, <2>9, <2>11, <2>12, <2>13 DEF AddedWell
<1> QED BY <1>4, <1>5

\* All that gcc says of one configuration, in every order in which the set may be met.
LEMMA AddAllWell ==
  ASSUME NEW c \in Nat, NEW on, NEW E \in SUBSET Message, \A r \in E : r.conf # c,
         NEW F \in AddAll(c, on, E)
  PROVE  AddedWell(c, on, E, Len(Warnings), F)
<1> DEFINE A == AddRun(c, on, E)
           Bad == {n \in 0 .. Len(Warnings) : ~\A G \in A[n] : AddedWell(c, on, E, n, G)}
<1>1. Len(Warnings) \in Nat BY WarningsCount
<1>2. Bad = {}
  <2>1. SUFFICES ASSUME Bad # {} PROVE FALSE OBVIOUS
  <2>2. PICK n \in Bad : \A k \in Bad : n <= k
    <3>1. Bad \in SUBSET Nat BY <1>1
    <3> HIDE DEF Bad
    <3> QED BY <2>1, <3>1, LeastNumber
  <2>3. n \in 0 .. Len(Warnings) OBVIOUS
  <2>4. A[n] = AddStep(c, on, E, A, n) BY <2>3, AddEquation
  <2>5. n # 0
    <3>1. SUFFICES ASSUME n = 0 PROVE FALSE OBVIOUS
    <3>2. A[n] = {E} BY <2>4, <3>1 DEF AddStep
    <3>3. AddedWell(c, on, E, 0, E)
      <4>1. Given(on) \subseteq 1 .. Len(Warnings) BY WarningsCount DEF Given
      <4>2. \A k \in Given(on) : ~(k <= 0) BY <1>1, <4>1
      <4> QED BY <4>2 DEF AddedWell, Kept, Made, Owners, Told
    <3> QED BY <3>1, <3>2, <3>3
  <2>6. n - 1 \in 0 .. Len(Warnings) /\ n \in 1 .. Len(Warnings) /\ n - 1 \notin Bad
    BY <1>1, <2>2, <2>3, <2>5
  <2>7. \A G \in A[n - 1] : AddedWell(c, on, E, n - 1, G) BY <2>6
  <2> HIDE DEF A
  <2>8. CASE n \in Given(on)
    <3>1. A[n] = UNION {Added(c, Warnings[n], G) : G \in A[n - 1]} BY <2>4, <2>5, <2>8 DEF AddStep
    <3>2. ASSUME NEW F2 \in A[n] PROVE AddedWell(c, on, E, n, F2)
      <4>1. PICK G \in A[n - 1] : F2 \in Added(c, Warnings[n], G) BY <3>1
      <4>2. AddedWell(c, on, E, n - 1, G) BY <2>7
      <4> QED BY <2>6, <2>8, <4>1, <4>2, AddOne
    <3> QED BY <3>2
  <2>9. CASE n \notin Given(on)
    <3>1. A[n] = A[n - 1] BY <2>4, <2>5, <2>9 DEF AddStep
    <3>2. \A k \in Given(on) : k <= n <=> k <= n - 1
      <4>1. Given(on) \subseteq 1 .. Len(Warnings) BY WarningsCount DEF Given
      <4> QED BY <1>1, <2>6, <2>9, <4>1
    <3>3. ASSUME NEW G \in A[n] PROVE AddedWell(c, on, E, n, G)
      <4>1. AddedWell(c, on, E, n - 1, G) BY <2>7, <3>1
      <4> QED BY <3>2, <4>1 DEF AddedWell, Made, Told
    <3> QED BY <3>3
  <2> QED BY <2>8, <2>9
<1>3. F \in A[Len(Warnings)] BY DEF AddAll, AddRun
<1>4. Len(Warnings) \in 0 .. Len(Warnings) BY <1>1
<1> QED BY <1>2, <1>3, <1>4

\* What the report has. The configurations are told apart by their numbers.
ReportInv ==
    /\ \A i, j \in 1 .. Len(configs) : i < j => configs[i] # configs[j]
    /\ Len(checked) <= Len(configs)
    /\ \A i \in 1 .. Len(checked) : checked[i].conf = configs[i]
    /\ errors \subseteq Message
    /\ \A r \in errors : \E i \in 1 .. Len(checked) : r.conf = configs[i]

LEMMA ReportedIs ==
  ASSUME Numbered
  PROVE  FirstMessageReported <=>
           \A i \in 1 .. Len(checked) : \A n \in Given(checked[i].on) :
             First(checked[i].on, n) => Reported(checked[i].conf, n, errors)
<1>1. DOMAIN checked = 1 .. Len(checked) BY DEF Numbered
<1> QED BY <1>1, Zenon DEF FirstMessageReported, First, Reported

LEMMA MakeReport ==
  ASSUME Numbered, ReportInv, MakeConfiguration
  PROVE  ReportInv'
<1>1. PICK n \in FirstUnverified : configs' = Append(configs, n) BY DEF MakeConfiguration
<1>2. checked' = checked /\ errors' = errors BY DEF MakeConfiguration
<1>3. n \in Nat /\ n \in Unverified BY FirstIs
<1>4. configs \in Seq(Nat) /\ Len(configs) \in Nat /\ Len(checked) \in Nat
      /\ DOMAIN configs = 1 .. Len(configs)
  BY LenProperties DEF Numbered
<1>5. \A i \in 1 .. Len(configs) : configs[i] # n BY <1>3, <1>4 DEF Unverified
<1>6. /\ Len(configs') = Len(configs) + 1 /\ configs'[Len(configs) + 1] = n
      /\ \A i \in 1 .. Len(configs) : configs'[i] = configs[i]
  BY <1>1, Appended DEF Numbered
<1>7. ASSUME NEW i \in 1 .. Len(configs'), NEW j \in 1 .. Len(configs'), i < j
      PROVE  configs'[i] # configs'[j]
  <2>1. i \in 1 .. Len(configs) BY <1>4, <1>6, <1>7
  <2>2. CASE j = Len(configs) + 1 BY <1>5, <1>6, <2>1, <2>2
  <2>3. CASE j # Len(configs) + 1
    <3>1. j \in 1 .. Len(configs) BY <1>4, <1>6, <2>3
    <3> QED BY <1>6, <1>7, <2>1, <3>1 DEF ReportInv
  <2> QED BY <2>2, <2>3
<1>8. \A i \in 1 .. Len(checked) : i \in 1 .. Len(configs) BY <1>4 DEF ReportInv
<1>9. Len(checked) <= Len(configs') BY <1>4, <1>6 DEF ReportInv
<1>10. \A i \in 1 .. Len(checked) : checked[i].conf = configs'[i] BY <1>6, <1>8 DEF ReportInv
<1>11. \A r \in errors : \E i \in 1 .. Len(checked) : r.conf = configs'[i]
  BY <1>6, <1>8 DEF ReportInv
<1>12. errors \subseteq Message BY DEF ReportInv
<1> QED BY <1>2, <1>7, <1>9, <1>10, <1>11, <1>12 DEF ReportInv

LEMMA CheckReport ==
  ASSUME Numbered, ReportInv, FirstMessageReported, Check, Numbered'
  PROVE  ReportInv' /\ FirstMessageReported'
<1> DEFINE k == Len(checked) + 1
           c == configs[k]
<1>1. configs \in Seq(Nat) /\ Len(configs) \in Nat /\ Len(checked) \in Nat BY DEF Numbered
<1>2. k \in 1 .. Len(configs) /\ c \in Nat BY <1>1 DEF Check
<1>3. PICK on : checked' = Append(checked, [conf |-> c, on |-> on])
                /\ errors' \in AddAll(c, on, errors)
  BY DEF Check
<1>4. configs' = configs BY DEF Check
<1> DEFINE last == [conf |-> c, on |-> on]
<1>5. /\ Len(checked') = k /\ checked'[k] = last
      /\ \A i \in 1 .. Len(checked) : checked'[i] = checked[i]
  <2>1. PICK S : checked \in Seq(S) BY DEF Numbered
  <2> HIDE DEF last
  <2> QED BY <1>3, <2>1 DEF last
<1>6. last.conf = c /\ last.on = on OBVIOUS
<1> HIDE DEF last, c
<1>7. errors \in SUBSET Message BY DEF ReportInv
<1>8. ASSUME NEW r \in errors PROVE r.conf # c
  <2>1. PICK i \in 1 .. Len(checked) : r.conf = configs[i] BY DEF ReportInv
  <2>2. i \in 1 .. Len(configs) /\ i < k BY <1>1, <1>2
  <2>3. configs[i] # configs[k] BY <1>1, <1>2, <2>2 DEF ReportInv
  <2> QED BY <2>1, <2>3 DEF c
<1>9. AddedWell(c, on, errors, Len(Warnings), errors')
  BY <1>2, <1>3, <1>7, <1>8, AddAllWell
<1>10. /\ errors' \subseteq Message /\ Kept(errors, errors') /\ Owners(c, errors, errors')
       /\ Told(c, on, Len(Warnings), errors')
  BY <1>9 DEF AddedWell
<1>11. ReportInv'
  <2>1. \A i \in 1 .. k : checked'[i].conf = configs[i]
    <3>1. ASSUME NEW i \in 1 .. k PROVE checked'[i].conf = configs[i]
      <4>1. CASE i = k BY <1>5, <1>6, <4>1 DEF c
      <4>2. CASE i # k
        <5>1. i \in 1 .. Len(checked) BY <1>1, <4>2
        <5> QED BY <1>5, <5>1 DEF ReportInv
      <4> QED BY <4>1, <4>2
    <3> QED BY <3>1
  <2>2. ASSUME NEW r \in errors' PROVE \E i \in 1 .. k : r.conf = configs[i]
    <3>1. CASE r.conf = c
      <4>1. k \in 1 .. k BY <1>1
      <4> QED BY <3>1, <4>1 DEF c
    <3>2. CASE r.conf # c
      <4>1. PICK q \in errors : q.conf = r.conf BY <1>10, <3>2 DEF Owners
      <4>2. PICK i \in 1 .. Len(checked) : q.conf = configs[i] BY DEF ReportInv
      <4>3. i \in 1 .. k BY <1>1
      <4> QED BY <4>1, <4>2, <4>3
    <3> QED BY <3>1, <3>2
  <2>3. k <= Len(configs) BY <1>2
  <2> HIDE DEF k
  <2> QED BY <1>4, <1>5, <1>10, <2>1, <2>2, <2>3 DEF ReportInv
<1>12. ASSUME NEW i \in 1 .. Len(checked'), NEW n \in Given(checked'[i].on),
              First(checked'[i].on, n)
       PROVE  Reported(checked'[i].conf, n, errors')
  <2>1. CASE i = k
    <3>1. n \in Given(on) /\ First(on, n) BY <1>5, <1>6, <1>12, <2>1
    <3>2. n <= Len(Warnings) BY <3>1, WarningsCount DEF Given
    <3>3. Reported(c, n, errors') BY <1>10, <3>1, <3>2 DEF Told
    <3> QED BY <1>5, <1>6, <2>1, <3>3
  <2>2. CASE i # k
    <3>1. i \in 1 .. Len(checked) BY <1>1, <1>5, <2>2
    <3>2. Reported(checked[i].conf, n, errors) BY <1>5, <1>12, <3>1, ReportedIs
    <3>3. Reported(checked[i].conf, n, errors') BY <1>10, <3>2, ReportedKept
    <3> QED BY <1>5, <3>1, <3>3
  <2> QED BY <2>1, <2>2
<1>13. Numbered' => (FirstMessageReported' <=>
         \A i \in 1 .. Len(checked') : \A n \in Given(checked'[i].on) :
           First(checked'[i].on, n) => Reported(checked'[i].conf, n, errors'))
  <2>1. Numbered' => DOMAIN checked' = 1 .. Len(checked') BY DEF Numbered
  <2> QED BY <2>1, Zenon DEF FirstMessageReported, First, Reported, Given
<1> QED BY <1>11, <1>12, <1>13

\* For every list of configurations, whatever was found on disk and whatever gcc says:
\* the first message about a line is in the report, with each configuration it was given
\* in, although an equal message may have been merged into another one before.
THEOREM ReportComplete == VampyrSpec => []FirstMessageReported
<1> DEFINE I == Numbered /\ ReportInv /\ FirstMessageReported
<1>1. VampyrInit => I
  <2>1. VampyrInit => ReportInv /\ FirstMessageReported
    BY DEF VampyrInit, ReportInv, FirstMessageReported
  <2> QED BY <2>1, InitNumbered
<1>2. I /\ [VampyrNext]_all => I'
  <2>1. SUFFICES ASSUME I, [VampyrNext]_all PROVE I' OBVIOUS
  <2>2. Numbered' BY <2>1, VampyrNumbered
  <2>3. CASE MakeConfiguration
    <3>1. ReportInv' BY <2>1, <2>3, MakeReport
    <3>2. FirstMessageReported' BY <2>1, <2>3 DEF MakeConfiguration, FirstMessageReported, Given
    <3> QED BY <2>2, <3>1, <3>2
  <2>4. CASE Check BY <2>1, <2>2, <2>4, CheckReport
  <2>5. CASE ~ MakeConfiguration /\ ~ Check
    <3>1. UNCHANGED <<configs, checked, errors>>
      BY <2>1, <2>5 DEF VampyrNext, all, run, Analyse, Analysed, RemoveNext, Removed, Open, Flush,
                        Written, Interrupt, CannotMake, Verified, CannotReport, Report
    <3> QED BY <2>1, <2>2, <3>1 DEF ReportInv, FirstMessageReported
  <2> QED BY <2>3, <2>4, <2>5
<1>3. I => FirstMessageReported OBVIOUS
<1> QED BY <1>1, <1>2, <1>3, PTL DEF VampyrSpec
=============================================================================
