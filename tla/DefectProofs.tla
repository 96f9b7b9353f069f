----------------------------- MODULE DefectProofs -----------------------------
(* Proofs about DefectAnalysis, for every chain of blocks, every number of     *)
(* models and every set of models that are incomplete, or of models and blocks *)
(* that fail to parse.                                                         *)
EXTENDS DefectAnalysis, TLAPS

Models == Archs \cup {NoModel}

\* The part of TypeOK the proofs below use.
InputOK ==
    /\ code \subseteq Confs
    /\ dies \in [Archs -> [code -> 1..OK]]
    /\ \A m \in Incomplete : \A c \in code : dies[m][c] # 3
    /\ breaks \in [Archs -> {1, 2, OK}]
    /\ special \in BOOLEAN
    /\ pc \in {"next", "main", "classify", "cross", "report"}
    /\ block \in Int /\ at \in Int

\* What is known of the object under analysis at each point of the analysis.
Known ==
    /\ defect.kind \in {"dead", "undead"}
    /\ defect.global \in BOOLEAN
    /\ pc = "next" => defect = NewDefect("dead") /\ at = 1
    /\ pc \in {"main", "classify"} => at = 1
    /\ pc = "main" => ~defect.global
    /\ pc \in {"classify", "cross", "report"} => Defective(defect.kind, block, Main)
    /\ pc = "classify" /\ defect.global =>
           \A m \in Archs : Defective(defect.kind, block, m)
    /\ pc = "classify" /\ ~defect.global =>
           defect.type \in {"Configuration", "BuildSystem", "Referential"}
    /\ (pc = "classify" /\ ~defect.global) \/ pc = "cross" =>
           /\ ~Impossible(defect.kind, block)
           /\ Wanted(defect.kind, block) \cap code # {}
    /\ pc = "cross" =>
           /\ Main # NoModel
           /\ ~special /\ ~defect.global /\ at >= 1
           /\ \A m \in Archs : m < at => Defective(defect.kind, block, m)
    /\ pc = "report" =>
           \/ special
           \/ defect.type = "NoKconfig"
           \/ defect.global /\ \A m \in Archs : Defective(defect.kind, block, m)
           \/ ~defect.global /\ \E m \in Archs : ~Defective(defect.kind, block, m)
    /\ pc = "report" /\ special => defect.global

IInv ==
    /\ InputOK
    /\ Known
    /\ GlobalOnEveryArch
    /\ LocalHasWitness
-----------------------------------------------------------------------------
\* A non-empty set of stages has a least one.
LEMMA LeastStage ==
  ASSUME NEW S \in SUBSET Stage, S # {}
  PROVE  \E n \in S : \A k \in S : n <= k
<1>1. CASE 0 \in S BY <1>1 DEF Stage
<1>2. CASE 0 \notin S /\ 1 \in S BY <1>2 DEF Stage
<1>3. CASE 0 \notin S /\ 1 \notin S /\ 2 \in S BY <1>3 DEF Stage
<1>4. CASE 0 \notin S /\ 1 \notin S /\ 2 \notin S
  <2>1. \A k \in S : k = 3
    BY <1>4 DEF Stage
  <2>. QED BY <2>1
<1>. QED BY <1>1, <1>2, <1>3, <1>4

\* isDefect returns true exactly for the blocks that the model's possible
\* configurations make dead (undead), and a contradiction in the code alone is
\* one on every model.
LEMMA VerdictSound ==
  ASSUME InputOK, NEW kind, NEW b, NEW m \in Models
  PROVE  /\ Verdict(kind, b, m) \in Stage \cup {OK}
         /\ Verdict(kind, b, m) # OK <=> Defective(kind, b, m)
         /\ Verdict(kind, b, m) = 0 =>
                \A a \in Archs : Defective(kind, b, a)
         /\ ~Impossible(kind, b) =>
                (Verdict(kind, b, m) = 0 <=> Wanted(kind, b) \cap code = {})
<1>. DEFINE bad == UnsatStages(kind, b, m)
<1>1. bad \in SUBSET Stage
  BY DEF UnsatStages, StagesOf, Stage
<1>2. bad # {} => /\ Verdict(kind, b, m) \in bad
                  /\ \A k \in bad : Verdict(kind, b, m) <= k
  BY <1>1, LeastStage DEF Verdict, Min
<1>3. Verdict(kind, b, m) # OK <=> bad # {}
  BY <1>1, <1>2 DEF Verdict, Stage, OK
<1>6. Verdict(kind, b, m) \in Stage \cup {OK}
  BY <1>1, <1>2 DEF Verdict
<1>4. bad # {} <=> Defective(kind, b, m)
  <2>1. CASE Impossible(kind, b)
    BY <2>1 DEF UnsatStages, Defective
  <2>2. CASE ~Impossible(kind, b) /\ m = NoModel
    <3>1. Left(m, 0) = code /\ Possible(m) = code
      BY <2>2 DEF Left, Possible
    <3>. QED
      BY <2>2, <3>1 DEF UnsatStages, StagesOf, Formula, Defective
  <2>3. CASE ~Impossible(kind, b) /\ m # NoModel
    <3>. DEFINE last == IF m \in Incomplete THEN 2 ELSE 3
    <3>1. m \in Archs /\ \A c \in code : dies[m][c] \in 1..4
      BY <2>3 DEF Models, InputOK, OK
    <3>2. Left(m, last) = Possible(m)
      <4>1. m \in Incomplete => \A c \in code : dies[m][c] # 3
        BY DEF InputOK
      <4> QED  BY <2>3, <3>1, <4>1 DEF Left, Possible, OK
    <3>3. \A n \in StagesOf(m) : n \in Stage /\ n <= last
      BY <2>3 DEF StagesOf, Stage
    <3>4. \A n \in StagesOf(m) : Left(m, last) \subseteq Left(m, n)
      BY <3>1, <3>3 DEF Left, Stage
    <3>5. last \in StagesOf(m)
      BY <2>3 DEF StagesOf, Stage
    <3>. QED
      BY <2>3, <3>2, <3>4, <3>5 DEF UnsatStages, Formula, Defective
  <2>. QED
    BY <2>1, <2>2, <2>3
<1>5. Verdict(kind, b, m) = 0 => \A a \in Archs : Defective(kind, b, a)
  <2>. SUFFICES ASSUME Verdict(kind, b, m) = 0, NEW a \in Archs
       PROVE  Defective(kind, b, a)
    OBVIOUS
  <2>1. 0 \in bad
    BY <1>2, <1>3 DEF OK
  <2>2. ~Impossible(kind, b) /\ Wanted(kind, b) \cap Left(m, 0) = {}
    BY <2>1 DEF UnsatStages, Formula
  <2>3. Left(m, 0) = code /\ Possible(a) \subseteq code
    BY DEF Left, Possible
  <2>. QED
    BY <2>2, <2>3 DEF Defective
<1>7. ~Impossible(kind, b) =>
        (Verdict(kind, b, m) = 0 <=> Wanted(kind, b) \cap code = {})
  <2>. SUFFICES ASSUME ~Impossible(kind, b)
       PROVE  Verdict(kind, b, m) = 0 <=> Wanted(kind, b) \cap code = {}
    OBVIOUS
  <2>1. 0 \in bad <=> Wanted(kind, b) \cap code = {}
    BY DEF UnsatStages, StagesOf, Stage, Formula, Left
  <2>2. Verdict(kind, b, m) = 0 => 0 \in bad
    BY <1>2, <1>3 DEF OK
  <2>3. 0 \in bad => Verdict(kind, b, m) = 0
    BY <1>1, <1>2 DEF Stage
  <2>. QED
    BY <2>1, <2>2, <2>3
<1>. QED
  BY <1>3, <1>4, <1>5, <1>6, <1>7

\* A step that leaves the inputs alone changes no block's defects.
LEMMA InputFixed ==
  ASSUME UNCHANGED input
  PROVE  /\ \A kind, b, m : Defective(kind, b, m)' = Defective(kind, b, m)
         /\ special' = special /\ code' = code
  BY DEF input, Defective, Possible, Impossible, Wanted

\* The reports a step leaves alone keep their two properties.
LEMMA ReportsKept ==
  ASSUME IInv, UNCHANGED <<input, reports>>
  PROVE  GlobalOnEveryArch' /\ LocalHasWitness'
  BY InputFixed DEF IInv, GlobalOnEveryArch, LocalHasWitness, DefectiveOn

LEMMA InitIInv == Init => IInv
<1>. SUFFICES ASSUME Init PROVE IInv
  OBVIOUS
<1>1. code \subseteq Confs
  BY DEF Init, Confs
<1>2. \A m \in Incomplete : \A c \in code : dies[m][c] # 3
  <2>. SUFFICES ASSUME NEW m \in Incomplete, NEW c \in code, dies[m][c] = 3
                PROVE  FALSE
    OBVIOUS
  <2>1. m \in Archs /\ m # NoModel BY ModelAssumption DEF Archs, NoModel
  <2>2. StagesOf(m) = 0..2 BY <2>1 DEF StagesOf
  <2>3. 3 \in StagesOf(m) BY <2>1 DEF Init, OK
  <2>. QED BY <2>2, <2>3
<1>3. InputOK
  BY <1>1, <1>2, ModelAssumption DEF Init, InputOK
<1>4. Known /\ GlobalOnEveryArch /\ LocalHasWitness
  BY DEF Init, Known, GlobalOnEveryArch, LocalHasWitness, NewDefect, Kinds
<1>. QED
  BY <1>3, <1>4 DEF IInv

\* The main model's checks.
LEMMA MainIInv ==
  ASSUME IInv, NextBlock \/ MainFinds \/ MainClears
  PROVE  IInv'
<1>. USE DEF IInv
<1>1. UNCHANGED <<input, reports>>
  BY DEF NextBlock, MainFinds, MainClears, Leave
<1>2. InputOK'
  BY <1>1 DEF NextBlock, MainFinds, MainClears, Leave, InputOK, input
<1>3. Known'
  <2>1. CASE NextBlock
    BY <2>1 DEF NextBlock, Known, NewDefect, Kinds
  <2>2. CASE MainClears
    <3>1. CASE pc' = "next"
      <4>1. defect' = NewDefect("dead") /\ at' = 1
        BY <2>2, <3>1 DEF MainClears, Leave, Kinds
      <4>. QED
        BY <3>1, <4>1 DEF Known, NewDefect
    <3>2. CASE pc' = "main"
      <4>1. defect' = NewDefect("undead") /\ at' = at /\ at = 1
        BY <2>2, <3>2 DEF MainClears, Leave, Kinds, Known
      <4>. QED
        BY <3>2, <4>1 DEF Known, NewDefect
    <3>. QED
      BY <2>2, <3>1, <3>2 DEF MainClears, Leave
  <2>3. CASE MainFinds
    <3>1. pc = "main" /\ pc' = "classify" /\ block' = block /\ at' = 1 /\ ~defect.global
      BY <2>3 DEF MainFinds, Known
    <3>. DEFINE n == Verdict(defect.kind, block, Main)
    <3>2. /\ defect'.kind = defect.kind
          /\ defect'.global = (defect.global \/ n = 0)
          /\ defect'.type = TypeAfter(defect.type, n)
      BY <2>3 DEF MainFinds, Found
    <3>3. Main \in Models /\ n # OK
      BY <2>3, ModelAssumption DEF MainFinds, Models
    <3>4. Defective(defect.kind, block, Main)
      BY <3>3, VerdictSound
    <3>5. n = 0 => \A m \in Archs : Defective(defect.kind, block, m)
      BY <3>3, VerdictSound
    <3>6. n \in 0..3
      BY <3>3, VerdictSound DEF Stage, OK
    <3>7. n # 0 => defect'.type \in {"Configuration", "BuildSystem", "Referential"}
      BY <3>2, <3>6 DEF TypeAfter
    <3>8. \A m : Defective(defect.kind, block, m)' = Defective(defect.kind, block, m)
      BY <1>1, <3>1, <3>2, InputFixed
    <3>9. ~Impossible(defect.kind, block) /\ (n # 0 => Wanted(defect.kind, block) \cap code # {})
      BY <3>3, <3>4, VerdictSound DEF Defective
    <3>10. code' = code
      BY <1>1, InputFixed
    <3>. QED
      BY <3>1, <3>2, <3>4, <3>5, <3>7, <3>8, <3>9, <3>10
      DEF Known, Impossible, Wanted
  <2>. QED
    BY <2>1, <2>2, <2>3
<1>. QED
  BY <1>1, <1>2, <1>3, ReportsKept

LEMMA ClassifyIInv ==
  ASSUME IInv, Classify
  PROVE  IInv'
<1>. USE DEF IInv
<1>1. UNCHANGED <<input, reports>> /\ block' = block /\ pc = "classify" /\ at' = 1
  BY DEF Classify, Known
<1>2. pc' \in {"cross", "report"} /\ InputOK'
  BY <1>1 DEF Classify, InputOK, input
<1>3. /\ defect'.kind = defect.kind
      /\ defect'.global = (defect.global \/ special)
      /\ defect'.type = Classified.type
  BY DEF Classify, Classified
<1>5. /\ \A m : Defective(defect.kind, block, m)' = Defective(defect.kind, block, m)
      /\ special' = special /\ code' = code
  BY <1>1, <1>3, InputFixed
<1>4. Known'
  <2>1. CASE pc' = "cross"
    <3>1. Main # NoModel /\ ~defect'.global
      BY <2>1 DEF Classify, NeedsCrosscheck
    <3>2. \A m \in Archs : ~(m < 1)
      BY ModelAssumption DEF Archs
    <3>. QED
      BY <1>1, <1>3, <1>5, <2>1, <3>1, <3>2
      DEF Known, InputOK, Impossible, Wanted
  <2>2. CASE pc' = "report"
    <3>1. CASE special
      BY <1>1, <1>3, <1>5, <2>2, <3>1 DEF Known
    <3>2. CASE ~special /\ defect.global
      BY <1>1, <1>3, <1>5, <2>2, <3>2 DEF Known
    <3>3. CASE ~special /\ ~defect.global
      <4>1. defect'.type = "NoKconfig"
        <5>1. CASE Main = NoModel
          BY <5>1, <1>3 DEF Classified, IsNoKconfig
        <5>2. CASE ~NeedsCrosscheck(Classified)
          BY <5>2, <1>1, <1>3, <3>3 DEF NeedsCrosscheck, Classified, Known
        <5>. QED
          BY <5>1, <5>2, <2>2, <1>1 DEF Classify
      <4>. QED
        BY <1>1, <1>3, <1>5, <2>2, <3>3, <4>1 DEF Known
    <3>. QED
      BY <3>1, <3>2, <3>3 DEF InputOK
  <2>. QED
    BY <1>2, <2>1, <2>2
<1>. QED
  BY <1>1, <1>2, <1>4, ReportsKept

\* The loop over the other models.
LEMMA CrossIInv ==
  ASSUME IInv, CrossSkips \/ CrossFinds \/ CrossClears \/ CrossEnds
  PROVE  IInv'
<1>. USE DEF IInv
<1>1. UNCHANGED <<input, reports, block>> /\ pc = "cross"
  BY DEF CrossSkips, CrossFinds, CrossClears, CrossEnds
<1>2. InputOK'
  BY <1>1 DEF CrossSkips, CrossFinds, CrossClears, CrossEnds, InputOK, input
<1>3. /\ Main # NoModel /\ ~special /\ ~defect.global /\ at >= 1
      /\ \A m \in Archs : m < at => Defective(defect.kind, block, m)
      /\ Defective(defect.kind, block, Main)
      /\ defect.kind \in {"dead", "undead"}
      /\ ~Impossible(defect.kind, block) /\ Wanted(defect.kind, block) \cap code # {}
  BY <1>1 DEF Known
<1>4. /\ \A m : Defective(defect.kind, block, m)' = Defective(defect'.kind, block, m)
      /\ special' = special /\ code' = code
  BY <1>1, InputFixed
<1>5. Archs \subseteq Int /\ at \in Int
  BY DEF Archs, InputOK
<1>6. Known'
  <2>1. CASE CrossSkips
    <3>1. defect' = defect /\ pc' = "cross" /\ at' = at + 1 /\ at = Main
      BY <2>1, <1>1 DEF CrossSkips, IsMain
    <3>2. \A m \in Archs : m < at + 1 => Defective(defect.kind, block, m)
      BY <1>3, <1>5, <3>1
    <3>. QED
      BY <1>1, <1>3, <1>4, <1>5, <3>1, <3>2 DEF Known, Impossible, Wanted
  <2>2. CASE CrossFinds
    <3>1. pc' = "cross" /\ at' = at + 1 /\ at \in Archs
      BY <2>2, <1>1 DEF CrossFinds
    <3>2. Verdict(defect.kind, block, at) \in 1..3 \/ Verdict(defect.kind, block, at) = 0
      BY <2>2, <3>1, VerdictSound DEF CrossFinds, Models, Stage, OK
    <3>3. Defective(defect.kind, block, at)
      BY <3>1, <3>2, VerdictSound DEF Models, OK
    <3>4. \A m \in Archs : m < at + 1 => Defective(defect.kind, block, m)
      BY <1>3, <1>5, <3>3
    <3>5. /\ defect'.kind = defect.kind
          /\ defect'.global = (defect.global \/ Verdict(defect.kind, block, at) = 0)
      BY <2>2 DEF CrossFinds, Found
    <3>6. Verdict(defect.kind, block, at) # 0
      BY <1>3, <3>1, VerdictSound DEF Models
    <3>. QED
      BY <1>1, <1>3, <1>4, <1>5, <3>1, <3>4, <3>5, <3>6
      DEF Known, Impossible, Wanted
  <2>3. CASE CrossClears
    <3>1. /\ pc' = "report" /\ at \in Archs /\ Verdict(defect.kind, block, at) = OK
          /\ defect'.kind = defect.kind /\ defect'.global = defect.global
      BY <2>3, <1>1 DEF CrossClears, Cleared
    <3>2. ~Defective(defect.kind, block, at)
      BY <3>1, VerdictSound DEF Models
    <3>. QED
      BY <1>3, <1>4, <3>1, <3>2 DEF Known
  <2>4. CASE CrossEnds
    <3>1. /\ pc' = "report" /\ at > NArchs
          /\ defect'.kind = defect.kind /\ defect'.global = TRUE
      BY <2>4, <1>1 DEF CrossEnds
    <3>2. \A m \in Archs : Defective(defect.kind, block, m)
      BY <1>3, <1>5, <3>1, ModelAssumption DEF Archs
    <3>. QED
      BY <1>3, <1>4, <3>1, <3>2 DEF Known
  <2>. QED
    BY <2>1, <2>2, <2>3, <2>4
<1>. QED
  BY <1>1, <1>2, <1>6, ReportsKept

\* An exception leaves no defect; a report is written from a known object.
LEMMA LeaveIInv ==
  ASSUME IInv, CheckThrows \/ BlockThrows \/ Report \/ ReportUnopened \/ Finished \/ UNCHANGED vars
  PROVE  IInv'
<1>. USE DEF IInv
<1>1. UNCHANGED <<input, block>>
  BY DEF CheckThrows, BlockThrows, Report, ReportUnopened, Leave, Finished, vars
<1>2. /\ \A kind, b, m : Defective(kind, b, m)' = Defective(kind, b, m)
      /\ special' = special /\ code' = code
  BY <1>1, InputFixed
<1>3. Leave => InputOK' /\ Known'
  <2>. SUFFICES ASSUME Leave PROVE InputOK' /\ Known'
    OBVIOUS
  <2>1. pc' = "next" /\ defect' = NewDefect("dead") /\ at' = 1
    BY DEF Leave, Kinds
  <2>2. InputOK'
    BY <1>1, <2>1 DEF InputOK, input
  <2>3. Known'
    BY <2>1 DEF Known, NewDefect
  <2>. QED
    BY <2>2, <2>3
<1>4. CASE CheckThrows \/ BlockThrows \/ ReportUnopened
  BY <1>1, <1>3, <1>4, ReportsKept DEF CheckThrows, BlockThrows, ReportUnopened
<1>5. CASE Finished \/ UNCHANGED vars
  <2>1. UNCHANGED <<pc, defect, at, reports>>
    BY <1>5 DEF Finished, vars
  <2>2. InputOK'
    BY <1>1, <2>1 DEF InputOK, input
  <2>3. Known'
    BY <1>1, <1>2, <2>1 DEF Known, Impossible, Wanted
  <2>. QED
    BY <1>1, <2>1, <2>2, <2>3, ReportsKept
<1>6. CASE Report
  <2>1. pc = "report" /\ InputOK' /\ Known'
    BY <1>3, <1>6 DEF Report
  <2>. DEFINE new == [block |-> block, name |-> Named(defect), defect |-> defect]
  <2>3. reports' \subseteq reports \cup {new}
    BY <1>6 DEF Report
  <2>4. /\ Defective(defect.kind, block, Main)
        /\ \/ special
           \/ defect.type = "NoKconfig"
           \/ defect.global /\ \A m \in Archs : Defective(defect.kind, block, m)
           \/ ~defect.global /\ \E m \in Archs : ~Defective(defect.kind, block, m)
        /\ special => defect.global
    BY <2>1 DEF Known
  <2>5. GlobalOnEveryArch'
    BY <1>1, <1>2, <2>3, <2>4 DEF GlobalOnEveryArch, DefectiveOn, Named
  <2>6. LocalHasWitness'
    BY <1>1, <1>2, <2>3, <2>4 DEF LocalHasWitness, DefectiveOn, Named
  <2>. QED
    BY <2>1, <2>5, <2>6
<1>. QED
  BY <1>4, <1>5, <1>6
-----------------------------------------------------------------------------
\* The type that the stages of a defect map give, whatever the order of the models.
Strongest(map) ==
    LET stages == {map[m] : m \in DOMAIN map}
    IN  IF 2 \in stages THEN "BuildSystem"
        ELSE IF 1 \in stages THEN "Configuration"
        ELSE "Referential"

\* The map with stage n entered for a model m it does not have.
Entered(map, m, n) ==
    [a \in DOMAIN map \cup {m} |-> IF a \in DOMAIN map THEN map[a] ELSE n]

\* What the analysis of the current block has recorded in its BlockDefect.
History ==
    /\ DOMAIN saved = Blocks
    /\ block >= -1
    /\ pc # "next" => block \in Blocks
    /\ pc = "main" => defect = NewDefect(defect.kind)
    /\ pc # "next" /\ defect.kind = "undead" => ~Defective("dead", block, Main)
    /\ pc \in {"classify", "cross", "report"} =>
           /\ defect.kind = "dead" => defect.mus = {}
           /\ DOMAIN defect.map \subseteq Archs
           /\ \A m \in DOMAIN defect.map :
                  /\ defect.map[m] = Verdict(defect.kind, block, m)
                  /\ defect.map[m] \in 1..3
    /\ pc = "classify" /\ defect.global => defect.type = "Implementation"
    /\ pc = "classify" /\ ~defect.global =>
           /\ DOMAIN defect.map = {Main}
           /\ defect.type = Strongest(defect.map)
    /\ pc = "cross" =>
           /\ defect.type \in {"Configuration", "BuildSystem", "Referential"}
           /\ defect.type = Strongest(defect.map)
           /\ DOMAIN defect.map = {Main} \cup {m \in Archs : m < at}
    /\ pc = "report" /\ defect.type = "NoKconfig" => saved[block] = "NoKconfig"
    /\ pc = "report" /\ defect.type \notin {"NoKconfig", "Implementation"} =>
           /\ defect.type = Strongest(defect.map)
           /\ defect.global /\ ~special => DOMAIN defect.map = Archs

\* The four properties about what the reports record and which reports exist.
Recordings ==
    /\ History
    /\ MapTruthful
    /\ TypeIsStrongest
    /\ MusUnsatisfiable
    /\ NothingLost
-----------------------------------------------------------------------------
\* A verdict that is not OK is a stage isDefect got to, with an unsatisfiable formula.
LEMMA VerdictFormula ==
  ASSUME NEW kind, NEW b, NEW m, Verdict(kind, b, m) # OK
  PROVE  Formula(kind, b, m, Verdict(kind, b, m)) = {}
<1>1. UnsatStages(kind, b, m) \in SUBSET Stage BY DEF UnsatStages, StagesOf, Stage
<1>2. UnsatStages(kind, b, m) # {} BY DEF Verdict
<1>3. Verdict(kind, b, m) \in UnsatStages(kind, b, m)
  BY <1>1, <1>2, LeastStage DEF Verdict, Min
<1>. QED BY <1>3 DEF UnsatStages

\* A step that leaves the inputs alone changes no verdict.
LEMMA VerdictFixed ==
  ASSUME UNCHANGED input, NEW kind, NEW b, NEW m
  PROVE  Verdict(kind, b, m)' = Verdict(kind, b, m)
<1>1. \A n : Formula(kind, b, m, n)' = Formula(kind, b, m, n)
  BY DEF input, Formula, Left, Wanted
<1>2. UnsatStages(kind, b, m)' = UnsatStages(kind, b, m)
  BY <1>1 DEF UnsatStages, Impossible, StagesOf
<1>. QED BY <1>2 DEF Verdict

\* TypeAfter keeps the type the strongest one of the map it is entered into.
LEMMA StrongestAfter ==
  ASSUME NEW map, NEW type, NEW m, NEW n \in 1..3, m \notin DOMAIN map,
         type = Strongest(map)
  PROVE  TypeAfter(type, n) = Strongest(Entered(map, m, n))
<1>. DEFINE new == Entered(map, m, n)
<1>1. \A k : (k \in {new[a] : a \in DOMAIN new}) <=> (k \in {map[a] : a \in DOMAIN map} \/ k = n)
  BY DEF Entered
<1>2. /\ (2 \in {new[a] : a \in DOMAIN new}) <=> (2 \in {map[a] : a \in DOMAIN map} \/ n = 2)
      /\ (1 \in {new[a] : a \in DOMAIN new}) <=> (1 \in {map[a] : a \in DOMAIN map} \/ n = 1)
  BY <1>1
<1>3. Strongest(new) = IF 2 \in {map[a] : a \in DOMAIN map} \/ n = 2 THEN "BuildSystem"
                       ELSE IF 1 \in {map[a] : a \in DOMAIN map} \/ n = 1 THEN "Configuration"
                       ELSE "Referential"
  BY <1>2 DEF Strongest
<1>4. n = 1 \/ n = 2 \/ n = 3 OBVIOUS
<1>5. TypeAfter(type, n) = IF n = 1 THEN IF type = "BuildSystem" THEN type ELSE "Configuration"
                           ELSE IF n = 2 THEN "BuildSystem"
                           ELSE IF type \in {"Configuration", "BuildSystem"} THEN type
                           ELSE "Referential"
  BY <1>4 DEF TypeAfter
<1>. HIDE DEF new
<1>6. TypeAfter(type, n) = Strongest(new) BY <1>3, <1>4, <1>5 DEF Strongest
<1>. QED BY <1>6 DEF new

LEMMA InitRecordings == Init => Recordings
<1>. SUFFICES ASSUME Init PROVE Recordings OBVIOUS
<1>1. History BY DEF Init, History
<1>2. MapTruthful /\ TypeIsStrongest /\ MusUnsatisfiable
  BY DEF Init, MapTruthful, TypeIsStrongest, MusUnsatisfiable
<1>3. NothingLost
  <2>1. \A b \in Blocks : ~(b < -1) /\ b # -1 BY ChainAssumption DEF Blocks
  <2>2. block = -1 BY DEF Init
  <2>. QED BY <2>1, <2>2 DEF NothingLost
<1>. QED BY <1>1, <1>2, <1>3 DEF Recordings

\* The reports a step leaves alone keep what they record.
LEMMA RecordsKept ==
  ASSUME Recordings, UNCHANGED <<input, reports>>
  PROVE  MapTruthful' /\ TypeIsStrongest' /\ MusUnsatisfiable'
<1>1. special' = special BY DEF input
<1>2. MapTruthful'
  BY <1>1, VerdictFixed DEF Recordings, MapTruthful
<1>3. TypeIsStrongest' /\ MusUnsatisfiable'
  BY DEF Recordings, TypeIsStrongest, MusUnsatisfiable
<1>. QED BY <1>2, <1>3

\* What becomes of a block that was left behind does not change.
Accounted(b) ==
    LET kind == IF Defective("dead", b, Main) THEN "dead" ELSE "undead"
    IN  Defective(kind, b, Main) =>
            \/ \E r \in reports : r.block = b /\ r.defect.kind = kind
            \/ skip /\ saved[b] = "NoKconfig"
            \/ b \in failed
            \/ GotToBroken(kind, b)

LEMMA AccountKept ==
  ASSUME UNCHANGED input, reports \subseteq reports', failed \subseteq failed',
         NEW b, saved'[b] = saved[b], Accounted(b)
  PROVE  Accounted(b)'
<1>1. /\ \A kind, m : Defective(kind, b, m)' = Defective(kind, b, m)
      /\ Broken' = Broken /\ skip' = skip
  BY InputFixed DEF input, Broken
<1>2. \A kind : GotToBroken(kind, b)' = GotToBroken(kind, b)
  BY <1>1 DEF GotToBroken
<1>. QED BY <1>1, <1>2 DEF Accounted

\* A step within the analysis of a block leaves nobody else behind.
LEMMA NothingLostWithin ==
  ASSUME IInv, Recordings, UNCHANGED <<input, block>>, pc' # "next", reports \subseteq reports',
         failed \subseteq failed',
         \A b \in Blocks : b # block => saved'[b] = saved[b]
  PROVE  NothingLost'
<1>. SUFFICES ASSUME NEW b \in Blocks, b < block PROVE Accounted(b)'
  BY DEF NothingLost, Accounted
<1>1. b # block BY DEF IInv, InputOK, Blocks
<1>2. Accounted(b) BY DEF Recordings, NothingLost, Accounted
<1>. QED BY <1>1, <1>2, AccountKept

\* A step that leaves a block behind has to account for that block.
LEMMA NothingLostLeaving ==
  ASSUME IInv, Recordings, UNCHANGED <<input, block, saved>>, pc # "next",
         reports \subseteq reports', failed \subseteq failed', Accounted(block)'
  PROVE  NothingLost'
<1>. SUFFICES ASSUME NEW b \in Blocks, b < block \/ b = block PROVE Accounted(b)'
  BY DEF NothingLost, Accounted
<1>1. CASE b = block BY <1>1
<1>2. CASE b < block
  <2>1. Accounted(b) BY <1>2 DEF Recordings, NothingLost, Accounted
  <2>. QED BY <2>1, AccountKept
<1>. QED BY <1>1, <1>2

\* The main model's checks record one stage, or nothing.
LEMMA MainRecordings ==
  ASSUME IInv, Recordings, NextBlock \/ MainFinds \/ MainClears
  PROVE  Recordings'
<1>. USE DEF Recordings
<1>1. UNCHANGED <<input, reports, saved, failed>>
  BY DEF NextBlock, MainFinds, MainClears, Leave
<1>2. /\ \A kind, b, m : Defective(kind, b, m)' = Defective(kind, b, m)
      /\ \A kind, b, m : Verdict(kind, b, m)' = Verdict(kind, b, m)
  BY <1>1, InputFixed, VerdictFixed
<1>3. Main \in Models BY ModelAssumption DEF Models
<1>4. CASE NextBlock
  <2>1. pc = "next" /\ block' = block + 1 /\ pc' = "main" /\ defect' = NewDefect("dead")
    BY <1>4 DEF NextBlock, IInv, Known
  <2>2. block' \in Blocks /\ block' >= -1
    BY <1>4, <2>1, ChainAssumption DEF NextBlock, IInv, InputOK, History, Blocks
  <2>3. History' BY <1>1, <2>1, <2>2 DEF History, NewDefect
  <2>4. NothingLost'
    <3>. SUFFICES ASSUME NEW b \in Blocks, b < block + 1 PROVE Accounted(b)'
      BY <2>1 DEF NothingLost, Accounted
    <3>1. b < block \/ b = block BY ChainAssumption DEF IInv, InputOK, Blocks
    <3>2. Accounted(b) BY <2>1, <3>1 DEF NothingLost, Accounted
    <3>. QED BY <1>1, <3>2, AccountKept
  <2>. QED BY <1>1, <2>3, <2>4, RecordsKept
<1>5. CASE MainClears
  <2>1. pc = "main" /\ block' = block /\ block \in Blocks
    BY <1>5 DEF MainClears, Leave, History
  <2>2. ~Defective(defect.kind, block, Main)
    BY <1>3, <1>5, VerdictSound DEF MainClears, IInv
  <2>3. CASE pc' = "main"
    <3>1. defect' = NewDefect("undead") /\ defect.kind = "dead"
      BY <1>5, <2>1, <2>3 DEF MainClears, Leave, Kinds
    <3>2. History' BY <1>1, <1>2, <2>1, <2>2, <2>3, <3>1 DEF History, NewDefect
    <3>3. NothingLost' BY <1>1, <2>1, <2>3, NothingLostWithin
    <3>. QED BY <1>1, <3>2, <3>3, RecordsKept
  <2>4. CASE pc' = "next"
    <3>1. defect.kind = "undead"
      BY <1>5, <2>1, <2>4 DEF MainClears, Leave, Kinds, IInv, Known
    <3>2. History' BY <1>1, <2>1, <2>4 DEF History
    <3>3. ~Defective("dead", block, Main) BY <2>1, <3>1 DEF History
    <3>4. Accounted(block)' BY <1>2, <2>1, <2>2, <3>1, <3>3 DEF Accounted
    <3>5. NothingLost' BY <1>1, <2>1, <3>4, NothingLostLeaving
    <3>. QED BY <1>1, <3>2, <3>5, RecordsKept
  <2>. QED BY <1>5, <2>1, <2>3, <2>4 DEF MainClears, Leave
<1>6. CASE MainFinds
  <2>. DEFINE n == Verdict(defect.kind, block, Main)
              f == Formula(defect.kind, block, Main, n)
  <2>1. /\ pc = "main" /\ pc' = "classify" /\ block' = block /\ block \in Blocks
        /\ defect = NewDefect(defect.kind) /\ n # OK
    BY <1>6 DEF MainFinds, History
  <2>2. /\ defect'.kind = defect.kind
        /\ defect'.global = (n = 0)
        /\ defect'.type = TypeAfter("None", n)
        /\ defect'.mus = IF defect.kind = "dead" THEN f ELSE defect.mus
        /\ defect'.map = Recorded(NewDefect(defect.kind), Main, n)
    <3>1. defect' = Found(defect, Main) BY <1>6 DEF MainFinds
    <3>2. PICK k : defect = [kind |-> k, type |-> "None", global |-> FALSE, formula |-> Confs,
                             mus |-> Confs, map |-> << >>]
      BY <2>1 DEF NewDefect
    <3>3. defect' = [kind |-> k, type |-> TypeAfter("None", n), global |-> (n = 0),
                     formula |-> f, mus |-> MusAfter(defect, Main, f),
                     map |-> Recorded(defect, Main, n)]
      <4>. HIDE DEF n, f
      <4>1. defect' = [defect EXCEPT !.type = TypeAfter(defect.type, n),
                                     !.global = @ \/ n = 0, !.formula = f,
                                     !.mus = MusAfter(defect, Main, f),
                                     !.map = Recorded(defect, Main, n)]
        BY <3>1 DEF Found, n, f
      <4>. QED BY <3>2, <4>1
    <3>. HIDE DEF n, f
    <3>. QED BY <2>1, <3>2, <3>3 DEF MusAfter
  <2>3. n \in 0..3 BY <1>3, <2>1, VerdictSound DEF IInv, Stage, OK
  <2>4. f = {} BY <2>1, VerdictFormula
  <2>5. n # 0 => Main \in Archs
    <3>1. Main = NoModel => n = 0
      <4>. SUFFICES ASSUME Main = NoModel PROVE n = 0 OBVIOUS
      <4>1. UnsatStages(defect.kind, block, Main) \subseteq {0} BY DEF UnsatStages, StagesOf
      <4>2. UnsatStages(defect.kind, block, Main) = {0} BY <2>1, <4>1 DEF Verdict
      <4>. QED BY <4>2, LeastStage DEF Verdict, Min, Stage
    <3>. QED BY <3>1, ModelAssumption
  <2>6. n = 0 => defect'.map = << >> /\ defect'.type = "Implementation"
    BY <2>2 DEF Recorded, NewDefect, TypeAfter
  <2>7. n # 0 => /\ DOMAIN defect'.map = {Main}
                 /\ defect'.map[Main] = n
    BY <2>2 DEF Recorded, NewDefect
  <2>8. n # 0 => defect'.type = Strongest(defect'.map)
    <3>. SUFFICES ASSUME n # 0 PROVE TypeAfter("None", n) = Strongest(defect'.map)
      BY <2>2
    <3>1. {defect'.map[a] : a \in DOMAIN defect'.map} = {n} BY <2>7
    <3>2. n = 1 \/ n = 2 \/ n = 3 BY <2>3
    <3>. HIDE DEF n
    <3>. QED BY <3>1, <3>2 DEF Strongest, TypeAfter
  <2>9. History'
    <3>1. defect'.kind = "undead" => ~Defective("dead", block, Main)'
      BY <1>2, <2>1, <2>2 DEF History
    <3>2. defect'.kind = "dead" => defect'.mus = {} BY <2>2, <2>4
    <3>3. DOMAIN defect'.map \subseteq Archs BY <2>5, <2>6, <2>7
    <3>4. \A m \in DOMAIN defect'.map :
              defect'.map[m] = Verdict(defect'.kind, block, m) /\ defect'.map[m] \in 1..3
      BY <2>2, <2>3, <2>6, <2>7
    <3>5. defect'.global => defect'.type = "Implementation" BY <2>2, <2>6
    <3>6. ~defect'.global => /\ DOMAIN defect'.map = {Main}
                             /\ defect'.type = Strongest(defect'.map)
      BY <2>2, <2>7, <2>8
    <3>. HIDE DEF n
    <3>. QED BY <1>1, <1>2, <2>1, <3>1, <3>2, <3>3, <3>4, <3>5, <3>6 DEF History, Strongest
  <2>10. NothingLost' BY <1>1, <2>1, NothingLostWithin
  <2>. QED BY <1>1, <2>9, <2>10, RecordsKept
<1>. QED BY <1>4, <1>5, <1>6

\* Classifying only ever overrides the type with NoKconfig, which is saved.
LEMMA ClassifyRecordings ==
  ASSUME IInv, Recordings, Classify
  PROVE  Recordings'
<1>. USE DEF Recordings
<1>1. /\ UNCHANGED <<input, reports, block, failed>>
      /\ pc = "classify" /\ block \in Blocks /\ at' = 1
  BY DEF Classify, History, IInv, Known
<1>2. /\ \A kind, b, m : Defective(kind, b, m)' = Defective(kind, b, m)
      /\ \A kind, b, m : Verdict(kind, b, m)' = Verdict(kind, b, m)
      /\ special' = special
  BY <1>1, InputFixed, VerdictFixed
<1>3. /\ defect'.kind = defect.kind /\ defect'.mus = defect.mus /\ defect'.map = defect.map
      /\ defect'.global = (defect.global \/ special)
      /\ defect'.type = IF IsNoKconfig(block) THEN "NoKconfig" ELSE defect.type
      /\ defect' = Classified
  BY DEF Classify, Classified
<1>4. DOMAIN saved' = Blocks /\ saved'[block] = defect'.type
  BY <1>1, <1>3 DEF Classify, History
<1>5. \A b \in Blocks : b # block => saved'[b] = saved[b] BY DEF Classify, History
<1>6. pc' = "cross" \/ pc' = "report" BY DEF Classify
<1>7. NothingLost' BY <1>1, <1>5, <1>6, NothingLostWithin
<1>8. CASE pc' = "cross"
  <2>1. /\ Main # NoModel
        /\ defect'.type \notin {"None", "Implementation", "NoKconfig"} /\ ~defect'.global
    BY <1>3, <1>8 DEF Classify, NeedsCrosscheck
  <2>2. /\ ~defect.global /\ defect'.type = defect.type
        /\ DOMAIN defect.map = {Main} /\ defect.type = Strongest(defect.map)
        /\ defect.type \in {"Configuration", "BuildSystem", "Referential"}
    BY <1>1, <1>3, <2>1 DEF History, IInv, Known
  <2>3. {m \in Archs : m < 1} = {} BY ModelAssumption DEF Archs
  <2>4. defect'.type = Strongest(defect'.map) BY <1>3, <2>2
  <2>. QED
    BY <1>1, <1>2, <1>3, <1>4, <1>7, <1>8, <2>2, <2>3, <2>4, RecordsKept
    DEF History, Strongest
<1>9. CASE pc' = "report"
  <2>1. CASE defect'.type \in {"NoKconfig", "Implementation"}
    BY <1>1, <1>2, <1>3, <1>4, <1>7, <1>9, <2>1, RecordsKept DEF History
  <2>2. CASE defect'.type \notin {"NoKconfig", "Implementation"}
    <3>1. ~defect.global /\ defect'.type = defect.type /\ defect.type = Strongest(defect.map)
      BY <1>1, <1>3, <2>2 DEF History, IInv, Known, InputOK
    <3>2. defect'.type = Strongest(defect'.map) BY <1>3, <3>1
    <3>3. defect'.global => special BY <1>3, <3>1 DEF IInv, Known
    <3>. QED
      BY <1>1, <1>2, <1>3, <1>4, <1>7, <1>9, <2>2, <3>2, <3>3, RecordsKept
      DEF History, Strongest
  <2>. QED BY <2>1, <2>2
<1>. QED BY <1>6, <1>8, <1>9

\* The loop over the other models adds one entry a model, until one has no defect.
LEMMA CrossRecordings ==
  ASSUME IInv, Recordings, CrossSkips \/ CrossFinds \/ CrossClears \/ CrossEnds
  PROVE  Recordings'
<1>. USE DEF Recordings
<1>1. UNCHANGED <<input, reports, block, saved, failed>> /\ pc = "cross" /\ block \in Blocks
  BY DEF CrossSkips, CrossFinds, CrossClears, CrossEnds, History
<1>2. /\ \A kind, b, m : Defective(kind, b, m)' = Defective(kind, b, m)
      /\ \A kind, b, m : Verdict(kind, b, m)' = Verdict(kind, b, m)
      /\ special' = special
  BY <1>1, InputFixed, VerdictFixed
<1>3. /\ Main \in Archs /\ Archs \subseteq Int /\ at \in Int /\ at >= 1
      /\ ~Impossible(defect.kind, block) /\ Wanted(defect.kind, block) \cap code # {}
      /\ DOMAIN defect.map = {Main} \cup {m \in Archs : m < at}
  BY <1>1, ModelAssumption DEF IInv, InputOK, Known, Archs, History
<1>4. pc' = "cross" \/ pc' = "report"
  BY <1>1 DEF CrossSkips, CrossFinds, CrossClears, CrossEnds
<1>5. NothingLost' BY <1>1, <1>4, NothingLostWithin
<1>6. CASE CrossSkips
  <2>1. defect' = defect /\ pc' = "cross" /\ at' = at + 1 /\ at = Main
    BY <1>6, <1>1 DEF CrossSkips, IsMain
  <2>2. {Main} \cup {m \in Archs : m < at + 1} = {Main} \cup {m \in Archs : m < at}
    <3>1. Archs \subseteq Int /\ Main \in Archs /\ at = Main BY <1>3, <2>1
    <3>2. \A m \in Archs : m < at + 1 <=> m < at \/ m = Main BY <3>1
    <3>. QED BY <3>2
  <2>3. History' BY <1>1, <1>2, <1>3, <2>1, <2>2 DEF History
  <2>. QED BY <1>1, <1>5, <2>3, RecordsKept
<1>7. CASE CrossFinds
  <2>. DEFINE n == Verdict(defect.kind, block, at)
  <2>1. pc' = "cross" /\ at' = at + 1 /\ at \in Archs /\ at # Main /\ n # OK
    BY <1>7, <1>1 DEF CrossFinds, IsMain
  <2>2. n \in 1..3
    <3>1. n \in Stage /\ n # 0 BY <1>3, <2>1, VerdictSound DEF Models, IInv
    <3>. QED BY <3>1 DEF Stage
  <2>3. at \notin DOMAIN defect.map BY <1>3, <2>1
  <2>. DEFINE new == Entered(defect.map, at, n)
  <2>4. /\ defect'.kind = defect.kind /\ defect'.map = new
        /\ defect'.mus = defect.mus /\ defect'.type = TypeAfter(defect.type, n)
    <3>1. defect' = Found(defect, at) BY <1>7 DEF CrossFinds
    <3>2. MusAfter(defect, at, Formula(defect.kind, block, at, n)) = defect.mus
      BY <2>1 DEF MusAfter
    <3>3. Recorded(defect, at, n) = new BY <2>2 DEF Recorded, Entered
    <3>4. defect' = [defect EXCEPT !.type = TypeAfter(defect.type, n), !.global = @ \/ n = 0,
                                   !.formula = Formula(defect.kind, block, at, n),
                                   !.mus = defect.mus, !.map = new]
      BY <3>1, <3>2, <3>3 DEF Found
    <3>. HIDE DEF n, new
    <3>. QED BY <3>4
  <2>5. TypeAfter(defect.type, n) = Strongest(new)
    <3>1. defect.type = Strongest(defect.map) BY <1>1 DEF History
    <3>. HIDE DEF n
    <3>. QED BY <2>2, <2>3, <3>1, StrongestAfter
  <2>6. TypeAfter(defect.type, n) \in {"Configuration", "BuildSystem", "Referential"}
    BY <1>1, <2>2 DEF History, TypeAfter
  <2>7. DOMAIN new = {Main} \cup {m \in Archs : m < at + 1}
    <3>1. \A m \in Archs : m < at + 1 <=> m < at \/ m = at BY <1>3, <2>1
    <3>2. DOMAIN new = {Main} \cup {m \in Archs : m < at} \cup {at} BY <1>3 DEF Entered
    <3>. QED BY <2>1, <3>1, <3>2
  <2>8. \A m \in DOMAIN new : new[m] = Verdict(defect.kind, block, m) /\ new[m] \in 1..3
    BY <1>1, <2>2 DEF History, Entered
  <2>9. DOMAIN new \subseteq Archs BY <1>3, <2>1 DEF Entered
  <2>10. defect.kind = "dead" => defect.mus = {} BY <1>1 DEF History
  <2>11. defect.kind = "undead" => ~Defective("dead", block, Main) BY <1>1 DEF History
  <2>. HIDE DEF n, new
  <2>12. defect'.type = Strongest(defect'.map) BY <2>4, <2>5
  <2>13. History'
    BY <1>1, <1>2, <2>1, <2>4, <2>6, <2>7, <2>8, <2>9, <2>10, <2>11, <2>12
    DEF History, Strongest
  <2>. QED BY <1>1, <1>5, <2>13, RecordsKept
<1>8. CASE CrossClears
  <2>1. /\ pc' = "report"
        /\ defect'.kind = defect.kind /\ defect'.global = defect.global
        /\ defect'.map = defect.map /\ defect'.mus = defect.mus /\ defect'.type = defect.type
    BY <1>8 DEF CrossClears, Cleared
  <2>2. ~defect.global BY <1>1 DEF IInv, Known
  <2>3. defect'.type = Strongest(defect'.map) BY <1>1, <2>1 DEF History
  <2>4. History' BY <1>1, <1>2, <2>1, <2>2, <2>3 DEF History, Strongest
  <2>. QED BY <1>1, <1>5, <2>4, RecordsKept
<1>9. CASE CrossEnds
  <2>1. /\ pc' = "report" /\ at > NArchs /\ defect'.kind = defect.kind
        /\ defect'.map = defect.map /\ defect'.mus = defect.mus /\ defect'.type = defect.type
    BY <1>9 DEF CrossEnds
  <2>2. DOMAIN defect.map = Archs BY <1>3, <2>1, ModelAssumption DEF Archs
  <2>3. defect'.type = Strongest(defect'.map) BY <1>1, <2>1 DEF History
  <2>4. History' BY <1>1, <1>2, <2>1, <2>2, <2>3 DEF History, Strongest
  <2>. QED BY <1>1, <1>5, <2>4, RecordsKept
<1>. QED BY <1>6, <1>7, <1>8, <1>9

\* A failed check leaves the model that failed; a report records its object.
LEMMA LeaveRecordings ==
  ASSUME IInv, Recordings, CheckThrows \/ BlockThrows \/ Report \/ ReportUnopened \/ Finished \/ UNCHANGED vars
  PROVE  Recordings'
<1>. USE DEF Recordings
<1>1. UNCHANGED <<input, block, saved>> /\ failed \subseteq failed'
  BY DEF CheckThrows, BlockThrows, Report, ReportUnopened, Leave, Finished, vars
<1>2. /\ \A kind, b, m : Defective(kind, b, m)' = Defective(kind, b, m)
      /\ \A kind, b, m : Verdict(kind, b, m)' = Verdict(kind, b, m)
      /\ special' = special /\ skip' = skip
  BY <1>1, InputFixed, VerdictFixed DEF input
<1>3. CASE CheckThrows
  <2>1. pc' = "next" /\ reports' = reports /\ pc # "next" /\ block \in Blocks
    BY <1>3 DEF CheckThrows, Leave, History
  <2>2. History' BY <1>1, <2>1 DEF History
  <2>3. GotToBroken(defect.kind, block)
    <3>1. CASE pc = "main"
      BY <1>3, <3>1 DEF CheckThrows, Throws, GotToBroken
    <3>2. CASE pc = "cross"
      <4>1. at \in Broken BY <1>3, <3>2 DEF CheckThrows, Throws
      <4>2. \A a \in Archs : a < at => Defective(defect.kind, block, a)
        BY <3>2 DEF IInv, Known
      <4>. QED BY <4>1, <4>2 DEF GotToBroken
    <3>. QED BY <1>3, <3>1, <3>2 DEF CheckThrows
  <2>4. Accounted(block)
    <3>1. CASE pc = "main"
      <4>1. Main \in Broken BY <1>3, <3>1 DEF CheckThrows, Throws
      <4>. QED BY <4>1 DEF Accounted, GotToBroken
    <3>2. CASE pc = "cross"
      <4>1. /\ Defective(defect.kind, block, Main)
            /\ defect.kind = "dead" \/ defect.kind = "undead"
            /\ defect.kind = "undead" => ~Defective("dead", block, Main)
        BY <3>2 DEF IInv, Known, History
      <4>. QED BY <2>3, <4>1 DEF Accounted
    <3>. QED BY <1>3, <3>1, <3>2 DEF CheckThrows
  <2>5. Accounted(block)' BY <1>1, <2>1, <2>4, AccountKept
  <2>6. NothingLost' BY <1>1, <2>1, <2>5, NothingLostLeaving
  <2>. QED BY <1>1, <2>1, <2>2, <2>6, RecordsKept
<1>4. CASE Finished \/ UNCHANGED vars
  <2>1. UNCHANGED <<pc, defect, at, reports>> BY <1>4 DEF Finished, vars
  <2>2. History' BY <1>1, <1>2, <2>1 DEF History, Strongest
  <2>3. NothingLost'
    <3>. SUFFICES ASSUME NEW b \in Blocks, b < block \/ (b = block /\ pc = "next")
         PROVE  Accounted(b)'
      BY <1>1, <2>1 DEF NothingLost, Accounted
    <3>1. Accounted(b) BY DEF NothingLost, Accounted
    <3>. QED BY <1>1, <2>1, <3>1, AccountKept
  <2>. QED BY <1>1, <2>1, <2>2, <2>3, RecordsKept
<1>6. CASE BlockThrows \/ ReportUnopened
  <2>1. /\ pc' = "next" /\ reports' = reports /\ pc # "next" /\ block \in Blocks
        /\ failed' = failed \cup {block}
    BY <1>6 DEF BlockThrows, ReportUnopened, Leave, History
  <2>2. History' BY <1>1, <2>1 DEF History
  <2>3. Accounted(block)' BY <1>1, <2>1 DEF Accounted
  <2>4. NothingLost' BY <1>1, <2>1, <2>3, NothingLostLeaving
  <2>. QED BY <1>1, <2>1, <2>2, <2>4, RecordsKept
<1>5. CASE Report
  <2>. DEFINE new == [block |-> block, name |-> Named(defect), defect |-> defect]
  <2>1. pc = "report" /\ pc' = "next" /\ block \in Blocks
    BY <1>5 DEF Report, Leave, History
  <2>2. /\ reports' \subseteq reports \cup {new} /\ reports \subseteq reports'
        /\ (skip /\ defect.type = "NoKconfig") \/ new \in reports'
    BY <1>5 DEF Report
  <2>3. History' BY <1>1, <2>1 DEF History
  <2>4. MapTruthful'
    <3>. SUFFICES ASSUME NEW r \in reports' PROVE
             /\ \A m \in DOMAIN r.defect.map :
                    r.defect.map[m] = Verdict(r.defect.kind, r.block, m)
             /\ r.name = "globally" /\ ~special
                    /\ r.defect.type \notin {"NoKconfig", "Implementation"} =>
                    DOMAIN r.defect.map = Archs
      BY <1>2 DEF MapTruthful
    <3>1. CASE r \in reports BY <3>1 DEF MapTruthful
    <3>2. CASE r = new BY <2>1, <3>2 DEF History, Named
    <3>. QED BY <2>2, <3>1, <3>2
  <2>5. TypeIsStrongest'
    <3>. SUFFICES ASSUME NEW r \in reports',
                         r.defect.type \notin {"NoKconfig", "Implementation"}
         PROVE  r.defect.type = Strongest(r.defect.map)
      BY DEF TypeIsStrongest, Strongest
    <3>1. CASE r \in reports BY <3>1 DEF TypeIsStrongest, Strongest
    <3>2. CASE r = new BY <2>1, <3>2 DEF History
    <3>. QED BY <2>2, <3>1, <3>2
  <2>6. MusUnsatisfiable' BY <2>1, <2>2 DEF MusUnsatisfiable, History
  <2>7. Accounted(block)'
    <3>1. /\ Defective(defect.kind, block, Main)
          /\ defect.kind = "dead" \/ defect.kind = "undead"
          /\ defect.kind = "undead" => ~Defective("dead", block, Main)
      BY <2>1 DEF IInv, Known, History
    <3>2. CASE skip /\ defect.type = "NoKconfig"
      <4>1. saved'[block] = "NoKconfig" BY <1>1, <2>1, <3>2 DEF History
      <4>. QED BY <1>1, <1>2, <3>2, <4>1 DEF Accounted
    <3>3. CASE new \in reports'
      BY <1>1, <1>2, <3>1, <3>3 DEF Accounted
    <3>. QED BY <2>2, <3>2, <3>3
  <2>8. NothingLost' BY <1>1, <2>1, <2>2, <2>7, NothingLostLeaving
  <2>. QED BY <2>3, <2>4, <2>5, <2>6, <2>8
<1>. QED BY <1>3, <1>4, <1>5, <1>6
-----------------------------------------------------------------------------
THEOREM Invariance == Spec => []IInv
<1>1. IInv /\ [Next]_vars => IInv'
  BY MainIInv, ClassifyIInv, CrossIInv, LeaveIInv DEF Next
<1>. QED
  BY InitIInv, <1>1, PTL DEF Spec

\* "globally" in the name of a report that was crosschecked is true: for every
\* chain of blocks, code and any number of models the block has the defect on
\* each of them.
THEOREM GlobalReportsAreGlobal == Spec => []GlobalOnEveryArch
  BY Invariance, PTL DEF IInv

\* "locally" is true too: the main model has the defect and another model shows
\* that the block is not defective everywhere.
THEOREM LocalReportsAreLocal == Spec => []LocalHasWitness
  BY Invariance, PTL DEF IInv

LEMMA RecordingsHold == Spec => []Recordings
<1>1. IInv /\ Recordings /\ [Next]_vars => Recordings'
  BY MainRecordings, ClassifyRecordings, CrossRecordings, LeaveRecordings DEF Next
<1>. QED BY Invariance, InitRecordings, <1>1, PTL DEF Spec

\* A report's defect map says the truth about every model it names, and all models
\* are named when a crosschecked report is global, for any number of them.
THEOREM MapsAreTruthful == Spec => []MapTruthful
  BY RecordingsHold, PTL DEF Recordings

\* The type of a crosschecked report is that of the strongest stage in its map, in
\* whatever order the models were loaded.
THEOREM TypesAreStrongest == Spec => []TypeIsStrongest
  BY RecordingsHold, PTL DEF Recordings

\* The formula handed to picomus has no solution, whatever the crosscheck did after
\* it was saved.
THEOREM MusInputsUnsatisfiable == Spec => []MusUnsatisfiable
  BY RecordingsHold, PTL DEF Recordings

\* A block with a defect on the main model that was left behind has its report,
\* unless -s skips it as NoKconfig or an error was logged that explains it: for the
\* block itself, or for a model that its own analysis got to.  No failure of one
\* block takes the report of another.
THEOREM NoReportIsLost == Spec => []NothingLost
  BY RecordingsHold, PTL DEF Recordings
=============================================================================
