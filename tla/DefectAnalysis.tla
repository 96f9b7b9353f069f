--------------------------- MODULE DefectAnalysis ---------------------------
(* process_file_dead_helper and BlockDefectAnalyzer: the blocks of one file   *)
(* are checked one after the other, first for being dead, then for being      *)
(* undead, against the main model; a defect found there is crosschecked       *)
(* against the other models in the order of the ModelContainer and reported.  *)
(*                                                                            *)
(* The file is its top block and one #if/#elif/.../#else chain; a              *)
(* configuration is the block of the chain it selects (0: none).  A formula   *)
(* is the set of configurations that satisfy it, so SatChecker is emptiness   *)
(* and joining formulas is intersection.                                      *)
EXTENDS Integers, Sequences, FiniteSetsExt

CONSTANTS
    ChainLen,   \* blocks of the chain
    HasElse,    \* the last block of the chain is an #else
    NArchs,     \* loaded models, in the order of the ModelContainer
    Main,       \* the main model, NoModel if none was loaded
    Incomplete, \* the models with CONFIGURATION_SPACE_INCOMPLETE
    MayBreak,   \* the models with a formula CNFBuilder may fail to parse
    MayFail     \* the blocks whose code formula may not parse, whose analysis may
                \* run out of memory or whose report may not be opened

NoModel == 0
Top == 0
Archs == 1..NArchs
Blocks == 0..ChainLen
Confs == 0..ChainLen

ASSUME ChainAssumption == ChainLen \in Nat \ {0} /\ HasElse \in BOOLEAN
ASSUME ModelAssumption ==
    /\ NArchs \in Nat
    /\ Main \in Archs \cup {NoModel}
    /\ Incomplete \subseteq Archs
    /\ MayBreak \subseteq Archs
    /\ MayFail \subseteq Blocks
\* DEFECTTYPE
Types == {"None", "Implementation", "Configuration", "Referential",
          "NoKconfig", "BuildSystem"}

\* The formulas a check adds one after the other: 0 code, 1 kconfig, 2 kbuild,
\* 3 missing; OK says that the last one added is still satisfiable.
Stage == 0..3
OK == 4

VARIABLES
    code,       \* the configurations the code constraints allow
    dies,       \* dies[m][c]: the stage of model m that excludes c, OK if none (a
                \* stage it has not, or whose formula does not parse, excludes none)
    breaks,     \* breaks[m]: the first stage whose formula of model m does not
                \* parse, kconfig or kbuild; OK if none
    mentions,   \* the blocks whose expression has an item of the main model's space
    special,    \* getSpecificArch() # ""
    skip,       \* skip_non_configuration_based_defects
    pc,
    block,      \* the block under analysis
    defect,     \* the BlockDefect object
    at,         \* the model the crosscheck loop is at
    saved,      \* block->defectType of every block
    reports,    \* the reports written
    failed      \* the blocks of MayFail that such an error was logged about

input == <<code, dies, breaks, mentions, special, skip>>
vars == <<input, pc, block, defect, at, saved, reports, failed>>
-----------------------------------------------------------------------------
\* B && code, or (parent && !B) && code: what has to be satisfiable.
Wanted(kind, b) ==
    IF kind = "dead" THEN (IF b = Top THEN Confs ELSE {b}) ELSE Confs \ {b}

\* What is left of the code formula after the formulas up to stage n.
Left(m, n) == {c \in code : n > 0 => dies[m][c] > n}

Formula(kind, b, m, n) == Wanted(kind, b) \cap Left(m, n)

\* The formulas isDefect gets to on model m.
StagesOf(m) ==
    IF m = NoModel THEN {0} ELSE IF m \in Incomplete THEN 0..2 ELSE Stage

\* The file's top block has no parent and cannot be undead.
Impossible(kind, b) == kind = "undead" /\ b = Top

UnsatStages(kind, b, m) ==
    IF Impossible(kind, b) THEN {}
    ELSE {n \in StagesOf(m) : Formula(kind, b, m, n) = {}}

\* The stage isDefect stops at, OK if it returns false.
Verdict(kind, b, m) ==
    LET bad == UnsatStages(kind, b, m)
    IN  IF bad = {} THEN OK ELSE Min(bad)

Broken == {m \in Archs : breaks[m] < OK}

\* CNFBuilderError: the formula of m is pushed unless what was pushed before it
\* is contradictory already.
Throws(kind, b, m) ==
    m \in Broken /\ ~Impossible(kind, b) /\ Verdict(kind, b, m) >= breaks[m]

\* Mutation of Kinds: no undead analysis.
KindsDeadOnly == <<"dead">>

\* The analyses of a block, in order.
Kinds == <<"dead", "undead">>

NewDefect(kind) ==
    [kind |-> kind, type |-> "None", global |-> FALSE, formula |-> Confs,
     mus |-> Confs, map |-> << >>]

\* Mutation of TypeAfter: every check overwrites the type.
TypeOfLastCheck(type, n) ==
    CASE n = 0 -> "Implementation"
      [] n = 1 -> "Configuration"
      [] n = 2 -> "BuildSystem"
      [] n = 3 -> "Referential"

\* _defectType after a check that stopped at stage n.
TypeAfter(type, n) ==
    CASE n = 0 -> "Implementation"
      [] n = 1 -> IF type = "BuildSystem" THEN type ELSE "Configuration"
      [] n = 2 -> "BuildSystem"
      [] n = 3 -> IF type \in {"Configuration", "BuildSystem"} THEN type ELSE "Referential"

\* Mutation of Recorded: only the main model is entered.
RecordedForMain(d, m, n) == IF m = Main /\ n > 0 THEN [a \in {m} |-> n] ELSE d.map

\* defectMap.emplace(arch of m, the stage), which keeps an entry it finds.
Recorded(d, m, n) ==
    IF n = 0 THEN d.map
    ELSE [a \in DOMAIN d.map \cup {m} |-> IF a \in DOMAIN d.map THEN d.map[a] ELSE n]

\* _musFormula is saved for the main model, and for a code defect.
MusAfter(d, m, f) == IF d.kind = "dead" /\ m = Main THEN f ELSE d.mus

\* isDefect(m) returned true.
Found(d, m) ==
    LET n == Verdict(d.kind, block, m)
        f == Formula(d.kind, block, m, n)
    IN  [d EXCEPT !.type = TypeAfter(d.type, n), !.global = @ \/ n = 0,
                  !.formula = f, !.mus = MusAfter(d, m, f), !.map = Recorded(d, m, n)]

\* Mutation of Cleared: one string is both _formula and _musFormula.
ClearedMus(d, m) ==
    [d EXCEPT !.formula = Formula(d.kind, block, m, 0), !.mus = Formula(d.kind, block, m, 0)]

\* isDefect(m) returned false: _formula holds the code formula alone.
Cleared(d, m) == [d EXCEPT !.formula = Formula(d.kind, block, m, 0)]

IsElse(b) == HasElse /\ b = ChainLen /\ b > 1

\* isNoKconfigDefect: an #else has no expression and asks the types saved in the
\* blocks before it.
IsNoKconfig(b) ==
    \/ Main = NoModel
    \/ IF IsElse(b)
       THEN \A p \in 1..(b - 1) : saved[p] = "NoKconfig"
       ELSE b \notin mentions
-----------------------------------------------------------------------------
\* The blocks whose saved type some #else reads.
AskedBlocks == IF HasElse THEN 1..(ChainLen - 1) ELSE {}

\* ConditionalBlock::defectType has no initializer: an unanalysed block holds
\* any value, of which only NoKconfig makes a difference to who reads it.
Init ==
    /\ code \in SUBSET (IF HasElse THEN 1..ChainLen ELSE Confs)
    /\ breaks \in [Archs -> {1, 2, OK}]
    /\ \A m \in Archs \ MayBreak : breaks[m] = OK
    /\ dies \in [Archs -> [code -> 1..OK]]
    /\ \A m \in Archs : \A c \in code :
           dies[m][c] < OK => dies[m][c] \in StagesOf(m) /\ dies[m][c] < breaks[m]
    /\ mentions \in SUBSET {b \in Blocks : ~IsElse(b)}
    /\ special \in BOOLEAN /\ skip \in BOOLEAN
    /\ pc = "next"
    /\ block = -1
    /\ defect = NewDefect(Kinds[1])
    /\ at = 1
    /\ \E S \in SUBSET AskedBlocks :
           saved = [b \in Blocks |-> IF b \in S THEN "NoKconfig" ELSE "None"]
    /\ reports = {}
    /\ failed = {}

\* The block is left behind and the object with it.
Leave ==
    /\ pc' = "next"
    /\ defect' = NewDefect(Kinds[1])
    /\ at' = 1
    /\ UNCHANGED <<input, block, saved>>

\* processBlock of the top block, then of every block of the file.
NextBlock ==
    /\ pc = "next"
    /\ block < ChainLen
    /\ block' = block + 1
    /\ pc' = "main"
    /\ UNCHANGED <<input, defect, at, saved, reports, failed>>

\* isDefect(main_model, true) returned true.
MainFinds ==
    /\ pc = "main"
    /\ ~Throws(defect.kind, block, Main)
    /\ Verdict(defect.kind, block, Main) # OK
    /\ defect' = Found(defect, Main)
    /\ pc' = "classify"
    /\ UNCHANGED <<input, block, at, saved, reports, failed>>

\* Not dead: a new object checks for undead.  Neither: the block seems OK.
MainClears ==
    /\ pc = "main"
    /\ ~Throws(defect.kind, block, Main)
    /\ Verdict(defect.kind, block, Main) = OK
    /\ IF defect.kind = Kinds[1] /\ Len(Kinds) > 1
       THEN defect' = NewDefect(Kinds[2]) /\ UNCHANGED <<input, pc, block, at, saved>>
       ELSE Leave
    /\ UNCHANGED <<reports, failed>>

Classified ==
    [defect EXCEPT !.type = IF IsNoKconfig(block) THEN "NoKconfig" ELSE @,
                   !.global = @ \/ special]

\* Mutation of NeedsCrosscheck: a missing item is taken to be missing everywhere.
NeedsCrosscheckUnlessMissing(d) ==
    d.type \in {"Configuration", "BuildSystem"} /\ ~d.global

NeedsCrosscheck(d) ==
    d.type \notin {"None", "Implementation", "NoKconfig"} /\ ~d.global

\* NoKconfig is decided, the type is saved in the block, and a block of an
\* architecture specific file is global at once.
Classify ==
    /\ pc = "classify"
    /\ defect' = Classified
    /\ saved' = [saved EXCEPT ![block] = Classified.type]
    /\ pc' = IF Main # NoModel /\ NeedsCrosscheck(Classified) THEN "cross" ELSE "report"
    /\ UNCHANGED <<input, block, at, reports, failed>>

\* Mutation of IsMain: the models are compared by order.
IsMainOrLater(m) == m >= Main

IsMain(m) == m = Main

\* The loop over the ModelContainer: the main model is not checked twice, and a
\* model without the defect ends the loop.
CrossSkips ==
    /\ pc = "cross"
    /\ at \in Archs
    /\ IsMain(at)
    /\ at' = at + 1
    /\ UNCHANGED <<input, pc, block, defect, saved, reports, failed>>

CrossFinds ==
    /\ pc = "cross"
    /\ at \in Archs /\ ~IsMain(at)
    /\ ~Throws(defect.kind, block, at)
    /\ Verdict(defect.kind, block, at) # OK
    /\ defect' = Found(defect, at)
    /\ at' = at + 1
    /\ UNCHANGED <<input, pc, block, saved, reports, failed>>

CrossClears ==
    /\ pc = "cross"
    /\ at \in Archs /\ ~IsMain(at)
    /\ ~Throws(defect.kind, block, at)
    /\ Verdict(defect.kind, block, at) = OK
    /\ defect' = Cleared(defect, at)
    /\ pc' = "report"
    /\ UNCHANGED <<input, block, at, saved, reports, failed>>

CrossEnds ==
    /\ pc = "cross"
    /\ at > NArchs
    /\ defect' = [defect EXCEPT !.global = TRUE]
    /\ pc' = "report"
    /\ UNCHANGED <<input, block, at, saved, reports, failed>>

\* analyzeBlock catches the exception, logs it and returns no defect.
CheckThrows ==
    /\ \/ pc = "main" /\ Throws(defect.kind, block, Main)
       \/ pc = "cross" /\ at \in Archs /\ ~IsMain(at) /\ Throws(defect.kind, block, at)
    /\ Leave
    /\ UNCHANGED <<reports, failed>>

\* The code formula of the block does not parse (its first check says so), or
\* memory runs out at any point.
BlockThrows ==
    /\ pc \in {"main", "classify", "cross"}
    /\ block \in MayFail
    /\ Leave
    /\ failed' = failed \cup {block}
    /\ UNCHANGED reports

\* The part of the file name that says on how many architectures.
Named(d) == IF d.global \/ d.type = "NoKconfig" THEN "globally" ELSE "locally"

\* writeReportToFile, and reportMUS for the formula picomus is given.
Report ==
    /\ pc = "report"
    /\ reports' = IF skip /\ defect.type = "NoKconfig" THEN reports
                  ELSE reports \cup {[block |-> block, name |-> Named(defect),
                                      defect |-> defect]}
    /\ Leave
    /\ UNCHANGED failed

\* The report's file cannot be opened: that is logged, and the report is lost.
ReportUnopened ==
    /\ pc = "report"
    /\ block \in MayFail
    /\ ~(skip /\ defect.type = "NoKconfig")
    /\ failed' = failed \cup {block}
    /\ Leave
    /\ UNCHANGED reports

Finished ==
    /\ pc = "next"
    /\ block = ChainLen
    /\ UNCHANGED vars

Next ==
    \/ NextBlock
    \/ MainFinds
    \/ MainClears
    \/ Classify
    \/ CrossSkips
    \/ CrossFinds
    \/ CrossClears
    \/ CrossEnds
    \/ CheckThrows
    \/ BlockThrows
    \/ Report
    \/ ReportUnopened
    \/ Finished

Spec == Init /\ [][Next]_vars
-----------------------------------------------------------------------------
TypeOK ==
    /\ code \subseteq Confs
    /\ dies \in [Archs -> [code -> 1..OK]]
    /\ breaks \in [Archs -> {1, 2, OK}]
    /\ mentions \subseteq Blocks
    /\ special \in BOOLEAN /\ skip \in BOOLEAN
    /\ pc \in {"next", "main", "classify", "cross", "report"}
    /\ block \in Blocks \cup {-1}
    /\ pc # "next" => block \in Blocks
    /\ defect.kind \in {"dead", "undead"}
    /\ defect.type \in Types
    /\ defect.global \in BOOLEAN
    /\ defect.formula \subseteq Confs /\ defect.mus \subseteq Confs
    /\ DOMAIN defect.map \subseteq Archs
    /\ \A m \in DOMAIN defect.map : defect.map[m] \in 1..3
    /\ at \in 1..(NArchs + 1)
    /\ saved \in [Blocks -> Types]
    /\ \A r \in reports : r.block \in Blocks /\ r.name \in {"globally", "locally"}
    /\ failed \subseteq MayFail

\* The configurations that model m allows in the end.
Possible(m) ==
    {c \in code : m # NoModel => dies[m][c] = OK}

\* Block b is dead (undead) on model m: no possible configuration selects
\* (deselects) it.  The top block cannot be deselected.
Defective(kind, b, m) ==
    ~Impossible(kind, b) /\ Wanted(kind, b) \cap Possible(m) = {}

DefectiveOn(r, m) == Defective(r.defect.kind, r.block, m)

\* A report that is not about a NoKconfig defect has been checked: "globally"
\* is written only when the block has the defect on every loaded model
\* (BlockDefectAnalyzer.h: dead on every checked arch), except for an
\* architecture specific file, where nothing but its own model is asked.
GlobalOnEveryArch ==
    \A r \in reports :
        r.name = "globally" /\ r.defect.type # "NoKconfig" /\ ~special =>
            \A m \in Archs : DefectiveOn(r, m)

\* "locally" is written only when the block has the defect on the main model
\* and some loaded model does not have it (README: there is at least one
\* architecture this block can be enabled).
LocalHasWitness ==
    \A r \in reports :
        r.name = "locally" =>
            /\ DefectiveOn(r, Main)
            /\ \E m \in Archs : ~DefectiveOn(r, m)

\* The lines "Arch -> Defect Type" are the truth about each architecture they
\* name, and a global report that was crosschecked names all of them.
MapTruthful ==
    \A r \in reports :
        /\ \A m \in DOMAIN r.defect.map :
               r.defect.map[m] = Verdict(r.defect.kind, r.block, m)
        /\ r.name = "globally" /\ ~special
               /\ r.defect.type \notin {"NoKconfig", "Implementation"} =>
               DOMAIN r.defect.map = Archs

\* The type of a crosschecked report does not depend on the order of the models:
\* it is kbuild if some architecture of the report has a kbuild defect, else
\* kconfig if some has a kconfig defect, else missing.
TypeIsStrongest ==
    \A r \in reports :
        r.defect.type \notin {"NoKconfig", "Implementation"} =>
            LET stages == {r.defect.map[m] : m \in DOMAIN r.defect.map}
            IN  r.defect.type = IF 2 \in stages THEN "BuildSystem"
                                ELSE IF 1 \in stages THEN "Configuration"
                                ELSE "Referential"

\* picomus is given an unsatisfiable formula, whatever the crosscheck did to the
\* object after the formula was saved.
MusUnsatisfiable ==
    \A r \in reports :
        r.defect.kind = "dead" => r.defect.mus = {}

\* A model that the analysis of b got to has a formula that does not parse: the
\* main model, or one that the crosscheck loop reached because every model
\* before it had the defect.
GotToBroken(kind, b) ==
    \E m \in Broken :
        \/ m = Main
        \/ \A a \in Archs : a < m /\ a # Main => Defective(kind, b, a)

\* No block is lost without a word: every block that was left behind and that has
\* a defect on the main model has its report, unless it was skipped as NoKconfig
\* or an error was logged, for the block or for a model its analysis got to (whose
\* failure in the crosscheck also loses what the main model established).  What
\* becomes of one block is not changed by the failure of another.
NothingLost ==
    \A b \in Blocks :
        (b < block \/ (b = block /\ pc = "next")) =>
            LET kind == IF Defective("dead", b, Main) THEN "dead" ELSE "undead"
            IN  Defective(kind, b, Main) =>
                    \/ \E r \in reports : r.block = b /\ r.defect.kind = kind
                    \/ skip /\ saved[b] = "NoKconfig"
                    \/ b \in failed
                    \/ GotToBroken(kind, b)

\* The formula in a report is the defect causing formula (README): a formula
\* that some configuration satisfies causes no defect.
FormulaCausesDefect == \A r \in reports : r.defect.formula = {}

=============================================================================
