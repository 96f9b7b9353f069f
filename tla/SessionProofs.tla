---------------------------- MODULE SessionProofs ----------------------------
(***************************************************************************)
(* Theorems about the two sessions: about undertaker's, in Session, for    *)
(* every set of models, directory, command line and sequence of prompt     *)
(* commands, and about the configuration tool's, in Kconfig, for every     *)
(* Kconfig file, .config and sequence of reads, settings and writes; and   *)
(* about the formula Satyr makes of a Kconfig file: its solutions are the  *)
(* configurations of that tool.                                            *)
(***************************************************************************)
EXTENDS Session, Satyr, FiniteSetTheorems, WellFoundedInduction, TLAPS

(***************************************************************************)
(* The first and the last of a non-empty set of positions.                 *)
(***************************************************************************)
LEMMA FirstExists ==
    ASSUME NEW S \in SUBSET Nat, S # {}
    PROVE  \E n \in S : \A m \in S : n <= m
<1>1. \E n \in S : \A m \in S : ~ (<<m, n>> \in OpToRel(<, Nat))
  BY NatLessThanWellFounded, WFMin
<1>2. PICK n \in S : \A m \in S : ~ (<<m, n>> \in OpToRel(<, Nat))
  BY <1>1
<1>3. \A m \in S : ~(m < n)
  BY <1>2 DEF OpToRel
<1> QED  BY <1>3

\* The last of a bounded set.
LEMMA LastExists ==
    ASSUME NEW k \in Nat, NEW S \in SUBSET (1 .. k), S # {}
    PROVE  \E n \in S : \A m \in S : m <= n
<1> DEFINE T == {k - n : n \in S}
<1>0. PICK e \in S : TRUE
  OBVIOUS
<1>1. T \in SUBSET Nat /\ T # {}
  <2>1. \A n \in S : n \in Nat /\ k - n \in Nat
    OBVIOUS
  <2>2. k - e \in T
    BY <1>0
  <2> QED  BY <2>1, <2>2
<1>2. PICK t \in T : \A u \in T : t <= u
  BY <1>1, FirstExists
<1>3. PICK n \in S : t = k - n
  BY <1>2
<1>4. \A m \in S : k - n <= k - m
  BY <1>2, <1>3
<1> QED  BY <1>4

(***************************************************************************)
(* What the CHOOSEs of the model find.                                     *)
(***************************************************************************)
LEMMA OrderLen == Len(ArchOrder) \in Nat /\ DOMAIN ArchOrder = 1 .. Len(ArchOrder)
BY OrderAssumption

\* Every model has a place in the order.
LEMMA ArchHasPlace == \A a \in Archs : \E n \in DOMAIN ArchOrder : ArchOrder[n] = a
BY DEF Archs

\* begin() of a container that is not empty is one of its models.
LEMMA FirstLoadedIs ==
    ASSUME Loaded \subseteq Archs, Loaded # {}
    PROVE  FirstLoaded \in Loaded
<1> DEFINE S == {n \in DOMAIN ArchOrder : ArchOrder[n] \in Loaded}
<1>1. S \in SUBSET Nat
  BY OrderLen
<1>2. S # {}
  <2>1. PICK a \in Loaded : TRUE
    OBVIOUS
  <2> QED  BY <2>1, ArchHasPlace
<1>3. PICK n \in S : \A m \in S : n <= m
  BY <1>1, <1>2, FirstExists
<1>4. \E k \in DOMAIN ArchOrder :
        /\ ArchOrder[k] \in Loaded
        /\ \A m \in DOMAIN ArchOrder : ArchOrder[m] \in Loaded => k <= m
  BY <1>3
<1> QED  BY <1>4 DEF FirstLoaded

\* loadModels returns a model only if it is new.
LEMMA LastNewIs ==
    ASSUME NEW c, Fresh(c) \subseteq Archs, Fresh(c) # {}
    PROVE  LastNew(c) \in Fresh(c)
<1> DEFINE S == {n \in DOMAIN ArchOrder : ArchOrder[n] \in Fresh(c)}
<1>1. S \in SUBSET (1 .. Len(ArchOrder)) /\ Len(ArchOrder) \in Nat
  BY OrderLen
<1>2. S # {}
  <2>1. PICK a \in Fresh(c) : TRUE
    OBVIOUS
  <2> QED  BY <2>1, ArchHasPlace
<1>3. PICK n \in S : \A m \in S : m <= n
  BY <1>1, <1>2, LastExists
<1>4. \E k \in DOMAIN ArchOrder :
        /\ ArchOrder[k] \in Fresh(c)
        /\ \A m \in DOMAIN ArchOrder : ArchOrder[m] \in Fresh(c) => m <= k
  BY <1>3
<1> QED  BY <1>4 DEF LastNew

\* By default every container that is not empty has a main model.
LEMMA DefaultMainIs ==
    ASSUME Loaded \subseteq Archs, Loaded # {}
    PROVE  DefaultMain \in Loaded
<1> DEFINE hits == {i \in DOMAIN Preferred : Preferred[i] \in Loaded}
<1>1. CASE hits = {}
  BY <1>1, FirstLoadedIs DEF DefaultMain
<1>2. CASE hits # {}
  <2>1. hits \in SUBSET Nat
    BY DEF Preferred
  <2>2. \E i \in hits : \A j \in hits : i <= j
    BY <1>2, <2>1, FirstExists
  <2> HIDE DEF hits
  <2>3. (CHOOSE i \in hits : \A j \in hits : i <= j) \in hits
    BY <2>2
  <2> QED  BY <1>2, <2>3 DEF DefaultMain, hits
<1> QED  BY <1>1, <1>2

\* The main model chosen at the start is loaded, and missing only for the reasons stated.
LEMMA StartMainIs ==
    ASSUME Loaded \subseteq Archs
    PROVE  /\ StartMain \in Loaded \cup {Empty}
           /\ StartMain = Empty =>
                Loaded = {} \/ (opts.main \notin Loaded \cup {"default"} /\ ~Single(Loaded))
<1>0. Empty \notin Loaded
  BY ArchAssumption
<1>1. CASE Loaded = {}
  <2>1. StartMain = Empty
    BY <1>1 DEF StartMain
  <2> QED  BY <1>1, <2>1
<1>2. CASE Loaded # {} /\ Single(Loaded)
  BY <1>0, <1>2, FirstLoadedIs DEF StartMain
<1>3. CASE Loaded # {} /\ ~Single(Loaded) /\ opts.main = "default"
  BY <1>0, <1>3, DefaultMainIs DEF StartMain
<1>4. CASE Loaded # {} /\ ~Single(Loaded) /\ opts.main # "default"
  BY <1>0, <1>4 DEF StartMain, MainSet
<1> QED  BY <1>1, <1>2, <1>3, <1>4

(***************************************************************************)
(* The inductive invariant.  A missing main model has its reason from the  *)
(* choice of the main model on, and the state of a crash still shows which *)
(* job missed which model.                                                 *)
(***************************************************************************)
MainDecided == pc \in {"prompt", "process", "files", "crash"}

IInv ==
    /\ opts \in Options /\ at \in Nat \ {0}
    /\ Loaded \subseteq Archs
    /\ main_model \in Loaded \cup {Empty}
    /\ pc = "models" => main_model = Empty
    /\ MainDecided /\ main_model = Empty => NoMainChosen
    /\ pc = "crash" => NullModel(process_mode, line)

\* What a path loads has the names of models.
LEMMA ChoicesAreArchs ==
    ASSUME NEW p \in Paths, NEW c \in Choices(p)
    PROVE  DOMAIN c \subseteq Archs
BY ModelsAssumption DEF Choices, Paths

\* Emplacing adds the models that are found and removes none.
LEMMA EmplacedDomain ==
    ASSUME NEW c
    PROVE  DOMAIN Emplaced(c) = Loaded \cup DOMAIN c
BY DEF Emplaced

\* No model is there yet, and no job has crashed.
THEOREM Initially == Init => IInv
BY DEF Init, IInv, Loaded, MainDecided

\* Every step of a session keeps the main model among those loaded, and the reason if it
\* is missing.
THEOREM Inductive == IInv /\ [Next]_vars => IInv'
<1> SUFFICES ASSUME IInv, [Next]_vars PROVE IInv'
  OBVIOUS
<1> USE DEF IInv, MainDecided
<1>1. CASE UsageError
  BY <1>1 DEF UsageError, End, Loaded, statics, NoMainChosen
<1>2. CASE LoadModel
  <2>1. opts.models[at] \in Paths
    BY <1>2, OptionsAssumption DEF LoadModel
  <2>2. PICK c \in Choices(opts.models[at]) :
           \/ pc' = "thrown" /\ UNCHANGED <<container, at>>
           \/ pc' = pc /\ container' = Emplaced(c) /\ at' = at + 1
    BY <1>2 DEF LoadModel
  <2>3. DOMAIN c \subseteq Archs
    BY <2>1, <2>2, ChoicesAreArchs
  <2>4. Loaded' = Loaded \/ Loaded' = Loaded \cup DOMAIN c
    BY <2>2, EmplacedDomain DEF Loaded
  <2>5. UNCHANGED <<opts, main_model>> /\ pc = "models"
    BY <1>2 DEF LoadModel
  <2>6. at' \in Nat \ {0}
    BY <2>2
  <2>7. pc' \in {"models", "thrown"}
    BY <2>2, <2>5
  <2> QED  BY <2>3, <2>4, <2>5, <2>6, <2>7
<1>3. CASE Start
  <2>1. /\ Loaded' = Loaded /\ started' = Loaded /\ main_model' = StartMain
        /\ UNCHANGED <<opts, at>> /\ pc' \in {"prompt", "process", "files", "failure"}
    BY <1>3 DEF Start, Listed, Loaded
  <2>2. main_model' = Empty => NoMainChosen'
    BY <2>1, StartMainIs DEF NoMainChosen, Single
  <2> QED  BY <2>1, <2>2, StartMainIs
<1>4. CASE Process
  <2>1. UNCHANGED <<opts, at, container, main_model, started, process_mode>> /\ pc = "process"
    BY <1>4 DEF Process
  <2>2. PICK r \in Outcomes(process_mode, line) :
           \/ pc' = "prompt"
           \/ pc' = (IF r = "back" THEN "ok" ELSE r) /\ line' = line
    BY <1>4 DEF Process
  <2>3. pc' = "crash" => NullModel(process_mode, line) /\ line' = line
    BY <2>2 DEF Outcomes
  <2>4. NullModel(process_mode, line)' <=> NullModel(process_mode, line')
    BY <2>1 DEF NullModel, ModelFor, SpecificArch, Loaded
  <2>5. pc' # "models"
    BY <2>2 DEF Outcomes
  <2>6. NoMainChosen' <=> NoMainChosen
    BY <2>1 DEF NoMainChosen
  <2>7. Loaded' = Loaded
    BY <2>1 DEF Loaded
  <2> QED  BY <2>1, <2>3, <2>4, <2>5, <2>6, <2>7
<1>5. CASE ProcessInChild
  BY <1>5 DEF ProcessInChild, Loaded, NoMainChosen, statics
<1>6. CASE FilesDone
  BY <1>6 DEF FilesDone, End, Loaded, NoMainChosen, statics
<1>7. CASE EndOfInput
  BY <1>7 DEF EndOfInput, End, Loaded, NoMainChosen, statics
<1>8. CASE FileLine
  BY <1>8 DEF FileLine, Loaded, NoMainChosen, statics
<1>9. CASE ModeCommand
  BY <1>9 DEF ModeCommand, Loaded, NoMainChosen
<1>10. ASSUME NEW switch \in BOOLEAN, LoadCommand(switch) PROVE IInv'
  <2>1. /\ UNCHANGED <<opts, at, started>> /\ pc = "prompt"
        /\ pc' \in {"thrown", "process"}
    BY <1>10 DEF LoadCommand
  <2>2. CASE UNCHANGED <<container, main_model>>
    BY <2>1, <2>2 DEF Loaded, NoMainChosen
  <2>3. ASSUME NEW p \in Paths, NEW c \in Choices(p), container' = Emplaced(c),
               main_model' \in {main_model, MainSet(Loaded \cup Fresh(c), LastNew(c), main_model)}
        PROVE  IInv'
    <3>1. Loaded' = Loaded \cup DOMAIN c
      BY <2>3, EmplacedDomain DEF Loaded
    <3>2. DOMAIN c \subseteq Archs
      BY ChoicesAreArchs
    <3>3. main_model' = main_model \/ main_model' \in Loaded \cup Fresh(c)
      BY <2>3 DEF MainSet
    <3>4. main_model' \in Loaded' \cup {Empty}
      BY <3>1, <3>3 DEF Fresh
    <3>5. main_model' = Empty => main_model = Empty
      BY <3>1, <3>2, <3>3, ArchAssumption DEF Fresh
    <3>6. main_model' = Empty => NoMainChosen'
      BY <2>1, <3>5 DEF NoMainChosen
    <3> QED  BY <2>1, <3>1, <3>2, <3>4, <3>6
  <2> QED  BY <1>10, <2>2, <2>3 DEF LoadCommand
<1>11. CASE Ended \/ UNCHANGED vars
  BY <1>11 DEF Ended, vars, statics, Loaded, NoMainChosen, NullModel, ModelFor, SpecificArch
<1> QED  BY <1>1, <1>2, <1>3, <1>4, <1>5, <1>6, <1>7, <1>8, <1>9, <1>10, <1>11 DEF Next

\* The invariant holds in every session.
LEMMA Invariance == Spec => []IInv
BY Initially, Inductive, PTL DEF Spec

(***************************************************************************)
(* A job misses its model only for a file of an architecture that is not   *)
(* loaded, or when no main model was chosen (undertaker.cpp:472 and :262). *)
(***************************************************************************)
THEOREM MissingOnlyBy == Spec => []NullOnlyBy
<1>1. IInv => NullOnlyBy
  <2> SUFFICES ASSUME IInv, pc = "crash", ~NoMainChosen
               PROVE  /\ process_mode # "mergeblockconf"
                      /\ SpecificArch(line) \notin Loaded \cup {Empty}
    BY DEF NullOnlyBy
  <2>1. NullModel(process_mode, line) /\ main_model # Empty /\ main_model \in Loaded
    BY DEF IInv, MainDecided
  <2>2. process_mode # "mergeblockconf" /\ ModelFor(line) = Empty
    BY <2>1 DEF NullModel
  <2>3. Empty \notin Loaded
    BY ArchAssumption DEF IInv
  <2> QED  BY <2>1, <2>2, <2>3 DEF ModelFor
<1> QED  BY <1>1, Invariance, PTL

(***************************************************************************)
(* A name keeps its model, and the prompt switches only to a new model.    *)
(***************************************************************************)
THEOREM SessionModelsStay == Spec => ModelsStay
<1> DEFINE Stays == \A a \in Loaded : a \in DOMAIN container' /\ container'[a].file = container[a].file
           Switch == pc = "prompt" /\ main_model' # main_model
                       => main_model' \in DOMAIN container' \ Loaded
<1>1. IInv /\ [Next]_vars => Stays /\ Switch
  <2> SUFFICES ASSUME IInv, [Next]_vars PROVE Stays /\ Switch
    OBVIOUS
  <2>1. ASSUME NEW c, container' = Emplaced(c) PROVE Stays
    BY <2>1 DEF Emplaced, Entry
  <2>2. CASE LoadModel
    BY <2>1, <2>2 DEF LoadModel, Loaded
  <2>3. CASE Start
    BY <2>3 DEF Start, Listed, Loaded
  <2>4. ASSUME NEW switch \in BOOLEAN, LoadCommand(switch) PROVE Stays /\ Switch
    <3>1. CASE UNCHANGED <<container, main_model>>
      BY <3>1 DEF Loaded
    <3>2. ASSUME NEW p \in Paths, NEW c \in Choices(p), container' = Emplaced(c),
                 \/ main_model' = main_model
                 \/ /\ LastNew(c) # Empty
                    /\ main_model' = MainSet(Loaded \cup Fresh(c), LastNew(c), main_model)
          PROVE  Stays /\ Switch
      <4>1. DOMAIN container' = Loaded \cup DOMAIN c
        BY <3>2, EmplacedDomain
      <4>2. CASE main_model' # main_model
        <5>1. Fresh(c) # {}
          BY <3>2, <4>2 DEF LastNew
        <5>2. Fresh(c) \subseteq Archs
          BY ChoicesAreArchs DEF Fresh
        <5>3. LastNew(c) \in Fresh(c)
          BY <5>1, <5>2, LastNewIs
        <5>4. main_model' = LastNew(c)
          BY <3>2, <4>2, <5>3 DEF MainSet
        <5> QED  BY <2>1, <3>2, <4>1, <5>3, <5>4 DEF Fresh
      <4> QED  BY <2>1, <3>2, <4>2
    <3> QED  BY <2>4, <3>1, <3>2 DEF LoadCommand
  <2>5. CASE UsageError \/ FilesDone \/ EndOfInput
    BY <2>5 DEF UsageError, FilesDone, EndOfInput, End, Loaded
  <2>6. CASE Process \/ ProcessInChild \/ FileLine \/ ModeCommand
    BY <2>6 DEF Process, ProcessInChild, FileLine, ModeCommand, Loaded
  <2>7. CASE Ended \/ UNCHANGED vars
    BY <2>7 DEF Ended, vars, Loaded
  <2> QED  BY <2>2, <2>3, <2>4, <2>5, <2>6, <2>7 DEF Next
<1> QED  BY <1>1, Invariance, PTL DEF Spec, ModelsStay

(***************************************************************************)
(* A run without a prompt: until its files are processed no job ran, and   *)
(* nothing changed what the command line says.                             *)
(***************************************************************************)
AllListed == \A a \in Loaded : container[a].listed = opts.lists

Commanded ==
    opts.input # "prompt" =>
      /\ pc # "prompt"
      /\ decision_coverage = DecisionAsked
      /\ pc \in {"models", "process"} => job = NoJob
      /\ pc \in {"models", "process", "files"} => useBlockWithFilename = FALSE
      /\ pc \in {"process", "files"} => AllListed
      /\ JobsAsCommanded

\* At the start nothing but the command line has been said.
LEMMA InitCommanded == Init => Commanded
BY DEF Init, Commanded, JobsAsCommanded

\* Without a prompt no step changes what the command line said.
LEMMA NextCommanded == Commanded /\ [Next]_vars => Commanded'
<1> SUFFICES ASSUME Commanded, [Next]_vars, opts'.input # "prompt" PROVE Commanded'
  BY DEF Commanded
<1>0. opts' = opts /\ DecisionAsked' = DecisionAsked
  <2>1. opts' = opts
    BY DEF Next, UsageError, LoadModel, Start, Process, ProcessInChild, FilesDone, EndOfInput,
       FileLine, ModeCommand, LoadCommand, Ended, End, vars
  <2> QED  BY <2>1 DEF DecisionAsked
<1>1. CASE UsageError \/ FilesDone \/ EndOfInput
  BY <1>0, <1>1
  DEF UsageError, FilesDone, EndOfInput, End, statics, Commanded, JobsAsCommanded, Loaded
<1>2. CASE LoadModel
  <2>1. /\ pc = "models" /\ pc' \in {"models", "thrown"}
        /\ UNCHANGED <<job, decision_coverage, useBlockWithFilename>>
    BY <1>2 DEF LoadModel, statics
  <2> QED  BY <1>0, <2>1 DEF Commanded, JobsAsCommanded
<1>3. CASE Start
  <2>1. /\ pc = "models" /\ container' = Listed
        /\ pc' \in {"prompt", "process", "files", "failure"} /\ pc' # "prompt"
        /\ UNCHANGED <<job, decision_coverage, useBlockWithFilename>>
    BY <1>0, <1>3 DEF Start, statics
  <2>2. AllListed'
    BY <1>0, <2>1 DEF AllListed, Listed, Loaded
  <2> QED  BY <1>0, <2>1, <2>2 DEF Commanded, JobsAsCommanded
<1>4. CASE Process
  <2>1. /\ pc = "process" /\ UNCHANGED <<container, decision_coverage>>
        /\ job' = Works(process_mode, line)
    BY <1>0, <1>4 DEF Process
  <2>2. pc' \in {"ok", "failure", "crash"}
    BY <1>0, <1>4 DEF Process, Outcomes
  <2>3. /\ job'.decision = decision_coverage
        /\ job'.extended => job'.mode = "mergeblockconf"
    BY <1>0, <2>1 DEF Works, Commanded
  <2>4. AllListed'
    BY <1>0, <2>1 DEF Commanded, AllListed, Loaded
  <2> QED  BY <1>0, <2>1, <2>2, <2>3, <2>4 DEF Commanded, JobsAsCommanded, AllListed
<1>5. CASE ProcessInChild
  <2>1. PICK x \in Args : job' = Works(process_mode, x)
    BY <1>5 DEF ProcessInChild
  <2>2. pc = "files" /\ UNCHANGED <<pc, container, decision_coverage, useBlockWithFilename>>
    BY <1>5 DEF ProcessInChild, statics
  <2>3. /\ job'.decision = decision_coverage
        /\ job'.extended => job'.mode = "mergeblockconf"
    BY <1>0, <2>1, <2>2 DEF Works, Commanded
  <2>4. AllListed'
    BY <1>0, <2>2 DEF Commanded, AllListed, Loaded
  <2> QED  BY <1>0, <2>2, <2>3, <2>4 DEF Commanded, JobsAsCommanded, AllListed
<1>6. CASE FileLine \/ ModeCommand \/ \E switch \in BOOLEAN : LoadCommand(switch)
  BY <1>0, <1>6 DEF FileLine, ModeCommand, LoadCommand, Commanded
<1>7. CASE Ended \/ UNCHANGED vars
  BY <1>0, <1>7 DEF Ended, vars, statics, Commanded, JobsAsCommanded, AllListed, Loaded
<1> QED  BY <1>1, <1>2, <1>3, <1>4, <1>5, <1>6, <1>7 DEF Next

(***************************************************************************)
(* However many files are processed and models loaded, a job of a run      *)
(* without a prompt has the lists, the coverage criterion and the block    *)
(* names that its command line asks for (undertaker.cpp:1028).             *)
(***************************************************************************)
THEOREM CommandLineHolds == Spec => []JobsAsCommanded
<1>1. Commanded => JobsAsCommanded
  BY DEF Commanded, JobsAsCommanded
<1> QED  BY InitCommanded, NextCommanded, <1>1, PTL DEF Spec
-----------------------------------------------------------------------------
(***************************************************************************)
(* The configuration tool.  Three values: a conjunction has the least of   *)
(* its parts, a disjunction the greatest.                                  *)
(***************************************************************************)
\* The least value of a set.
LEMMA AllOfIs ==
    ASSUME NEW S \in SUBSET Tristate
    PROVE  /\ AllOf(S) \in Tristate
           /\ \A u \in S : AllOf(S) <= u
           /\ AllOf(S) \in S \cup {yes}
<1>1. \E t \in S \cup {yes} : \A u \in S : t <= u
  <2>1. CASE no \in S  BY <2>1 DEF Tristate, no, mod, yes
  <2>2. CASE no \notin S /\ mod \in S  BY <2>2 DEF Tristate, no, mod, yes
  <2>3. CASE no \notin S /\ mod \notin S  BY <2>3 DEF Tristate, no, mod, yes
  <2> QED  BY <2>1, <2>2, <2>3
<1>2. AllOf(S) \in S \cup {yes} /\ \A u \in S : AllOf(S) <= u
  BY <1>1 DEF AllOf
<1> QED  BY <1>2 DEF Tristate, yes

\* The greatest value of a set.
LEMMA AnyOfIs ==
    ASSUME NEW S \in SUBSET Tristate
    PROVE  /\ AnyOf(S) \in Tristate
           /\ \A u \in S : u <= AnyOf(S)
           /\ AnyOf(S) \in S \cup {no}
<1> USE DEF Tristate, no, mod, yes
<1>1. \E t \in S \cup {no} : \A u \in S : t >= u
  <2>1. CASE yes \in S  BY <2>1
  <2>2. CASE yes \notin S /\ mod \in S  BY <2>2
  <2>3. CASE yes \notin S /\ mod \notin S  BY <2>3
  <2> QED  BY <2>1, <2>2, <2>3
<1>2. AnyOf(S) \in S \cup {no} /\ \A u \in S : AnyOf(S) >= u
  BY <1>1 DEF AnyOf
<1> QED  BY <1>2

\* What follows for a value and a condition, or several.
LEMMA AllOfNo ==
    ASSUME NEW S \in SUBSET Tristate, no \in S
    PROVE  AllOf(S) = no
<1>1. AllOf(S) \in Tristate /\ AllOf(S) <= no
  BY AllOfIs
<1> QED  BY <1>1 DEF Tristate, no, mod, yes

\* A disjunction is on if a part of it is.
LEMMA AnyOfOn ==
    ASSUME NEW S \in SUBSET Tristate
    PROVE  AnyOf(S) # no <=> \E u \in S : u # no
<1>1. AnyOf(S) \in Tristate /\ AnyOf(S) \in S \cup {no} /\ \A u \in S : u <= AnyOf(S)
  BY AnyOfIs
<1>2. ASSUME NEW u \in S, u # no PROVE AnyOf(S) # no
  <2>1. u \in Tristate /\ u <= AnyOf(S)
    BY <1>1
  <2> QED  BY <1>2, <2>1 DEF Tristate, no, mod, yes
<1> QED  BY <1>1, <1>2

-----------------------------------------------------------------------------
(***************************************************************************)
(* A concatenation of sequences has their elements.                        *)
(***************************************************************************)
Joined(q, F, i) == IF i = 1 THEN q[i] ELSE F[i - 1] \o q[i]

\* The recursive function by which the concatenation is defined exists.
LEMMA FlattenExists ==
    ASSUME NEW S, NEW q \in Seq(Seq(S)), NEW k \in 1 .. Len(q)
    PROVE  \E F : F = [i \in 1 .. k |-> Joined(q, F, i)]
<1> DEFINE Bad == {n \in 1 .. Len(q) :
                      ~\E F : F = [i \in 1 .. n |-> Joined(q, F, i)]}
<1>1. SUFFICES ASSUME Bad # {} PROVE FALSE
  OBVIOUS
<1>2. PICK n \in Bad : \A m \in Bad : n <= m
  <2>0. 1 .. Len(q) \subseteq Nat
    OBVIOUS
  <2>1. Bad \in SUBSET Nat
    BY <2>0
  <2> HIDE DEF Bad
  <2> QED  BY <1>1, <2>1, FirstExists
<1>3. n \in 1 .. Len(q) /\ Len(q) \in Nat
  OBVIOUS
<1>4. n # 1
  <2>1. [i \in 1 .. 1 |-> q[1]] =
          [i \in 1 .. 1 |-> Joined(q, [j \in 1 .. 1 |-> q[1]], i)]
    BY DEF Joined
  <2> QED  BY <2>1
<1>5. n - 1 \in 1 .. Len(q) /\ n - 1 \notin Bad
  <2> HIDE DEF Bad
  <2>1. n - 1 \in 1 .. Len(q) /\ ~(n <= n - 1)
    BY <1>3, <1>4
  <2> QED  BY <1>2, <2>1
<1>6. PICK F : F = [i \in 1 .. n - 1 |-> Joined(q, F, i)]
  BY <1>5
<1> DEFINE G == [i \in 1 .. n |-> IF i = n THEN Joined(q, F, n) ELSE F[i]]
<1>7. \A i \in 1 .. n - 1 : G[i] = F[i]
  BY <1>3
<1>8. G[n] = Joined(q, F, n) /\ DOMAIN G = 1 .. n
  BY <1>3
<1>9. \A i \in 1 .. n : G[i] = Joined(q, G, i)
  <2> HIDE DEF G
  <2>1. G[n] = Joined(q, G, n)
    <3>1. n - 1 \in 1 .. n - 1
      BY <1>3, <1>4
    <3> QED  BY <1>4, <1>7, <1>8, <3>1 DEF Joined
  <2>2. ASSUME NEW i \in 1 .. n, i # n
        PROVE  G[i] = Joined(q, G, i)
    <3>1. i \in 1 .. n - 1 /\ (i # 1 => i - 1 \in 1 .. n - 1)
      BY <1>3, <2>2
    <3>2. F[i] = Joined(q, F, i)
      BY <1>6, <3>1
    <3> QED  BY <1>7, <3>1, <3>2 DEF Joined
  <2> QED  BY <2>1, <2>2
<1>10. G = [i \in 1 .. n |-> Joined(q, G, i)]
  <2>1. G = [i \in 1 .. n |-> G[i]]
    BY <1>8
  <2> HIDE DEF G
  <2> QED  BY <1>9, <2>1
<1>11. \E H : H = [i \in 1 .. n |-> Joined(q, H, i)]
  <2> HIDE DEF G
  <2> QED  BY <1>10
<1> QED  BY <1>11

\* The concatenation of sequences over S is one over S.
LEMMA FlattenIn ==
    ASSUME NEW S, NEW q \in Seq(Seq(S))
    PROVE  Lib!FlattenSeq(q) \in Seq(S)
<1>1. CASE Len(q) = 0
  BY <1>1 DEF Lib!FlattenSeq
<1>2. CASE Len(q) # 0
  <2>1. Len(q) \in 1 .. Len(q) /\ Len(q) \in Nat
    BY <1>2
  <2> DEFINE flatten == CHOOSE F : F = [i \in 1 .. Len(q) |-> Joined(q, F, i)]
  <2>2. flatten = [i \in 1 .. Len(q) |-> Joined(q, flatten, i)]
    BY <2>1, FlattenExists
  <2>3. Lib!FlattenSeq(q) = flatten[Len(q)]
    BY <1>2 DEF Lib!FlattenSeq, Joined
  <2> HIDE DEF flatten
  <2> DEFINE Bad == {i \in 1 .. Len(q) : flatten[i] \notin Seq(S)}
  <2>4. Bad = {}
    <3>1. SUFFICES ASSUME Bad # {} PROVE FALSE
      OBVIOUS
    <3>2. PICK n \in Bad : \A m \in Bad : n <= m
      <4>1. Bad \in SUBSET Nat
        OBVIOUS
      <4> HIDE DEF Bad
      <4> QED  BY <3>1, <4>1, FirstExists
    <3>3. n \in 1 .. Len(q) /\ flatten[n] \notin Seq(S)
      OBVIOUS
    <3>4. q[n] \in Seq(S) /\ flatten[n] = IF n = 1 THEN q[n] ELSE flatten[n - 1] \o q[n]
      <4>1. q[n] \in Seq(S)
        BY <3>3
      <4>2. flatten[n] = Joined(q, flatten, n)
        BY <2>2, <3>3
      <4> QED  BY <4>1, <4>2 DEF Joined
    <3>5. n # 1 /\ n - 1 \in 1 .. Len(q) /\ ~(n <= n - 1)
      BY <2>1, <3>3, <3>4
    <3>6. n - 1 \notin Bad
      <4> HIDE DEF Bad
      <4> QED  BY <3>2, <3>5
    <3>7. flatten[n - 1] \in Seq(S)
      BY <3>5, <3>6
    <3> QED  BY <3>3, <3>4, <3>5, <3>7
  <2>5. flatten[Len(q)] \in Seq(S)
    BY <2>1, <2>4
  <2> QED  BY <2>3, <2>5
<1> QED  BY <1>1, <1>2

-----------------------------------------------------------------------------
(***************************************************************************)
(* What menu_finalize makes of a tree: conditions mention what comes       *)
(* before, what a member depends on, what a choice is selected by.         *)
(***************************************************************************)

\* The symbols up to which i may mention others.
Upto(i) == IF tree[i].choice = 0 THEN i - 1 ELSE tree[i].choice

Kept(a, i) ==
    /\ a \in Atom
    /\ \/ a.op = "const"
       \/ a.sym \in 1 .. Upto(i) /\ (IsOptional(tree[a.sym]) \/ a.sym = tree[i].choice)

\* A member that pulls i mentions its choice along with itself.
PullKept(a, c, i) ==
    /\ a \in Atom
    /\ \/ a.op = "const"
       \/ /\ a.sym \in 1 .. i - 1
          /\ \/ IsOptional(tree[a.sym])
             \/ \E j \in 1 .. i - 1 : Is(j) \in c /\ IsOptional(tree[j]) /\ tree[j].choice = a.sym

Conditions(i) ==
    tree[i].prompts \cup {tree[i].deps[n] : n \in DOMAIN tree[i].deps}
    \cup {tree[i].defaults[n].cond : n \in DOMAIN tree[i].defaults}

Pulled(i) == tree[i].rev \cup tree[i].implied

Symbol(i) ==
    /\ tree[i].type \in {"bool", "tristate"} /\ tree[i].choice \in Nat
    /\ DOMAIN tree[i].defaults \subseteq Nat
    /\ \A c \in Conditions(i) : \A a \in c : Kept(a, i)
    /\ IsOptional(tree[i]) => \A n \in DOMAIN tree[i].defaults : Kept(tree[i].defaults[n].val, i)
    /\ \A c \in Pulled(i) : tree[i].choice = 0 => \A a \in c : PullKept(a, c, i)

Member(i) ==
    tree[i].choice # 0 =>
      /\ tree[i].choice \in 1 .. i - 1 /\ IsChoice(tree[i].choice) /\ IsOptional(tree[i])
      /\ i \in Members(tree[i].choice)
      /\ DOMAIN tree[i].defaults = {}
      /\ \A c \in Conditions(i) :
            /\ Is(tree[i].choice) \in c
            /\ tree[tree[i].choice].type = "tristate" /\ tree[i].type = "bool"
                 => Equal(tree[i].choice, yes) \in c

Choice(i) ==
    IsChoice(i) =>
      /\ tree[i].choice = 0
      /\ \A m \in Members(i) : m \in Syms /\ tree[m].choice = i
      /\ \A c \in tree[i].prompts : c \cup {Const(mod)} \in tree[i].rev

TreeOK ==
    /\ Len(tree) \in Nat /\ Syms = 1 .. Len(tree) /\ MODULES \in Syms
    /\ tree[MODULES].type = "bool" /\ tree[MODULES].choice = 0 /\ IsOptional(tree[MODULES])
    /\ \A i \in Syms : Symbol(i) /\ Member(i) /\ Choice(i)

\* The elements of a sequence.
LEMMA SeqAt ==
    ASSUME NEW S, NEW q \in Seq(S)
    PROVE  DOMAIN q = 1 .. Len(q) /\ Len(q) \in Nat /\ \A n \in DOMAIN q : q[n] \in S
OBVIOUS

Definition == [dep : Cond, prompt : SUBSET Cond, defaults : Seq([cond : Cond, val : Atom])]

\* The parts of a declaration have their types.
LEMMA DeclaredFacts ==
    ASSUME NEW d, WellFormed(d), NEW i \in DOMAIN d
    PROVE  /\ d[i].type \in {"bool", "tristate"} /\ d[i].choice \in Nat
           /\ i \in Nat /\ i >= 1
           /\ DOMAIN d[i].defs = 1 .. Len(d[i].defs) /\ Len(d[i].defs) \in Nat
           /\ 1 \in DOMAIN d[i].defs
           /\ \A n \in DOMAIN d[i].defs :
                 /\ d[i].defs[n].dep \in Cond /\ d[i].defs[n].prompt \subseteq Cond
                 /\ d[i].defs[n].defaults \in Seq([cond : Cond, val : Atom])
           /\ d[i].members \in Seq(Nat)
           /\ d[i].pulls \subseteq {"select", "imply"} \X Nat
<1>1. d[i] \in Declared /\ DOMAIN d = 1 .. Len(d) /\ Len(d) \in Nat /\ d[i].defs # << >>
  BY DEF WellFormed
<1>2. /\ d[i].defs \in Seq(Definition) /\ d[i].type \in {"bool", "tristate"} /\ d[i].choice \in Nat
      /\ d[i].members \in Seq(Nat) /\ d[i].pulls \subseteq {"select", "imply"} \X Nat
  <2>1. Declared = [type : {"bool", "tristate"}, choice : Nat, members : Seq(Nat),
                    pulls : SUBSET ({"select", "imply"} \X Nat), defs : Seq(Definition)]
    BY DEF Declared, Definition
  <2> QED  BY <1>1, <2>1
<1>3. /\ DOMAIN d[i].defs = 1 .. Len(d[i].defs) /\ Len(d[i].defs) \in Nat
      /\ \A n \in DOMAIN d[i].defs : d[i].defs[n] \in Definition
  BY <1>2, SeqAt
<1>4. \A n \in DOMAIN d[i].defs :
         /\ d[i].defs[n].dep \in Cond /\ d[i].defs[n].prompt \subseteq Cond
         /\ d[i].defs[n].defaults \in Seq([cond : Cond, val : Atom])
  BY <1>3 DEF Definition
<1>5. 1 \in DOMAIN d[i].defs
  <2>1. Len(d[i].defs) # 0
    BY <1>1, <1>2, SeqAt
  <2> QED  BY <1>3, <2>1
<1>6. i \in Nat /\ i >= 1
  BY <1>1
<1> QED  BY <1>2, <1>3, <1>4, <1>5, <1>6

\* The finalized symbol i, part by part.
LEMMA EarlierFacts ==
    ASSUME NEW d, WellFormed(d), tree = Finalized(d), NEW i \in DOMAIN d
    PROVE  /\ Syms = DOMAIN d
           /\ tree[i].type = d[i].type /\ tree[i].choice = d[i].choice
           /\ tree[i].members = d[i].members
           /\ tree[i].prompts = Prompts(d, i) /\ tree[i].defaults = Defaults(d, i)
           /\ tree[i].deps = [n \in DOMAIN d[i].defs |-> Base(d, i, n)]
           /\ tree[i].rev = Pulls(d, i, "select") /\ tree[i].implied = Pulls(d, i, "imply")
BY DEF Finalized, Syms

\* A symbol of an earlier one, the modules among them.
LEMMA GroundedKept ==
    ASSUME NEW d, WellFormed(d), tree = Finalized(d), NEW i \in DOMAIN d,
           NEW a \in Atom, Grounded(a, d, i)
    PROVE  Kept(a, i)
<1>1. CASE a.op = "const"
  BY <1>1 DEF Kept
<1>2. CASE a.op # "const"
  <2>1. a.sym \in Earlier(d, i)
    BY <1>2 DEF Grounded
  <2>2. i \in Nat /\ i >= 1 /\ d[i].choice \in Nat /\ (d[i].choice # 0 => d[i].choice < i)
    BY DeclaredFacts DEF WellFormed
  <2>3. DOMAIN d = 1 .. Len(d) /\ Len(d) \in Nat
    BY DEF WellFormed
  <2>4. a.sym \in 1 .. Upto(i) /\ a.sym \in DOMAIN d /\ IsOptional(d[a.sym])
    <3>1. tree[i].choice = d[i].choice
      BY EarlierFacts
    <3>2. a.sym \in 1 .. (IF d[i].choice = 0 THEN i ELSE d[i].choice) - 1 /\ IsOptional(d[a.sym])
      BY <2>1 DEF Earlier
    <3>3. CASE d[i].choice = 0
      BY <2>2, <2>3, <3>1, <3>2, <3>3 DEF Upto
    <3>4. CASE d[i].choice # 0
      BY <2>2, <2>3, <3>1, <3>2, <3>4 DEF Upto
    <3> QED  BY <3>3, <3>4
  <2>5. IsOptional(tree[a.sym])
    BY <2>4, EarlierFacts DEF IsOptional
  <2> QED  BY <2>4, <2>5 DEF Kept
<1> QED  BY <1>1, <1>2

\* rewrite_m adds MODULES, which comes before what mentions it.
LEMMA RewrittenKept ==
    ASSUME NEW d, WellFormed(d), tree = Finalized(d), NEW i \in DOMAIN d,
           NEW c \in ConditionsOf(d[i]), c \in Cond
    PROVE  \A a \in Rewritten(c) : Kept(a, i)
<1>1. \A a \in c : a \in Atom /\ Grounded(a, d, i)
  BY DEF WellFormed, Cond
<1>2. ASSUME Const(mod) \in c PROVE Kept(Is(MODULES), i)
  <2>1. i # MODULES
    BY <1>2 DEF WellFormed
  <2>2. DOMAIN d = 1 .. Len(d) /\ Len(d) \in Nat /\ MODULES \in DOMAIN d /\ IsOptional(d[MODULES])
    BY DEF WellFormed, MODULES
  <2>3. d[i].choice # 0 => d[i].choice >= 1
    BY DeclaredFacts
  <2>4. IsOptional(tree[MODULES])
    BY <2>2, EarlierFacts DEF IsOptional
  <2>5. MODULES \in 1 .. Upto(i)
    <3>1. tree[i].choice = d[i].choice /\ i \in Nat /\ i >= 1 /\ d[i].choice \in Nat
      BY EarlierFacts, DeclaredFacts
    <3> QED  BY <2>1, <2>3, <3>1 DEF Upto, MODULES
  <2>6. Is(MODULES) \in Atom /\ Is(MODULES).sym = MODULES
    BY DEF Is, Atom, MODULES, Tristate
  <2> QED  BY <2>4, <2>5, <2>6 DEF Kept
<1>3. \A a \in c : Kept(a, i)
  BY <1>1, GroundedKept
<1> QED  BY <1>2, <1>3 DEF Rewritten

\* The dependencies of a definition, its choice among them.
LEMMA BaseKept ==
    ASSUME NEW d, WellFormed(d), tree = Finalized(d), NEW i \in DOMAIN d,
           NEW n \in DOMAIN d[i].defs
    PROVE  \A a \in Base(d, i, n) : Kept(a, i)
<1>1. d[i].defs[n].dep \in Cond /\ d[i].defs[n].dep \in ConditionsOf(d[i])
  BY DeclaredFacts DEF ConditionsOf
<1>2. \A a \in Rewritten(d[i].defs[n].dep) : Kept(a, i)
  BY <1>1, RewrittenKept
<1>3. \A a \in Parent(d, i) : Kept(a, i)
  <2>1. CASE d[i].choice = 0  BY <2>1 DEF Parent
  <2>2. CASE d[i].choice # 0
    <3>1. tree[i].choice = d[i].choice /\ d[i].choice \in Nat
      BY EarlierFacts, DeclaredFacts
    <3>2. d[i].choice \in 1 .. Upto(i)
      BY <2>2, <3>1 DEF Upto
    <3>3. /\ Is(d[i].choice) \in Atom /\ Is(d[i].choice).sym = d[i].choice
          /\ Equal(d[i].choice, yes) \in Atom /\ Equal(d[i].choice, yes).sym = d[i].choice
      BY <3>1 DEF Is, Equal, Atom, Tristate
    <3>4. Kept(Is(d[i].choice), i) /\ Kept(Equal(d[i].choice, yes), i)
      BY <3>1, <3>2, <3>3 DEF Kept
    <3> QED  BY <2>2, <3>4 DEF Parent
  <2> QED  BY <2>1, <2>2
<1> QED  BY <1>2, <1>3 DEF Base

\* Each default of i is one of its definitions', with their dependencies added.
LEMMA DefaultsAre ==
    ASSUME NEW d, WellFormed(d), NEW i \in DOMAIN d
    PROVE  /\ DOMAIN Defaults(d, i) \subseteq Nat
           /\ DOMAIN Defaults(d, i) = 1 .. Len(Defaults(d, i)) /\ Len(Defaults(d, i)) \in Nat
           /\ \A k \in DOMAIN Defaults(d, i) :
                \E n \in DOMAIN d[i].defs : \E m \in DOMAIN d[i].defs[n].defaults :
                   Defaults(d, i)[k] =
                     [cond |-> Base(d, i, n) \cup Rewritten(d[i].defs[n].defaults[m].cond),
                      val |-> d[i].defs[n].defaults[m].val]
<1> DEFINE Ds(n) == d[i].defs[n].defaults
           E(n, m) == [cond |-> Base(d, i, n) \cup Rewritten(Ds(n)[m].cond), val |-> Ds(n)[m].val]
           S == UNION {{E(n, m) : m \in DOMAIN Ds(n)} : n \in DOMAIN d[i].defs}
           q == [n \in DOMAIN d[i].defs |-> [m \in DOMAIN Ds(n) |-> E(n, m)]]
<1>1. DOMAIN d[i].defs = 1 .. Len(d[i].defs) /\ Len(d[i].defs) \in Nat
  BY DeclaredFacts
<1>2. ASSUME NEW n \in DOMAIN d[i].defs PROVE q[n] \in Seq(S)
  <2>1. DOMAIN Ds(n) = 1 .. Len(Ds(n)) /\ Len(Ds(n)) \in Nat
    BY DeclaredFacts, SeqAt
  <2>2. \A m \in DOMAIN Ds(n) : E(n, m) \in S
    <3> HIDE DEF E, Ds
    <3> QED  OBVIOUS
  <2>3. q[n] = [m \in 1 .. Len(Ds(n)) |-> E(n, m)]
    BY <2>1
  <2> HIDE DEF S, E, q, Ds
  <2> QED  BY <2>1, <2>2, <2>3
<1>3. q \in Seq(Seq(S))
  <2>1. q = [n \in 1 .. Len(d[i].defs) |-> q[n]]
    BY <1>1
  <2> HIDE DEF q, S
  <2> QED  BY <1>1, <1>2, <2>1
<1>4. Defaults(d, i) = Lib!FlattenSeq(q)
  BY DEF Defaults
<1>5. Defaults(d, i) \in Seq(S)
  <2> HIDE DEF q, S
  <2> QED  BY <1>3, <1>4, FlattenIn
<1>6. /\ DOMAIN Defaults(d, i) \subseteq Nat
      /\ DOMAIN Defaults(d, i) = 1 .. Len(Defaults(d, i)) /\ Len(Defaults(d, i)) \in Nat
      /\ \A k \in DOMAIN Defaults(d, i) : Defaults(d, i)[k] \in S
  <2> HIDE DEF S
  <2> QED  BY <1>5, SeqAt
<1> QED  BY <1>6

\* Each condition of i contains the dependencies of one of its definitions.
LEMMA ConditionsAre ==
    ASSUME NEW d, WellFormed(d), tree = Finalized(d), NEW i \in DOMAIN d,
           NEW c \in Conditions(i)
    PROVE  \E n \in DOMAIN d[i].defs : Base(d, i, n) \subseteq c /\ \A a \in c : Kept(a, i)
<1>1. ASSUME NEW n \in DOMAIN d[i].defs, NEW b \in d[i].defs[n].prompt
      PROVE  \A a \in Base(d, i, n) \cup Rewritten(b) : Kept(a, i)
  <2>1. b \in Cond /\ b \in ConditionsOf(d[i])
    BY DeclaredFacts DEF ConditionsOf
  <2> QED  BY <2>1, BaseKept, RewrittenKept
<1>2. ASSUME NEW n \in DOMAIN d[i].defs, NEW m \in DOMAIN (d[i].defs[n].defaults)
      PROVE  \A a \in Base(d, i, n) \cup Rewritten(d[i].defs[n].defaults[m].cond) : Kept(a, i)
  <2>1. d[i].defs[n].defaults[m] \in [cond : Cond, val : Atom]
    BY DeclaredFacts, SeqAt
  <2>2. d[i].defs[n].defaults[m].cond \in Cond /\ d[i].defs[n].defaults[m].cond \in ConditionsOf(d[i])
    BY <2>1 DEF ConditionsOf
  <2> QED  BY <2>2, BaseKept, RewrittenKept
<1>3. CASE c \in tree[i].prompts
  <2>1. c \in Prompts(d, i)
    BY <1>3, EarlierFacts
  <2>2. PICK n \in DOMAIN d[i].defs : \E b \in d[i].defs[n].prompt : c = Base(d, i, n) \cup Rewritten(b)
    BY <2>1 DEF Prompts
  <2> QED  BY <1>1, <2>2
<1>4. CASE c \in {tree[i].deps[n] : n \in DOMAIN tree[i].deps}
  <2>0. tree[i].deps = [n \in DOMAIN d[i].defs |-> Base(d, i, n)]
    BY EarlierFacts
  <2>1. PICK n \in DOMAIN d[i].defs : c = Base(d, i, n)
    BY <1>4, <2>0
  <2> QED  BY <2>1, BaseKept
<1>5. CASE c \in {tree[i].defaults[n].cond : n \in DOMAIN tree[i].defaults}
  <2>0. tree[i].defaults = Defaults(d, i)
    BY EarlierFacts
  <2>1. PICK k \in DOMAIN Defaults(d, i) : c = Defaults(d, i)[k].cond
    BY <1>5, <2>0
  <2>2. PICK n \in DOMAIN d[i].defs : \E m \in DOMAIN d[i].defs[n].defaults :
           c = Base(d, i, n) \cup Rewritten(d[i].defs[n].defaults[m].cond)
    BY <2>1, DefaultsAre
  <2> QED  BY <1>2, <2>2
<1> QED  BY <1>3, <1>4, <1>5 DEF Conditions

\* What pulls i comes before it.
LEMMA PulledAre ==
    ASSUME NEW d, WellFormed(d), tree = Finalized(d), NEW i \in DOMAIN d, d[i].choice = 0,
           NEW kind \in {"select", "imply"}, NEW c \in Pulls(d, i, kind)
    PROVE  \A a \in c : PullKept(a, c, i)
<1>1. ASSUME NEW j \in DOMAIN d, <<kind, i>> \in d[j].pulls, c = {Is(j)} \cup Base(d, j, 1)
      PROVE  \A a \in c : PullKept(a, c, i)
  <2>1. j < i /\ IsOptional(d[j])
    BY <1>1 DEF WellFormed
  <2>2. j \in 1 .. i - 1 /\ j \in Nat /\ i \in Nat
    BY <2>1, DeclaredFacts
  <2>3. IsOptional(tree[j]) /\ tree[j].choice = d[j].choice /\ d[j].choice \in Nat
        /\ (d[j].choice # 0 => d[j].choice < j)
    <3>1. tree[j].choice = d[j].choice /\ tree[j].members = d[j].members
      BY EarlierFacts
    <3>2. d[j].choice \in Nat
      BY DeclaredFacts
    <3>3. d[j].choice # 0 => d[j].choice < j
      BY DEF WellFormed
    <3> QED  BY <2>1, <3>1, <3>2, <3>3 DEF IsOptional
  <2>4. Is(j) \in Atom /\ Is(j).sym = j
    BY <2>2 DEF Is, Atom, Tristate
  <2>5. PullKept(Is(j), c, i)
    BY <2>2, <2>3, <2>4 DEF PullKept
  <2>6. ASSUME NEW a \in Base(d, j, 1) PROVE PullKept(a, c, i)
    <3>1. Kept(a, j)
      BY BaseKept, DeclaredFacts
    <3>2. CASE a.op = "const"
      BY <3>1, <3>2 DEF Kept, PullKept
    <3>3. CASE a.op # "const"
      <4>1. /\ a \in Atom /\ a.sym \in 1 .. Upto(j)
            /\ (IsOptional(tree[a.sym]) \/ a.sym = tree[j].choice)
        BY <3>1, <3>3 DEF Kept
      <4>2. Upto(j) \in 0 .. j - 1
        BY <2>2, <2>3 DEF Upto
      <4>3. a.sym \in 1 .. i - 1
        BY <2>2, <4>1, <4>2
      <4> QED  BY <1>1, <2>2, <2>3, <4>1, <4>3 DEF PullKept
    <3> QED  BY <3>2, <3>3
  <2> QED  BY <1>1, <2>5, <2>6
<1>2. ASSUME NEW b \in Prompts(d, i), c = b \cup {Const(mod)}
      PROVE  \A a \in c : PullKept(a, c, i)
  <2>1. b \in Conditions(i)
    BY EarlierFacts DEF Conditions
  <2>2. \A a \in b : Kept(a, i)
    BY <2>1, ConditionsAre
  <2>3. tree[i].choice = 0 /\ Upto(i) = i - 1 /\ i \in Nat
    BY EarlierFacts, DeclaredFacts DEF Upto
  <2>4. \A a \in b : PullKept(a, c, i)
    BY <2>2, <2>3 DEF Kept, PullKept
  <2>5. PullKept(Const(mod), c, i)
    BY DEF PullKept, Const, Atom, Tristate, mod
  <2> QED  BY <1>2, <2>4, <2>5
<1> QED  BY <1>1, <1>2 DEF Pulls

\* What menu_finalize makes of a well-formed Kconfig file is in order.
LEMMA FinalizedOK ==
    ASSUME NEW d, WellFormed(d), tree = Finalized(d)
    PROVE  TreeOK
<1>1. /\ Len(tree) \in Nat /\ Syms = 1 .. Len(tree) /\ MODULES \in Syms /\ Syms = DOMAIN d
      /\ tree[MODULES].type = "bool" /\ tree[MODULES].choice = 0 /\ IsOptional(tree[MODULES])
  <2>1. DOMAIN d = 1 .. Len(d) /\ Len(d) \in Nat /\ Len(d) >= 1
    BY DEF WellFormed
  <2>2. Syms = DOMAIN d /\ MODULES \in DOMAIN d
    BY <2>1 DEF Syms, Finalized, MODULES
  <2>3. Len(tree) = Len(d)
    BY <2>1 DEF Finalized
  <2>4. /\ tree[MODULES].type = d[MODULES].type /\ tree[MODULES].choice = d[MODULES].choice
        /\ tree[MODULES].members = d[MODULES].members
    BY <2>2, EarlierFacts
  <2> QED  BY <2>1, <2>2, <2>3, <2>4 DEF WellFormed, IsOptional
<1> SUFFICES ASSUME NEW i \in DOMAIN d PROVE Symbol(i) /\ Member(i) /\ Choice(i)
  BY <1>1 DEF TreeOK
<1>2. /\ tree[i].type = d[i].type /\ tree[i].choice = d[i].choice /\ tree[i].members = d[i].members
      /\ tree[i].defaults = Defaults(d, i) /\ tree[i].prompts = Prompts(d, i)
      /\ tree[i].rev = Pulls(d, i, "select") /\ tree[i].implied = Pulls(d, i, "imply")
  BY EarlierFacts
<1>3. IsOptional(tree[i]) <=> IsOptional(d[i])
  BY <1>2 DEF IsOptional
<1>4. Symbol(i)
  <2>1. ASSUME IsOptional(d[i]), NEW k \in DOMAIN Defaults(d, i)
        PROVE  Kept(Defaults(d, i)[k].val, i)
    <3>1. PICK n \in DOMAIN d[i].defs : \E m \in DOMAIN d[i].defs[n].defaults :
             Defaults(d, i)[k].val = d[i].defs[n].defaults[m].val
      BY DefaultsAre
    <3>4. PICK m \in DOMAIN d[i].defs[n].defaults :
             Defaults(d, i)[k].val = d[i].defs[n].defaults[m].val
      BY <3>1
    <3>2. d[i].defs[n].defaults[m] \in [cond : Cond, val : Atom]
      BY DeclaredFacts, SeqAt
    <3>3. d[i].defs[n].defaults[m].val \in ValuesOf(d[i]) /\ d[i].defs[n].defaults[m].val \in Atom
      BY <3>2 DEF ValuesOf
    <3> QED  BY <2>1, <3>4, <3>3, GroundedKept DEF WellFormed
  <2>2. \A c \in Conditions(i) : \A a \in c : Kept(a, i)
    BY ConditionsAre
  <2>3. \A c \in Pulled(i) : d[i].choice = 0 => \A a \in c : PullKept(a, c, i)
    BY <1>2, PulledAre DEF Pulled
  <2>4. DOMAIN tree[i].defaults \subseteq Nat
    BY <1>2, DefaultsAre
  <2>5. d[i].type \in {"bool", "tristate"} /\ d[i].choice \in Nat
    BY DeclaredFacts
  <2> QED  BY <1>2, <1>3, <2>1, <2>2, <2>3, <2>4, <2>5 DEF Symbol
<1>5. Member(i)
  <2> SUFFICES ASSUME d[i].choice # 0
               PROVE  /\ d[i].choice \in 1 .. i - 1 /\ IsChoice(d[i].choice) /\ IsOptional(d[i])
                      /\ i \in Members(d[i].choice)
                      /\ DOMAIN Defaults(d, i) = {}
                      /\ \A c \in Conditions(i) :
                            /\ Is(d[i].choice) \in c
                            /\ tree[d[i].choice].type = "tristate" /\ d[i].type = "bool"
                                 => Equal(d[i].choice, yes) \in c
    BY <1>2, <1>3 DEF Member
  <2>1. i \in Nat /\ d[i].choice \in Nat /\ i \in 1 .. Len(d) /\ DOMAIN d = 1 .. Len(d) /\ Len(d) \in Nat
    <3>1. d \in Seq(Declared)
      BY DEF WellFormed
    <3>2. DOMAIN d = 1 .. Len(d) /\ Len(d) \in Nat
      BY <3>1
    <3> QED  BY <3>2, DeclaredFacts
  <2>2. d[i].choice \in 1 .. i - 1 /\ d[i].choice \in DOMAIN d
    <3>1. d[i].choice < i
      BY DEF WellFormed
    <3> QED  BY <2>1, <3>1
  <2>3. PICK e \in DOMAIN d[d[i].choice].members : d[d[i].choice].members[e] = i
    BY DEF WellFormed
  <2>4. tree[d[i].choice].members = d[d[i].choice].members /\ tree[d[i].choice].type = d[d[i].choice].type
    <3>1. PICK k \in DOMAIN d : k = d[i].choice
      BY <2>2
    <3>2. tree[k].members = d[k].members /\ tree[k].type = d[k].type
      BY EarlierFacts
    <3> QED  BY <3>1, <3>2
  <2>5. i \in Members(d[i].choice) /\ IsChoice(d[i].choice)
    BY <2>3, <2>4 DEF Members, IsChoice, IsOptional
  <2>6. IsOptional(d[i])
    BY DEF WellFormed
  <2>7. DOMAIN Defaults(d, i) = {}
    <3>1. ASSUME NEW k \in DOMAIN Defaults(d, i) PROVE FALSE
      <4>1. PICK m \in DOMAIN d[i].defs : \E l \in DOMAIN d[i].defs[m].defaults : TRUE
        BY DefaultsAre
      <4>2. d[i].defs[m].defaults = << >>
        BY DEF WellFormed
      <4> QED  BY <4>1, <4>2
    <3> QED  BY <3>1
  <2>8. ASSUME NEW c \in Conditions(i)
        PROVE  /\ Is(d[i].choice) \in c
               /\ tree[d[i].choice].type = "tristate" /\ d[i].type = "bool"
                                 => Equal(d[i].choice, yes) \in c
    <3>1. PICK n \in DOMAIN d[i].defs : Base(d, i, n) \subseteq c
      BY ConditionsAre
    <3>2. Parent(d, i) \subseteq c
      BY <3>1 DEF Base
    <3> QED  BY <2>4, <3>2 DEF Parent
  <2> QED  BY <2>2, <2>5, <2>6, <2>7, <2>8
<1>6. Choice(i)
  <2> SUFFICES ASSUME ~IsOptional(d[i])
               PROVE  /\ d[i].choice = 0
                      /\ \A m \in Members(i) : m \in Syms /\ tree[m].choice = i
                      /\ \A c \in Prompts(d, i) : c \cup {Const(mod)} \in Pulls(d, i, "select")
    BY <1>2, <1>3 DEF Choice, IsChoice
  <2>1. d[i].choice = 0
    BY DEF WellFormed
  <2>2. ASSUME NEW m \in Members(i) PROVE m \in Syms /\ tree[m].choice = i
    <3>1. PICK n \in DOMAIN d[i].members : m = d[i].members[n]
      BY <1>2 DEF Members
    <3>2. m \in DOMAIN d /\ d[m].choice = i
      BY <3>1 DEF WellFormed
    <3> QED  BY <1>1, <3>2, EarlierFacts
  <2>3. \A c \in Prompts(d, i) : c \cup {Const(mod)} \in Pulls(d, i, "select")
    BY DEF Pulls
  <2> QED  BY <2>1, <2>2, <2>3
<1> QED  BY <1>4, <1>5, <1>6

-----------------------------------------------------------------------------
(***************************************************************************)
(* What a symbol's value depends on.                                       *)
(***************************************************************************)
Known(i, v) == \A j \in 1 .. Upto(i) : v[j] \in Tristate

SameTo(i, v, w) == \A j \in 1 .. Upto(i) : v[j] = w[j]

\* v and w give the conditions of i the same values.
Alike(i, v, w) ==
    /\ \A c \in Conditions(i) : CondValue(c, v) = CondValue(c, w)
    /\ IsOptional(tree[i]) => \A n \in DOMAIN tree[i].defaults :
          AtomValue(tree[i].defaults[n].val, v) = AtomValue(tree[i].defaults[n].val, w)
    /\ tree[i].choice = 0 => \A c \in Pulled(i) : CondValue(c, v) = CondValue(c, w)
    /\ i = MODULES \/ v[MODULES] = w[MODULES]
    /\ tree[i].choice # 0 => v[tree[i].choice] = w[tree[i].choice]

\* The symbols of a tree that is in order.
LEMMA SymbolFacts ==
    ASSUME TreeOK, NEW i \in Syms
    PROVE  /\ i \in Nat /\ i >= 1 /\ Upto(i) \in 0 .. i - 1
           /\ tree[i].choice \in Nat /\ (tree[i].choice # 0 => tree[i].choice \in Syms)
           /\ tree[i].choice # 0 => Upto(i) = tree[i].choice
           /\ tree[i].choice = 0 => Upto(i) = i - 1
           /\ i # MODULES => MODULES \in 1 .. Upto(i)
           /\ i = MODULES => tree[i].type = "bool" /\ tree[i].choice = 0
           /\ Symbol(i) /\ Member(i) /\ Choice(i)
<1>1. Syms = 1 .. Len(tree) /\ Len(tree) \in Nat /\ Symbol(i) /\ Member(i) /\ Choice(i)
  BY DEF TreeOK
<1>2. i \in Nat /\ i >= 1 /\ tree[i].choice \in Nat
  BY <1>1 DEF Symbol
<1>3. CASE tree[i].choice = 0
  BY <1>1, <1>2, <1>3 DEF Upto, MODULES, TreeOK
<1>4. CASE tree[i].choice # 0
  <2>1. tree[i].choice \in 1 .. i - 1
    BY <1>1, <1>4 DEF Member
  <2>2. i # MODULES
    BY <1>4 DEF TreeOK
  <2> QED  BY <1>1, <1>2, <1>4, <2>1, <2>2 DEF Upto, MODULES
<1> QED  BY <1>3, <1>4

\* A condition has one value where its atoms have.
LEMMA CondSame ==
    ASSUME NEW c, NEW v, NEW w, \A a \in c : AtomValue(a, v) = AtomValue(a, w)
    PROVE  CondValue(c, v) = CondValue(c, w)
<1>1. {AtomValue(a, v) : a \in c} = {AtomValue(a, w) : a \in c}
  OBVIOUS
<1> QED  BY <1>1 DEF CondValue

\* An atom has one value where its symbol has.
LEMMA AtomSame ==
    ASSUME NEW a \in Atom, NEW v, NEW w, a.op = "const" \/ v[a.sym] = w[a.sym]
    PROVE  AtomValue(a, v) = AtomValue(a, w)
BY DEF AtomValue, Atom

\* An atom's value is one where its symbol's is.
LEMMA AtomKnown ==
    ASSUME NEW a \in Atom, NEW v, a.op = "const" \/ v[a.sym] \in Tristate
    PROVE  AtomValue(a, v) \in Tristate
BY DEF AtomValue, Atom, Tristate, no, mod, yes, Not

\* The value of a condition is the least of its atoms'.
LEMMA CondKnown ==
    ASSUME NEW c, NEW v, \A a \in c : AtomValue(a, v) \in Tristate
    PROVE  /\ CondValue(c, v) \in Tristate
           /\ \A a \in c : CondValue(c, v) <= AtomValue(a, v)
           /\ CondValue(c, v) # yes => \E a \in c : CondValue(c, v) = AtomValue(a, v)
<1> DEFINE S == {AtomValue(a, v) : a \in c}
<1>1. S \in SUBSET Tristate /\ CondValue(c, v) = AllOf(S)
  BY DEF CondValue
<1>2. AllOf(S) \in Tristate /\ (\A u \in S : AllOf(S) <= u) /\ AllOf(S) \in S \cup {yes}
  <2> HIDE DEF S
  <2> QED  BY <1>1, AllOfIs
<1> QED  BY <1>1, <1>2

\* Equal values of all that i may mention give its conditions equal values.
LEMMA SameAlike ==
    ASSUME TreeOK, NEW i \in Syms, NEW v, NEW w, SameTo(i, v, w)
    PROVE  Alike(i, v, w)
<1>1. ASSUME NEW a, Kept(a, i) PROVE AtomValue(a, v) = AtomValue(a, w)
  BY <1>1, AtomSame DEF Kept, SameTo
<1>2. ASSUME NEW a, NEW c, tree[i].choice = 0, PullKept(a, c, i)
      PROVE  AtomValue(a, v) = AtomValue(a, w)
  <2>1. Upto(i) = i - 1
    BY <1>2, SymbolFacts
  <2> QED  BY <1>2, <2>1, AtomSame DEF PullKept, SameTo
<1>3. \A c \in Conditions(i) : CondValue(c, v) = CondValue(c, w)
  <2> SUFFICES ASSUME NEW c \in Conditions(i) PROVE CondValue(c, v) = CondValue(c, w)
    OBVIOUS
  <2>1. \A a \in c : Kept(a, i)
    BY SymbolFacts DEF Symbol
  <2> QED  BY <1>1, <2>1, CondSame
<1>4. ASSUME IsOptional(tree[i]), NEW n \in DOMAIN tree[i].defaults
      PROVE  AtomValue(tree[i].defaults[n].val, v) = AtomValue(tree[i].defaults[n].val, w)
  BY <1>1, <1>4, SymbolFacts DEF Symbol
<1>5. ASSUME tree[i].choice = 0, NEW c \in Pulled(i) PROVE CondValue(c, v) = CondValue(c, w)
  <2>1. \A a \in c : PullKept(a, c, i)
    BY <1>5, SymbolFacts DEF Symbol
  <2> QED  BY <1>2, <1>5, <2>1, CondSame
<1>6. i = MODULES \/ v[MODULES] = w[MODULES]
  BY SymbolFacts DEF SameTo
<1>7. tree[i].choice # 0 => v[tree[i].choice] = w[tree[i].choice]
  BY SymbolFacts DEF SameTo
<1> QED  BY <1>3, <1>4, <1>5, <1>6, <1>7 DEF Alike

\* Equal conditions make i visible alike.
LEMMA AlikeVisible ==
    ASSUME TreeOK, NEW i \in Syms, NEW v, NEW w, Alike(i, v, w)
    PROVE  /\ Visible(i, v) = Visible(i, w)
           /\ \A vis : IsBool(i, vis, v) <=> IsBool(i, vis, w)
           /\ VisibleDefaults(i, v) = VisibleDefaults(i, w)
<1>1. \A vis : IsBool(i, vis, v) <=> IsBool(i, vis, w)
  BY SymbolFacts DEF Alike, IsBool
<1>2. \A c \in tree[i].prompts : CondValue(c, v) = CondValue(c, w)
  BY DEF Alike, Conditions
<1>3. \A c \in tree[i].prompts : PromptValue(i, c, v) = PromptValue(i, c, w)
  BY <1>2 DEF Alike, PromptValue, IsChoiceValue
<1>4. {PromptValue(i, c, v) : c \in tree[i].prompts} = {PromptValue(i, c, w) : c \in tree[i].prompts}
  BY <1>3
<1>5. Visible(i, v) = Visible(i, w)
  <2>1. i = MODULES => tree[i].type = "bool"
    BY SymbolFacts
  <2>2. tree[i].type = "bool" \/ v[MODULES] = w[MODULES]
    BY <2>1 DEF Alike
  <2> QED  BY <1>4, <2>2 DEF Visible
<1>6. \A n \in DOMAIN tree[i].defaults :
         CondValue(tree[i].defaults[n].cond, v) = CondValue(tree[i].defaults[n].cond, w)
  BY DEF Alike, Conditions
<1> QED  BY <1>1, <1>5, <1>6 DEF VisibleDefaults

\* Equal conditions select and imply i alike.
LEMMA AlikePulls ==
    ASSUME TreeOK, NEW i \in Syms, NEW v, NEW w, Alike(i, v, w)
    PROVE  RevDep(i, v) = RevDep(i, w) /\ Implied(i, v) = Implied(i, w)
<1>1. CASE tree[i].choice # 0
  BY <1>1 DEF RevDep, Implied, IsChoiceValue
<1>2. CASE tree[i].choice = 0
  <2>1. \A t : Promoted(i, t, v) = Promoted(i, t, w)
    BY AlikeVisible DEF Promoted
  <2>2. /\ \A c \in tree[i].rev : CondValue(c, v) = CondValue(c, w)
        /\ \A c \in tree[i].implied : CondValue(c, v) = CondValue(c, w)
    BY <1>2 DEF Alike, Pulled
  <2>3. {CondValue(c, v) : c \in tree[i].rev} = {CondValue(c, w) : c \in tree[i].rev}
    BY <2>2
  <2>4. {CondValue(c, v) : c \in tree[i].implied} = {CondValue(c, w) : c \in tree[i].implied}
    BY <2>2
  <2>5. DirDep(i, v) = DirDep(i, w)
    <3> DEFINE D == {tree[i].deps[n] : n \in DOMAIN tree[i].deps} \ {{}}
    <3>1. \A c \in D : CondValue(c, v) = CondValue(c, w)
      BY DEF Alike, Conditions
    <3>2. {CondValue(c, v) : c \in D} = {CondValue(c, w) : c \in D}
      BY <3>1
    <3>3. AnyValue(D, v) = AnyValue(D, w)
      BY <3>2 DEF AnyValue
    <3> QED  BY <3>3 DEF DirDep
  <2> QED  BY <1>2, <2>1, <2>3, <2>4, <2>5 DEF RevDep, Implied, AnyValue
<1> QED  BY <1>1, <1>2

\* The first of a set.
LEMMA FirstOfIs ==
    ASSUME NEW S \in SUBSET Nat, S # {}
    PROVE  FirstOf(S) \in S /\ \A n \in S : FirstOf(S) <= n
BY FirstExists DEF FirstOf

\* Equal conditions give i one default.
LEMMA AlikeDefault ==
    ASSUME TreeOK, NEW i \in Syms, NEW v, NEW w, Alike(i, v, w), IsOptional(tree[i])
    PROVE  DefaultValue(i, v) = DefaultValue(i, w)
<1>1. VisibleDefaults(i, v) = VisibleDefaults(i, w)
  BY AlikeVisible
<1>2. CASE VisibleDefaults(i, v) = {}
  BY <1>1, <1>2 DEF DefaultValue
<1>3. CASE VisibleDefaults(i, v) # {}
  <2> DEFINE n == FirstOf(VisibleDefaults(i, v))
  <2>1. n \in VisibleDefaults(i, v)
    <3>1. VisibleDefaults(i, v) \in SUBSET Nat
      BY SymbolFacts DEF VisibleDefaults, Symbol
    <3> QED  BY <1>3, <3>1, FirstOfIs
  <2>2. n \in DOMAIN tree[i].defaults
    BY <2>1 DEF VisibleDefaults
  <2>3. /\ AtomValue(tree[i].defaults[n].val, v) = AtomValue(tree[i].defaults[n].val, w)
        /\ CondValue(tree[i].defaults[n].cond, v) = CondValue(tree[i].defaults[n].cond, w)
    BY <2>2 DEF Alike, Conditions
  <2> QED  BY <1>1, <1>3, <2>3 DEF DefaultValue
<1> QED  BY <1>2, <1>3

-----------------------------------------------------------------------------
(***************************************************************************)
(* Values are values.                                                      *)
(***************************************************************************)
\* The conditions of i have values when what it mentions has.
LEMMA ConditionKnown ==
    ASSUME TreeOK, NEW i \in Syms, NEW v, Known(i, v), NEW c \in Conditions(i)
    PROVE  /\ \A a \in c : AtomValue(a, v) \in Tristate
           /\ CondValue(c, v) \in Tristate
<1>1. \A a \in c : Kept(a, i)
  BY SymbolFacts DEF Symbol
<1>2. \A a \in c : AtomValue(a, v) \in Tristate
  BY <1>1, AtomKnown DEF Kept, Known
<1> QED  BY <1>2, CondKnown

\* So have the conditions of the selects and implies of i.
LEMMA PulledKnown ==
    ASSUME TreeOK, NEW i \in Syms, NEW v, Known(i, v), NEW c \in Pulled(i), tree[i].choice = 0
    PROVE  /\ \A a \in c : AtomValue(a, v) \in Tristate
           /\ CondValue(c, v) \in Tristate
<1>1. \A a \in c : PullKept(a, c, i)
  BY SymbolFacts DEF Symbol
<1>2. Upto(i) = i - 1
  BY SymbolFacts
<1>3. \A a \in c : AtomValue(a, v) \in Tristate
  BY <1>1, <1>2, AtomKnown DEF PullKept, Known
<1> QED  BY <1>3, CondKnown

\* The value of a prompt is that of its condition, or n.
LEMMA PromptKnown ==
    ASSUME TreeOK, NEW i \in Syms, NEW v, Known(i, v)
    PROVE  /\ \A c \in tree[i].prompts : PromptValue(i, c, v) \in {no, CondValue(c, v)}
                                         /\ PromptValue(i, c, v) \in Tristate
           /\ {PromptValue(i, c, v) : c \in tree[i].prompts} \in SUBSET Tristate
<1>1. \A c \in tree[i].prompts : CondValue(c, v) \in Tristate
  BY ConditionKnown DEF Conditions
<1> QED  BY <1>1 DEF PromptValue, Tristate

\* The visibility, before and after it is promoted.
LEMMA VisibleKnown ==
    ASSUME TreeOK, NEW i \in Syms, NEW v, Known(i, v)
    PROVE  /\ Visible(i, v) \in Tristate
           /\ Visible(i, v) # no <=> \E c \in tree[i].prompts : PromptValue(i, c, v) # no
           /\ Visible(i, v) = mod => tree[i].type # "bool" /\ v[MODULES] # no
           /\ Visible(i, v) = mod => \E c \in tree[i].prompts : PromptValue(i, c, v) = mod
           /\ Visible(i, v) = yes =>
                \/ \E c \in tree[i].prompts : PromptValue(i, c, v) = yes
                \/ tree[i].type = "bool" \/ v[MODULES] = no
<1> DEFINE S == {PromptValue(i, c, v) : c \in tree[i].prompts}
<1>1. S \in SUBSET Tristate
  BY PromptKnown
<1>2. Visible(i, v) = IF AnyOf(S) = mod /\ (tree[i].type = "bool" \/ v[MODULES] = no) THEN yes ELSE AnyOf(S)
  BY DEF Visible
<1>3. AnyOf(S) \in Tristate /\ (AnyOf(S) # no <=> \E u \in S : u # no) /\ AnyOf(S) \in S \cup {no}
  <2> HIDE DEF S
  <2> QED  BY <1>1, AnyOfIs, AnyOfOn
<1>4. (\E u \in S : u # no) <=> \E c \in tree[i].prompts : PromptValue(i, c, v) # no
  OBVIOUS
<1>5. yes \in S => \E c \in tree[i].prompts : PromptValue(i, c, v) = yes
  OBVIOUS
<1>7. mod \in S => \E c \in tree[i].prompts : PromptValue(i, c, v) = mod
  OBVIOUS
<1>6. no # yes /\ mod # yes /\ no # mod /\ yes \in Tristate
  BY DEF no, mod, yes, Tristate
<1> HIDE DEF S
<1> QED  BY <1>2, <1>3, <1>4, <1>5, <1>6, <1>7

\* The value of a disjunction of conditions.
LEMMA AnyValueKnown ==
    ASSUME NEW C, NEW v, \A c \in C : CondValue(c, v) \in Tristate
    PROVE  /\ AnyValue(C, v) \in Tristate
           /\ AnyValue(C, v) # no <=> \E c \in C : CondValue(c, v) # no
           /\ \A c \in C : CondValue(c, v) <= AnyValue(C, v)
<1> DEFINE S == {CondValue(c, v) : c \in C}
<1>1. S \in SUBSET Tristate /\ AnyValue(C, v) = AnyOf(S)
  BY DEF AnyValue
<1>2. /\ AnyOf(S) \in Tristate
      /\ AnyOf(S) # no <=> \E u \in S : u # no
      /\ \A u \in S : u <= AnyOf(S)
  <2> HIDE DEF S
  <2> QED  BY <1>1, AnyOfIs, AnyOfOn
<1> QED  BY <1>1, <1>2

\* To promote a value leaves n alone.
LEMMA PromotedKnown ==
    ASSUME NEW i, NEW v, NEW t \in Tristate
    PROVE  Promoted(i, t, v) \in Tristate /\ (Promoted(i, t, v) = no <=> t = no)
BY DEF Promoted, Tristate, no, mod, yes

\* What selects and implies give is a value.
LEMMA PullsKnown ==
    ASSUME TreeOK, NEW i \in Syms, NEW v, Known(i, v)
    PROVE  RevDep(i, v) \in Tristate /\ Implied(i, v) \in Tristate
<1>1. CASE tree[i].choice # 0
  BY <1>1 DEF RevDep, Implied, IsChoiceValue, Tristate
<1>2. CASE tree[i].choice = 0
  <2>1. AnyValue(tree[i].rev, v) \in Tristate /\ AnyValue(tree[i].implied, v) \in Tristate
    BY <1>2, PulledKnown, AnyValueKnown DEF Pulled
  <2> QED  BY <1>2, <2>1, PromotedKnown DEF RevDep, Implied, Tristate
<1> QED  BY <1>1, <1>2

\* What the defaults give is a value.
LEMMA DefaultKnown ==
    ASSUME TreeOK, NEW i \in Syms, NEW v, Known(i, v), IsOptional(tree[i])
    PROVE  DefaultValue(i, v) \in Tristate
<1>1. CASE VisibleDefaults(i, v) = {}
  BY <1>1 DEF DefaultValue, Tristate
<1>2. CASE VisibleDefaults(i, v) # {}
  <2> DEFINE n == FirstOf(VisibleDefaults(i, v))
  <2>1. n \in DOMAIN tree[i].defaults
    <3>1. VisibleDefaults(i, v) \in SUBSET Nat /\ VisibleDefaults(i, v) \subseteq DOMAIN tree[i].defaults
      BY SymbolFacts DEF VisibleDefaults, Symbol
    <3> QED  BY <1>2, <3>1, FirstOfIs
  <2>2. CondValue(tree[i].defaults[n].cond, v) \in Tristate
    BY <2>1, ConditionKnown DEF Conditions
  <2>3. AtomValue(tree[i].defaults[n].val, v) \in Tristate
    <3>1. Kept(tree[i].defaults[n].val, i)
      BY <2>1, SymbolFacts DEF Symbol
    <3> QED  BY <3>1, AtomKnown DEF Kept, Known
  <2> QED  BY <1>2, <2>2, <2>3 DEF DefaultValue, And
<1> QED  BY <1>1, <1>2

\* What the user asks for, and what it is raised to, is a value.
LEMMA AskedKnown ==
    ASSUME TreeOK, NEW i \in Syms, NEW v, Known(i, v), NEW h, NEW u, u[i] \in Tristate
    PROVE  Asked(i, h, u, v) \in Tristate /\ Raised(i, h, u, v) \in Tristate
<1>1. Visible(i, v) \in Tristate /\ RevDep(i, v) \in Tristate /\ Implied(i, v) \in Tristate
  BY VisibleKnown, PullsKnown
<1>2. ~IsChoice(i) => DefaultValue(i, v) \in Tristate
  BY DefaultKnown DEF IsChoice
<1>3. Asked(i, h, u, v) \in Tristate
  BY <1>1, <1>2 DEF Asked, And, Or, Tristate
<1>4. Raised(i, h, u, v) \in Tristate
  BY <1>1, <1>3 DEF Raised, Or, Tristate
<1> QED  BY <1>3, <1>4

-----------------------------------------------------------------------------
(***************************************************************************)
(* sym_calc_value of all symbols is a solution: each value is what its     *)
(* symbol makes of all the others.                                         *)
(***************************************************************************)
Answer(i, h, u, p, v) ==
    IF IsChoice(i)
    THEN IF Raised(i, h, u, v) = yes /\ Chosen(i, p, [v EXCEPT ![i] = yes]) = 0 THEN no
         ELSE Raised(i, h, u, v)
    ELSE IF IsChoiceValue(i) /\ Visible(i, v) = yes
    THEN IF Chosen(tree[i].choice, p, v) = i THEN yes ELSE no
    ELSE Raised(i, h, u, v)

Settles(v, h, u, p) ==
    v \in [Syms -> Tristate] /\ \A i \in Syms : v[i] = Answer(i, h, u, p, v)

\* Equal conditions give equal answers to the same user.
LEMMA RaisedSame ==
    ASSUME TreeOK, NEW i \in Syms, NEW v, NEW w, Alike(i, v, w), NEW h, NEW u
    PROVE  Raised(i, h, u, v) = Raised(i, h, u, w)
<1>1. /\ Visible(i, v) = Visible(i, w)
      /\ RevDep(i, v) = RevDep(i, w) /\ Implied(i, v) = Implied(i, w)
      /\ \A vis : IsBool(i, vis, v) <=> IsBool(i, vis, w)
  BY AlikeVisible, AlikePulls
<1>2. ~IsChoice(i) => DefaultValue(i, v) = DefaultValue(i, w)
  BY AlikeDefault DEF IsChoice
<1> QED  BY <1>1, <1>2 DEF Raised, Asked

\* What sym_calc_choice picks depends on what is visible and on the user's pick.
LEMMA ChosenSame ==
    ASSUME NEW k, NEW p, NEW q, NEW v, NEW w, p[k] = q[k],
           \A m \in Members(k) : Visible(m, v) = Visible(m, w),
           VisibleDefaults(k, v) = VisibleDefaults(k, w)
    PROVE  Chosen(k, p, v) = Chosen(k, q, w)
<1>1. {m \in Members(k) : Visible(m, v) # no} = {m \in Members(k) : Visible(m, w) # no}
  OBVIOUS
<1> QED  BY <1>1 DEF Chosen

Offered(k, v) == {m \in Members(k) : Visible(m, v) # no}

\* sym_calc_choice picks a visible member, the user's if it can, and none only if none is visible.
LEMMA ChosenIs ==
    ASSUME TreeOK, NEW k \in Syms, IsChoice(k), NEW p, NEW v
    PROVE  /\ Offered(k, v) = {} => Chosen(k, p, v) = 0
           /\ Offered(k, v) # {} => Chosen(k, p, v) \in Offered(k, v)
           /\ Chosen(k, p, v) = 0 <=> Offered(k, v) = {}
           /\ p[k] \in Offered(k, v) => Chosen(k, p, v) = p[k]
<1> DEFINE seen == Offered(k, v)
           offered == {n \in VisibleDefaults(k, v) : tree[k].defaults[n].val.sym \in seen}
<1>1. Chosen(k, p, v) =
        CASE p[k] \in seen -> p[k]
          [] p[k] \notin seen /\ offered # {} -> tree[k].defaults[FirstOf(offered)].val.sym
          [] p[k] \notin seen /\ offered = {} /\ seen # {} -> FirstOf(seen)
          [] seen = {} -> 0
  BY DEF Chosen, Offered
<1>2. offered \in SUBSET Nat
  BY SymbolFacts DEF VisibleDefaults, Symbol
<1>3. seen \in SUBSET Nat /\ 0 \notin seen
  <2>1. \A m \in Members(k) : m \in Syms
    BY SymbolFacts DEF Choice
  <2>2. \A m \in Syms : m \in Nat /\ m >= 1
    BY SymbolFacts
  <2> QED  BY <2>1, <2>2 DEF Offered
<1>4. offered # {} => tree[k].defaults[FirstOf(offered)].val.sym \in seen
  <2> SUFFICES ASSUME offered # {} PROVE tree[k].defaults[FirstOf(offered)].val.sym \in seen
    OBVIOUS
  <2>1. FirstOf(offered) \in offered
    <3> HIDE DEF offered
    <3> QED  BY <1>2, FirstOfIs
  <2> QED  BY <2>1
<1>5. seen # {} => FirstOf(seen) \in seen
  <2> HIDE DEF seen
  <2> QED  BY <1>3, FirstOfIs
<1>6. seen = {} => offered = {} /\ p[k] \notin seen
  OBVIOUS
<1> HIDE DEF seen, offered
<1>7. seen = {} => Chosen(k, p, v) = 0
  BY <1>1, <1>6
<1>8. seen # {} => Chosen(k, p, v) \in seen
  <2>1. CASE p[k] \in seen  BY <1>1, <2>1
  <2>2. CASE p[k] \notin seen /\ offered # {}  BY <1>1, <1>4, <1>6, <2>2
  <2>3. CASE p[k] \notin seen /\ offered = {} /\ seen # {}  BY <1>1, <1>5, <2>3
  <2> QED  BY <2>1, <2>2, <2>3
<1>9. p[k] \in seen => Chosen(k, p, v) = p[k]
  BY <1>1
<1>10. seen = Offered(k, v)
  BY DEF seen
<1> QED  BY <1>3, <1>7, <1>8, <1>9, <1>10

\* What it picks is decided by the values of the choice and those before it.
LEMMA ChosenUpto ==
    ASSUME TreeOK, NEW k \in Syms, IsChoice(k), NEW p, NEW v, NEW w, \A j \in 1 .. k : v[j] = w[j]
    PROVE  Chosen(k, p, v) = Chosen(k, p, w)
<1>1. ASSUME NEW m \in Members(k) PROVE Visible(m, v) = Visible(m, w)
  <2>1. m \in Syms /\ tree[m].choice = k /\ k # 0
    BY SymbolFacts DEF Choice
  <2>2. Upto(m) = k
    BY <2>1 DEF Upto
  <2> QED  BY <2>1, <2>2, SameAlike, AlikeVisible DEF SameTo
<1>2. VisibleDefaults(k, v) = VisibleDefaults(k, w)
  <2>1. Upto(k) \in 0 .. k - 1 /\ k \in Nat
    BY SymbolFacts
  <2>2. SameTo(k, v, w)
    BY <2>1 DEF SameTo
  <2> QED  BY <2>2, SameAlike, AlikeVisible
<1> QED  BY <1>1, <1>2, ChosenSame

\* What is calculated from the values before i is what all values make of i.
LEMMA CalculatedIsAnswer ==
    ASSUME TreeOK, NEW i \in Syms, NEW h, NEW u, NEW p,
           NEW x \in Seq(Tristate), Len(x) = i - 1,
           NEW w \in [Syms -> Tristate], \A j \in 1 .. i - 1 : x[j] = w[j]
    PROVE  Calculated(i, h, u, p, x) = Answer(i, h, u, p, w)
<1>1. i \in Nat /\ i >= 1 /\ Upto(i) \in 0 .. i - 1
  BY SymbolFacts
<1>2. SameTo(i, x, w)
  BY <1>1 DEF SameTo
<1>3. Raised(i, h, u, x) = Raised(i, h, u, w) /\ Visible(i, x) = Visible(i, w)
  BY <1>2, SameAlike, RaisedSame, AlikeVisible
<1>4. ASSUME IsChoice(i) PROVE Chosen(i, p, Append(x, yes)) = Chosen(i, p, [w EXCEPT ![i] = yes])
  <2>1. \A j \in 1 .. i : Append(x, yes)[j] = IF j = i THEN yes ELSE x[j]
    BY <1>1 DEF Tristate
  <2>2. \A j \in 1 .. i : j \in Syms
    <3>1. Syms = 1 .. Len(tree) /\ Len(tree) \in Nat
      BY DEF TreeOK
    <3> QED  BY <1>1, <3>1
  <2>3. \A j \in 1 .. i : [w EXCEPT ![i] = yes][j] = IF j = i THEN yes ELSE w[j]
    BY <2>2
  <2>4. \A j \in 1 .. i : j # i => j \in 1 .. i - 1
    BY <1>1
  <2>5. \A j \in 1 .. i : Append(x, yes)[j] = [w EXCEPT ![i] = yes][j]
    BY <2>1, <2>3, <2>4
  <2>6. PICK y : y = Append(x, yes)
    OBVIOUS
  <2>7. PICK z : z = [w EXCEPT ![i] = yes]
    OBVIOUS
  <2>8. \A j \in 1 .. i : y[j] = z[j]
    BY <2>5, <2>6, <2>7
  <2>9. Chosen(i, p, y) = Chosen(i, p, z)
    BY <1>4, <2>8, ChosenUpto
  <2> QED  BY <2>6, <2>7, <2>9
<1>5. ASSUME IsChoiceValue(i) PROVE Chosen(tree[i].choice, p, x) = Chosen(tree[i].choice, p, w)
  <2>1. tree[i].choice \in Syms /\ tree[i].choice \in 1 .. i - 1 /\ IsChoice(tree[i].choice)
    BY <1>5, SymbolFacts DEF IsChoiceValue, Member
  <2>2. \A j \in 1 .. tree[i].choice : x[j] = w[j]
    BY <1>1, <2>1
  <2> QED  BY <2>1, <2>2, ChosenUpto
<1> QED  BY <1>3, <1>4, <1>5 DEF Calculated, Answer

\* The answer of i is a value.
LEMMA AnswerKnown ==
    ASSUME TreeOK, NEW i \in Syms, NEW h, NEW u, u[i] \in Tristate, NEW p,
           NEW v \in [Syms -> Tristate]
    PROVE  Answer(i, h, u, p, v) \in Tristate
<1>1. Known(i, v)
  <2>1. Syms = 1 .. Len(tree) /\ Len(tree) \in Nat
    BY DEF TreeOK
  <2>2. Upto(i) \in 0 .. i - 1
    BY SymbolFacts
  <2> QED  BY <2>1, <2>2 DEF Known
<1>2. Raised(i, h, u, v) \in Tristate
  BY <1>1, AskedKnown
<1> QED  BY <1>2 DEF Answer, Tristate

ValuesStep(V, n, h, u, p) ==
    IF n = 0 THEN << >> ELSE LET v == V[n - 1] IN Append(v, Calculated(n, h, u, p, v))

\* The recursive function by which Values is defined exists.
LEMMA ValuesExist ==
    ASSUME TreeOK, NEW h, NEW u, NEW p, NEW k \in 0 .. Len(tree)
    PROVE  \E V : V = [n \in 0 .. k |-> ValuesStep(V, n, h, u, p)]
<1> DEFINE Bad == {l \in 0 .. Len(tree) : ~\E V : V = [n \in 0 .. l |-> ValuesStep(V, n, h, u, p)]}
<1>1. SUFFICES ASSUME Bad # {} PROVE FALSE
  OBVIOUS
<1>0. Len(tree) \in Nat
  BY DEF TreeOK
<1>2. PICK l \in Bad : \A m \in Bad : l <= m
  <2>0. 0 .. Len(tree) \subseteq Nat
    BY <1>0
  <2>1. Bad \in SUBSET Nat
    BY <2>0
  <2> HIDE DEF Bad
  <2> QED  BY <1>1, <2>1, FirstExists
<1>3. l \in 0 .. Len(tree)
  OBVIOUS
<1>4. l # 0
  <2>1. 0 .. 0 = {0}
    OBVIOUS
  <2>2. [n \in 0 .. 0 |-> << >>] =
          [n \in 0 .. 0 |-> ValuesStep([m \in 0 .. 0 |-> << >>], n, h, u, p)]
    BY <2>1 DEF ValuesStep
  <2> QED  BY <2>2
<1>5. l - 1 \in 0 .. Len(tree) /\ l - 1 \notin Bad
  <2> HIDE DEF Bad
  <2>1. l - 1 \in 0 .. Len(tree) /\ ~(l <= l - 1)
    BY <1>0, <1>3, <1>4
  <2> QED  BY <1>2, <2>1
<1>6. PICK V : V = [n \in 0 .. l - 1 |-> ValuesStep(V, n, h, u, p)]
  BY <1>5
<1> DEFINE W == [n \in 0 .. l |-> IF n = l THEN ValuesStep(V, l, h, u, p) ELSE V[n]]
<1>7. \A n \in 0 .. l - 1 : W[n] = V[n]
  BY <1>0, <1>3
<1>8. W[l] = ValuesStep(V, l, h, u, p) /\ DOMAIN W = 0 .. l
  BY <1>0, <1>3
<1>9. \A n \in 0 .. l : W[n] = ValuesStep(W, n, h, u, p)
  <2> HIDE DEF W
  <2>1. l - 1 \in 0 .. l - 1
    BY <1>0, <1>3, <1>4
  <2>2. W[l] = ValuesStep(W, l, h, u, p)
    BY <1>4, <1>7, <1>8, <2>1 DEF ValuesStep
  <2>3. ASSUME NEW n \in 0 .. l, n # l PROVE W[n] = ValuesStep(W, n, h, u, p)
    <3>1. n \in 0 .. l - 1 /\ (n # 0 => n - 1 \in 0 .. l - 1)
      BY <1>0, <1>3, <2>3
    <3>2. V[n] = ValuesStep(V, n, h, u, p)
      BY <1>6, <3>1
    <3> QED  BY <1>7, <3>1, <3>2 DEF ValuesStep
  <2> QED  BY <2>2, <2>3
<1>10. W = [n \in 0 .. l |-> ValuesStep(W, n, h, u, p)]
  <2>1. W = [n \in 0 .. l |-> W[n]]
    BY <1>8
  <2> HIDE DEF W
  <2> QED  BY <1>9, <2>1
<1>11. \E U : U = [n \in 0 .. l |-> ValuesStep(U, n, h, u, p)]
  <2> HIDE DEF W
  <2> QED  BY <1>10
<1> QED  BY <1>11

\* The values of the first symbols, and then of one more.
LEMMA ValuesGrow ==
    ASSUME TreeOK, NEW h, NEW u \in [Syms -> Tristate], NEW p,
           NEW x \in Seq(Tristate), NEW i \in Syms, Len(x) = i - 1
    PROVE  Calculated(i, h, u, p, x) \in Tristate
<1> DEFINE w == [j \in Syms |-> IF j < i THEN x[j] ELSE no]
<1>1. Syms = 1 .. Len(tree) /\ Len(tree) \in Nat
  BY DEF TreeOK
<1>2. \A j \in 1 .. i - 1 : j \in Syms /\ j < i /\ j \in DOMAIN x
  BY <1>1
<1>3. w \in [Syms -> Tristate]
  <2>1. \A j \in Syms : j < i => j \in 1 .. i - 1
    BY <1>1
  <2>2. \A j \in 1 .. i - 1 : x[j] \in Tristate
    BY <1>2, SeqAt
  <2> QED  BY <2>1, <2>2 DEF Tristate
<1>4. \A j \in 1 .. i - 1 : x[j] = w[j]
  BY <1>2
<1> HIDE DEF w
<1>5. Calculated(i, h, u, p, x) = Answer(i, h, u, p, w)
  BY <1>3, <1>4, CalculatedIsAnswer
<1> QED  BY <1>3, <1>5, AnswerKnown

\* Values is a solution.
LEMMA ValuesSettle ==
    ASSUME TreeOK, NEW h, NEW u \in [Syms -> Tristate], NEW p
    PROVE  Settles(Values(h, u, p), h, u, p)
<1> DEFINE L == Len(tree)
           V == CHOOSE F : F = [n \in 0 .. L |-> ValuesStep(F, n, h, u, p)]
<1>1. L \in Nat /\ L \in 0 .. L /\ Syms = 1 .. L
  BY DEF TreeOK
<1>2. V = [n \in 0 .. L |-> ValuesStep(V, n, h, u, p)]
  BY <1>1, ValuesExist
<1>3. Values(h, u, p) = V[L]
  BY DEF Values, ValuesStep
<1> HIDE DEF V, L
<1>4. V[0] = << >>
  BY <1>1, <1>2 DEF ValuesStep
<1>5. ASSUME NEW n \in 1 .. L PROVE V[n] = Append(V[n - 1], Calculated(n, h, u, p, V[n - 1]))
  <2>1. n \in 0 .. L /\ n # 0
    BY <1>1
  <2>2. V[n] = ValuesStep(V, n, h, u, p)
    BY <1>2, <2>1
  <2> QED  BY <2>1, <2>2 DEF ValuesStep
<1> DEFINE Good(n) == /\ V[n] \in Seq(Tristate) /\ Len(V[n]) = n
                      /\ \A k \in 0 .. n : \A j \in 1 .. k : V[n][j] = V[k][j]
<1>6. Good(0)
  <2>1. 0 .. 0 = {0} /\ 1 .. 0 = {}
    OBVIOUS
  <2> QED  BY <1>4, <2>1
<1>7. ASSUME NEW n \in 1 .. L, Good(n - 1) PROVE Good(n)
  <2>1. n \in Syms /\ n \in Nat /\ n >= 1
    BY <1>1
  <2>2. V[n - 1] \in Seq(Tristate) /\ Len(V[n - 1]) = n - 1
    BY <1>7
  <2>3. Calculated(n, h, u, p, V[n - 1]) \in Tristate
    BY <2>1, <2>2, ValuesGrow
  <2>4. V[n] \in Seq(Tristate) /\ Len(V[n]) = n /\ \A j \in 1 .. n - 1 : V[n][j] = V[n - 1][j]
    <3>1. PICK x : x = V[n - 1]
      OBVIOUS
    <3>2. PICK t : t = Calculated(n, h, u, p, V[n - 1])
      OBVIOUS
    <3>3. V[n] = Append(x, t)
      BY <1>5, <3>1, <3>2
    <3>4. x \in Seq(Tristate) /\ Len(x) = n - 1 /\ t \in Tristate
      BY <2>2, <2>3, <3>1, <3>2
    <3>5. Append(x, t) \in Seq(Tristate) /\ Len(Append(x, t)) = n
          /\ \A j \in 1 .. n - 1 : Append(x, t)[j] = x[j]
      BY <2>1, <3>4
    <3> QED  BY <3>1, <3>3, <3>5
  <2>5. ASSUME NEW k \in 0 .. n, NEW j \in 1 .. k PROVE V[n][j] = V[k][j]
    <3>1. CASE k = n  BY <3>1
    <3>2. CASE k # n
      <4>1. k \in 0 .. n - 1 /\ j \in 1 .. n - 1
        BY <2>1, <3>2
      <4>2. V[n - 1][j] = V[k][j]
        BY <1>7, <4>1
      <4> QED  BY <2>4, <4>1, <4>2
    <3> QED  BY <3>1, <3>2
  <2> QED  BY <2>4, <2>5
<1>8. \A n \in 0 .. L : Good(n)
  <2> HIDE DEF Good
  <2> DEFINE Bad == {n \in 0 .. L : ~Good(n)}
  <2>1. SUFFICES ASSUME Bad # {} PROVE FALSE
    OBVIOUS
  <2>2. PICK n \in Bad : \A m \in Bad : n <= m
    <3>0. 0 .. L \subseteq Nat
      BY <1>1
    <3>1. Bad \in SUBSET Nat
      BY <3>0
    <3> HIDE DEF Bad
    <3> QED  BY <2>1, <3>1, FirstExists
  <2>3. n \in 0 .. L /\ ~Good(n)
    OBVIOUS
  <2>4. n \in 1 .. L /\ n - 1 \in 0 .. L /\ ~(n <= n - 1)
    BY <1>1, <1>6, <2>3
  <2>5. n - 1 \notin Bad
    <3> HIDE DEF Bad
    <3> QED  BY <2>2, <2>4
  <2>6. Good(n - 1)
    BY <2>4, <2>5
  <2> QED  BY <1>7, <2>3, <2>4, <2>6
<1>9. PICK v : v = V[L]
  OBVIOUS
<1>10. v \in [Syms -> Tristate]
  <2>1. v \in Seq(Tristate) /\ Len(v) = L
    BY <1>1, <1>8, <1>9
  <2> QED  BY <1>1, <2>1
<1>11. ASSUME NEW i \in Syms PROVE v[i] = Answer(i, h, u, p, v)
  <2>1. i \in 1 .. L /\ i \in 0 .. L /\ i - 1 \in 0 .. L /\ L \in 0 .. L
    BY <1>1
  <2>2. V[i - 1] \in Seq(Tristate) /\ Len(V[i - 1]) = i - 1
    BY <1>8, <2>1
  <2>3. \A j \in 1 .. i - 1 : V[i - 1][j] = v[j]
    BY <1>8, <1>9, <2>1
  <2>4. Calculated(i, h, u, p, V[i - 1]) = Answer(i, h, u, p, v)
    BY <1>10, <2>2, <2>3, CalculatedIsAnswer
  <2>5. v[i] = V[i][i]
    <3>1. i \in 1 .. i
      BY <1>1, <2>1
    <3> QED  BY <1>8, <1>9, <2>1, <3>1
  <2>6. V[i][i] = Calculated(i, h, u, p, V[i - 1])
    <3>1. V[i] = Append(V[i - 1], Calculated(i, h, u, p, V[i - 1]))
      BY <1>5, <2>1
    <3>2. i = Len(V[i - 1]) + 1
      BY <1>1, <2>1, <2>2
    <3> QED  BY <2>2, <3>1, <3>2
  <2> QED  BY <2>4, <2>5, <2>6
<1> QED  BY <1>3, <1>9, <1>10, <1>11 DEF Settles

-----------------------------------------------------------------------------
(***************************************************************************)
(* Choices in what the tool calculates.                                    *)
(***************************************************************************)
\* Values of all symbols are values of those i may mention.
LEMMA SettledKnown ==
    ASSUME TreeOK, NEW v \in [Syms -> Tristate], NEW i \in Syms
    PROVE  Known(i, v)
<1>1. Syms = 1 .. Len(tree) /\ Len(tree) \in Nat
  BY DEF TreeOK
<1>2. Upto(i) \in 0 .. i - 1
  BY SymbolFacts
<1> QED  BY <1>1, <1>2 DEF Known

\* A member's conditions are bounded by its choice.
LEMMA MemberBelow ==
    ASSUME TreeOK, NEW v \in [Syms -> Tristate], NEW i \in Syms, tree[i].choice # 0,
           NEW c \in Conditions(i)
    PROVE  /\ CondValue(c, v) \in Tristate
           /\ CondValue(c, v) <= v[tree[i].choice]
           /\ tree[tree[i].choice].type = "tristate" /\ tree[i].type = "bool" /\ v[tree[i].choice] # yes
                => CondValue(c, v) = no
<1>1. Known(i, v)
  BY SettledKnown
<1>2. \A a \in c : AtomValue(a, v) \in Tristate
  BY <1>1, ConditionKnown
<1>3. CondValue(c, v) \in Tristate /\ \A a \in c : CondValue(c, v) <= AtomValue(a, v)
  BY <1>2, CondKnown
<1>4. /\ Is(tree[i].choice) \in c
      /\ tree[tree[i].choice].type = "tristate" /\ tree[i].type = "bool"
           => Equal(tree[i].choice, yes) \in c
  BY SymbolFacts DEF Member
<1>5. AtomValue(Is(tree[i].choice), v) = v[tree[i].choice]
  BY DEF AtomValue, Is
<1>6. v[tree[i].choice] # yes => AtomValue(Equal(tree[i].choice, yes), v) = no
  BY DEF AtomValue, Equal
<1>7. \A t \in Tristate : t <= no => t = no
  BY DEF Tristate, no, mod, yes
<1> QED  BY <1>3, <1>4, <1>5, <1>6, <1>7

\* A member is visible as far as its choice allows it.
LEMMA MemberVisible ==
    ASSUME TreeOK, NEW v \in [Syms -> Tristate], NEW i \in Syms, tree[i].choice # 0
    PROVE  /\ v[tree[i].choice] = no => Visible(i, v) = no
           /\ v[tree[i].choice] = yes => Visible(i, v) \in {no, yes}
           /\ v[tree[i].choice] = mod /\ tree[tree[i].choice].type = "tristate" /\ v[MODULES] # no
                => Visible(i, v) = no \/ (Visible(i, v) = mod /\ tree[i].type # "bool")
<1> DEFINE k == tree[i].choice
<1>1. Known(i, v) /\ Visible(i, v) \in Tristate
  BY SettledKnown, VisibleKnown
<1>2. \A c \in tree[i].prompts :
         /\ CondValue(c, v) \in Tristate /\ CondValue(c, v) <= v[k]
         /\ tree[k].type = "tristate" /\ tree[i].type = "bool" /\ v[k] # yes => CondValue(c, v) = no
         /\ PromptValue(i, c, v) \in {no, CondValue(c, v)}
  BY <1>1, MemberBelow, PromptKnown DEF Conditions
<1>3. k \in Syms /\ v[k] \in Tristate
  BY SymbolFacts
<1>4. v[k] = no => Visible(i, v) = no
  <2>1. v[k] = no => \A c \in tree[i].prompts : PromptValue(i, c, v) = no
    BY <1>2 DEF Tristate, no, mod, yes
  <2> QED  BY <1>1, <2>1, VisibleKnown
<1>5. v[k] = yes => Visible(i, v) \in {no, yes}
  <2> SUFFICES ASSUME v[k] = yes, Visible(i, v) = mod PROVE FALSE
    BY <1>1 DEF Tristate
  <2>1. tree[i].type # "bool"
    BY <1>1, VisibleKnown
  <2>2. PICK c \in tree[i].prompts : PromptValue(i, c, v) = mod
    BY <1>1, VisibleKnown
  <2>3. tree[i].type = "tristate"
    BY <2>1, SymbolFacts DEF Symbol
  <2> QED  BY <1>2, <2>2, <2>3 DEF PromptValue, IsChoiceValue, no, mod, yes
<1>6. ASSUME v[k] = mod, tree[k].type = "tristate", v[MODULES] # no, Visible(i, v) # no
      PROVE  Visible(i, v) = mod /\ tree[i].type # "bool"
  <2>1. tree[i].type # "bool"
    <3> SUFFICES ASSUME tree[i].type = "bool" PROVE FALSE
      OBVIOUS
    <3>1. \A c \in tree[i].prompts : PromptValue(i, c, v) = no
      BY <1>2, <1>6 DEF no, mod, yes
    <3> QED  BY <1>1, <1>6, <3>1, VisibleKnown
  <2>2. \A c \in tree[i].prompts : PromptValue(i, c, v) # yes
    BY <1>2, <1>6 DEF Tristate, no, mod, yes
  <2>3. Visible(i, v) # yes
    BY <1>1, <1>6, <2>1, <2>2, VisibleKnown
  <2>4. Visible(i, v) \in {no, mod, yes}
    BY <1>1 DEF Tristate
  <2> QED  BY <1>6, <2>1, <2>3, <2>4
<1> QED  BY <1>4, <1>5, <1>6, <1>1 DEF Tristate

\* A member is neither selected nor implied and has no default.
LEMMA MemberPlain ==
    ASSUME TreeOK, NEW v, NEW i \in Syms, tree[i].choice # 0
    PROVE  /\ RevDep(i, v) = no /\ Implied(i, v) = no /\ DefaultValue(i, v) = no
           /\ ~IsChoice(i)
<1>1. DOMAIN tree[i].defaults = {} /\ IsOptional(tree[i])
  BY SymbolFacts DEF Member
<1>2. VisibleDefaults(i, v) = {}
  BY <1>1 DEF VisibleDefaults
<1> QED  BY <1>1, <1>2 DEF RevDep, Implied, DefaultValue, IsChoiceValue, IsChoice

\* What has no prompt and nothing else to be on for is off.
LEMMA HiddenOff ==
    ASSUME NEW v, NEW i, NEW h, NEW u, NEW p, ~IsChoice(i), ~Written(i, v)
    PROVE  Raised(i, h, u, v) = no /\ Answer(i, h, u, p, v) = no
BY DEF Written, Raised, Asked, Answer, Or, no, mod, yes

\* A member that is not visible is n.
LEMMA MemberHidden ==
    ASSUME TreeOK, NEW v, NEW i \in Syms, tree[i].choice # 0, Visible(i, v) = no,
           NEW h, NEW u, NEW p
    PROVE  ~Written(i, v) /\ Answer(i, h, u, p, v) = no
BY MemberPlain, HiddenOff DEF Written

\* A choice is m only if it is a tristate and modules are enabled.
LEMMA ChoiceMod ==
    ASSUME TreeOK, NEW h, NEW u, NEW p, NEW v, Settles(v, h, u, p), NEW k \in Syms, IsChoice(k), v[k] = mod
    PROVE  tree[k].type = "tristate" /\ v[MODULES] # no /\ Raised(k, h, u, v) = mod
<1>1. v[k] = Answer(k, h, u, p, v)
  BY DEF Settles
<1>2. Raised(k, h, u, v) = mod
  BY <1>1 DEF Answer, no, mod, yes
<1>3. ~IsBool(k, Visible(k, v), v)
  BY <1>2 DEF Raised, no, mod, yes
<1> QED  BY <1>2, <1>3, SymbolFacts DEF IsBool, Symbol

\* The members of a choice that is m are m or n.
LEMMA MemberOfMod ==
    ASSUME TreeOK, NEW h, NEW u \in [Syms -> Tristate], NEW p, NEW v, Settles(v, h, u, p),
           NEW i \in Syms, tree[i].choice # 0, v[tree[i].choice] = mod
    PROVE  /\ v[i] \in {no, mod} /\ Visible(i, v) \in {no, mod}
           /\ v[i] = Raised(i, h, u, v)
<1> DEFINE k == tree[i].choice
<1>1. k \in Syms /\ IsChoice(k) /\ v \in [Syms -> Tristate]
  BY SymbolFacts DEF Member, Settles
<1>2. tree[k].type = "tristate" /\ v[MODULES] # no
  BY <1>1, ChoiceMod
<1>3. Visible(i, v) = no \/ (Visible(i, v) = mod /\ tree[i].type # "bool")
  BY <1>1, <1>2, MemberVisible
<1>4. v[i] = Answer(i, h, u, p, v)
  BY DEF Settles
<1>5. RevDep(i, v) = no /\ Implied(i, v) = no /\ DefaultValue(i, v) = no /\ ~IsChoice(i)
  BY MemberPlain
<1>6. v[i] = Raised(i, h, u, v)
  BY <1>3, <1>4, <1>5 DEF Answer, no, mod, yes
<1>7. CASE Visible(i, v) = no
  BY <1>4, <1>6, <1>7, MemberHidden
<1>8. CASE Visible(i, v) = mod /\ tree[i].type # "bool"
  <2>1. ~IsBool(i, Visible(i, v), v)
    BY <1>2, <1>8 DEF IsBool, mod, yes
  <2>2. u[i] \in Tristate
    OBVIOUS
  <2>3. Asked(i, h, u, v) \in {no, mod}
    BY <1>5, <1>8, <2>2 DEF Asked, And, Or, Tristate, no, mod, yes
  <2>4. Raised(i, h, u, v) \in {no, mod}
    BY <1>5, <2>1, <2>3 DEF Raised, Or, no, mod, yes
  <2> QED  BY <1>6, <1>8, <2>4
<1> QED  BY <1>3, <1>7, <1>8

\* A choice that is y has one member that is y, the one that is picked, and the
\* others are n.
LEMMA ChoiceYes ==
    ASSUME TreeOK, NEW h, NEW u \in [Syms -> Tristate], NEW p, NEW v, Settles(v, h, u, p),
           NEW k \in Syms, IsChoice(k), v[k] = yes
    PROVE  /\ Chosen(k, p, v) \in Offered(k, v)
           /\ \A m \in Members(k) : v[m] = IF m = Chosen(k, p, v) THEN yes ELSE no
<1>1. v \in [Syms -> Tristate] /\ v[k] = Answer(k, h, u, p, v)
  BY DEF Settles
<1>2. [v EXCEPT ![k] = yes] = v
  BY <1>1
<1>3. Chosen(k, p, v) # 0
  <2>1. PICK z : z = [v EXCEPT ![k] = yes]
    OBVIOUS
  <2>2. v[k] = IF Raised(k, h, u, v) = yes /\ Chosen(k, p, z) = 0 THEN no ELSE Raised(k, h, u, v)
    BY <1>1, <2>1 DEF Answer
  <2>3. z = v
    BY <1>2, <2>1
  <2> QED  BY <2>2, <2>3 DEF no, mod, yes
<1>4. Chosen(k, p, v) \in Offered(k, v)
  BY <1>3, ChosenIs
<1>5. ASSUME NEW m \in Members(k) PROVE v[m] = IF m = Chosen(k, p, v) THEN yes ELSE no
  <2>1. m \in Syms /\ tree[m].choice = k /\ k # 0
    BY SymbolFacts DEF Choice
  <2>2. v[m] = Answer(m, h, u, p, v) /\ ~IsChoice(m)
    BY <2>1, MemberPlain DEF Settles
  <2>3. Visible(m, v) \in {no, yes}
    BY <1>1, <2>1, MemberVisible
  <2>4. CASE Visible(m, v) = no
    <3>1. m # Chosen(k, p, v)
      BY <1>4, <2>4 DEF Offered
    <3> QED  BY <2>1, <2>2, <2>4, <3>1, MemberHidden
  <2>5. CASE Visible(m, v) = yes
    BY <2>1, <2>2, <2>5 DEF Answer, IsChoiceValue
  <2> QED  BY <2>3, <2>4, <2>5
<1> QED  BY <1>4, <1>5

\* The members of a choice that is n are n, and are not written.
LEMMA MemberOff ==
    ASSUME TreeOK, NEW h, NEW u, NEW p, NEW v, Settles(v, h, u, p),
           NEW i \in Syms, tree[i].choice # 0, v[tree[i].choice] = no
    PROVE  v[i] = no /\ ~Written(i, v)
<1>1. v \in [Syms -> Tristate] /\ v[i] = Answer(i, h, u, p, v)
  BY DEF Settles
<1>2. Visible(i, v) = no
  BY <1>1, MemberVisible
<1> QED  BY <1>1, <1>2, MemberHidden

-----------------------------------------------------------------------------
(***************************************************************************)
(* What is read back.                                                      *)
(***************************************************************************)
Saved(v) == file = [i \in Syms |-> IF ~IsChoice(i) /\ Written(i, v) THEN v[i] ELSE Absent]

\* The line of a named symbol is its value; n where there is none.
LEMMA FileIs ==
    ASSUME TreeOK, NEW h, NEW u, NEW p, NEW v, Settles(v, h, u, p), Saved(v), NEW i \in Named
    PROVE  /\ FileUser[i] = v[i] /\ v[i] \in Tristate
           /\ file[i] # Absent <=> Written(i, v)
           /\ \A t \in {mod, yes} : file[i] = t <=> v[i] = t
<1>1. i \in Syms /\ ~IsChoice(i) /\ v[i] \in Tristate /\ v[i] = Answer(i, h, u, p, v)
  BY DEF Named, Settles
<1>2. file[i] = IF Written(i, v) THEN v[i] ELSE Absent
  BY <1>1 DEF Saved
<1>3. v[i] # Absent
  BY <1>1 DEF Tristate, Absent, no, mod, yes
<1>4. ~Written(i, v) => v[i] = no
  BY <1>1, HiddenOff
<1>5. FileUser[i] = IF file[i] = Absent THEN no ELSE file[i]
  BY <1>1 DEF FileUser
<1> QED  BY <1>1, <1>2, <1>3, <1>4, <1>5 DEF Absent, no, mod, yes

\* A member is a symbol with a name, its choice is a choice.
LEMMA MemberNamed ==
    ASSUME TreeOK, NEW k \in Syms, NEW m \in Members(k)
    PROVE  m \in Named /\ m \in Syms /\ tree[m].choice = k /\ k # 0 /\ IsChoice(k)
<1>1. IsChoice(k)
  BY DEF Members, IsChoice, IsOptional
<1>2. m \in Syms /\ tree[m].choice = k /\ k # 0
  BY <1>1, SymbolFacts DEF Choice
<1>3. ~IsChoice(m)
  BY <1>2, MemberPlain
<1> QED  BY <1>1, <1>2, <1>3 DEF Named

\* The lines of a choice are the values of its members.
LEMMA LinesAre ==
    ASSUME TreeOK, NEW h, NEW u, NEW p, NEW v, Settles(v, h, u, p), Saved(v), NEW k \in Syms,
           NEW t \in {mod, yes}
    PROVE  Lines(k, t) = {m \in Members(k) : v[m] = t}
BY FileIs, MemberNamed DEF Lines

\* A choice gets its answer back from its members.
LEMMA ChoiceUser ==
    ASSUME TreeOK, NEW h, NEW u \in [Syms -> Tristate], NEW p, NEW v, Settles(v, h, u, p), Saved(v),
           NEW k \in Syms, IsChoice(k)
    PROVE  /\ FileUser[k] \in Tristate
           /\ v[k] = yes => FileUser[k] = yes /\ Lines(k, yes) = {Chosen(k, p, v)} /\ Lines(k, mod) = {}
           /\ v[k] = mod => FileUser[k] # yes /\ Lines(k, yes) = {}
           /\ v[k] = no => FileUser[k] = no /\ Lines(k, yes) = {}
<1> DEFINE S == {file[m] : m \in Members(k)} \ {Absent}
<1>0. /\ no # mod /\ mod # yes /\ no # yes /\ Absent \notin Tristate
      /\ \A t \in Tristate : yes <= t => t = yes
      /\ yes \in Tristate /\ no \in Tristate
  BY DEF Tristate, Absent, no, mod, yes
<1>1. \A m \in Members(k) : m \in Syms /\ tree[m].choice = k /\ k # 0 /\ m \in Named
  BY MemberNamed
<1>2. \A m \in Members(k) : file[m] = Absent \/ (file[m] = v[m] /\ v[m] \in Tristate)
  BY <1>1 DEF Saved, Settles
<1>3. S \in SUBSET Tristate
  BY <1>2
<1>4. FileUser[k] = AnyOf(S)
  BY DEF FileUser
<1>5. AnyOf(S) \in Tristate /\ (\A t \in S : t <= AnyOf(S)) /\ AnyOf(S) \in S \cup {no}
  <2> HIDE DEF S
  <2> QED  BY <1>3, AnyOfIs
<1>6. Lines(k, yes) = {m \in Members(k) : v[m] = yes} /\ Lines(k, mod) = {m \in Members(k) : v[m] = mod}
  BY LinesAre
<1>7. ASSUME v[k] = yes
      PROVE  FileUser[k] = yes /\ Lines(k, yes) = {Chosen(k, p, v)} /\ Lines(k, mod) = {}
  <2>1. /\ Chosen(k, p, v) \in Members(k)
        /\ \A m \in Members(k) : v[m] = IF m = Chosen(k, p, v) THEN yes ELSE no
    BY <1>7, ChoiceYes DEF Offered
  <2>2. file[Chosen(k, p, v)] = yes
    BY <1>1, <2>1, FileIs
  <2>3. yes \in S
    BY <1>0, <2>1, <2>2
  <2>4. AnyOf(S) = yes
    <3> HIDE DEF S
    <3> QED  BY <1>0, <1>5, <2>3
  <2> QED  BY <1>0, <1>4, <1>6, <2>1, <2>4
<1>8. ASSUME v[k] = mod PROVE FileUser[k] # yes /\ Lines(k, yes) = {}
  <2>1. \A m \in Members(k) : v[m] \in {no, mod}
    BY <1>1, <1>8, MemberOfMod
  <2>2. yes \notin S
    BY <1>0, <1>2, <2>1
  <2> HIDE DEF S
  <2> QED  BY <1>0, <1>4, <1>5, <1>6, <2>1, <2>2
<1>9. ASSUME v[k] = no PROVE FileUser[k] = no /\ Lines(k, yes) = {}
  <2>1. \A m \in Members(k) : v[m] = no
    BY <1>1, <1>9, MemberOff
  <2>2. S \subseteq {no}
    BY <1>0, <1>2, <2>1
  <2> HIDE DEF S
  <2> QED  BY <1>0, <1>4, <1>5, <1>6, <2>1, <2>2
<1> QED  BY <1>4, <1>5, <1>7, <1>8, <1>9

\* A file that was written has no choice with an m beside a y.
LEMMA NothingLost ==
    ASSUME TreeOK, NEW h, NEW u \in [Syms -> Tristate], NEW p, NEW v, Settles(v, h, u, p), Saved(v),
           NEW k \in Syms
    PROVE  ~Confusing(k)
<1>1. CASE ~IsChoice(k)
  BY <1>1 DEF Confusing, Lines, Members, IsChoice, IsOptional
<1>2. CASE IsChoice(k)
  <2>1. v[k] \in {no, mod, yes}
    BY DEF Settles, Tristate
  <2>2. CASE v[k] = yes
    BY <1>2, <2>2, ChoiceUser DEF Confusing
  <2>3. CASE v[k] = mod
    BY <1>2, <2>3, ChoiceUser DEF Confusing
  <2>4. CASE v[k] = no
    BY <1>2, <2>4, ChoiceUser DEF Confusing
  <2> QED  BY <2>1, <2>2, <2>3, <2>4
<1> QED  BY <1>1, <1>2

\* What is read is a value.
LEMMA UserTyped ==
    ASSUME file \in [Syms -> Tristate \cup {Absent}], TreeOK
    PROVE  FileUser \in [Syms -> Tristate]
<1>1. ASSUME NEW i \in Syms PROVE FileUser[i] \in Tristate
  <2>1. CASE IsChoice(i)
    <3> DEFINE S == {file[m] : m \in Members(i)} \ {Absent}
    <3>1. \A m \in Members(i) : m \in Syms
      BY MemberNamed
    <3>2. S \in SUBSET Tristate /\ FileUser[i] = AnyOf(S)
      BY <2>1, <3>1 DEF FileUser
    <3>3. AnyOf(S) \in Tristate
      <4> HIDE DEF S
      <4> QED  BY <3>2, AnyOfIs
    <3> QED  BY <3>2, <3>3
  <2>2. CASE ~IsChoice(i)
    BY <2>2 DEF FileUser, Tristate
  <2> QED  BY <2>1, <2>2
<1>2. FileUser = [i \in Syms |-> FileUser[i]]
  BY DEF FileUser
<1> QED  BY <1>1, <1>2

-----------------------------------------------------------------------------
(***************************************************************************)
(* The values read back are the values saved.                              *)
(***************************************************************************)

\* A visible choice that was n for want of a member may be m afterwards.
Matches(i, v, w) == w[i] = v[i] \/ (IsChoice(i) /\ v[i] = no /\ w[i] = mod)

\* The members of a choice that is n are n.
OffTogether(v) ==
    \A j \in Syms : tree[j].choice # 0 => (v[tree[j].choice] = no => v[j] = no)

\* A choice that was n and is m changes no select: the member that selects is n.
LEMMA PullsMatch ==
    ASSUME TreeOK, NEW i \in Syms, tree[i].choice = 0,
           NEW v \in [Syms -> Tristate], NEW w \in [Syms -> Tristate],
           \A j \in 1 .. i - 1 : Matches(j, v, w), OffTogether(v),
           NEW c \in Pulled(i)
    PROVE  CondValue(c, v) = CondValue(c, w)
<1>1. \A a \in c : PullKept(a, c, i)
  BY SymbolFacts DEF Symbol
<1>2. \A a \in c : AtomValue(a, v) \in Tristate /\ AtomValue(a, w) \in Tristate
  BY SettledKnown, PulledKnown
<1>3. CASE \A a \in c : a.op = "const" \/ v[a.sym] = w[a.sym]
  <2>1. \A a \in c : AtomValue(a, v) = AtomValue(a, w)
    BY <1>1, <1>3, AtomSame DEF PullKept
  <2> QED  BY <2>1, CondSame
<1>4. CASE \E a \in c : a.op # "const" /\ v[a.sym] # w[a.sym]
  <2>1. PICK a \in c : a.op # "const" /\ v[a.sym] # w[a.sym]
    BY <1>4
  <2>2. a.sym \in 1 .. i - 1 /\ ~IsOptional(tree[a.sym])
    BY <1>1, <2>1 DEF PullKept, Matches, IsChoice
  <2>3. v[a.sym] = no
    BY <2>1, <2>2 DEF Matches
  <2>4. PICK j \in 1 .. i - 1 : Is(j) \in c /\ IsOptional(tree[j]) /\ tree[j].choice = a.sym
    BY <1>1, <2>1, <2>2 DEF PullKept
  <2>5. j \in Syms /\ a.sym # 0
    <3>1. Syms = 1 .. Len(tree) /\ Len(tree) \in Nat
      BY DEF TreeOK
    <3> QED  BY <2>2, <3>1
  <2>6. v[j] = no
    BY <2>3, <2>4, <2>5 DEF OffTogether
  <2>7. w[j] = no
    BY <2>4, <2>6 DEF Matches, IsChoice
  <2>8. AtomValue(Is(j), v) = no /\ AtomValue(Is(j), w) = no
    BY <2>6, <2>7 DEF AtomValue, Is
  <2>9. \A t \in Tristate : t <= no => t = no
    BY DEF Tristate, no, mod, yes
  <2>10. CondValue(c, v) = no
    BY <1>2, <2>4, <2>8, <2>9, CondKnown
  <2>11. CondValue(c, w) = no
    BY <1>2, <2>4, <2>8, <2>9, CondKnown
  <2> QED  BY <2>10, <2>11
<1> QED  BY <1>3, <1>4

\* Values that match give equal values to the conditions, unless the choice around them differs.
LEMMA AlikeMatch ==
    ASSUME TreeOK, NEW i \in Syms,
           NEW v \in [Syms -> Tristate], NEW w \in [Syms -> Tristate],
           \A j \in 1 .. Upto(i) : Matches(j, v, w),
           tree[i].choice = 0 => OffTogether(v),
           tree[i].choice # 0 => v[tree[i].choice] = w[tree[i].choice]
    PROVE  Alike(i, v, w)
<1>1. \A j \in 1 .. Upto(i) : IsOptional(tree[j]) => w[j] = v[j]
  BY DEF Matches, IsChoice
<1>2. ASSUME NEW a, Kept(a, i) PROVE AtomValue(a, v) = AtomValue(a, w)
  <2>1. a.op = "const" \/ v[a.sym] = w[a.sym]
    <3> SUFFICES ASSUME a.op # "const" PROVE v[a.sym] = w[a.sym]
      OBVIOUS
    <3>1. a.sym \in 1 .. Upto(i) /\ (IsOptional(tree[a.sym]) \/ a.sym = tree[i].choice)
      BY <1>2 DEF Kept
    <3>2. a.sym # 0
      BY <3>1, SymbolFacts
    <3> QED  BY <1>1, <3>1, <3>2
  <2> QED  BY <1>2, <2>1, AtomSame DEF Kept
<1>3. \A c \in Conditions(i) : CondValue(c, v) = CondValue(c, w)
  <2> SUFFICES ASSUME NEW c \in Conditions(i) PROVE CondValue(c, v) = CondValue(c, w)
    OBVIOUS
  <2>1. \A a \in c : Kept(a, i)
    BY SymbolFacts DEF Symbol
  <2> QED  BY <1>2, <2>1, CondSame
<1>4. ASSUME IsOptional(tree[i]), NEW n \in DOMAIN tree[i].defaults
      PROVE  AtomValue(tree[i].defaults[n].val, v) = AtomValue(tree[i].defaults[n].val, w)
  BY <1>2, <1>4, SymbolFacts DEF Symbol
<1>5. ASSUME tree[i].choice = 0, NEW c \in Pulled(i) PROVE CondValue(c, v) = CondValue(c, w)
  <2>1. \A j \in 1 .. i - 1 : Matches(j, v, w)
    BY <1>5, SymbolFacts
  <2> QED  BY <1>5, <2>1, PullsMatch
<1>6. i = MODULES \/ v[MODULES] = w[MODULES]
  BY <1>1, SymbolFacts DEF TreeOK
<1> QED  BY <1>3, <1>4, <1>5, <1>6 DEF Alike

\* A visible choice is selected by its prompt.
LEMMA ChoicePulled ==
    ASSUME TreeOK, NEW v \in [Syms -> Tristate], NEW k \in Syms, IsChoice(k), Visible(k, v) # no
    PROVE  RevDep(k, v) # no
<1>1. Known(k, v) /\ tree[k].choice = 0
  BY SettledKnown, SymbolFacts DEF Choice
<1>2. PICK c \in tree[k].prompts : PromptValue(k, c, v) # no
  BY <1>1, VisibleKnown
<1>3. CondValue(c, v) # no
  BY <1>2 DEF PromptValue
<1>4. PICK e : e = c \cup {Const(mod)}
  OBVIOUS
<1>5. e \in tree[k].rev /\ e \in Pulled(k)
  BY <1>4, SymbolFacts DEF Choice, Pulled
<1>6. \A a \in e : AtomValue(a, v) \in Tristate
  BY <1>1, <1>5, PulledKnown
<1>7. CondValue(e, v) # no
  <2>1. \A a \in c : AtomValue(a, v) # no
    <3>1. /\ \A a \in c : AtomValue(a, v) \in Tristate
          /\ CondValue(c, v) \in Tristate
      BY <1>1, ConditionKnown DEF Conditions
    <3>2. \A a \in c : CondValue(c, v) <= AtomValue(a, v)
      BY <3>1, CondKnown
    <3>3. \A t \in Tristate : t <= no => t = no
      BY DEF Tristate, no, mod, yes
    <3> QED  BY <1>3, <3>1, <3>2, <3>3
  <2>2. AtomValue(Const(mod), v) # no
    BY DEF AtomValue, Const, no, mod
  <2>3. \A a \in e : AtomValue(a, v) # no
    BY <1>4, <2>1, <2>2
  <2> QED  BY <1>6, <2>3, CondKnown DEF no, yes
<1>8. AnyValue(tree[k].rev, v) # no /\ AnyValue(tree[k].rev, v) \in Tristate
  BY <1>1, <1>5, <1>7, PulledKnown, AnyValueKnown DEF Pulled
<1> QED  BY <1>1, <1>8, PromotedKnown DEF RevDep, IsChoiceValue

\* What was written for a symbol gives it its value again, all else being equal.
LEMMA RaisedBack ==
    ASSUME TreeOK, NEW h, NEW u \in [Syms -> Tristate], NEW p, NEW v, Settles(v, h, u, p), Saved(v),
           NEW i \in Named, v[i] = Raised(i, h, u, v),
           Visible(i, v) # no => v[i] <= Or(Visible(i, v), RevDep(i, v))
    PROVE  Raised(i, FileHas({}), FileUser, v) = v[i]
<1>1. i \in Syms /\ ~IsChoice(i) /\ v \in [Syms -> Tristate] /\ Known(i, v)
  BY SettledKnown DEF Named, Settles
<1>2. CASE Visible(i, v) = no
  BY <1>1, <1>2 DEF Raised, Asked
<1>3. CASE Visible(i, v) # no
  <2>1. i \in FileHas({}) /\ FileUser[i] = v[i] /\ v[i] \in Tristate
    BY <1>1, <1>3, FileIs DEF FileHas, Written
  <2>2. Asked(i, FileHas({}), FileUser, v) = And(v[i], Visible(i, v))
    BY <1>3, <2>1 DEF Asked
  <2>3. Visible(i, v) \in Tristate /\ RevDep(i, v) \in Tristate /\ Asked(i, h, u, v) \in Tristate
    BY <1>1, VisibleKnown, PullsKnown, AskedKnown
  <2> DEFINE B == IsBool(i, Visible(i, v), v) \/ Implied(i, v) = yes
             R(t) == IF t = mod /\ B THEN yes ELSE t
  <2>4. /\ v[i] = R(Or(Asked(i, h, u, v), RevDep(i, v)))
        /\ Raised(i, FileHas({}), FileUser, v) = R(Or(And(v[i], Visible(i, v)), RevDep(i, v)))
    BY <2>2 DEF Raised
  <2>5. v[i] >= RevDep(i, v) /\ R(v[i]) = v[i]
    <3> HIDE DEF B
    <3> QED  BY <2>3, <2>4 DEF Or, Tristate, no, mod, yes
  <2>6. Or(And(v[i], Visible(i, v)), RevDep(i, v)) = v[i]
    BY <1>3, <2>1, <2>3, <2>5 DEF Or, And, Tristate, no, mod, yes
  <2> QED  BY <2>4, <2>5, <2>6
<1> QED  BY <1>2, <1>3


Reread(v, h, u, p, w, q) ==
    /\ u \in [Syms -> Tristate] /\ Settles(v, h, u, p) /\ Saved(v)
    /\ \A i \in Named : Visible(i, v) # no => v[i] <= Or(Visible(i, v), RevDep(i, v))
    /\ FileUser \in [Syms -> Tristate] /\ Settles(w, FileHas({}), FileUser, q)
    /\ \A k \in Syms : Lines(k, yes) # {} => q[k] \in Lines(k, yes)

\* Both are values of all symbols.
LEMMA RereadTyped ==
    ASSUME NEW v, NEW h, NEW u, NEW p, NEW w, NEW q, Reread(v, h, u, p, w, q)
    PROVE  v \in [Syms -> Tristate] /\ w \in [Syms -> Tristate]
BY DEF Reread, Settles

\* The members of a choice are off with it.
LEMMA Together ==
    ASSUME TreeOK, NEW v, NEW h, NEW u, NEW p, Settles(v, h, u, p)
    PROVE  OffTogether(v)
BY MemberOff DEF OffTogether

\* A symbol in no choice.
LEMMA PlainBack ==
    ASSUME TreeOK, NEW v, NEW h, NEW u, NEW p, NEW w, NEW q, Reread(v, h, u, p, w, q),
           NEW i \in Syms, ~IsChoice(i), tree[i].choice = 0, \A j \in 1 .. i - 1 : Matches(j, v, w)
    PROVE  w[i] = v[i]
<1>1. v \in [Syms -> Tristate] /\ w \in [Syms -> Tristate] /\ OffTogether(v)
  BY RereadTyped, Together DEF Reread
<1>2. Alike(i, v, w)
  <2>1. Upto(i) = i - 1
    BY SymbolFacts
  <2> QED  BY <1>1, <2>1, AlikeMatch
<1>3. v[i] = Raised(i, h, u, v) /\ w[i] = Raised(i, FileHas({}), FileUser, w)
  BY DEF Reread, Settles, Answer, IsChoiceValue
<1>4. i \in Named
  BY DEF Named
<1>5. Raised(i, FileHas({}), FileUser, v) = v[i]
  BY <1>3, <1>4, RaisedBack DEF Reread
<1> QED  BY <1>2, <1>3, <1>5, RaisedSame

\* A choice.
LEMMA ChoiceBack ==
    ASSUME TreeOK, NEW v, NEW h, NEW u, NEW p, NEW w, NEW q, Reread(v, h, u, p, w, q),
           NEW i \in Syms, IsChoice(i), \A j \in 1 .. i - 1 : Matches(j, v, w)
    PROVE  Matches(i, v, w)
<1> DEFINE r == Raised(i, h, u, v)
           s == Raised(i, FileHas({}), FileUser, v)
           vis == Visible(i, v)
           rev == RevDep(i, v)
<1>1. v \in [Syms -> Tristate] /\ w \in [Syms -> Tristate] /\ OffTogether(v) /\ u \in [Syms -> Tristate]
      /\ FileUser \in [Syms -> Tristate]
  BY RereadTyped, Together DEF Reread
<1>2. tree[i].choice = 0 /\ Upto(i) = i - 1 /\ i \in Nat /\ i >= 1
  BY SymbolFacts DEF Choice
<1>3. Alike(i, v, w)
  BY <1>1, <1>2, AlikeMatch
<1>4. Raised(i, FileHas({}), FileUser, w) = s
  BY <1>3, RaisedSame
<1>5. PICK x : x = [v EXCEPT ![i] = yes]
  OBVIOUS
<1>6. PICK y : y = [w EXCEPT ![i] = yes]
  OBVIOUS
<1>7. v[i] = IF r = yes /\ Chosen(i, p, x) = 0 THEN no ELSE r
  BY <1>5 DEF Reread, Settles, Answer
<1>8. w[i] = IF s = yes /\ Chosen(i, q, y) = 0 THEN no ELSE s
  BY <1>4, <1>6 DEF Reread, Settles, Answer
<1>9. Chosen(i, p, x) = 0 <=> Chosen(i, q, y) = 0
  <2>1. x \in [Syms -> Tristate] /\ y \in [Syms -> Tristate] /\ x[i] = yes /\ y[i] = yes
        /\ \A j \in Syms : j # i => x[j] = v[j] /\ y[j] = w[j]
    BY <1>1, <1>5, <1>6 DEF Tristate
  <2>2. \A j \in 1 .. i : Matches(j, x, y)
    <3>1. \A j \in 1 .. i - 1 : j \in Syms /\ j # i
      <4>1. Syms = 1 .. Len(tree) /\ Len(tree) \in Nat
        BY DEF TreeOK
      <4> QED  BY <1>2, <4>1
    <3>2. \A j \in 1 .. i - 1 : Matches(j, x, y)
      BY <2>1, <3>1 DEF Matches
    <3>3. Matches(i, x, y)
      BY <2>1 DEF Matches
    <3>4. \A j \in 1 .. i : j = i \/ j \in 1 .. i - 1
      BY <1>2
    <3> QED  BY <3>2, <3>3, <3>4
  <2>3. ASSUME NEW m \in Members(i) PROVE Visible(m, x) = Visible(m, y)
    <3>1. m \in Syms /\ tree[m].choice = i /\ i # 0
      BY MemberNamed
    <3>2. Upto(m) = i
      BY <3>1 DEF Upto
    <3>3. Alike(m, x, y)
      BY <2>1, <2>2, <3>1, <3>2, AlikeMatch
    <3> QED  BY <3>1, <3>3, AlikeVisible
  <2>4. Offered(i, x) = Offered(i, y)
    BY <2>3 DEF Offered
  <2> QED  BY <2>4, ChosenIs
<1>10. vis \in Tristate /\ rev \in Tristate /\ Asked(i, h, u, v) \in Tristate /\ r \in Tristate
       /\ Asked(i, FileHas({}), FileUser, v) \in Tristate /\ s \in Tristate
  BY <1>1, SettledKnown, VisibleKnown, PullsKnown, AskedKnown
<1>11. CASE vis = no
  <2>1. r = s
    BY <1>11 DEF Raised, Asked
  <2> QED  BY <1>7, <1>8, <1>9, <2>1 DEF Matches
<1>12. CASE vis # no
  <2>1. rev # no
    BY <1>1, <1>12, ChoicePulled
  <2>2. i \in FileHas({})
    BY DEF FileHas
  <2> DEFINE B == IsBool(i, vis, v) \/ Implied(i, v) = yes
             t == Or(Asked(i, h, u, v), rev)
             z == Or(And(FileUser[i], vis), rev)
  <2>3. r = IF t = mod /\ B THEN yes ELSE t
    BY DEF Raised
  <2>4. s = IF z = mod /\ B THEN yes ELSE z
    BY <1>12, <2>2 DEF Raised, Asked
  <2>5. Asked(i, h, u, v) <= vis
    BY <1>1, <1>10 DEF Asked, And, Tristate, no, mod, yes
  <2>6. /\ FileUser[i] \in Tristate
        /\ v[i] = yes => FileUser[i] = yes
        /\ v[i] = mod => FileUser[i] # yes
        /\ v[i] = no => FileUser[i] = no
    BY ChoiceUser DEF Reread
  <2>7. r # no /\ s # no
    <3> HIDE DEF B
    <3> QED  BY <1>10, <2>1, <2>3, <2>4, <2>6 DEF Or, And, Tristate, no, mod, yes
  <2>8. CASE v[i] = yes
    <3>1. r = yes
      BY <1>7, <2>8 DEF no, yes
    <3>2. s = yes
      <4> HIDE DEF B
      <4> QED  BY <1>10, <2>3, <2>4, <2>5, <2>6, <2>8, <3>1 DEF Or, And, Tristate, no, mod, yes
    <3>3. Chosen(i, p, x) # 0
      BY <1>7, <2>8, <3>1 DEF no, yes
    <3> QED  BY <1>8, <1>9, <2>8, <3>2, <3>3 DEF Matches
  <2>9. CASE v[i] = mod
    <3>1. r = mod
      BY <1>7, <2>9 DEF no, mod
    <3>2. s = mod
      <4> HIDE DEF B
      <4> QED  BY <1>10, <2>1, <2>3, <2>4, <2>6, <2>9, <3>1 DEF Or, And, Tristate, no, mod, yes
    <3> QED  BY <1>8, <2>9, <3>2 DEF Matches, mod, yes
  <2>10. CASE v[i] = no
    <3>1. Chosen(i, q, y) = 0
      BY <1>7, <1>9, <2>7, <2>10
    <3>2. w[i] \in {no, mod}
      BY <1>8, <1>10, <3>1 DEF Tristate
    <3> QED  BY <2>10, <3>2 DEF Matches
  <2>11. v[i] \in {no, mod, yes}
    BY <1>1 DEF Tristate
  <2> QED  BY <2>8, <2>9, <2>10, <2>11
<1> QED  BY <1>11, <1>12

\* A member of a choice.
LEMMA MemberBack ==
    ASSUME TreeOK, NEW v, NEW h, NEW u, NEW p, NEW w, NEW q, Reread(v, h, u, p, w, q),
           NEW i \in Syms, tree[i].choice # 0, \A j \in 1 .. i - 1 : Matches(j, v, w)
    PROVE  w[i] = v[i]
<1> DEFINE k == tree[i].choice
<1>1. v \in [Syms -> Tristate] /\ w \in [Syms -> Tristate] /\ u \in [Syms -> Tristate]
      /\ FileUser \in [Syms -> Tristate]
      /\ Settles(v, h, u, p) /\ Settles(w, FileHas({}), FileUser, q) /\ Saved(v)
  BY RereadTyped DEF Reread
<1>2. k \in Syms /\ k \in 1 .. i - 1 /\ IsChoice(k) /\ ~IsChoice(i) /\ i \in Named /\ i \in Members(k)
      /\ Upto(i) = k /\ i \in Nat
  BY SymbolFacts, MemberPlain DEF Member, Named
<1>3. \A j \in 1 .. k : Matches(j, v, w)
  BY <1>2
<1>4. RevDep(i, w) = no /\ Implied(i, w) = no /\ DefaultValue(i, w) = no
  BY MemberPlain
<1>5. CASE v[k] = w[k]
  <2>1. ASSUME NEW m \in Members(k) PROVE Alike(m, v, w) /\ Visible(m, v) = Visible(m, w)
    <3>1. m \in Syms /\ tree[m].choice = k /\ k # 0
      BY <1>2, MemberNamed
    <3>2. Upto(m) = k
      BY <3>1 DEF Upto
    <3>3. Alike(m, v, w)
      BY <1>1, <1>3, <1>5, <3>1, <3>2, AlikeMatch
    <3> QED  BY <3>1, <3>3, AlikeVisible
  <2>2. v[i] = Answer(i, h, u, p, v) /\ w[i] = Answer(i, FileHas({}), FileUser, q, w)
    BY <1>1 DEF Settles
  <2>3. CASE Visible(i, v) = yes
    <3>1. v[k] = yes
      <4>1. v[k] # no
        BY <1>1, <2>3, MemberVisible DEF no, yes
      <4>2. v[k] # mod
        <5>1. v[k] = mod => Visible(i, v) \in {no, mod}
          BY <1>1, MemberOfMod
        <5> QED  BY <2>3, <5>1 DEF no, mod, yes
      <4> QED  BY <1>1, <1>2, <4>1, <4>2 DEF Tristate
    <3>2. Chosen(k, p, v) \in Offered(k, v)
      BY <1>1, <1>2, <3>1, ChoiceYes
    <3>3. Lines(k, yes) = {Chosen(k, p, v)}
      <4>1. TreeOK /\ u \in [Syms -> Tristate] /\ Settles(v, h, u, p) /\ Saved(v) /\ k \in Syms /\ IsChoice(k)
        BY <1>1, <1>2
      <4> HIDE DEF k
      <4>2. v[k] = yes => Lines(k, yes) = {Chosen(k, p, v)}
        BY <4>1, ChoiceUser
      <4> QED  BY <3>1, <4>2
    <3>4. q[k] = Chosen(k, p, v)
      BY <1>2, <3>3 DEF Reread
    <3>5. q[k] \in Offered(k, w)
      BY <2>1, <3>2, <3>4 DEF Offered
    <3>6. Chosen(k, q, w) = Chosen(k, p, v)
      BY <1>2, <3>4, <3>5, ChosenIs
    <3>7. Visible(i, w) = yes
      BY <1>2, <2>1, <2>3
    <3> QED  BY <1>2, <2>2, <2>3, <3>6, <3>7 DEF Answer, IsChoiceValue
  <2>4. CASE Visible(i, v) # yes
    <3>1. Visible(i, w) # yes /\ Alike(i, v, w)
      BY <1>2, <2>1, <2>4
    <3>2. v[i] = Raised(i, h, u, v) /\ w[i] = Raised(i, FileHas({}), FileUser, w)
      BY <1>2, <2>2, <2>4, <3>1 DEF Answer
    <3>3. Raised(i, FileHas({}), FileUser, v) = v[i]
      BY <1>1, <1>2, <3>2, RaisedBack DEF Reread
    <3> QED  BY <3>1, <3>2, <3>3, RaisedSame
  <2> QED  BY <2>3, <2>4
<1>6. CASE v[k] # w[k]
  <2>1. v[k] = no /\ w[k] = mod
    BY <1>2, <1>3, <1>6 DEF Matches
  <2>2. v[i] = no /\ ~Written(i, v)
    BY <1>1, <2>1, MemberOff
  <2>3. i \notin FileHas({})
    BY <1>1, <1>2, <2>2, FileIs DEF FileHas
  <2>4. w[i] = Raised(i, FileHas({}), FileUser, w)
    BY <1>1, <2>1, MemberOfMod
  <2>5. Asked(i, FileHas({}), FileUser, w) = no
    BY <1>2, <1>4, <2>3 DEF Asked, Or, no, mod, yes
  <2>6. Raised(i, FileHas({}), FileUser, w) = no
    BY <1>4, <2>5 DEF Raised, Or, no, mod, yes
  <2> QED  BY <2>2, <2>4, <2>6
<1> QED  BY <1>5, <1>6

\* All named symbols are back: the first that was not would be one of the three.
LEMMA AllBack ==
    ASSUME TreeOK, NEW v, NEW h, NEW u, NEW p, NEW w, NEW q, Reread(v, h, u, p, w, q)
    PROVE  \A i \in Named : w[i] = v[i]
<1> DEFINE Bad == {i \in Syms : ~Matches(i, v, w)}
<1>1. Syms = 1 .. Len(tree) /\ Len(tree) \in Nat
  BY DEF TreeOK
<1>2. Bad = {}
  <2>1. SUFFICES ASSUME Bad # {} PROVE FALSE
    OBVIOUS
  <2>2. PICK i \in Bad : \A m \in Bad : i <= m
    <3>1. Syms \subseteq Nat
      BY <1>1
    <3>2. Bad \in SUBSET Nat
      BY <3>1
    <3> HIDE DEF Bad
    <3> QED  BY <2>1, <3>2, FirstExists
  <2>3. i \in Syms /\ ~Matches(i, v, w)
    OBVIOUS
  <2>4. \A j \in 1 .. i - 1 : j \in Syms /\ ~(i <= j)
    BY <1>1, <2>3
  <2>5. \A j \in 1 .. i - 1 : j \notin Bad
    <3> HIDE DEF Bad
    <3> QED  BY <2>2, <2>4
  <2>6. \A j \in 1 .. i - 1 : Matches(j, v, w)
    BY <2>4, <2>5
  <2>7. CASE IsChoice(i)
    BY <2>3, <2>6, <2>7, ChoiceBack
  <2>8. CASE ~IsChoice(i) /\ tree[i].choice = 0
    BY <2>3, <2>6, <2>8, PlainBack DEF Matches
  <2>9. CASE tree[i].choice # 0
    BY <2>3, <2>6, <2>9, MemberBack DEF Matches
  <2> QED  BY <2>7, <2>8, <2>9
<1> QED  BY <1>2 DEF Matches, Named

-----------------------------------------------------------------------------
(***************************************************************************)
(* The session.                                                            *)
(***************************************************************************)

\* sym_calc_choice, from the members that are visible.
PickOf(d, k, p, seen, visible) ==
    LET offered == {n \in visible : d[k].defaults[n].val.sym \in seen}
    IN  CASE p[k] \in seen -> p[k]
          [] p[k] \notin seen /\ offered # {} -> d[k].defaults[FirstOf(offered)].val.sym
          [] p[k] \notin seen /\ offered = {} /\ seen # {} -> FirstOf(seen)
          [] seen = {} -> 0

\* While the tree stays, what the operators say of given values does.
LEMMA TreeStays ==
    ASSUME tree' = tree
    PROVE  /\ TreeOK' <=> TreeOK
           /\ Syms' = Syms
           /\ \A v, h, u, p : Settles(v, h, u, p)' <=> Settles(v, h, u, p)
           /\ \A i, v : IsChoice(i)' = IsChoice(i) /\ Written(i, v)' = Written(i, v)
<1>1. /\ Syms' = Syms
      /\ \A i : /\ IsChoice(i)' = IsChoice(i) /\ IsChoiceValue(i)' = IsChoiceValue(i)
                /\ Members(i)' = Members(i) /\ Upto(i)' = Upto(i)
                /\ Conditions(i)' = Conditions(i) /\ Pulled(i)' = Pulled(i)
  BY DEF Syms, IsChoice, IsChoiceValue, Members, Upto, Conditions, Pulled
<1>2. \A i : Symbol(i)' <=> Symbol(i)
  <2>1. \A a, i : Kept(a, i)' <=> Kept(a, i)
    BY <1>1 DEF Kept
  <2>2. \A a, c, i : PullKept(a, c, i)' <=> PullKept(a, c, i)
    BY DEF PullKept
  <2> QED  BY <1>1, <2>1, <2>2 DEF Symbol
<1>3. \A i : (Member(i)' <=> Member(i)) /\ (Choice(i)' <=> Choice(i))
  BY <1>1 DEF Member, Choice
<1>4. TreeOK' <=> TreeOK
  BY <1>1, <1>2, <1>3 DEF TreeOK
<1>5. \A i, v : Visible(i, v)' = Visible(i, v) /\ VisibleDefaults(i, v)' = VisibleDefaults(i, v)
  <2>1. \A i, c, v : PromptValue(i, c, v)' = PromptValue(i, c, v)
    BY <1>1 DEF PromptValue
  <2> QED  BY <2>1 DEF Visible, VisibleDefaults
<1>6. \A i, t, v : (IsBool(i, t, v)' <=> IsBool(i, t, v)) /\ Promoted(i, t, v)' = Promoted(i, t, v)
  <2>1. \A i, t, v : IsBool(i, t, v)' <=> IsBool(i, t, v)
    BY <1>1 DEF IsBool
  <2> QED  BY <1>5, <2>1 DEF Promoted
<1>7. \A i, v : RevDep(i, v)' = RevDep(i, v) /\ Implied(i, v)' = Implied(i, v)
  <2>1. \A i, v : DirDep(i, v)' = DirDep(i, v)
    BY DEF DirDep
  <2> QED  BY <1>1, <1>6, <2>1 DEF RevDep, Implied
<1>8. \A i, v : DefaultValue(i, v)' = DefaultValue(i, v)
  BY <1>5 DEF DefaultValue
<1>9. ASSUME NEW k, NEW p, NEW v PROVE Chosen(k, p, v)' = Chosen(k, p, v)
  <2>1. Chosen(k, p, v) = PickOf(tree, k, p, Offered(k, v), VisibleDefaults(k, v))
    BY DEF Chosen, PickOf, Offered
  <2>2. Chosen(k, p, v)' = PickOf(tree', k, p, Offered(k, v)', VisibleDefaults(k, v)')
    BY DEF Chosen, PickOf, Offered
  <2>3. Offered(k, v)' = Offered(k, v)
    BY <1>1, <1>5 DEF Offered
  <2> QED  BY <1>5, <2>1, <2>2, <2>3
<1>10. \A i, h, u, v : Raised(i, h, u, v)' = Raised(i, h, u, v)
  <2>1. \A i, h, u, v : Asked(i, h, u, v)' = Asked(i, h, u, v)
    BY <1>1, <1>5, <1>7, <1>8 DEF Asked
  <2> QED  BY <1>5, <1>6, <1>7, <2>1 DEF Raised
<1>11. \A i, h, u, p, v : Answer(i, h, u, p, v)' = Answer(i, h, u, p, v)
  BY <1>1, <1>5, <1>9, <1>10 DEF Answer
<1>12. \A v, h, u, p : Settles(v, h, u, p)' <=> Settles(v, h, u, p)
  BY <1>1, <1>11 DEF Settles
<1>13. \A i, v : Written(i, v)' = Written(i, v)
  BY <1>5, <1>7, <1>8 DEF Written
<1> QED  BY <1>1, <1>4, <1>12, <1>13

\* The values are those of what the user asked for, the file is what they write.
ToolInv ==
    /\ TreeOK
    /\ file \in [Syms -> Tristate \cup {Absent}]
    /\ user \in [Syms -> Tristate]
    /\ phase # "new" =>
         \E v : /\ v = curr
                /\ \E h, p : \E u \in [Syms -> Tristate] : Settles(v, h, u, p)
                /\ phase = "saved" => Saved(v)

\* Before the first read only the tree and the file matter.
LEMMA ToolInitially == ToolInit => ToolInv
<1> SUFFICES ASSUME ToolInit PROVE ToolInv
  OBVIOUS
<1>1. PICK in \in Inputs : tree = Finalized(in[1]) /\ file = in[2]
  BY DEF ToolInit
<1>2. WellFormed(in[1]) /\ file \in [DOMAIN in[1] -> Tristate \cup {Absent}]
  BY <1>1, InputsAssumption DEF Readable
<1>3. TreeOK
  BY <1>1, <1>2, FinalizedOK
<1>4. Syms = DOMAIN in[1]
  BY <1>1 DEF Syms, Finalized
<1>5. user \in [Syms -> Tristate] /\ phase = "new"
  BY DEF ToolInit, Tristate
<1> QED  BY <1>2, <1>3, <1>4, <1>5 DEF ToolInv

\* A step that leaves the file alone and calculates the values.
LEMMA CalculatedKept ==
    ASSUME ToolInv, tree' = tree, file' = file, phase' = "loaded",
           NEW h, NEW u \in [Syms -> Tristate], NEW p, user' = u,
           curr' = Values(h, u, p)
    PROVE  ToolInv'
<1>1. PICK v : v = Values(h, u, p)
  OBVIOUS
<1>2. Settles(v, h, u, p)
  BY <1>1, ValuesSettle DEF ToolInv
<1>3. TreeOK' /\ Syms' = Syms /\ Settles(v, h, u, p)'
  BY <1>2, TreeStays DEF ToolInv
<1> QED  BY <1>1, <1>3 DEF ToolInv

\* conf_read calculates the values.
LEMMA ReadKept == ToolInv /\ Read => ToolInv'
<1> SUFFICES ASSUME ToolInv, Read PROVE ToolInv'
  OBVIOUS
<1>1. TreeOK /\ FileUser \in [Syms -> Tristate]
  BY UserTyped DEF ToolInv
<1>2. /\ \E h, p : curr' = Values(h, FileUser, p)
      /\ user' = FileUser /\ phase' = "loaded" /\ tree' = tree /\ file' = file
  BY DEF Read
<1> QED  BY <1>1, <1>2, CalculatedKept

\* sym_set_tristate_value calculates the values, or leaves them.
LEMMA SetKept ==
    ASSUME ToolInv, NEW i \in Syms, NEW t \in Tristate, Set(i, t)
    PROVE  ToolInv'
<1>1. /\ user' = [user EXCEPT ![i] = t] /\ phase # "new" /\ phase' = "loaded"
      /\ tree' = tree /\ file' = file
      /\ curr' = curr \/ \E h : curr' = Values(h, user', pick')
  BY DEF Set
<1>2. user' \in [Syms -> Tristate]
  BY <1>1 DEF ToolInv
<1>3. CASE curr' = curr
  <2>1. PICK v, h, p : v = curr /\ \E u \in [Syms -> Tristate] : Settles(v, h, u, p)
    BY <1>1 DEF ToolInv
  <2>2. PICK u \in [Syms -> Tristate] : Settles(v, h, u, p)
    BY <2>1
  <2>3. TreeOK' /\ Syms' = Syms /\ Settles(v, h, u, p)'
    BY <1>1, <2>2, TreeStays DEF ToolInv
  <2>4. \E a, b : \E c \in [Syms' -> Tristate] : Settles(v, a, c, b)'
    BY <2>3
  <2> QED  BY <1>1, <1>2, <1>3, <2>1, <2>3, <2>4 DEF ToolInv
<1>4. CASE \E h : curr' = Values(h, user', pick')
  <2>1. PICK h, u, p : u = user' /\ curr' = Values(h, u, p)
    BY <1>4
  <2> QED  BY <1>1, <1>2, <2>1, CalculatedKept
<1> QED  BY <1>1, <1>3, <1>4

\* conf_write writes the values that are in force then.
LEMMA WriteKept == ToolInv /\ Write => ToolInv'
<1> SUFFICES ASSUME ToolInv, Write PROVE ToolInv'
  OBVIOUS
<1>1. PICK v : v = IF changed THEN curr ELSE Values(has, user, pick)
  OBVIOUS
<1>2. /\ curr' = v /\ tree' = tree /\ user' = user /\ phase' = "saved" /\ phase # "new"
      /\ file' = [i \in Syms |-> IF ~IsChoice(i) /\ Written(i, v) THEN v[i] ELSE Absent]
  BY <1>1 DEF Write
<1>3. \E h, p : \E u \in [Syms -> Tristate] : Settles(v, h, u, p)
  <2>1. CASE changed
    BY <1>1, <1>2, <2>1 DEF ToolInv
  <2>2. CASE ~changed
    <3>1. PICK h, u, p : h = has /\ u = user /\ p = pick
      OBVIOUS
    <3>2. Settles(Values(h, u, p), h, u, p)
      BY <3>1, ValuesSettle DEF ToolInv
    <3>3. Settles(v, h, u, p)
      BY <1>1, <2>2, <3>1, <3>2
    <3> QED  BY <3>1, <3>3 DEF ToolInv
  <2> QED  BY <2>1, <2>2
<1>4. PICK h, u, p : u \in [Syms -> Tristate] /\ Settles(v, h, u, p)
  BY <1>3
<1>5. v \in [Syms -> Tristate]
  BY <1>4 DEF Settles
<1>6. TreeOK' /\ Syms' = Syms /\ Settles(v, h, u, p)'
  BY <1>2, <1>4, TreeStays DEF ToolInv
<1>7. file' \in [Syms -> Tristate \cup {Absent}]
  <2>1. \A i \in Syms : (IF ~IsChoice(i) /\ Written(i, v) THEN v[i] ELSE Absent) \in Tristate \cup {Absent}
    BY <1>5
  <2> QED  BY <1>2, <2>1
<1>8. Saved(v)'
  <2>1. \A i : IsChoice(i)' = IsChoice(i) /\ Written(i, v)' = Written(i, v)
    BY <1>2, TreeStays
  <2> QED  BY <1>2, <1>6, <2>1 DEF Saved
<1>9. \E a, b : \E c \in [Syms' -> Tristate] : Settles(v, a, c, b)'
  BY <1>4, <1>6
<1> QED  BY <1>2, <1>6, <1>7, <1>8, <1>9 DEF ToolInv

\* A stutter changes nothing.
LEMMA NothingKept == ToolInv /\ UNCHANGED toolVars => ToolInv'
<1> SUFFICES ASSUME ToolInv, UNCHANGED toolVars PROVE ToolInv'
  OBVIOUS
<1>1. tree' = tree /\ file' = file /\ user' = user /\ phase' = phase /\ curr' = curr
  BY DEF toolVars
<1>2. TreeOK' /\ Syms' = Syms
  BY <1>1, TreeStays DEF ToolInv
<1>3. CASE phase = "new"
  BY <1>1, <1>2, <1>3 DEF ToolInv
<1>4. CASE phase # "new"
  <2>1. PICK v, h, u, p : /\ v = curr /\ u \in [Syms -> Tristate] /\ Settles(v, h, u, p)
                          /\ phase = "saved" => Saved(v)
    BY <1>4 DEF ToolInv
  <2>2. Settles(v, h, u, p)'
    BY <1>1, <2>1, TreeStays
  <2>3. Saved(v)' <=> Saved(v)
    <3>1. \A i : IsChoice(i)' = IsChoice(i) /\ Written(i, v)' = Written(i, v)
      BY <1>1, TreeStays
    <3> QED  BY <1>1, <1>2, <3>1 DEF Saved
  <2>4. \E a, b : \E c \in [Syms' -> Tristate] : Settles(v, a, c, b)'
    BY <1>2, <2>1, <2>2
  <2> QED  BY <1>1, <1>2, <2>1, <2>3, <2>4 DEF ToolInv
<1> QED  BY <1>3, <1>4

\* sym_calc_value and conf_write: at all times after the first read the values are an
\* answer to something the user may have asked for, and as long as nothing is set after
\* a write the file holds them.
THEOREM ToolKept == ToolSpec => []ToolInv
<1>1. ToolInv /\ [ToolNext]_toolVars => ToolInv'
  BY ReadKept, SetKept, WriteKept, NothingKept DEF ToolNext
<1> QED  BY <1>1, ToolInitially, PTL DEF ToolSpec

\* conf_read after conf_write: what was written is the configuration that is read, for
\* every Kconfig file of bools, tristates and choices, unless a default gave a symbol
\* more than its prompt would have allowed.
THEOREM ReadBack == ToolSpec => ReadsBack
<1> DEFINE Back == phase = "saved" /\ Read /\ ~Exceeding => \A i \in Named : curr'[i] = curr[i]
<1>1. ToolInv /\ [ToolNext]_toolVars => [Back]_toolVars
  <2> SUFFICES ASSUME ToolInv, phase = "saved", Read, ~Exceeding
               PROVE  \A i \in Named : curr'[i] = curr[i]
    OBVIOUS
  <2>1. TreeOK /\ FileUser \in [Syms -> Tristate]
    BY UserTyped DEF ToolInv
  <2>2. PICK v, h, u, p : v = curr /\ u \in [Syms -> Tristate] /\ Settles(v, h, u, p) /\ Saved(v)
    BY DEF ToolInv
  <2>3. \A k \in Syms : ~Confusing(k)
    BY <2>1, <2>2, NothingLost
  <2>4. PICK q : /\ curr' = Values(FileHas({}), FileUser, q)
                 /\ \A k \in Syms : Lines(k, yes) # {} => q[k] \in Lines(k, yes)
    <3>1. PICK lost \in SUBSET {k \in Syms : Confusing(k)},
               last \in [{k \in Syms : Lines(k, yes) # {}} -> Syms] :
             /\ \A k \in DOMAIN last : last[k] \in Lines(k, yes)
             /\ curr' = Values(FileHas(lost), FileUser,
                               [i \in Syms |-> IF i \in DOMAIN last THEN last[i] ELSE 0])
      BY DEF Read
    <3>2. lost = {}
      BY <2>3
    <3>3. PICK q : q = [i \in Syms |-> IF i \in DOMAIN last THEN last[i] ELSE 0]
      OBVIOUS
    <3>4. \A k \in Syms : Lines(k, yes) # {} => q[k] \in Lines(k, yes)
      BY <3>1, <3>3
    <3> QED  BY <3>1, <3>2, <3>3, <3>4
  <2>5. PICK e, f : e = FileHas({}) /\ f = FileUser
    OBVIOUS
  <2>6. PICK w : w = curr'
    OBVIOUS
  <2>7. Settles(w, FileHas({}), FileUser, q)
    <3>1. Settles(Values(e, f, q), e, f, q)
      BY <2>1, <2>5, ValuesSettle
    <3> QED  BY <2>4, <2>5, <2>6, <3>1
  <2>8. \A i \in Named : Visible(i, v) # no => v[i] <= Or(Visible(i, v), RevDep(i, v))
    <3>1. \A i \in Named : /\ v[i] \in Tristate /\ Visible(i, v) \in Tristate /\ RevDep(i, v) \in Tristate
      BY <2>1, <2>2, SettledKnown, VisibleKnown, PullsKnown DEF Settles, Named
    <3>2. \A i \in Named : ~(Visible(i, v) # no /\ v[i] > Or(Visible(i, v), RevDep(i, v)))
      BY <2>2 DEF Exceeding
    <3> QED  BY <3>1, <3>2 DEF Or, Tristate, no, mod, yes
  <2>9. Reread(v, h, u, p, w, q)
    BY <2>1, <2>2, <2>4, <2>7, <2>8 DEF Reread
  <2> QED  BY <2>1, <2>2, <2>6, <2>9, AllBack
<1>2. ToolSpec => [][Back]_toolVars
  BY <1>1, ToolKept, PTL DEF ToolSpec
<1> QED  BY <1>2 DEF ReadsBack

-----------------------------------------------------------------------------
(***************************************************************************)
(* Satyr's representation: what an expression is translated to says the    *)
(* value the expression has.                                               *)
(***************************************************************************)
\* The representation of a value.
Val(t) == Repr(t = yes, t = mod)

\* No two values have one representation.
LEMMA ValOn ==
    ASSUME NEW t \in Tristate
    PROVE  /\ On(Val(t)) <=> t # no
           /\ Val(t).yes <=> t = yes
           /\ Val(t).mod <=> t = mod
           /\ Val(t).yes \in BOOLEAN /\ Val(t).mod \in BOOLEAN
<1>1. Val(t).yes = (t = yes) /\ Val(t).mod = (t = mod)
  BY DEF Val, Repr
<1>2. t # no <=> t = yes \/ t = mod
  BY DEF Tristate, no, mod, yes
<1>3. On(Val(t)) <=> Val(t).yes \/ Val(t).mod
  BY DEF On
<1> QED  BY <1>1, <1>2, <1>3

\* A conjunction of representations says the least of their values.
LEMMA AndReprIs ==
    ASSUME NEW S \in SUBSET Tristate
    PROVE  AndRepr({Val(t) : t \in S}) = Val(AllOf(S))
<1> DEFINE R == {Val(t) : t \in S}
<1>1. AllOf(S) \in Tristate /\ (\A u \in S : AllOf(S) <= u) /\ AllOf(S) \in S \cup {yes}
  BY AllOfIs
<1>2. (\A r \in R : r.yes) <=> AllOf(S) = yes
  <2>1. (\A r \in R : r.yes) <=> \A t \in S : t = yes
    BY ValOn
  <2>2. (\A t \in S : t = yes) <=> AllOf(S) = yes
    <3>1. ASSUME AllOf(S) = yes, NEW t \in S PROVE t = yes
      <4>1. t \in Tristate /\ yes <= t
        BY <1>1, <3>1
      <4> QED  BY <4>1 DEF Tristate, no, mod, yes
    <3>2. ASSUME \A t \in S : t = yes PROVE AllOf(S) = yes
      BY <1>1, <3>2
    <3> QED  BY <3>1, <3>2
  <2> QED  BY <2>1, <2>2
<1>3. ((\E r \in R : r.mod) /\ \A r \in R : On(r)) <=> AllOf(S) = mod
  <2>1. ((\E r \in R : r.mod) <=> \E t \in S : t = mod) /\ ((\A r \in R : On(r)) <=> \A t \in S : t # no)
    BY ValOn
  <2>2. ASSUME AllOf(S) = mod PROVE (\E t \in S : t = mod) /\ \A t \in S : t # no
    <3>1. mod \in S
      BY <1>1, <2>2 DEF mod, yes
    <3>2. \A t \in S : mod <= t
      BY <1>1, <2>2
    <3> QED  BY <3>1, <3>2 DEF mod, no
  <2>3. ASSUME NEW s \in S, s = mod, \A t \in S : t # no PROVE AllOf(S) = mod
    <3>1. AllOf(S) <= mod /\ AllOf(S) # yes
      BY <1>1, <2>3 DEF mod, yes
    <3>2. AllOf(S) # no
      BY <1>1, <2>3 DEF no, yes
    <3> QED  BY <1>1, <3>1, <3>2 DEF Tristate
  <2> QED  BY <2>1, <2>2, <2>3
<1> HIDE DEF R
<1>4. AndRepr(R) = Repr(AllOf(S) = yes, AllOf(S) = mod)
  BY <1>2, <1>3 DEF AndRepr, Repr
<1> QED  BY <1>4 DEF Val, R

\* A disjunction of representations says the greatest of their values.
LEMMA OrReprIs ==
    ASSUME NEW S \in SUBSET Tristate
    PROVE  OrRepr({Val(t) : t \in S}) = Val(AnyOf(S))
<1> DEFINE R == {Val(t) : t \in S}
<1>1. AnyOf(S) \in Tristate /\ (\A u \in S : u <= AnyOf(S)) /\ AnyOf(S) \in S \cup {no}
  BY AnyOfIs
<1>2. (\E r \in R : r.yes) <=> AnyOf(S) = yes
  <2>1. (\E r \in R : r.yes) <=> \E t \in S : t = yes
    BY ValOn
  <2>2. (\E t \in S : t = yes) <=> AnyOf(S) = yes
    <3>1. ASSUME AnyOf(S) = yes PROVE \E t \in S : t = yes
      BY <1>1, <3>1 DEF no, yes
    <3>2. ASSUME NEW t \in S, t = yes PROVE AnyOf(S) = yes
      <4>1. yes <= AnyOf(S)
        BY <1>1, <3>2
      <4> QED  BY <1>1, <4>1 DEF Tristate, no, mod, yes
    <3> QED  BY <3>1, <3>2
  <2> QED  BY <2>1, <2>2
<1>3. ((\E r \in R : r.mod) /\ ~\E r \in R : r.yes) <=> AnyOf(S) = mod
  <2>1. (\E r \in R : r.mod) <=> \E t \in S : t = mod
    BY ValOn
  <2>2. ASSUME AnyOf(S) = mod PROVE (\E t \in S : t = mod) /\ AnyOf(S) # yes
    BY <1>1, <2>2 DEF mod, yes, no
  <2>3. ASSUME NEW s \in S, s = mod, AnyOf(S) # yes PROVE AnyOf(S) = mod
    <3>1. mod <= AnyOf(S)
      BY <1>1, <2>3
    <3> QED  BY <1>1, <2>3, <3>1 DEF Tristate, no, mod, yes
  <2> QED  BY <1>2, <2>1, <2>2, <2>3
<1> HIDE DEF R
<1>4. OrRepr(R) = Repr(AnyOf(S) = yes, AnyOf(S) = mod)
  BY <1>2, <1>3 DEF OrRepr, Repr
<1> QED  BY <1>4 DEF Val, R

\* The same for two operands.
LEMMA PairReprIs ==
    ASSUME NEW s \in Tristate, NEW t \in Tristate
    PROVE  /\ AndRepr({Val(s), Val(t)}) = Val(And(s, t))
           /\ OrRepr({Val(s), Val(t)}) = Val(Or(s, t))
           /\ NotRepr(Val(t)) = Val(Not(t))
<1>1. {Val(u) : u \in {s, t}} = {Val(s), Val(t)} /\ {s, t} \in SUBSET Tristate
  OBVIOUS
<1>2. AllOf({s, t}) = And(s, t)
  <2>1. AllOf({s, t}) \in Tristate /\ AllOf({s, t}) <= s /\ AllOf({s, t}) <= t
        /\ (AllOf({s, t}) = s \/ AllOf({s, t}) = t \/ AllOf({s, t}) = yes)
    BY <1>1, AllOfIs
  <2> QED  BY <2>1 DEF And, Tristate, no, mod, yes
<1>3. AnyOf({s, t}) = Or(s, t)
  <2>1. AnyOf({s, t}) \in Tristate /\ s <= AnyOf({s, t}) /\ t <= AnyOf({s, t})
        /\ (AnyOf({s, t}) = s \/ AnyOf({s, t}) = t \/ AnyOf({s, t}) = no)
    BY <1>1, AnyOfIs
  <2> QED  BY <2>1 DEF Or, Tristate, no, mod, yes
<1>4. NotRepr(Val(t)) = Val(Not(t))
  <2>1. NotRepr(Val(t)) = Repr(~(t = yes) /\ ~(t = mod), t = mod)
    BY ValOn DEF NotRepr, Repr
  <2>2. (~(t = yes) /\ ~(t = mod) <=> Not(t) = yes) /\ (t = mod <=> Not(t) = mod)
    BY DEF Not, Tristate, no, mod, yes
  <2> QED  BY <2>1, <2>2 DEF Val, Repr
<1>5. AndRepr({Val(u) : u \in {s, t}}) = Val(AllOf({s, t}))
      /\ OrRepr({Val(u) : u \in {s, t}}) = Val(AnyOf({s, t}))
  BY <1>1, AndReprIs, OrReprIs
<1> QED  BY <1>1, <1>2, <1>3, <1>4, <1>5

\* An atom of a finalized tree.
Grounds(a) == a \in Atom /\ (a.op = "const" \/ a.sym \in Syms)

\* What an atom is translated to says its value.
LEMMA AtomReprIs ==
    ASSUME TreeOK, NEW f \in Assignments, NEW a, Grounds(a)
    PROVE  AtomRepr(a, f) = Val(AtomValue(a, f)) /\ AtomValue(a, f) \in Tristate
<1>1. a.op \in {"const", "sym", "not", "eq"} /\ a.val \in Tristate
  BY DEF Grounds, Atom
<1>2. f \in [Syms -> Tristate] /\ f[MODULES] # mod
  BY DEF Assignments, TreeOK
<1>3. ASSUME a.op # "const" PROVE SymbolRepr(a.sym, f) = Val(f[a.sym]) /\ f[a.sym] \in Tristate
  <2>1. a.sym \in Syms
    BY <1>3 DEF Grounds
  <2> QED  BY <1>2, <2>1 DEF SymbolRepr, Val, Repr
<1>4. CASE a.op = "const"
  BY <1>1, <1>4 DEF AtomRepr, AtomValue, ConstRepr, Val
<1>5. CASE a.op = "sym"
  BY <1>3, <1>5 DEF AtomRepr, AtomValue
<1>6. CASE a.op = "not"
  <2>1. AtomRepr(a, f) = NotRepr(Val(f[a.sym])) /\ AtomValue(a, f) = Not(f[a.sym])
    BY <1>3, <1>6 DEF AtomRepr, AtomValue
  <2>2. Not(f[a.sym]) \in Tristate
    BY <1>3, <1>6 DEF Not, Tristate, no, mod, yes
  <2> QED  BY <1>3, <1>6, <2>1, <2>2, PairReprIs
<1>7. CASE a.op = "eq"
  <2>1. AtomRepr(a, f) = EqualRepr(Val(f[a.sym]), Val(a.val))
        /\ AtomValue(a, f) = IF f[a.sym] = a.val THEN yes ELSE no
    BY <1>3, <1>7 DEF AtomRepr, AtomValue, ConstRepr, Val
  <2>2. PICK s \in Tristate : s = f[a.sym]
    BY <1>3, <1>7
  <2>3. PICK t \in Tristate : t = a.val
    BY <1>1
  <2>4. EqualRepr(Val(s), Val(t)) = Val(IF s = t THEN yes ELSE no)
    <3>1. EqualRepr(Val(s), Val(t)) =
            Repr((s = yes /\ t = yes) \/ (s = mod /\ t = mod) \/ (s = no /\ t = no), FALSE)
      BY ValOn DEF EqualRepr, Repr
    <3>2. (s = yes /\ t = yes) \/ (s = mod /\ t = mod) \/ (s = no /\ t = no) <=> s = t
      BY DEF Tristate, no, mod, yes
    <3>3. /\ (IF s = t THEN yes ELSE no) = yes <=> s = t
          /\ (IF s = t THEN yes ELSE no) # mod
      BY DEF no, mod, yes
    <3> QED  BY <3>1, <3>2, <3>3 DEF Val, Repr
  <2> QED  BY <2>1, <2>2, <2>3, <2>4 DEF Tristate
<1> QED  BY <1>1, <1>4, <1>5, <1>6, <1>7

\* So does a condition, and a disjunction of conditions.
LEMMA CondReprIs ==
    ASSUME TreeOK, NEW f \in Assignments, NEW c, \A a \in c : Grounds(a)
    PROVE  CondRepr(c, f) = Val(CondValue(c, f)) /\ CondValue(c, f) \in Tristate
<1> DEFINE S == {AtomValue(a, f) : a \in c}
<1>1. \A a \in c : AtomRepr(a, f) = Val(AtomValue(a, f)) /\ AtomValue(a, f) \in Tristate
  BY AtomReprIs
<1>2. {AtomRepr(a, f) : a \in c} = {Val(t) : t \in S}
  BY <1>1
<1>3. S \in SUBSET Tristate
  BY <1>1
<1>4. CondRepr(c, f) = AndRepr({Val(t) : t \in S}) /\ CondValue(c, f) = AllOf(S)
  BY <1>2 DEF CondRepr, CondValue
<1> HIDE DEF S
<1> QED  BY <1>3, <1>4, AndReprIs, AllOfIs

\* A disjunction of conditions is translated to its value.
LEMMA AnyReprIs ==
    ASSUME TreeOK, NEW f \in Assignments, NEW C, \A c \in C : \A a \in c : Grounds(a)
    PROVE  AnyRepr(C, f) = Val(AnyValue(C, f)) /\ AnyValue(C, f) \in Tristate
<1> DEFINE S == {CondValue(c, f) : c \in C}
<1>1. \A c \in C : CondRepr(c, f) = Val(CondValue(c, f)) /\ CondValue(c, f) \in Tristate
  BY CondReprIs
<1>2. {CondRepr(c, f) : c \in C} = {Val(t) : t \in S}
  BY <1>1
<1>3. S \in SUBSET Tristate
  BY <1>1
<1>4. AnyRepr(C, f) = OrRepr({Val(t) : t \in S}) /\ AnyValue(C, f) = AnyOf(S)
  BY <1>2 DEF AnyRepr, AnyValue
<1> HIDE DEF S
<1> QED  BY <1>3, <1>4, OrReprIs, AnyOfIs

-----------------------------------------------------------------------------
(***************************************************************************)
(* More of what menu_finalize makes of a tree: what the values of the      *)
(* conditions have to do with each other.                                  *)
(***************************************************************************)
\* Each condition of i contains the dependencies of a definition, and MODULES with an m;
\* a choice is selected by m where it has a prompt, and its defaults are members.
Built(i) ==
    /\ 1 \in DOMAIN tree[i].deps
    /\ DOMAIN tree[i].defaults = 1 .. Len(tree[i].defaults) /\ Len(tree[i].defaults) \in Nat
    /\ \A c \in Conditions(i) :
          /\ \E n \in DOMAIN tree[i].deps : tree[i].deps[n] \subseteq c
          /\ \A a \in c : a.op = "const" /\ a.val = mod => Is(MODULES) \in c
    /\ IsChoice(i) =>
          /\ \A c \in tree[i].rev : \E b \in tree[i].prompts : c = b \cup {Const(mod)}
          /\ \A n \in DOMAIN tree[i].defaults : \E m \in Members(i) : tree[i].defaults[n].val = Is(m)

\* The tree, and every symbol of it.
TreeBuilt == TreeOK /\ \A i \in Syms : Built(i)

\* With an m comes MODULES.
ModSafe(c) == \A a \in c : a.op = "const" /\ a.val = mod => Is(MODULES) \in c

\* menu_finalize adds MODULES to the dependencies that have an m.
LEMMA RewrittenSafe ==
    ASSUME NEW d, WellFormed(d), NEW i \in DOMAIN d, NEW c \in ConditionsOf(d[i])
    PROVE  ModSafe(Rewritten(c))
<1>1. \A a \in c : a.op = "const" => a = Const(a.val)
  BY DEF WellFormed, Grounded
<1>2. Is(MODULES).op # "const"
  BY DEF Is
<1>3. ASSUME NEW a \in Rewritten(c), a.op = "const", a.val = mod PROVE Is(MODULES) \in Rewritten(c)
  <2>1. a \in c
    BY <1>2, <1>3 DEF Rewritten
  <2>2. Const(mod) \in c
    BY <1>1, <1>3, <2>1
  <2> QED  BY <2>2 DEF Rewritten
<1> QED  BY <1>3 DEF ModSafe

\* The dependencies of a definition are safe, and whatever is added to them.
LEMMA BaseSafe ==
    ASSUME NEW d, WellFormed(d), NEW i \in DOMAIN d, NEW n \in DOMAIN d[i].defs
    PROVE  /\ ModSafe(Base(d, i, n))
           /\ \A c \in ConditionsOf(d[i]) : ModSafe(Base(d, i, n) \cup Rewritten(c))
<1>1. ModSafe(Rewritten(d[i].defs[n].dep))
  BY RewrittenSafe DEF ConditionsOf
<1>2. \A a \in Parent(d, i) : a.op # "const"
  BY DEF Parent, Is, Equal
<1>3. ModSafe(Base(d, i, n))
  BY <1>1, <1>2 DEF ModSafe, Base
<1>4. ASSUME NEW c \in ConditionsOf(d[i]) PROVE ModSafe(Base(d, i, n) \cup Rewritten(c))
  <2>1. ModSafe(Rewritten(c))
    BY RewrittenSafe
  <2> QED  BY <1>3, <2>1 DEF ModSafe
<1> QED  BY <1>3, <1>4

\* Each condition of i is made from one of its definitions.
LEMMA ConditionsBuilt ==
    ASSUME NEW d, WellFormed(d), tree = Finalized(d), NEW i \in DOMAIN d, NEW c \in Conditions(i)
    PROVE  ModSafe(c) /\ \E n \in DOMAIN d[i].defs : Base(d, i, n) \subseteq c
<1>1. CASE c \in tree[i].prompts
  <2>1. c \in Prompts(d, i)
    BY <1>1, EarlierFacts
  <2>2. PICK n \in DOMAIN d[i].defs : \E b \in d[i].defs[n].prompt : c = Base(d, i, n) \cup Rewritten(b)
    BY <2>1 DEF Prompts
  <2>3. PICK b \in d[i].defs[n].prompt : c = Base(d, i, n) \cup Rewritten(b)
    BY <2>2
  <2>4. b \in ConditionsOf(d[i])
    BY DEF ConditionsOf
  <2> QED  BY <2>3, <2>4, BaseSafe
<1>2. CASE c \in {tree[i].deps[n] : n \in DOMAIN tree[i].deps}
  <2>0. tree[i].deps = [n \in DOMAIN d[i].defs |-> Base(d, i, n)]
    BY EarlierFacts
  <2>1. PICK n \in DOMAIN d[i].defs : c = Base(d, i, n)
    BY <1>2, <2>0
  <2> QED  BY <2>1, BaseSafe
<1>3. CASE c \in {tree[i].defaults[n].cond : n \in DOMAIN tree[i].defaults}
  <2>0. tree[i].defaults = Defaults(d, i)
    BY EarlierFacts
  <2>1. PICK k \in DOMAIN Defaults(d, i) : c = Defaults(d, i)[k].cond
    BY <1>3, <2>0
  <2>2. PICK n \in DOMAIN d[i].defs : \E m \in DOMAIN d[i].defs[n].defaults :
           c = Base(d, i, n) \cup Rewritten(d[i].defs[n].defaults[m].cond)
    BY <2>1, DefaultsAre
  <2>3. PICK m \in DOMAIN d[i].defs[n].defaults :
           c = Base(d, i, n) \cup Rewritten(d[i].defs[n].defaults[m].cond)
    BY <2>2
  <2>4. d[i].defs[n].defaults[m].cond \in ConditionsOf(d[i])
    BY DEF ConditionsOf
  <2> QED  BY <2>3, <2>4, BaseSafe
<1> QED  BY <1>1, <1>2, <1>3 DEF Conditions

\* What menu_finalize makes of a well-formed file is built that way.
LEMMA FinalizedBuilt ==
    ASSUME NEW d, WellFormed(d), tree = Finalized(d)
    PROVE  TreeBuilt
<1>1. TreeOK
  BY FinalizedOK
<1>0. Syms = DOMAIN d
  BY DEF Syms, Finalized
<1> SUFFICES ASSUME NEW i \in DOMAIN d PROVE Built(i)
  BY <1>0, <1>1 DEF TreeBuilt
<1>2. /\ tree[i].deps = [n \in DOMAIN d[i].defs |-> Base(d, i, n)] /\ tree[i].members = d[i].members
      /\ tree[i].defaults = Defaults(d, i) /\ tree[i].prompts = Prompts(d, i)
      /\ tree[i].rev = Pulls(d, i, "select")
  BY EarlierFacts
<1>3. 1 \in DOMAIN tree[i].deps
  BY <1>2, DeclaredFacts
<1>4. DOMAIN tree[i].defaults = 1 .. Len(tree[i].defaults) /\ Len(tree[i].defaults) \in Nat
  BY <1>2, DefaultsAre
<1>5. ASSUME NEW c \in Conditions(i)
      PROVE  /\ \E n \in DOMAIN tree[i].deps : tree[i].deps[n] \subseteq c
             /\ \A a \in c : a.op = "const" /\ a.val = mod => Is(MODULES) \in c
  <2>1. ModSafe(c) /\ \E n \in DOMAIN d[i].defs : Base(d, i, n) \subseteq c
    BY ConditionsBuilt
  <2> QED  BY <1>2, <2>1 DEF ModSafe
<1>6. ASSUME IsChoice(i)
      PROVE  /\ \A c \in tree[i].rev : \E b \in tree[i].prompts : c = b \cup {Const(mod)}
             /\ \A n \in DOMAIN tree[i].defaults : \E m \in Members(i) : tree[i].defaults[n].val = Is(m)
  <2>1. ~IsOptional(d[i])
    BY <1>2, <1>6 DEF IsChoice, IsOptional
  <2>2. ASSUME NEW c \in Pulls(d, i, "select") PROVE \E b \in Prompts(d, i) : c = b \cup {Const(mod)}
    <3>1. {k \in DOMAIN d : <<"select", i>> \in d[k].pulls} = {}
      <4>1. ASSUME NEW k \in DOMAIN d, <<"select", i>> \in d[k].pulls PROVE FALSE
        <5>1. IsOptional(d[<<"select", i>>[2]])
          BY <4>1 DEF WellFormed
        <5> QED  BY <2>1, <5>1
      <4> QED  BY <4>1
    <3> QED  BY <2>1, <3>1 DEF Pulls
  <2>3. ASSUME NEW k \in DOMAIN Defaults(d, i) PROVE \E m \in Members(i) : Defaults(d, i)[k].val = Is(m)
    <3>1. PICK n \in DOMAIN d[i].defs : \E m \in DOMAIN d[i].defs[n].defaults :
             Defaults(d, i)[k].val = d[i].defs[n].defaults[m].val
      BY DefaultsAre
    <3>2. PICK m \in DOMAIN d[i].defs[n].defaults :
             Defaults(d, i)[k].val = d[i].defs[n].defaults[m].val
      BY <3>1
    <3>3. d[i].defs[n].defaults[m].val \in ValuesOf(d[i])
      BY DEF ValuesOf
    <3>4. PICK l \in DOMAIN d[i].members : d[i].defs[n].defaults[m].val = Is(d[i].members[l])
      BY <2>1, <3>3 DEF WellFormed
    <3>5. d[i].members[l] \in Members(i)
      BY <1>2 DEF Members
    <3> QED  BY <3>2, <3>4, <3>5
  <2> QED  BY <1>2, <2>2, <2>3
<1> QED  BY <1>3, <1>4, <1>5, <1>6 DEF Built

-----------------------------------------------------------------------------
(***************************************************************************)
(* The parts of the formula in values: what i depends on, what its prompts *)
(* give before they are promoted, and what selects it.                     *)
(***************************************************************************)
\* What the definitions of i allow.
Depends(i, f) == AnyValue({tree[i].deps[n] : n \in DOMAIN tree[i].deps}, f)

\* What the prompts of i give.
Prompted(i, f) == AnyValue(tree[i].prompts, f)

\* What selects i.
Selected(i, f) == IF IsChoiceValue(i) THEN no ELSE AnyValue(tree[i].rev, f)

\* The visibility as visibilityExpression has it.
Shown(i, f) ==
    IF tree[i].promptc = 1 /\ tree[i].prompts = {tree[i].deps[1]} THEN yes
    ELSE Prompted(i, f)

\* The atoms of conditions have values.
LEMMA AtomsGround ==
    ASSUME TreeOK, NEW i \in Syms
    PROVE  /\ \A c \in Conditions(i) : \A a \in c : Grounds(a)
           /\ tree[i].choice = 0 => \A c \in Pulled(i) : \A a \in c : Grounds(a)
           /\ IsOptional(tree[i]) => \A n \in DOMAIN tree[i].defaults : Grounds(tree[i].defaults[n].val)
<1>1. Syms = 1 .. Len(tree) /\ Len(tree) \in Nat /\ i \in Nat /\ Upto(i) \in 0 .. i - 1 /\ Symbol(i)
  BY SymbolFacts DEF TreeOK
<1>2. \A j \in 1 .. Upto(i) : j \in Syms
  BY <1>1
<1>3. \A j \in 1 .. i - 1 : j \in Syms
  BY <1>1
<1>4. \A a : Kept(a, i) => Grounds(a)
  BY <1>2 DEF Kept, Grounds
<1>5. \A a, c : PullKept(a, c, i) => Grounds(a)
  BY <1>3 DEF PullKept, Grounds
<1> QED  BY <1>1, <1>4, <1>5 DEF Symbol

\* What the formula says of i is in terms of these values.
LEMMA PartsAre ==
    ASSUME TreeOK, NEW f \in Assignments, NEW i \in Syms
    PROVE  /\ DepRepr(i, f) = Val(Depends(i, f)) /\ Depends(i, f) \in Tristate
           /\ VisRepr(i, f) = Val(Shown(i, f)) /\ Shown(i, f) \in Tristate
           /\ RevRepr(i, f) = Val(Selected(i, f)) /\ Selected(i, f) \in Tristate
           /\ Prompted(i, f) \in Tristate
<1>1. \A c \in tree[i].prompts \cup {tree[i].deps[n] : n \in DOMAIN tree[i].deps} :
         \A a \in c : Grounds(a)
  BY AtomsGround DEF Conditions
<1>2. DepRepr(i, f) = Val(Depends(i, f)) /\ Depends(i, f) \in Tristate
  BY <1>1, AnyReprIs DEF DepRepr, Depends
<1>3. AnyRepr(tree[i].prompts, f) = Val(Prompted(i, f)) /\ Prompted(i, f) \in Tristate
  BY <1>1, AnyReprIs DEF Prompted
<1>4. VisRepr(i, f) = Val(Shown(i, f)) /\ Shown(i, f) \in Tristate
  BY <1>3 DEF VisRepr, Shown, ConstRepr, Val, Tristate
<1>5. RevRepr(i, f) = Val(Selected(i, f)) /\ Selected(i, f) \in Tristate
  <2>1. CASE IsChoiceValue(i)
    BY <2>1 DEF RevRepr, Selected, ConstRepr, Val, Tristate
  <2>2. CASE ~IsChoiceValue(i)
    <3>1. \A c \in tree[i].rev : \A a \in c : Grounds(a)
      BY <2>2, AtomsGround DEF IsChoiceValue, Pulled
    <3>2. AnyRepr(tree[i].rev, f) = Val(AnyValue(tree[i].rev, f)) /\ AnyValue(tree[i].rev, f) \in Tristate
      BY <3>1, AnyReprIs
    <3> QED  BY <2>2, <3>2 DEF RevRepr, Selected
  <2> QED  BY <2>1, <2>2
<1> QED  BY <1>2, <1>3, <1>4, <1>5

\* The clauses of a bool.
LEMMA BoolClausesAre ==
    ASSUME TreeOK, NEW f \in Assignments, NEW i \in Syms
    PROVE  BoolClauses(i, f) <=>
             /\ f[i] = yes => Depends(i, f) # no \/ Selected(i, f) # no
             /\ Selected(i, f) # no => f[i] = yes
             /\ Shown(i, f) = no =>
                  /\ f[i] = yes => On(DefRepr(i, f)) \/ Selected(i, f) # no
                  /\ On(DefRepr(i, f)) /\ Depends(i, f) # no => f[i] = yes
<1>1. /\ On(DepRepr(i, f)) <=> Depends(i, f) # no
      /\ On(VisRepr(i, f)) <=> Shown(i, f) # no
      /\ On(RevRepr(i, f)) <=> Selected(i, f) # no
  BY PartsAre, ValOn
<1> QED  BY <1>1 DEF BoolClauses

\* The clauses of a tristate.
LEMMA TristateClausesAre ==
    ASSUME TreeOK, NEW f \in Assignments, NEW i \in Syms
    PROVE  TristateClauses(i, f) <=>
             /\ f[i] = yes => Depends(i, f) = yes \/ Selected(i, f) = yes
             /\ f[i] = mod => Selected(i, f) = mod \/ Depends(i, f) # no
             /\ Selected(i, f) = yes => f[i] = yes
             /\ Selected(i, f) = mod => f[i] = yes \/ f[i] = mod
             /\ Shown(i, f) = no =>
                  /\ f[i] = yes => DefRepr(i, f).yes \/ Selected(i, f) = yes
                  /\ f[i] = mod => On(DefRepr(i, f)) \/ Selected(i, f) = mod
                  /\ On(DefRepr(i, f)) /\ Depends(i, f) # no => f[i] = yes \/ f[i] = mod
                  /\ DefRepr(i, f).yes /\ Depends(i, f) = yes => f[i] = yes
<1>1. /\ On(DepRepr(i, f)) <=> Depends(i, f) # no
      /\ DepRepr(i, f).yes <=> Depends(i, f) = yes
      /\ On(VisRepr(i, f)) <=> Shown(i, f) # no
      /\ RevRepr(i, f).yes <=> Selected(i, f) = yes
      /\ RevRepr(i, f).mod <=> Selected(i, f) = mod
  BY PartsAre, ValOn
<1> QED  BY <1>1 DEF TristateClauses

\* A condition is at most what it contains.
LEMMA CondBelow ==
    ASSUME NEW v, NEW c, NEW b, b \subseteq c, \A a \in c : AtomValue(a, v) \in Tristate
    PROVE  CondValue(c, v) \in Tristate /\ CondValue(b, v) \in Tristate
           /\ CondValue(c, v) <= CondValue(b, v)
<1>1. CondValue(c, v) \in Tristate /\ \A a \in c : CondValue(c, v) <= AtomValue(a, v)
  BY CondKnown
<1>2. CondValue(b, v) \in Tristate
      /\ (CondValue(b, v) # yes => \E a \in b : CondValue(b, v) = AtomValue(a, v))
  BY CondKnown
<1>3. CASE CondValue(b, v) = yes
  BY <1>1, <1>3 DEF Tristate, no, mod, yes
<1>4. CASE CondValue(b, v) # yes
  BY <1>1, <1>2, <1>4
<1> QED  BY <1>1, <1>2, <1>3, <1>4

\* A condition of i is at most what i depends on.
LEMMA ConditionBelow ==
    ASSUME TreeBuilt, NEW f \in Assignments, NEW i \in Syms, NEW c \in Conditions(i)
    PROVE  CondValue(c, f) \in Tristate /\ CondValue(c, f) <= Depends(i, f)
<1>0. TreeOK /\ Built(i)
  BY DEF TreeBuilt
<1>1. \A b \in Conditions(i) : \A a \in b : AtomValue(a, f) \in Tristate
  BY <1>0, AtomsGround, AtomReprIs
<1>2. PICK n \in DOMAIN tree[i].deps : tree[i].deps[n] \subseteq c
  BY <1>0 DEF Built
<1>3. CondValue(c, f) \in Tristate /\ CondValue(c, f) <= CondValue(tree[i].deps[n], f)
      /\ CondValue(tree[i].deps[n], f) \in Tristate
  BY <1>1, <1>2, CondBelow
<1>4. CondValue(tree[i].deps[n], f) <= Depends(i, f)
  <2> DEFINE D == {tree[i].deps[l] : l \in DOMAIN tree[i].deps}
  <2>1. \A b \in D : CondValue(b, f) \in Tristate
    BY <1>1, CondKnown DEF Conditions
  <2>2. tree[i].deps[n] \in D /\ Depends(i, f) = AnyValue(D, f)
    BY DEF Depends
  <2> HIDE DEF D
  <2> QED  BY <2>1, <2>2, AnyValueKnown
<1>5. Depends(i, f) \in Tristate
  BY <1>0, PartsAre
<1> QED  BY <1>3, <1>4, <1>5 DEF Tristate, no, mod, yes

\* So are its prompts and its default.
LEMMA PartsBelow ==
    ASSUME TreeBuilt, NEW f \in Assignments, NEW i \in Syms
    PROVE  Prompted(i, f) <= Depends(i, f) /\ \A n \in DOMAIN tree[i].defaults :
                CondValue(tree[i].defaults[n].cond, f) \in Tristate
                /\ CondValue(tree[i].defaults[n].cond, f) <= Depends(i, f)
<1>0. TreeOK
  BY DEF TreeBuilt
<1>1. \A c \in tree[i].prompts : CondValue(c, f) \in Tristate /\ CondValue(c, f) <= Depends(i, f)
  BY ConditionBelow DEF Conditions
<1>2. \A n \in DOMAIN tree[i].defaults : CondValue(tree[i].defaults[n].cond, f) \in Tristate
                /\ CondValue(tree[i].defaults[n].cond, f) <= Depends(i, f)
  BY ConditionBelow DEF Conditions
<1>3. Prompted(i, f) <= Depends(i, f)
  <2> DEFINE S == {CondValue(c, f) : c \in tree[i].prompts}
  <2>1. S \in SUBSET Tristate /\ \A u \in S : u <= Depends(i, f)
    BY <1>1
  <2>2. Prompted(i, f) = AnyOf(S)
    BY DEF Prompted, AnyValue
  <2>3. Depends(i, f) \in Tristate
    BY <1>0, PartsAre
  <2> HIDE DEF S
  <2>4. AnyOf(S) \in S \cup {no}
    BY <2>1, AnyOfIs
  <2>5. no <= Depends(i, f)
    BY <2>3 DEF Tristate, no, mod, yes
  <2> QED  BY <2>1, <2>2, <2>4, <2>5
<1> QED  BY <1>2, <1>3

-----------------------------------------------------------------------------
(***************************************************************************)
(* The defaults: the formula of a hidden symbol's defaults says what the   *)
(* first visible of them gives.                                            *)
(***************************************************************************)
\* A step of the recursion in DefRepr.
RestStep(i, f, rest, n) ==
    IF n > Len(tree[i].defaults) THEN ConstRepr(no)
    ELSE OrRepr({AndRepr({CondRepr(tree[i].defaults[n].cond, f), AtomRepr(tree[i].defaults[n].val, f)}),
                 AndRepr({NotRepr(CondRepr(tree[i].defaults[n].cond, f)), rest[n + 1]})})

\* What the visible defaults from the nth on give.
From(i, f, n) == {m \in VisibleDefaults(i, f) : n <= m}

\* The value the first of these gives.
Given(i, f, n) ==
    IF From(i, f, n) = {} THEN no
    ELSE LET d == tree[i].defaults[FirstOf(From(i, f, n))]
         IN  And(AtomValue(d.val, f), CondValue(d.cond, f))

\* No default but the last is visible with m.
Plainly(i, f) ==
    \A n \in VisibleDefaults(i, f) :
        n = Len(tree[i].defaults) \/ CondValue(tree[i].defaults[n].cond, f) # mod

\* The value of a default, and that of its condition.
LEMMA DefaultParts ==
    ASSUME TreeBuilt, NEW f \in Assignments, NEW i \in Syms, NEW n \in DOMAIN tree[i].defaults
    PROVE  /\ CondValue(tree[i].defaults[n].cond, f) \in Tristate
           /\ AtomValue(tree[i].defaults[n].val, f) \in Tristate
           /\ CondRepr(tree[i].defaults[n].cond, f) = Val(CondValue(tree[i].defaults[n].cond, f))
           /\ AtomRepr(tree[i].defaults[n].val, f) = Val(AtomValue(tree[i].defaults[n].val, f))
<1>0. TreeOK /\ Built(i)
  BY DEF TreeBuilt
<1>1. \A a \in tree[i].defaults[n].cond : Grounds(a)
  BY <1>0, AtomsGround DEF Conditions
<1>2. Grounds(tree[i].defaults[n].val)
  <2>1. CASE IsOptional(tree[i])
    BY <1>0, <2>1, AtomsGround
  <2>2. CASE ~IsOptional(tree[i])
    <3>1. PICK m \in Members(i) : tree[i].defaults[n].val = Is(m)
      BY <1>0, <2>2 DEF Built, IsChoice
    <3>2. m \in Syms /\ m \in Nat
      BY <1>0, <2>2, SymbolFacts DEF Choice, IsChoice
    <3>3. Is(m) \in Atom /\ Is(m).sym = m
      BY <3>2 DEF Is, Atom, Tristate
    <3> QED  BY <3>1, <3>2, <3>3 DEF Grounds
  <2> QED  BY <2>1, <2>2
<1>3. CondRepr(tree[i].defaults[n].cond, f) = Val(CondValue(tree[i].defaults[n].cond, f))
      /\ CondValue(tree[i].defaults[n].cond, f) \in Tristate
  BY <1>0, <1>1, CondReprIs
<1>4. AtomRepr(tree[i].defaults[n].val, f) = Val(AtomValue(tree[i].defaults[n].val, f))
      /\ AtomValue(tree[i].defaults[n].val, f) \in Tristate
  BY <1>0, <1>2, AtomReprIs
<1> QED  BY <1>3, <1>4

\* What the defaults give is a value, and all of them give what DefaultValue says.
LEMMA GivenIs ==
    ASSUME TreeBuilt, NEW f \in Assignments, NEW i \in Syms
    PROVE  /\ \A n \in Nat : Given(i, f, n) \in Tristate
           /\ Given(i, f, 1) = DefaultValue(i, f)
           /\ Given(i, f, Len(tree[i].defaults) + 1) = no
           /\ DefaultValue(i, f) \in Tristate /\ DefaultValue(i, f) <= Depends(i, f)
<1>0. TreeOK /\ DOMAIN tree[i].defaults = 1 .. Len(tree[i].defaults) /\ Len(tree[i].defaults) \in Nat
  BY DEF TreeBuilt, Built
<1>1. VisibleDefaults(i, f) \subseteq DOMAIN tree[i].defaults
  BY DEF VisibleDefaults
<1>2. VisibleDefaults(i, f) \in SUBSET Nat
  BY <1>0, <1>1
<1>3. \A n \in DOMAIN tree[i].defaults :
         And(AtomValue(tree[i].defaults[n].val, f), CondValue(tree[i].defaults[n].cond, f)) \in Tristate
         /\ And(AtomValue(tree[i].defaults[n].val, f), CondValue(tree[i].defaults[n].cond, f))
              <= Depends(i, f)
  <2> SUFFICES ASSUME NEW n \in DOMAIN tree[i].defaults,
                      NEW s, NEW t, s = AtomValue(tree[i].defaults[n].val, f),
                      t = CondValue(tree[i].defaults[n].cond, f)
               PROVE  And(s, t) \in Tristate /\ And(s, t) <= Depends(i, f)
    OBVIOUS
  <2>1. s \in Tristate /\ t \in Tristate /\ t <= Depends(i, f) /\ Depends(i, f) \in Tristate
    BY <1>0, DefaultParts, PartsBelow, PartsAre
  <2> QED  BY <2>1 DEF And, Tristate, no, mod, yes
<1>4. ASSUME NEW S \in SUBSET VisibleDefaults(i, f), S # {} PROVE FirstOf(S) \in DOMAIN tree[i].defaults
  <2>1. FirstOf(S) \in S
    BY <1>2, <1>4, FirstOfIs
  <2> QED  BY <1>1, <2>1
<1>5. \A n \in Nat : Given(i, f, n) \in Tristate
  BY <1>3, <1>4 DEF Given, From, Tristate
<1>6. From(i, f, 1) = VisibleDefaults(i, f)
  BY <1>0, <1>1 DEF From
<1>7. Given(i, f, 1) = DefaultValue(i, f)
  BY <1>6 DEF Given, DefaultValue
<1>8. Given(i, f, Len(tree[i].defaults) + 1) = no
  <2>1. From(i, f, Len(tree[i].defaults) + 1) = {}
    BY <1>0, <1>1 DEF From
  <2> QED  BY <2>1 DEF Given
<1>9. DefaultValue(i, f) \in Tristate /\ DefaultValue(i, f) <= Depends(i, f)
  <2>1. CASE VisibleDefaults(i, f) = {}
    <3>1. Depends(i, f) \in Tristate
      BY <1>0, PartsAre
    <3> QED  BY <2>1, <3>1 DEF DefaultValue, Tristate, no, mod, yes
  <2>2. CASE VisibleDefaults(i, f) # {}
    BY <1>3, <1>4, <2>2 DEF DefaultValue
  <2> QED  BY <2>1, <2>2
<1> QED  BY <1>5, <1>7, <1>8, <1>9

\* From the last to the first the formula says what the defaults give.
LEMMA GivenStep ==
    ASSUME TreeBuilt, NEW f \in Assignments, NEW i \in Syms, Plainly(i, f),
           NEW n \in 1 .. Len(tree[i].defaults), NEW rest, rest[n + 1] = Val(Given(i, f, n + 1))
    PROVE  RestStep(i, f, rest, n) = Val(Given(i, f, n))
<1> DEFINE L == Len(tree[i].defaults)
<1>0. TreeOK /\ DOMAIN tree[i].defaults = 1 .. L /\ L \in Nat /\ n \in Nat /\ n + 1 \in Nat
  BY DEF TreeBuilt, Built
<1>1. PICK c : c = CondValue(tree[i].defaults[n].cond, f)
  OBVIOUS
<1>2. PICK a : a = AtomValue(tree[i].defaults[n].val, f)
  OBVIOUS
<1>3. PICK g : g = Given(i, f, n + 1)
  OBVIOUS
<1>4. c \in Tristate /\ a \in Tristate /\ g \in Tristate
  BY <1>0, <1>1, <1>2, <1>3, DefaultParts, GivenIs
<1>5. RestStep(i, f, rest, n) = OrRepr({AndRepr({Val(c), Val(a)}), AndRepr({NotRepr(Val(c)), Val(g)})})
  <2>1. ~(n > L)
    BY <1>0
  <2> QED  BY <1>0, <1>1, <1>2, <1>3, <2>1, DefaultParts DEF RestStep
<1>6. RestStep(i, f, rest, n) = Val(Or(And(c, a), And(Not(c), g)))
  <2>1. AndRepr({Val(c), Val(a)}) = Val(And(c, a)) /\ And(c, a) \in Tristate
    BY <1>4, PairReprIs DEF And
  <2>2. NotRepr(Val(c)) = Val(Not(c)) /\ Not(c) \in Tristate
    BY <1>4, PairReprIs DEF Not, Tristate, no, mod, yes
  <2>3. AndRepr({Val(Not(c)), Val(g)}) = Val(And(Not(c), g)) /\ And(Not(c), g) \in Tristate
    BY <1>4, <2>2, PairReprIs DEF And
  <2>4. OrRepr({Val(And(c, a)), Val(And(Not(c), g))}) = Val(Or(And(c, a), And(Not(c), g)))
    BY <2>1, <2>3, PairReprIs
  <2> QED  BY <1>5, <2>1, <2>2, <2>3, <2>4
<1>7. VisibleDefaults(i, f) \subseteq 1 .. L /\ (n \in VisibleDefaults(i, f) <=> c # no)
  BY <1>0, <1>1 DEF VisibleDefaults
<1>8. CASE c = no
  <2>1. From(i, f, n) = From(i, f, n + 1)
    BY <1>0, <1>7, <1>8 DEF From
  <2>2. Given(i, f, n) = g
    BY <1>3, <2>1 DEF Given
  <2>3. Or(And(c, a), And(Not(c), g)) = g
    BY <1>4, <1>8 DEF Or, And, Not, Tristate, no, mod, yes
  <2> QED  BY <1>6, <2>2, <2>3
<1>9. CASE c # no
  <2>1. n \in From(i, f, n) /\ From(i, f, n) \in SUBSET Nat
    BY <1>0, <1>7, <1>9 DEF From
  <2>2. FirstOf(From(i, f, n)) = n
    <3>1. FirstOf(From(i, f, n)) \in From(i, f, n) /\ \A m \in From(i, f, n) : FirstOf(From(i, f, n)) <= m
      BY <2>1, FirstOfIs
    <3>2. n <= FirstOf(From(i, f, n)) /\ FirstOf(From(i, f, n)) <= n
      BY <2>1, <3>1 DEF From
    <3>3. FirstOf(From(i, f, n)) \in Nat
      BY <2>1, <3>1
    <3> QED  BY <1>0, <3>2, <3>3
  <2>3. Given(i, f, n) = And(a, c)
    BY <1>1, <1>2, <2>1, <2>2 DEF Given
  <2>4. CASE c = yes
    <3>1. Or(And(c, a), And(Not(c), g)) = And(a, c)
      BY <1>4, <2>4 DEF Or, And, Not, Tristate, no, mod, yes
    <3> QED  BY <1>6, <2>3, <3>1
  <2>5. CASE c = mod
    <3>1. n = L
      BY <1>1, <1>7, <1>9, <2>5 DEF Plainly
    <3>2. g = no
      BY <1>3, <3>1, GivenIs
    <3>3. Or(And(c, a), And(Not(c), g)) = And(a, c)
      BY <1>4, <2>5, <3>2 DEF Or, And, Not, Tristate, no, mod, yes
    <3> QED  BY <1>6, <2>3, <3>3
  <2> QED  BY <1>4, <1>9, <2>4, <2>5 DEF Tristate
<1> QED  BY <1>8, <1>9

\* The formula of the defaults, with whatever stands behind what is plainly visible.
LEMMA DefReprIs ==
    ASSUME TreeBuilt, NEW f \in Assignments, NEW i \in Syms, Plainly(i, f)
    PROVE  DefRepr(i, f) = Val(DefaultValue(i, f))
<1> DEFINE L == Len(tree[i].defaults)
           W == [n \in 1 .. L + 1 |-> Val(Given(i, f, n))]
           Solves(F) == F = [n \in 1 .. L + 1 |-> RestStep(i, f, F, n)]
           rest == CHOOSE F : Solves(F)
<1>0. L \in Nat
  BY DEF TreeBuilt, Built
<1>1. \A F : RestStep(i, f, F, L + 1) = Val(no)
  BY <1>0 DEF RestStep, ConstRepr, Val
<1>2. Given(i, f, L + 1) = no
  BY GivenIs
<1>3. Solves(W)
  <2>1. ASSUME NEW n \in 1 .. L + 1 PROVE W[n] = RestStep(i, f, W, n)
    <3>1. CASE n = L + 1  BY <1>1, <1>2, <3>1
    <3>2. CASE n # L + 1
      <4>1. n \in 1 .. L /\ n + 1 \in 1 .. L + 1
        BY <1>0, <3>2
      <4>2. W[n + 1] = Val(Given(i, f, n + 1)) /\ W[n] = Val(Given(i, f, n))
        BY <4>1
      <4> HIDE DEF W
      <4> QED  BY <4>1, <4>2, GivenStep
    <3> QED  BY <3>1, <3>2
  <2>2. W = [n \in 1 .. L + 1 |-> W[n]]
    OBVIOUS
  <2> HIDE DEF W
  <2> QED  BY <2>1, <2>2
<1>4. Solves(rest)
  <2> HIDE DEF Solves
  <2> QED  BY <1>3
<1>5. DefRepr(i, f) = rest[1]
  BY DEF DefRepr, RestStep
<1> HIDE DEF rest
<1>6. \A n \in 1 .. L + 1 : rest[n] = RestStep(i, f, rest, n)
  BY <1>4
<1> DEFINE Bad == {n \in 1 .. L + 1 : rest[n] # Val(Given(i, f, n))}
<1>7. Bad = {}
  <2>1. SUFFICES ASSUME Bad # {} PROVE FALSE
    OBVIOUS
  <2>2. PICK n \in Bad : \A m \in Bad : m <= n
    <3>1. Bad \in SUBSET (1 .. L + 1) /\ L + 1 \in Nat
      BY <1>0
    <3> HIDE DEF Bad, L
    <3> QED  BY <2>1, <3>1, LastExists
  <2>3. n \in 1 .. L + 1 /\ rest[n] # Val(Given(i, f, n))
    OBVIOUS
  <2>4. n # L + 1
    BY <1>1, <1>2, <1>6, <2>3
  <2>5. n \in 1 .. L /\ n + 1 \in 1 .. L + 1 /\ ~(n + 1 <= n)
    BY <1>0, <2>3, <2>4
  <2>6. n + 1 \notin Bad
    <3> HIDE DEF Bad
    <3> QED  BY <2>2, <2>5
  <2>7. rest[n + 1] = Val(Given(i, f, n + 1))
    BY <2>5, <2>6
  <2>8. RestStep(i, f, rest, n) = Val(Given(i, f, n))
    BY <2>5, <2>7, GivenStep
  <2> QED  BY <1>6, <2>3, <2>8
<1>8. 1 \in 1 .. L + 1
  BY <1>0
<1>9. rest[1] = Val(Given(i, f, 1))
  BY <1>7, <1>8
<1> QED  BY <1>5, <1>9, GivenIs

-----------------------------------------------------------------------------
(***************************************************************************)
(* Visibility and selection, in the values the formula is about.           *)
(***************************************************************************)
\* What is visible has a prompt that is, and is shown to the formula.
LEMMA VisibleIs ==
    ASSUME TreeBuilt, NEW f \in Assignments, NEW i \in Syms
    PROVE  /\ Visible(i, f) \in Tristate
           /\ Visible(i, f) # no => Prompted(i, f) # no /\ Shown(i, f) # no /\ Depends(i, f) # no
           /\ tree[i].choice = 0 \/ tree[i].type = "bool" => (Prompted(i, f) # no => Visible(i, f) # no)
           /\ tree[i].type = "bool" \/ f[MODULES] = no => Visible(i, f) # mod
           /\ tree[i].type # "bool" /\ f[MODULES] # no => Visible(i, f) <= Prompted(i, f)
           /\ tree[i].type # "bool" /\ f[MODULES] # no /\ tree[i].choice = 0 =>
                Visible(i, f) = Prompted(i, f)
<1> DEFINE P == {PromptValue(i, c, f) : c \in tree[i].prompts}
           C == {CondValue(c, f) : c \in tree[i].prompts}
           t == AnyOf(P)
<1>0. TreeOK /\ f \in [Syms -> Tristate] /\ Symbol(i)
  BY SymbolFacts DEF TreeBuilt, Assignments
<1>1. P \in SUBSET Tristate /\ C \in SUBSET Tristate /\ Prompted(i, f) = AnyOf(C)
      /\ \A c \in tree[i].prompts : PromptValue(i, c, f) \in {no, CondValue(c, f)}
  <2>1. P \in SUBSET Tristate /\ \A c \in tree[i].prompts : PromptValue(i, c, f) \in {no, CondValue(c, f)}
    BY <1>0, SettledKnown, PromptKnown
  <2>2. C \in SUBSET Tristate
    BY ConditionBelow DEF Conditions
  <2> QED  BY <2>1, <2>2 DEF Prompted, AnyValue
<1>2. tree[i].choice = 0 \/ tree[i].type = "bool" => P = C
  BY DEF PromptValue, IsChoiceValue
<1>3. P \subseteq C \cup {no}
  BY <1>1
<1>4. Visible(i, f) = IF t = mod /\ (tree[i].type = "bool" \/ f[MODULES] = no) THEN yes ELSE t
  BY DEF Visible
<1> HIDE DEF P, C
<1>5. t \in Tristate /\ Prompted(i, f) \in Tristate /\ t <= Prompted(i, f)
      /\ (tree[i].choice = 0 \/ tree[i].type = "bool" => t = Prompted(i, f))
  <2>1. t \in P \cup {no} /\ t \in Tristate
    BY <1>1, AnyOfIs
  <2>2. AnyOf(C) \in Tristate /\ \A u \in C : u <= AnyOf(C)
    BY <1>1, AnyOfIs
  <2>3. no <= AnyOf(C)
    BY <2>2 DEF Tristate, no, mod, yes
  <2>4. t \in C \cup {no}
    BY <1>3, <2>1
  <2>5. t <= AnyOf(C)
    <3> HIDE DEF t
    <3> QED  BY <2>2, <2>3, <2>4
  <2> QED  BY <1>1, <1>2, <2>1, <2>2, <2>5
<1> HIDE DEF t
<1>6. Depends(i, f) \in Tristate /\ Prompted(i, f) <= Depends(i, f)
  BY <1>0, PartsBelow, PartsAre
<1>7. Visible(i, f) \in Tristate /\ (Visible(i, f) # no => Prompted(i, f) # no)
  BY <1>4, <1>5 DEF Tristate, no, mod, yes
<1>8. Prompted(i, f) # no => Shown(i, f) # no /\ Depends(i, f) # no
  <2>1. Prompted(i, f) # no => Depends(i, f) # no
    BY <1>5, <1>6 DEF Tristate, no, mod, yes
  <2>2. Prompted(i, f) # no => Shown(i, f) # no
    BY DEF Shown, yes, no
  <2> QED  BY <2>1, <2>2
<1>9. tree[i].choice = 0 \/ tree[i].type = "bool" => (Prompted(i, f) # no => Visible(i, f) # no)
  BY <1>4, <1>5 DEF yes, no
<1>10. tree[i].type = "bool" \/ f[MODULES] = no => Visible(i, f) # mod
  BY <1>4 DEF yes, mod
<1>11. tree[i].type # "bool" /\ f[MODULES] # no => Visible(i, f) = t
  BY <1>4
<1> QED  BY <1>5, <1>7, <1>8, <1>9, <1>10, <1>11

\* What the tool lets select i, and what the formula does.
LEMMA SelectedIs ==
    ASSUME TreeBuilt, NEW f \in Assignments, NEW i \in Syms
    PROVE  /\ RevDep(i, f) = Promoted(i, Selected(i, f), f)
           /\ RevDep(i, f) \in Tristate
           /\ RevDep(i, f) # no <=> Selected(i, f) # no
<1>0. TreeOK
  BY DEF TreeBuilt
<1>1. Selected(i, f) \in Tristate
  BY <1>0, PartsAre
<1>2. RevDep(i, f) = Promoted(i, Selected(i, f), f)
  BY DEF RevDep, Selected, Promoted, no, mod
<1> QED  BY <1>1, <1>2, PromotedKnown

\* A choice is selected with m where it is visible.
LEMMA ChoiceSelected ==
    ASSUME TreeBuilt, NEW f \in Assignments, NEW k \in Syms, IsChoice(k)
    PROVE  Selected(k, f) = IF Visible(k, f) = no THEN no ELSE mod
<1>0. TreeOK /\ Built(k) /\ Choice(k)
  BY SymbolFacts DEF TreeBuilt
<1>1. tree[k].choice = 0 /\ \A c \in tree[k].prompts : c \cup {Const(mod)} \in tree[k].rev
  BY <1>0 DEF Choice
<1>2. \A c \in tree[k].rev : \E b \in tree[k].prompts : c = b \cup {Const(mod)}
  BY <1>0 DEF Built
<1>3. Selected(k, f) = AnyValue(tree[k].rev, f)
  BY <1>1 DEF Selected, IsChoiceValue
<1>4. \A c \in tree[k].prompts : \A a \in c : AtomValue(a, f) \in Tristate
  BY <1>0, AtomsGround, AtomReprIs DEF Conditions
<1>5. AtomValue(Const(mod), f) = mod
  BY DEF AtomValue, Const
<1>6. ASSUME NEW c \in tree[k].prompts
      PROVE  /\ CondValue(c, f) \in Tristate
             /\ CondValue(c \cup {Const(mod)}, f) = IF CondValue(c, f) = no THEN no ELSE mod
  <2> DEFINE e == c \cup {Const(mod)}
  <2>1. \A a \in e : AtomValue(a, f) \in Tristate
    BY <1>4, <1>5 DEF Tristate
  <2>2. /\ CondValue(e, f) \in Tristate /\ CondValue(c, f) \in Tristate
        /\ CondValue(e, f) <= CondValue(c, f)
    <3>1. c \subseteq e
      OBVIOUS
    <3> HIDE DEF e
    <3> QED  BY <2>1, <3>1, CondBelow
  <2>3. CondValue(e, f) <= mod
    <3>1. Const(mod) \in e
      OBVIOUS
    <3> HIDE DEF e
    <3> QED  BY <1>5, <2>1, <3>1, CondKnown
  <2>4. CondValue(e, f) # yes => \E a \in e : CondValue(e, f) = AtomValue(a, f)
    <3> HIDE DEF e
    <3> QED  BY <2>1, CondKnown
  <2>5. ASSUME CondValue(e, f) = no PROVE CondValue(c, f) = no
    <3>1. PICK a \in e : AtomValue(a, f) = no
      BY <2>4, <2>5 DEF no, yes
    <3>2. a \in c
      BY <1>5, <3>1 DEF no, mod
    <3>3. CondValue(c, f) <= no
      BY <1>4, <3>1, <3>2, CondKnown
    <3> QED  BY <2>2, <3>3 DEF Tristate, no, mod, yes
  <2> HIDE DEF e
  <2>6. CondValue(e, f) = IF CondValue(c, f) = no THEN no ELSE mod
    BY <2>2, <2>3, <2>5 DEF Tristate, no, mod, yes
  <2> QED  BY <2>2, <2>6 DEF e
<1>7. Visible(k, f) # no <=> \E c \in tree[k].prompts : CondValue(c, f) # no
  <2>1. Visible(k, f) # no <=> Prompted(k, f) # no
    BY <1>1, VisibleIs
  <2>2. Prompted(k, f) # no <=> \E c \in tree[k].prompts : CondValue(c, f) # no
    BY <1>6, AnyValueKnown DEF Prompted
  <2> QED  BY <2>1, <2>2
<1> DEFINE R == {CondValue(c, f) : c \in tree[k].rev}
<1>8. R \subseteq {no, mod} /\ (mod \in R <=> Visible(k, f) # no)
  <2>1. ASSUME NEW c \in tree[k].rev PROVE CondValue(c, f) \in {no, mod}
    BY <1>2, <1>6
  <2>2. ASSUME NEW c \in tree[k].rev, CondValue(c, f) = mod PROVE Visible(k, f) # no
    <3>1. PICK b \in tree[k].prompts : c = b \cup {Const(mod)}
      BY <1>2
    <3> QED  BY <1>6, <1>7, <2>2, <3>1 DEF no, mod
  <2>3. ASSUME Visible(k, f) # no PROVE mod \in R
    <3>1. PICK b \in tree[k].prompts : CondValue(b, f) # no
      BY <1>7, <2>3
    <3>2. CondValue(b \cup {Const(mod)}, f) = mod /\ b \cup {Const(mod)} \in tree[k].rev
      BY <1>1, <1>6, <3>1
    <3> QED  BY <3>2
  <2> QED  BY <2>1, <2>2, <2>3
<1>9. AnyValue(tree[k].rev, f) = AnyOf(R)
  BY DEF AnyValue
<1> HIDE DEF R
<1>10. AnyOf(R) \in R \cup {no} /\ \A u \in R : u <= AnyOf(R)
  BY <1>8, AnyOfIs DEF Tristate
<1>11. AnyOf(R) = IF Visible(k, f) = no THEN no ELSE mod
  <2>1. CASE Visible(k, f) = no
    BY <1>8, <1>10, <2>1
  <2>2. CASE Visible(k, f) # no
    <3>1. mod <= AnyOf(R) /\ AnyOf(R) \in {no, mod}
      BY <1>8, <1>10, <2>2
    <3> QED  BY <2>2, <3>1 DEF no, mod
  <2> QED  BY <2>1, <2>2
<1> QED  BY <1>3, <1>9, <1>11

\* Without modules, and where nothing is m, no condition is.
LEMMA TwoValued ==
    ASSUME TreeBuilt, NEW f \in Assignments, NEW i \in Syms, f[MODULES] = no, \A j \in Syms : f[j] # mod
    PROVE  Prompted(i, f) # mod /\ \A c \in Conditions(i) : CondValue(c, f) # mod
<1>0. TreeOK /\ Built(i)
  BY DEF TreeBuilt
<1>1. ASSUME NEW c \in Conditions(i) PROVE CondValue(c, f) # mod
  <2>1. \A a \in c : Grounds(a) /\ AtomValue(a, f) \in Tristate
    BY <1>0, AtomsGround, AtomReprIs
  <2> SUFFICES ASSUME CondValue(c, f) = mod PROVE FALSE
    OBVIOUS
  <2>2. PICK a \in c : AtomValue(a, f) = mod
    BY <2>1, CondKnown DEF mod, yes
  <2>3. a.op \in {"const", "sym", "not", "eq"} /\ (a.op # "const" => a.sym \in Syms)
    BY <2>1 DEF Grounds, Atom
  <2>4. a.op # "const" => f[a.sym] \in {no, yes}
    BY <2>3 DEF Assignments, Tristate
  <2>5. a.op = "const" /\ a.val = mod
    <3>1. CASE a.op = "sym"  BY <2>2, <2>4, <3>1 DEF AtomValue, no, mod, yes
    <3>2. CASE a.op = "not"  BY <2>2, <2>4, <3>2 DEF AtomValue, Not, no, mod, yes
    <3>3. CASE a.op = "eq"  BY <2>2, <3>3 DEF AtomValue, no, mod, yes
    <3>4. CASE a.op = "const"  BY <2>2, <3>4 DEF AtomValue
    <3> QED  BY <2>3, <3>1, <3>2, <3>3, <3>4
  <2>6. Is(MODULES) \in c
    BY <1>0, <2>5 DEF Built
  <2>7. AtomValue(Is(MODULES), f) = no
    BY DEF AtomValue, Is
  <2>8. CondValue(c, f) <= no
    BY <2>1, <2>6, <2>7, CondKnown
  <2> QED  BY <2>8 DEF no, mod
<1>2. Prompted(i, f) # mod
  <2> DEFINE S == {CondValue(c, f) : c \in tree[i].prompts}
  <2>1. mod \notin S /\ S \in SUBSET Tristate
    BY <1>1, ConditionBelow DEF Conditions
  <2>2. Prompted(i, f) = AnyOf(S)
    BY DEF Prompted, AnyValue
  <2> HIDE DEF S
  <2>3. AnyOf(S) \in S \cup {no}
    BY <2>1, AnyOfIs
  <2> QED  BY <2>1, <2>2, <2>3 DEF no, mod
<1> QED  BY <1>1, <1>2

-----------------------------------------------------------------------------
(***************************************************************************)
(* What the tool arrives at satisfies the formula.                         *)
(***************************************************************************)
\* None of the exceptions that could make a configuration no solution.
Harmless(f) == ~ByImply(f) /\ ~NothingToChoose(f) /\ ~WithoutModules(f) /\ ~HalfHidden(f)

\* visit_bool_symbol or visit_tristate_symbol.
Clauses(i, f) == IF tree[i].type = "bool" THEN BoolClauses(i, f) ELSE TristateClauses(i, f)

\* Where no default is half hidden, the formula gives what is hidden its default.
LEMMA HiddenDefault ==
    ASSUME TreeBuilt, NEW f \in Assignments, NEW i \in Syms, ~HalfHidden(f), Visible(i, f) = no
    PROVE  DefRepr(i, f) = Val(DefaultValue(i, f))
<1>1. Plainly(i, f)
  BY DEF HalfHidden, Plainly, VisibleDefaults
<1> QED  BY <1>1, DefReprIs

\* A symbol that is hidden from the formula has no visible prompt.
LEMMA HiddenIs ==
    ASSUME TreeBuilt, NEW f \in Assignments, NEW i \in Syms, ~HalfHidden(f), Shown(i, f) = no
    PROVE  /\ Visible(i, f) = no
           /\ On(DefRepr(i, f)) <=> DefaultValue(i, f) # no
           /\ DefRepr(i, f).yes <=> DefaultValue(i, f) = yes
<1>1. Visible(i, f) = no
  BY VisibleIs
<1>2. DefRepr(i, f) = Val(DefaultValue(i, f)) /\ DefaultValue(i, f) \in Tristate
  BY <1>1, HiddenDefault, GivenIs
<1> QED  BY <1>1, <1>2, ValOn

\* The clauses of i from its value and the values around it.
LEMMA ClausesFrom ==
    ASSUME TreeBuilt, NEW f \in Assignments, NEW i \in Syms, ~HalfHidden(f),
           tree[i].type = "bool" =>
             /\ f[i] = yes => Depends(i, f) # no \/ Selected(i, f) # no
             /\ Selected(i, f) # no => f[i] = yes
             /\ Visible(i, f) = no => (f[i] = yes <=> DefaultValue(i, f) # no \/ Selected(i, f) # no),
           tree[i].type # "bool" =>
             /\ f[i] = yes => Depends(i, f) = yes \/ Selected(i, f) = yes
             /\ f[i] = mod => Selected(i, f) = mod \/ Depends(i, f) # no
             /\ Selected(i, f) <= f[i]
             /\ Visible(i, f) = no => f[i] = Or(DefaultValue(i, f), Selected(i, f))
    PROVE  Clauses(i, f)
<1>1. TreeOK /\ f[i] \in Tristate
  BY DEF TreeBuilt, Assignments
<1>2. DefaultValue(i, f) \in Tristate /\ Selected(i, f) \in Tristate
  BY <1>1, GivenIs, PartsAre
<1>3. CASE tree[i].type = "bool"
  <2>1. BoolClauses(i, f)
    BY <1>1, <1>3, HiddenIs, BoolClausesAre
  <2> QED  BY <1>3, <2>1 DEF Clauses
<1>4. CASE tree[i].type # "bool"
  <2>1. /\ Selected(i, f) = yes => f[i] = yes
        /\ Selected(i, f) = mod => f[i] = yes \/ f[i] = mod
    BY <1>1, <1>2, <1>4 DEF Tristate, no, mod, yes
  <2>2. ASSUME Shown(i, f) = no
        PROVE  /\ f[i] = yes => DefRepr(i, f).yes \/ Selected(i, f) = yes
               /\ f[i] = mod => On(DefRepr(i, f)) \/ Selected(i, f) = mod
               /\ On(DefRepr(i, f)) /\ Depends(i, f) # no => f[i] = yes \/ f[i] = mod
               /\ DefRepr(i, f).yes /\ Depends(i, f) = yes => f[i] = yes
    <3>1. f[i] = Or(DefaultValue(i, f), Selected(i, f))
      BY <1>4, <2>2, HiddenIs
    <3>2. /\ f[i] = yes => DefaultValue(i, f) = yes \/ Selected(i, f) = yes
          /\ f[i] = mod => DefaultValue(i, f) # no \/ Selected(i, f) = mod
          /\ DefaultValue(i, f) # no => f[i] = yes \/ f[i] = mod
          /\ DefaultValue(i, f) = yes => f[i] = yes
      BY <1>2, <3>1 DEF Or, Tristate, no, mod, yes
    <3> QED  BY <2>2, <3>2, HiddenIs
  <2>3. TristateClauses(i, f)
    BY <1>1, <1>4, <2>1, <2>2, TristateClausesAre
  <2> QED  BY <1>4, <2>3 DEF Clauses
<1> QED  BY <1>3, <1>4

\* What a symbol outside of choices is made of.
LEMMA PlainIs ==
    ASSUME TreeBuilt, NEW f \in Assignments, NEW h, NEW u \in [Syms -> Tristate], NEW p,
           NEW i \in Named, tree[i].choice = 0, Implied(i, f) = no
    PROVE  \E a \in Tristate :
             /\ Answer(i, h, u, p, f) =
                  LET t == Or(a, RevDep(i, f))
                  IN  IF t = mod /\ (tree[i].type = "bool" \/ f[MODULES] = no) THEN yes ELSE t
             /\ a = IF Visible(i, f) # no /\ i \in h THEN And(u[i], Visible(i, f)) ELSE DefaultValue(i, f)
<1>1. i \in Syms /\ ~IsChoice(i) /\ ~IsChoiceValue(i) /\ TreeOK
  BY DEF Named, IsChoiceValue, TreeBuilt
<1>2. DefaultValue(i, f) \in Tristate /\ Visible(i, f) \in Tristate /\ u[i] \in Tristate
  BY <1>1, GivenIs, VisibleIs
<1>3. Answer(i, h, u, p, f) = Raised(i, h, u, f)
  BY <1>1 DEF Answer
<1>4. Or(DefaultValue(i, f), Implied(i, f)) = DefaultValue(i, f)
  BY <1>2 DEF Or, Tristate, no, mod, yes
<1>5. Asked(i, h, u, f) = IF Visible(i, f) # no /\ i \in h THEN And(u[i], Visible(i, f)) ELSE DefaultValue(i, f)
  BY <1>1, <1>4 DEF Asked
<1>6. Asked(i, h, u, f) \in Tristate
  BY <1>2, <1>5 DEF And
<1>7. \A vis : IsBool(i, vis, f) <=> tree[i].type = "bool" \/ f[MODULES] = no
  BY <1>1 DEF IsBool
<1>8. Implied(i, f) # yes
  BY DEF no, yes
<1>9. Raised(i, h, u, f) =
        LET t == Or(Asked(i, h, u, f), RevDep(i, f))
        IN  IF t = mod /\ (tree[i].type = "bool" \/ f[MODULES] = no) THEN yes ELSE t
  BY <1>7, <1>8 DEF Raised
<1> QED  BY <1>3, <1>5, <1>6, <1>9

\* Such a symbol satisfies its clauses.
LEMMA PlainClauses ==
    ASSUME TreeBuilt, NEW f \in Assignments, NEW h, NEW u \in [Syms -> Tristate], NEW p,
           Settles(f, h, u, p), Harmless(f), NEW i \in Named, tree[i].choice = 0
    PROVE  Clauses(i, f)
<1>0. i \in Syms /\ Implied(i, f) = no /\ ~HalfHidden(f) /\ TreeOK
  BY DEF Named, Harmless, ByImply, TreeBuilt
<1>1. PICK a \in Tristate :
         /\ f[i] = LET t == Or(a, RevDep(i, f))
                   IN  IF t = mod /\ (tree[i].type = "bool" \/ f[MODULES] = no) THEN yes ELSE t
         /\ a = IF Visible(i, f) # no /\ i \in h THEN And(u[i], Visible(i, f)) ELSE DefaultValue(i, f)
  BY <1>0, PlainIs DEF Settles
<1>2. PICK x, s, r, d, vis, def, P :
         /\ x = f[i] /\ s = Selected(i, f) /\ r = RevDep(i, f) /\ d = Depends(i, f)
         /\ vis = Visible(i, f) /\ def = DefaultValue(i, f) /\ P = Prompted(i, f)
  OBVIOUS
<1>3. /\ x \in Tristate /\ s \in Tristate /\ r \in Tristate /\ d \in Tristate /\ vis \in Tristate
      /\ def \in Tristate /\ P \in Tristate
  BY <1>0, <1>2, VisibleIs, SelectedIs, PartsAre, GivenIs DEF Assignments
<1>4. a <= vis \/ a = def
  <2>1. u[i] \in Tristate
    BY <1>0
  <2> QED  BY <1>1, <1>2, <1>3, <2>1 DEF And, Tristate, no, mod, yes
<1>5. /\ r # no <=> s # no
      /\ r = IF s = mod /\ (tree[i].type = "bool" \/ f[MODULES] = no) THEN yes ELSE s
  <2>1. r = Promoted(i, s, f)
    BY <1>0, <1>2, SelectedIs
  <2>2. \A w : IsBool(i, w, f) <=> tree[i].type = "bool" \/ f[MODULES] = no
    BY DEF IsBool, IsChoiceValue
  <2> QED  BY <1>0, <1>2, <2>1, <2>2, SelectedIs DEF Promoted
<1>6. P <= d /\ def <= d /\ (vis # no => d # no)
  BY <1>0, <1>2, PartsBelow, GivenIs, VisibleIs
<1>7. vis = no => a = def
  BY <1>1, <1>2
<1>8. CASE tree[i].type = "bool"
  <2>1. x = IF Or(a, r) = mod THEN yes ELSE Or(a, r)
    BY <1>1, <1>2, <1>8
  <2>2. /\ x = yes => d # no \/ s # no
        /\ s # no => x = yes
        /\ vis = no => (x = yes <=> def # no \/ s # no)
    BY <1>3, <1>4, <1>5, <1>6, <1>7, <2>1 DEF Or, Tristate, no, mod, yes
  <2> QED  BY <1>0, <1>2, <1>8, <2>2, ClausesFrom
<1>9. CASE tree[i].type # "bool" /\ f[MODULES] # no
  <2>1. x = Or(a, r) /\ r = s /\ vis = P
    BY <1>0, <1>1, <1>2, <1>5, <1>9, VisibleIs
  <2>2. /\ x = yes => d = yes \/ s = yes
        /\ x = mod => s = mod \/ d # no
        /\ s <= x
        /\ vis = no => x = Or(def, s)
    BY <1>3, <1>4, <1>6, <1>7, <2>1 DEF Or, Tristate, no, mod, yes
  <2> QED  BY <1>0, <1>2, <1>9, <2>2, ClausesFrom
<1>10. CASE tree[i].type # "bool" /\ f[MODULES] = no
  <2>1. x = IF Or(a, r) = mod THEN yes ELSE Or(a, r)
    BY <1>1, <1>2, <1>10
  <2>2. (\A j \in Syms : f[j] # mod) /\ (x = yes => vis # no)
    <3>1. tree[i].type = "tristate"
      BY <1>0, <1>10, SymbolFacts DEF Symbol
    <3> QED  BY <1>0, <1>2, <1>10, <3>1 DEF Harmless, WithoutModules
  <2>3. P # mod /\ (vis # no <=> P # no)
    BY <1>0, <1>2, <1>10, <2>2, TwoValued, VisibleIs
  <2>4. /\ x = yes => d = yes \/ s = yes
        /\ x = mod => s = mod \/ d # no
        /\ s <= x
        /\ vis = no => x = Or(def, s)
    BY <1>3, <1>5, <1>6, <1>7, <2>1, <2>2, <2>3 DEF Or, Tristate, no, mod, yes
  <2> QED  BY <1>0, <1>2, <1>10, <2>4, ClausesFrom
<1> QED  BY <1>8, <1>9, <1>10

\* A choice is on exactly where it is visible, and y only where its prompt is.
LEMMA ChoiceIs ==
    ASSUME TreeBuilt, NEW f \in Assignments, NEW h, NEW u \in [Syms -> Tristate], NEW p,
           Settles(f, h, u, p), Harmless(f), NEW k \in Syms, IsChoice(k)
    PROVE  /\ f[k] # no <=> Visible(k, f) # no
           /\ tree[k].type # "bool" /\ f[MODULES] # no /\ f[k] = yes => Visible(k, f) = yes
<1>0. TreeOK /\ tree[k].choice = 0 /\ Implied(k, f) = no /\ f \in [Syms -> Tristate]
  BY SymbolFacts DEF TreeBuilt, Harmless, ByImply, Assignments, Choice
<1>1. Selected(k, f) = IF Visible(k, f) = no THEN no ELSE mod
  BY ChoiceSelected
<1>2. PICK x, z, r, raised, asked :
         /\ x = f[k] /\ z = [f EXCEPT ![k] = yes] /\ r = RevDep(k, f)
         /\ raised = Raised(k, h, u, f) /\ asked = Asked(k, h, u, f)
  OBVIOUS
<1>3. x = IF raised = yes /\ Chosen(k, p, z) = 0 THEN no ELSE raised
  BY <1>2 DEF Settles, Answer
<1>4. Visible(k, f) \in Tristate /\ r \in Tristate /\ u[k] \in Tristate /\ x \in Tristate
      /\ (r # no <=> Visible(k, f) # no)
  BY <1>0, <1>1, <1>2, VisibleIs, SelectedIs DEF no, mod
<1>5. asked = IF Visible(k, f) # no /\ k \in h THEN And(u[k], Visible(k, f)) ELSE no
  BY <1>2 DEF Asked
<1>6. asked \in Tristate /\ asked <= Visible(k, f)
  BY <1>4, <1>5 DEF And, Tristate, no, mod, yes
<1>7. raised = LET t == Or(asked, r)
               IN  IF t = mod /\ (tree[k].type = "bool" \/ f[MODULES] = no) THEN yes ELSE t
  <2>1. \A w : IsBool(k, w, f) <=> tree[k].type = "bool" \/ f[MODULES] = no
    BY <1>0 DEF IsBool, IsChoiceValue
  <2>2. Implied(k, f) # yes
    BY <1>0 DEF no, yes
  <2> QED  BY <1>2, <2>1, <2>2 DEF Raised
<1>8. CASE Visible(k, f) = no
  <2>1. asked = no /\ r = no
    BY <1>4, <1>5, <1>8
  <2>2. raised = no
    BY <1>7, <2>1 DEF Or, no, mod
  <2>3. x = no
    BY <1>3, <2>2 DEF no, yes
  <2> QED  BY <1>2, <1>8, <2>3 DEF no, yes
<1>9. CASE Visible(k, f) # no
  <2>1. x # no
    <3> SUFFICES ASSUME f[k] = no PROVE FALSE
      BY <1>2
    <3>1. ASSUME NEW m \in Members(k) PROVE Visible(m, f) = no
      <4>1. m \in Syms /\ tree[m].choice = k /\ k # 0
        BY <1>0, SymbolFacts DEF Choice
      <4> QED  BY <1>0, <4>1, MemberVisible
    <3> QED  BY <1>9, <3>1 DEF Harmless, NothingToChoose
  <2>2. x = raised
    BY <1>3, <2>1
  <2>3. ASSUME tree[k].type # "bool", f[MODULES] # no, x = yes PROVE Visible(k, f) = yes
    <3>1. r = mod
      <4>1. r = Promoted(k, mod, f)
        BY <1>1, <1>2, <1>9, SelectedIs
      <4>2. \A w : ~IsBool(k, w, f)
        BY <1>0, <2>3 DEF IsBool, IsChoiceValue
      <4> QED  BY <4>1, <4>2 DEF Promoted
    <3>2. Or(asked, mod) = yes
      BY <1>7, <2>2, <2>3, <3>1
    <3>3. asked = yes
      BY <3>2 DEF Or, mod, yes
    <3> QED  BY <1>4, <1>6, <3>3 DEF Tristate, no, mod, yes
  <2> QED  BY <1>2, <1>9, <2>1, <2>3
<1> QED  BY <1>8, <1>9

\* The defaults of a choice that is off give nothing, for its members are off.
LEMMA ChoiceDefaultOff ==
    ASSUME TreeBuilt, NEW f \in Assignments, NEW k \in Syms, IsChoice(k),
           \A m \in Members(k) : f[m] = no
    PROVE  DefaultValue(k, f) = no
<1>1. ASSUME NEW n \in DOMAIN tree[k].defaults
      PROVE  And(AtomValue(tree[k].defaults[n].val, f), CondValue(tree[k].defaults[n].cond, f)) = no
  <2>1. PICK m \in Members(k) : tree[k].defaults[n].val = Is(m)
    BY DEF TreeBuilt, Built
  <2>2. AtomValue(tree[k].defaults[n].val, f) = no
    BY <2>1 DEF AtomValue, Is
  <2>3. CondValue(tree[k].defaults[n].cond, f) \in Tristate
    BY DefaultParts
  <2> QED  BY <2>2, <2>3 DEF And, Tristate, no, mod, yes
<1>2. VisibleDefaults(k, f) \in SUBSET Nat /\ VisibleDefaults(k, f) \subseteq DOMAIN tree[k].defaults
  BY DEF VisibleDefaults, TreeBuilt, Built
<1>3. VisibleDefaults(k, f) # {} => FirstOf(VisibleDefaults(k, f)) \in DOMAIN tree[k].defaults
  BY <1>2, FirstOfIs
<1> QED  BY <1>1, <1>3 DEF DefaultValue

\* A choice satisfies its clauses.
LEMMA ChoiceHolds ==
    ASSUME TreeBuilt, NEW f \in Assignments, NEW h, NEW u \in [Syms -> Tristate], NEW p,
           Settles(f, h, u, p), Harmless(f), NEW k \in Syms, IsChoice(k)
    PROVE  Clauses(k, f) /\ ChoiceClauses(k, f)
<1>0. TreeOK /\ ~HalfHidden(f) /\ tree[k].choice = 0
  BY SymbolFacts DEF TreeBuilt, Harmless, Choice
<1>1. PICK x, s, d, vis, def, P :
         /\ x = f[k] /\ s = Selected(k, f) /\ d = Depends(k, f)
         /\ vis = Visible(k, f) /\ def = DefaultValue(k, f) /\ P = Prompted(k, f)
  OBVIOUS
<1>2. /\ x \in Tristate /\ d \in Tristate /\ vis \in Tristate /\ def \in Tristate /\ P \in Tristate
      /\ s = IF vis = no THEN no ELSE mod
      /\ x # no <=> vis # no
      /\ P <= d /\ (vis # no => d # no)
      /\ P # no <=> vis # no
  BY <1>0, <1>1, VisibleIs, ChoiceSelected, ChoiceIs, PartsAre, PartsBelow, GivenIs DEF Assignments
<1>3. vis = no => def = no
  <2> SUFFICES ASSUME vis = no PROVE def = no
    OBVIOUS
  <2>1. f[k] = no
    BY <1>1, <1>2
  <2>2. ASSUME NEW m \in Members(k) PROVE f[m] = no
    <3>1. m \in Syms /\ tree[m].choice = k /\ k # 0
      BY <1>0, SymbolFacts DEF Choice
    <3> QED  BY <1>0, <2>1, <3>1, MemberOff
  <2> QED  BY <1>1, <2>2, ChoiceDefaultOff
<1>4. Clauses(k, f)
  <2>1. CASE tree[k].type = "bool"
    <3>1. x # mod
      BY <1>1, <2>1 DEF Assignments
    <3>2. /\ x = yes => d # no \/ s # no
          /\ s # no => x = yes
          /\ vis = no => (x = yes <=> def # no \/ s # no)
      BY <1>2, <1>3, <3>1 DEF Tristate, no, mod, yes
    <3> QED  BY <1>0, <1>1, <2>1, <3>2, ClausesFrom
  <2>2. CASE tree[k].type # "bool"
    <3>1. x = yes => P = yes
      <4>1. CASE f[MODULES] # no
        <5>1. x = yes => vis = yes
          BY <1>1, <2>2, <4>1, ChoiceIs
        <5>2. vis <= P
          BY <1>1, <2>2, <4>1, VisibleIs
        <5> QED  BY <1>2, <5>1, <5>2 DEF Tristate, no, mod, yes
      <4>2. CASE f[MODULES] = no
        <5>1. \A j \in Syms : f[j] # mod
          BY <4>2 DEF Harmless, WithoutModules
        <5>2. P # mod
          BY <1>1, <4>2, <5>1, TwoValued
        <5> QED  BY <1>2, <5>2 DEF Tristate, no, yes
      <4> QED  BY <4>1, <4>2
    <3>2. /\ x = yes => d = yes \/ s = yes
          /\ x = mod => s = mod \/ d # no
          /\ s <= x
          /\ vis = no => x = Or(def, s)
      BY <1>2, <1>3, <3>1 DEF Or, Tristate, no, mod, yes
    <3> QED  BY <1>0, <1>1, <2>2, <3>2, ClausesFrom
  <2> QED  BY <2>1, <2>2
<1>5. ChoiceClauses(k, f)
  <2> SUFFICES ASSUME f[k] = yes PROVE ListRepr(k, f).yes /\ ~ListRepr(k, f).mod
    BY DEF ChoiceClauses, On
  <2>1. Chosen(k, p, f) \in Offered(k, f)
        /\ \A m \in Members(k) : f[m] = IF m = Chosen(k, p, f) THEN yes ELSE no
    BY <1>0, ChoiceYes
  <2>2. {m \in Members(k) : f[m] = yes} = {Chosen(k, p, f)}
    <3>1. Chosen(k, p, f) \in Members(k)
      BY <2>1 DEF Offered
    <3> QED  BY <2>1, <3>1 DEF no, yes
  <2>3. Cardinality({Chosen(k, p, f)}) = 1
    BY FS_Singleton
  <2>4. ~\E m \in Members(k) : f[m] = mod
    BY <2>1 DEF no, mod, yes
  <2>5. ListRepr(k, f) = Repr(TRUE, FALSE)
    BY <2>2, <2>3, <2>4 DEF ListRepr
  <2> QED  BY <2>5 DEF Repr
<1> QED  BY <1>4, <1>5

\* A member satisfies its clauses.
LEMMA MemberClauses ==
    ASSUME TreeBuilt, NEW f \in Assignments, NEW h, NEW u \in [Syms -> Tristate], NEW p,
           Settles(f, h, u, p), Harmless(f), NEW i \in Syms, tree[i].choice # 0
    PROVE  Clauses(i, f)
<1>0. TreeOK /\ ~HalfHidden(f) /\ ~IsChoice(i) /\ IsChoiceValue(i)
      /\ RevDep(i, f) = no /\ Implied(i, f) = no /\ DefaultValue(i, f) = no /\ Selected(i, f) = no
  BY MemberPlain DEF TreeBuilt, Harmless, IsChoiceValue, Selected
<1>1. PICK x, d, vis, P :
         x = f[i] /\ d = Depends(i, f) /\ vis = Visible(i, f) /\ P = Prompted(i, f)
  OBVIOUS
<1>2. /\ x \in Tristate /\ d \in Tristate /\ vis \in Tristate /\ P \in Tristate /\ u[i] \in Tristate
      /\ P <= d /\ (vis # no => d # no /\ P # no)
  BY <1>0, <1>1, VisibleIs, PartsAre, PartsBelow DEF Assignments
<1>3. x = Answer(i, h, u, p, f)
  BY <1>1 DEF Settles
<1>4. vis = no => x = no
  BY <1>0, <1>1, <1>3, MemberHidden
<1>5. CASE tree[i].type = "bool"
  <2>1. /\ x = yes => d # no
        /\ vis = no => x # yes
    BY <1>2, <1>4 DEF no, yes
  <2> QED  BY <1>0, <1>1, <1>5, <2>1, ClausesFrom
<1>6. CASE tree[i].type # "bool"
  <2>1. x = yes => P = yes
    <3>1. CASE f[MODULES] # no
      <4>1. vis <= P
        BY <1>1, <1>6, <3>1, VisibleIs
      <4>2. CASE vis = mod
        <5>1. x = Raised(i, h, u, f)
          BY <1>0, <1>1, <1>3, <4>2 DEF Answer, mod, yes
        <5>2. ~IsBool(i, Visible(i, f), f)
          BY <1>1, <1>6, <3>1, <4>2 DEF IsBool, mod, yes
        <5>3. PICK a : a = Asked(i, h, u, f)
          OBVIOUS
        <5>4. a = And(u[i], mod) \/ a = Or(no, no)
          BY <1>0, <1>1, <4>2, <5>3 DEF Asked
        <5>5. a \in {no, mod}
          BY <1>2, <5>4 DEF And, Or, Tristate, no, mod, yes
        <5>6. x = Or(a, no)
          BY <1>0, <5>1, <5>2, <5>3 DEF Raised, no, yes
        <5>7. x # yes
          BY <5>5, <5>6 DEF Or, no, mod, yes
        <5> QED  BY <5>7
      <4>3. CASE vis # mod
        BY <1>2, <1>4, <4>1, <4>3 DEF Tristate, no, mod, yes
      <4> QED  BY <4>2, <4>3
    <3>2. CASE f[MODULES] = no
      <4>1. \A j \in Syms : f[j] # mod
        BY <3>2 DEF Harmless, WithoutModules
      <4>2. P # mod
        BY <1>1, <3>2, <4>1, TwoValued
      <4> QED  BY <1>2, <1>4, <4>2 DEF Tristate, no, yes
    <3> QED  BY <3>1, <3>2
  <2>2. /\ x = yes => d = yes
        /\ x = mod => d # no
        /\ no <= x
        /\ vis = no => x = Or(no, no)
    BY <1>2, <1>4, <2>1 DEF Or, Tristate, no, mod, yes
  <2> QED  BY <1>0, <1>1, <1>6, <2>2, ClausesFrom
<1> QED  BY <1>5, <1>6

\* Whatever the tool calculates, from whatever the user asked for, is a solution.
LEMMA SettledSolves ==
    ASSUME TreeBuilt, NEW f \in Assignments, NEW h, NEW u \in [Syms -> Tristate], NEW p,
           Settles(f, h, u, p), Harmless(f)
    PROVE  Formula(f)
<1>1. ASSUME NEW i \in Syms PROVE Clauses(i, f) /\ (IsChoice(i) => ChoiceClauses(i, f))
  <2>1. CASE IsChoice(i)  BY <2>1, ChoiceHolds
  <2>2. CASE ~IsChoice(i) /\ tree[i].choice = 0
    <3>1. i \in Named
      BY <2>2 DEF Named
    <3> QED  BY <2>2, <3>1, PlainClauses
  <2>3. CASE ~IsChoice(i) /\ tree[i].choice # 0  BY <2>3, MemberClauses
  <2> QED  BY <2>1, <2>2, <2>3
<1> QED  BY <1>1 DEF Formula, Clauses

-----------------------------------------------------------------------------
(***************************************************************************)
(* A solution of the formula is what the tool arrives at when it is given  *)
(* the values the solution has.                                            *)
(***************************************************************************)
\* The values Settled asks for.
AskedFor(f) == [i \in Syms |-> IF IsChoice(i) THEN AnyOf({f[m] : m \in Members(i)}) ELSE f[i]]

\* The members of a choice that are y.
Taken(k, f) == {m \in Members(k) : f[m] = yes}

\* The members Settled picks.
Picked(f) == [i \in Syms |-> IF Taken(i, f) = {} THEN 0 ELSE FirstOf(Taken(i, f))]

\* Settled asks for all values of f, and picks the first member of a choice that is y.
LEMMA SettledIs == ASSUME NEW f PROVE Settled(f) = Values(Syms, AskedFor(f), Picked(f))
BY DEF Settled, AskedFor, Picked, Taken

\* What is asked for are values.
LEMMA AskedForKnown ==
    ASSUME TreeOK, NEW f \in Assignments
    PROVE  AskedFor(f) \in [Syms -> Tristate]
<1>1. f \in [Syms -> Tristate]
  BY DEF Assignments
<1>2. ASSUME NEW i \in Syms, IsChoice(i) PROVE AnyOf({f[m] : m \in Members(i)}) \in Tristate
  <2>1. \A m \in Members(i) : m \in Syms
    BY <1>2, SymbolFacts DEF Choice
  <2>2. {f[m] : m \in Members(i)} \in SUBSET Tristate
    BY <1>1, <2>1
  <2> QED  BY <2>2, AnyOfIs
<1> QED  BY <1>1, <1>2 DEF AskedFor

\* What the clauses of i say where no exception applies.
LEMMA ClausesSay ==
    ASSUME TreeBuilt, NEW f \in Assignments, NEW i \in Syms, ~HalfHidden(f), ~FirstDefinitionHidden(f),
           Clauses(i, f)
    PROVE  /\ tree[i].type = "bool" =>
                /\ f[i] = yes => Depends(i, f) # no \/ Selected(i, f) # no
                /\ Selected(i, f) # no => f[i] = yes
                /\ Visible(i, f) = no => (f[i] = yes <=> DefaultValue(i, f) # no \/ Selected(i, f) # no)
           /\ tree[i].type # "bool" =>
                /\ f[i] = yes => Depends(i, f) = yes \/ Selected(i, f) = yes
                /\ f[i] = mod => Selected(i, f) = mod \/ Depends(i, f) # no
                /\ Selected(i, f) <= f[i]
                /\ Visible(i, f) = no => f[i] = Or(DefaultValue(i, f), Selected(i, f))
<1>1. TreeOK /\ f[i] \in Tristate
  BY DEF TreeBuilt, Assignments
<1>2. PICK x, s, d, def, v :
         /\ x = f[i] /\ s = Selected(i, f) /\ d = Depends(i, f) /\ def = DefaultValue(i, f)
         /\ v = Shown(i, f)
  OBVIOUS
<1>3. /\ x \in Tristate /\ s \in Tristate /\ d \in Tristate /\ def \in Tristate /\ v \in Tristate
      /\ def <= d
  BY <1>1, <1>2, GivenIs, PartsAre
<1>4. Visible(i, f) = no => v = no \/ d = no
  <2>1. On(VisRepr(i, f)) <=> v # no
    BY <1>1, <1>2, PartsAre, ValOn
  <2>2. On(DepRepr(i, f)) <=> d # no
    BY <1>1, <1>2, PartsAre, ValOn
  <2> QED  BY <2>1, <2>2 DEF FirstDefinitionHidden
<1>5. v = no => /\ On(DefRepr(i, f)) <=> def # no
                /\ DefRepr(i, f).yes <=> def = yes
  BY <1>2, HiddenIs
<1>6. CASE tree[i].type = "bool"
  <2>1. /\ x = yes => d # no \/ s # no
        /\ s # no => x = yes
        /\ v = no => /\ x = yes => def # no \/ s # no
                     /\ def # no /\ d # no => x = yes
    BY <1>1, <1>2, <1>5, <1>6, BoolClausesAre DEF Clauses
  <2>2. Visible(i, f) = no => (x = yes <=> def # no \/ s # no)
    BY <1>3, <1>4, <2>1 DEF Tristate, no, mod, yes
  <2> QED  BY <1>2, <1>6, <2>1, <2>2
<1>7. CASE tree[i].type # "bool"
  <2>1. /\ x = yes => d = yes \/ s = yes
        /\ x = mod => s = mod \/ d # no
        /\ s = yes => x = yes
        /\ s = mod => x = yes \/ x = mod
        /\ v = no => /\ x = yes => def = yes \/ s = yes
                     /\ x = mod => def # no \/ s = mod
                     /\ def # no /\ d # no => x = yes \/ x = mod
                     /\ def = yes /\ d = yes => x = yes
    BY <1>1, <1>2, <1>5, <1>7, TristateClausesAre DEF Clauses
  <2>2. s <= x
    BY <1>3, <2>1 DEF Tristate, no, mod, yes
  <2>3. ASSUME Visible(i, f) = no PROVE x = Or(def, s)
    <3>1. CASE d = no
      <4>1. def = no
        BY <1>3, <3>1 DEF Tristate, no, mod, yes
      <4> QED  BY <1>3, <2>1, <3>1, <4>1 DEF Or, Tristate, no, mod, yes
    <3>2. CASE d # no
      <4>1. v = no
        BY <1>4, <2>3, <3>2
      <4>2. def = yes => d = yes
        BY <1>3 DEF Tristate, no, mod, yes
      <4> QED  BY <1>3, <2>1, <3>2, <4>1, <4>2 DEF Or, Tristate, no, mod, yes
    <3> QED  BY <3>1, <3>2
  <2> QED  BY <1>2, <1>7, <2>1, <2>2, <2>3
<1> QED  BY <1>6, <1>7

\* A solution without exceptions.
Solution(f) == f \in Assignments /\ Formula(f) /\ ~Excepted(f)

\* What is known of a symbol in a solution without exceptions.
LEMMA SolutionFacts ==
    ASSUME TreeBuilt, NEW f, Solution(f), NEW i \in Syms
    PROVE  /\ f \in Assignments /\ TreeOK /\ f \in [Syms -> Tristate]
           /\ ~HalfHidden(f) /\ ~FirstDefinitionHidden(f) /\ Clauses(i, f)
           /\ IsChoice(i) => ChoiceClauses(i, f) /\ ~(f[i] > Visible(i, f))
           /\ Implied(i, f) = no
           /\ f[MODULES] = no => (\A j \in Syms : f[j] # mod)
                                 /\ (f[i] = yes /\ tree[i].type # "bool" => Visible(i, f) # no)
           /\ i \in Named /\ Visible(i, f) # no => ~(f[i] > Or(Visible(i, f), RevDep(i, f)))
<1>1. ~HalfHidden(f) /\ ~FirstDefinitionHidden(f) /\ ~ByImply(f) /\ ~WithoutModules(f) /\ ~AboveVisibility(f)
  BY DEF Solution, Excepted
<1>2. f \in Assignments /\ TreeOK /\ f \in [Syms -> Tristate]
  BY DEF Solution, TreeBuilt, Assignments
<1>3. Clauses(i, f) /\ (IsChoice(i) => ChoiceClauses(i, f))
  BY DEF Solution, Formula, Clauses
<1>4. f[MODULES] = no => (\A j \in Syms : f[j] # mod)
                         /\ (f[i] = yes /\ tree[i].type # "bool" => Visible(i, f) # no)
  <2>1. tree[i].type # "bool" => tree[i].type = "tristate"
    BY <1>2, SymbolFacts DEF Symbol
  <2> QED  BY <1>1, <2>1 DEF WithoutModules
<1>5. Implied(i, f) = no
  BY <1>1 DEF ByImply
<1>6. /\ IsChoice(i) => ~(f[i] > Visible(i, f))
      /\ i \in Named /\ Visible(i, f) # no => ~(f[i] > Or(Visible(i, f), RevDep(i, f)))
  BY <1>1 DEF AboveVisibility
<1> QED  BY <1>1, <1>2, <1>3, <1>4, <1>5, <1>6

\* A symbol outside of choices.
LEMMA PlainAnswer ==
    ASSUME TreeBuilt, NEW f, Solution(f), NEW i \in Named, tree[i].choice = 0
    PROVE  f[i] = Answer(i, Syms, AskedFor(f), Picked(f), f)
<1>0. i \in Syms /\ ~IsChoice(i)
  BY DEF Named
<1>1. /\ f \in Assignments /\ TreeOK /\ f \in [Syms -> Tristate]
      /\ ~HalfHidden(f) /\ ~FirstDefinitionHidden(f) /\ Clauses(i, f) /\ Implied(i, f) = no
  BY <1>0, SolutionFacts
<1>2. AskedFor(f) \in [Syms -> Tristate] /\ AskedFor(f)[i] = f[i]
  BY <1>0, <1>1, AskedForKnown DEF AskedFor
<1>3. PICK a \in Tristate :
         /\ Answer(i, Syms, AskedFor(f), Picked(f), f) =
              LET t == Or(a, RevDep(i, f))
              IN  IF t = mod /\ (tree[i].type = "bool" \/ f[MODULES] = no) THEN yes ELSE t
         /\ a = IF Visible(i, f) # no /\ i \in Syms THEN And(AskedFor(f)[i], Visible(i, f))
                ELSE DefaultValue(i, f)
  BY <1>1, <1>2, PlainIs
<1>4. PICK x, s, r, vis, def, P, t :
         /\ x = f[i] /\ s = Selected(i, f) /\ r = RevDep(i, f)
         /\ vis = Visible(i, f) /\ def = DefaultValue(i, f) /\ P = Prompted(i, f)
         /\ t = Or(a, r)
  OBVIOUS
<1>5. /\ x \in Tristate /\ s \in Tristate /\ r \in Tristate /\ vis \in Tristate
      /\ def \in Tristate /\ P \in Tristate
  BY <1>0, <1>1, <1>4, VisibleIs, SelectedIs, PartsAre, GivenIs
<1>6. a = IF vis # no THEN And(x, vis) ELSE def
  BY <1>0, <1>2, <1>3, <1>4
<1>7. /\ r # no <=> s # no
      /\ r = IF s = mod /\ (tree[i].type = "bool" \/ f[MODULES] = no) THEN yes ELSE s
  <2>1. r = Promoted(i, s, f)
    BY <1>0, <1>1, <1>4, SelectedIs
  <2>2. \A w : IsBool(i, w, f) <=> tree[i].type = "bool" \/ f[MODULES] = no
    BY DEF IsBool, IsChoiceValue
  <2> QED  BY <1>0, <1>1, <1>4, <2>1, <2>2, SelectedIs DEF Promoted
<1>8. SUFFICES x = IF t = mod /\ (tree[i].type = "bool" \/ f[MODULES] = no) THEN yes ELSE t
  BY <1>3, <1>4
<1>9. CASE tree[i].type = "bool"
  <2>1. vis # mod /\ x # mod
    BY <1>0, <1>1, <1>4, <1>9, VisibleIs DEF Assignments
  <2>2. /\ s # no => x = yes
        /\ vis = no => (x = yes <=> def # no \/ s # no)
    BY <1>0, <1>1, <1>4, <1>9, ClausesSay
  <2>3. x = IF t = mod THEN yes ELSE t
    BY <1>4, <1>5, <1>6, <1>7, <2>1, <2>2 DEF And, Or, Tristate, no, mod, yes
  <2> QED  BY <1>9, <2>3
<1>10. CASE tree[i].type # "bool" /\ f[MODULES] # no
  <2>1. r = s /\ (vis # no => ~(x > Or(vis, r)))
    BY <1>0, <1>4, <1>7, <1>10, SolutionFacts
  <2>2. s <= x /\ (vis = no => x = Or(def, s))
    BY <1>0, <1>1, <1>4, <1>10, ClausesSay
  <2>3. x = t
    <3>1. CASE vis = no
      BY <1>4, <1>6, <2>1, <2>2, <3>1
    <3>2. CASE vis # no
      <4>1. t = Or(And(x, vis), s) /\ ~(x > Or(vis, s))
        BY <1>4, <1>6, <2>1, <3>2
      <4> QED  BY <1>5, <2>2, <4>1 DEF And, Or, Tristate, no, mod, yes
    <3> QED  BY <3>1, <3>2
  <2> QED  BY <1>10, <2>3
<1>11. CASE tree[i].type # "bool" /\ f[MODULES] = no
  <2>1. vis # mod /\ x # mod /\ (x = yes => vis # no)
    BY <1>0, <1>1, <1>4, <1>11, VisibleIs, SolutionFacts
  <2>2. s <= x /\ (vis = no => x = Or(def, s))
    BY <1>0, <1>1, <1>4, <1>11, ClausesSay
  <2>3. x = IF t = mod THEN yes ELSE t
    <3>1. CASE vis = no
      BY <1>4, <1>5, <1>6, <1>7, <2>1, <2>2, <3>1 DEF Or, Tristate, no, mod, yes
    <3>2. CASE vis # no
      <4>1. a = x
        BY <1>5, <1>6, <2>1, <3>2 DEF And, Tristate, no, mod, yes
      <4> QED  BY <1>4, <1>5, <1>7, <2>1, <2>2, <4>1 DEF Or, Tristate, no, mod, yes
    <3> QED  BY <3>1, <3>2
  <2> QED  BY <1>11, <2>3
<1> QED  BY <1>9, <1>10, <1>11

\* A member that is not visible is off in a solution.
LEMMA SolutionHidden ==
    ASSUME TreeBuilt, NEW f, Solution(f), NEW i \in Syms, tree[i].choice # 0, Visible(i, f) = no
    PROVE  f[i] = no
<1>1. /\ f \in Assignments /\ TreeOK /\ f[i] \in Tristate
      /\ ~HalfHidden(f) /\ ~FirstDefinitionHidden(f) /\ Clauses(i, f)
  BY SolutionFacts
<1>2. Selected(i, f) = no /\ DefaultValue(i, f) = no
  BY <1>1, MemberPlain DEF Selected, IsChoiceValue
<1>3. CASE tree[i].type = "bool"
  <2>1. f[i] # yes
    BY <1>1, <1>2, <1>3, ClausesSay
  <2> QED  BY <1>1, <1>3, <2>1 DEF Assignments, Tristate
<1>4. CASE tree[i].type # "bool"
  <2>1. f[i] = Or(DefaultValue(i, f), Selected(i, f))
    BY <1>1, <1>4, ClausesSay
  <2> QED  BY <1>2, <2>1 DEF Or, no
<1> QED  BY <1>3, <1>4

\* A choice that is y in a solution has one member that is y, which is visible, and none that is m.
LEMMA SolutionList ==
    ASSUME TreeBuilt, NEW f, Solution(f), NEW k \in Syms, IsChoice(k), f[k] = yes
    PROVE  \E m \in Members(k) :
             /\ Taken(k, f) = {m} /\ Visible(m, f) # no
             /\ \A n \in Members(k) : f[n] = IF n = m THEN yes ELSE no
<1>1. TreeOK /\ ChoiceClauses(k, f) /\ f \in [Syms -> Tristate] /\ f \in Assignments
  BY SolutionFacts
<1>2. \A m \in Members(k) : m \in Syms /\ tree[m].choice = k /\ k # 0
  BY <1>1, SymbolFacts DEF Choice
<1>3. ListRepr(k, f).yes <=> Cardinality(Taken(k, f)) = 1
  BY DEF ListRepr, Repr, Taken
<1>4. ListRepr(k, f).mod <=> \E m \in Members(k) : f[m] = mod
  BY DEF ListRepr, Repr
<1>5. Cardinality(Taken(k, f)) = 1 /\ ~\E m \in Members(k) : f[m] = mod
  <2>1. CASE tree[k].type = "bool"
    <3>1. ~\E m \in Members(k) : f[m] = mod
      BY <2>1 DEF Solution, Excepted, MemberLeft
    <3> QED  BY <1>1, <1>3, <1>4, <2>1, <3>1 DEF ChoiceClauses, On
  <2>2. CASE tree[k].type # "bool"
    BY <1>1, <1>3, <1>4, <2>2 DEF ChoiceClauses
  <2> QED  BY <2>1, <2>2
<1>6. IsFiniteSet(Taken(k, f))
  <2>1. Len(tree) \in Nat /\ Syms = 1 .. Len(tree)
    BY <1>1 DEF TreeOK
  <2>2. IsFiniteSet(Syms)
    BY <2>1, FS_Interval
  <2>3. Taken(k, f) \in SUBSET Syms
    BY <1>2 DEF Taken
  <2> QED  BY <2>2, <2>3, FS_Subset
<1>7. PICK m : Taken(k, f) = {m}
  BY <1>5, <1>6, FS_Singleton
<1>8. m \in Members(k) /\ f[m] = yes
  <2>1. m \in Taken(k, f)
    BY <1>7
  <2> QED  BY <2>1 DEF Taken
<1>9. Visible(m, f) # no
  BY <1>2, <1>8, SolutionHidden DEF no, yes
<1>10. ASSUME NEW n \in Members(k) PROVE f[n] = IF n = m THEN yes ELSE no
  <2>1. f[n] \in Tristate /\ f[n] # mod /\ (f[n] = yes <=> n = m)
    <3>1. n \in Taken(k, f) <=> n = m
      BY <1>7
    <3> QED  BY <1>1, <1>2, <1>5, <3>1 DEF Taken
  <2> QED  BY <2>1 DEF Tristate
<1> QED  BY <1>7, <1>8, <1>9, <1>10

\* No member is y unless its choice is.
LEMMA SolutionBelow ==
    ASSUME TreeBuilt, NEW f, Solution(f), NEW i \in Syms, tree[i].choice # 0, f[i] = yes,
           tree[tree[i].choice].type # "bool"
    PROVE  f[tree[i].choice] = yes
<1>1. /\ f \in Assignments /\ TreeOK /\ f \in [Syms -> Tristate]
      /\ ~HalfHidden(f) /\ ~FirstDefinitionHidden(f) /\ Clauses(i, f)
  BY SolutionFacts
<1>2. /\ tree[i].choice \in Syms /\ tree[i].type \in {"bool", "tristate"}
      /\ tree[tree[i].choice].type = "tristate"
  <2>1. tree[i].choice \in Syms /\ Symbol(i)
    BY <1>1, SymbolFacts
  <2> QED  BY <1>1, <2>1, SymbolFacts DEF Symbol
<1>3. Selected(i, f) = no
  BY DEF Selected, IsChoiceValue
<1>4. Depends(i, f) \in {CondValue(c, f) : c \in Conditions(i)} \cup {no}
  <2> DEFINE D == {tree[i].deps[n] : n \in DOMAIN tree[i].deps}
             S == {CondValue(c, f) : c \in D}
  <2>0. D \subseteq Conditions(i)
    BY DEF Conditions
  <2>1. S \in SUBSET Tristate /\ S \subseteq {CondValue(c, f) : c \in Conditions(i)}
    <3>1. \A c \in D : CondValue(c, f) \in Tristate
      BY <1>1, <2>0, ConditionBelow
    <3> HIDE DEF D
    <3> QED  BY <2>0, <3>1
  <2>2. Depends(i, f) = AnyOf(S)
    BY DEF Depends, AnyValue
  <2> HIDE DEF S
  <2>3. AnyOf(S) \in S \cup {no}
    BY <2>1, AnyOfIs
  <2> QED  BY <2>1, <2>2, <2>3
<1>5. \A c \in Conditions(i) :
         /\ CondValue(c, f) \in Tristate /\ CondValue(c, f) <= f[tree[i].choice]
         /\ tree[i].type = "bool" /\ f[tree[i].choice] # yes => CondValue(c, f) = no
  BY <1>1, <1>2, MemberBelow
<1>6. f[tree[i].choice] \in Tristate
  BY <1>1, <1>2
<1>7. CASE tree[i].type = "bool"
  <2>1. Depends(i, f) # no
    BY <1>1, <1>3, <1>7, ClausesSay
  <2> QED  BY <1>4, <1>5, <1>7, <2>1
<1>8. CASE tree[i].type # "bool"
  <2>1. Depends(i, f) = yes
    BY <1>1, <1>3, <1>8, ClausesSay DEF no, yes
  <2>2. PICK c \in Conditions(i) : CondValue(c, f) = yes
    BY <1>4, <2>1 DEF no, yes
  <2>3. yes <= f[tree[i].choice]
    BY <1>5, <2>2
  <2> QED  BY <1>6, <2>3 DEF Tristate, no, mod, yes
<1> QED  BY <1>7, <1>8

\* A member of a choice.
LEMMA MemberAnswer ==
    ASSUME TreeBuilt, NEW f, Solution(f), NEW i \in Syms, tree[i].choice # 0
    PROVE  f[i] = Answer(i, Syms, AskedFor(f), Picked(f), f)
<1> DEFINE k == tree[i].choice
           u == AskedFor(f)
           p == Picked(f)
<1>0. /\ f \in Assignments /\ TreeOK /\ f \in [Syms -> Tristate] /\ f[i] \in Tristate
      /\ Implied(i, f) = no
  BY SolutionFacts
<1>1. /\ ~IsChoice(i) /\ IsChoiceValue(i) /\ RevDep(i, f) = no /\ DefaultValue(i, f) = no
      /\ k \in Syms /\ IsChoice(k) /\ i \in Members(k)
  BY <1>0, MemberPlain, SymbolFacts DEF IsChoiceValue, Member
<1>2. u[i] = f[i]
  BY <1>1 DEF AskedFor
<1>3. Visible(i, f) \in Tristate
  BY <1>0, VisibleIs
<1>4. CASE Visible(i, f) = no
  <2>1. f[i] = no
    BY <1>4, SolutionHidden
  <2> QED  BY <1>0, <1>4, <2>1, MemberHidden
<1>5. CASE Visible(i, f) = mod
  <2>1. tree[i].type # "bool" /\ f[MODULES] # no
    BY <1>0, <1>5, VisibleIs
  <2>2. ~IsBool(i, Visible(i, f), f)
    BY <1>5, <2>1 DEF IsBool, mod, yes
  <2>3. i \in Named /\ ~(f[i] > Or(mod, no))
    <3>1. i \in Named
      BY <1>1 DEF Named
    <3>2. ~(f[i] > Or(Visible(i, f), RevDep(i, f)))
      BY <1>5, <3>1, SolutionFacts DEF no, mod
    <3> QED  BY <1>1, <1>5, <3>1, <3>2
  <2>4. Asked(i, Syms, u, f) = And(f[i], mod)
    BY <1>2, <1>5 DEF Asked, no, mod
  <2>5. Answer(i, Syms, u, p, f) = Raised(i, Syms, u, f)
    BY <1>1, <1>5 DEF Answer, mod, yes
  <2>6. Raised(i, Syms, u, f) = Or(And(f[i], mod), no)
    <3>1. Implied(i, f) # yes
      BY <1>0 DEF no, yes
    <3> QED  BY <1>1, <2>2, <2>4, <3>1 DEF Raised
  <2>7. f[i] = Or(And(f[i], mod), no)
    <3>1. PICK x \in Tristate : x = f[i]
      BY <1>0
    <3>2. ~(x > Or(mod, no))
      BY <2>3, <3>1
    <3>3. x = Or(And(x, mod), no)
      BY <3>2 DEF And, Or, Tristate, no, mod, yes
    <3> QED  BY <3>1, <3>3
  <2> QED  BY <2>5, <2>6, <2>7
<1>6. CASE Visible(i, f) = yes
  <2>1. Answer(i, Syms, u, p, f) = IF Chosen(k, p, f) = i THEN yes ELSE no
    BY <1>1, <1>6 DEF Answer
  <2>2. f[k] = yes
    <3>1. f[k] # no
      BY <1>0, <1>6, MemberVisible DEF no, yes
    <3>2. ASSUME f[k] = mod PROVE FALSE
      <4>1. f[MODULES] # no
        BY <1>1, <3>2, SolutionFacts
      <4>2. tree[k].type = "tristate"
        <5>1. tree[k].type # "bool"
          BY <1>0, <1>1, <3>2 DEF Assignments
        <5> QED  BY <1>0, <1>1, <5>1, SymbolFacts DEF Symbol
      <4>3. Visible(i, f) = no \/ Visible(i, f) = mod
        BY <1>0, <3>2, <4>1, <4>2, MemberVisible
      <4> QED  BY <1>6, <4>3 DEF no, mod, yes
    <3>3. f[k] \in Tristate
      BY <1>0, <1>1
    <3> QED  BY <3>1, <3>2, <3>3 DEF Tristate
  <2>3. PICK m \in Members(k) : /\ Taken(k, f) = {m} /\ Visible(m, f) # no
                                /\ \A n \in Members(k) : f[n] = IF n = m THEN yes ELSE no
    BY <1>1, <2>2, SolutionList
  <2>4. p[k] = m
    <3>1. p[k] = FirstOf({m})
      BY <1>1, <2>3 DEF Picked
    <3>2. m \in Nat
      BY <1>0, <1>1, SymbolFacts DEF Choice
    <3>3. FirstOf({m}) \in {m}
      BY <3>2, FirstOfIs
    <3> QED  BY <3>1, <3>3
  <2>5. Chosen(k, p, f) = m
    <3>1. p[k] \in Offered(k, f)
      BY <2>3, <2>4 DEF Offered
    <3> HIDE DEF p, k
    <3> QED  BY <1>0, <1>1, <2>4, <3>1, ChosenIs
  <2> QED  BY <1>1, <2>1, <2>3, <2>5
<1> QED  BY <1>3, <1>4, <1>5, <1>6 DEF Tristate

\* A choice.
LEMMA ChoiceAnswer ==
    ASSUME TreeBuilt, NEW f, Solution(f), NEW k \in Syms, IsChoice(k)
    PROVE  f[k] = Answer(k, Syms, AskedFor(f), Picked(f), f)
<1>0. /\ f \in Assignments /\ TreeOK /\ f \in [Syms -> Tristate] /\ f[k] \in Tristate
      /\ Implied(k, f) = no /\ tree[k].choice = 0 /\ Clauses(k, f)
      /\ ~HalfHidden(f) /\ ~FirstDefinitionHidden(f) /\ ~(f[k] > Visible(k, f))
  BY SolutionFacts, SymbolFacts DEF Choice
<1>1. PICK x, z, r, vis, raised, asked, s, A :
         /\ x = f[k] /\ z = [f EXCEPT ![k] = yes] /\ r = RevDep(k, f) /\ vis = Visible(k, f)
         /\ raised = Raised(k, Syms, AskedFor(f), f) /\ asked = Asked(k, Syms, AskedFor(f), f)
         /\ s = Selected(k, f) /\ A = AskedFor(f)[k]
  OBVIOUS
<1>2. Answer(k, Syms, AskedFor(f), Picked(f), f) =
        IF raised = yes /\ Chosen(k, Picked(f), z) = 0 THEN no ELSE raised
  BY <1>1 DEF Answer
<1>3. /\ x \in Tristate /\ vis \in Tristate /\ r \in Tristate /\ A \in Tristate
      /\ s = (IF vis = no THEN no ELSE mod) /\ ~(x > vis)
  BY <1>0, <1>1, VisibleIs, SelectedIs, ChoiceSelected, AskedForKnown
<1>4. /\ r # no <=> s # no
      /\ r = IF s = mod /\ (tree[k].type = "bool" \/ f[MODULES] = no) THEN yes ELSE s
  <2>1. r = Promoted(k, s, f)
    BY <1>0, <1>1, SelectedIs
  <2>2. \A w : IsBool(k, w, f) <=> tree[k].type = "bool" \/ f[MODULES] = no
    BY <1>0 DEF IsBool, IsChoiceValue
  <2> QED  BY <1>0, <1>1, <2>1, <2>2, SelectedIs DEF Promoted
<1>5. asked = IF vis = no THEN no ELSE And(A, vis)
  BY <1>1 DEF Asked
<1>6. raised = LET t == Or(asked, r)
               IN  IF t = mod /\ (tree[k].type = "bool" \/ f[MODULES] = no) THEN yes ELSE t
  <2>1. \A w : IsBool(k, w, f) <=> tree[k].type = "bool" \/ f[MODULES] = no
    BY <1>0 DEF IsBool, IsChoiceValue
  <2>2. Implied(k, f) # yes
    BY <1>0 DEF no, yes
  <2> QED  BY <1>1, <2>1, <2>2 DEF Raised
<1>7. CASE vis = no
  <2>1. x = no
    BY <1>3, <1>7 DEF Tristate, no, mod, yes
  <2>2. asked = no /\ r = no
    BY <1>3, <1>4, <1>5, <1>7
  <2>3. raised = no
    BY <1>6, <2>2 DEF Or, no, mod
  <2> QED  BY <1>1, <1>2, <2>1, <2>3 DEF no, yes
<1>8. CASE vis # no
  <2>1. raised = x
    <3>1. CASE tree[k].type = "bool"
      <4>1. x = yes
        <5>1. s # no
          BY <1>3, <1>8 DEF no, mod
        <5>2. Selected(k, f) # no => f[k] = yes
          BY <1>0, <3>1, ClausesSay
        <5> QED  BY <1>1, <5>1, <5>2
      <4>2. r = yes
        BY <1>3, <1>4, <1>8, <3>1
      <4>3. asked \in Tristate
        BY <1>3, <1>5 DEF And, Tristate
      <4>4. Or(asked, yes) = yes
        BY <4>3 DEF Or, Tristate, no, mod, yes
      <4> QED  BY <1>6, <4>1, <4>2, <4>4 DEF mod, yes
    <3>2. CASE tree[k].type # "bool" /\ f[MODULES] = no
      <4>1. s <= x /\ x # mod
        BY <1>0, <1>1, <3>2, ClausesSay, SolutionFacts
      <4>2. x = yes
        BY <1>3, <1>8, <4>1 DEF Tristate, no, mod, yes
      <4>3. r = yes
        BY <1>3, <1>4, <1>8, <3>2
      <4>4. asked \in Tristate
        BY <1>3, <1>5 DEF And, Tristate
      <4>5. Or(asked, yes) = yes
        BY <4>4 DEF Or, Tristate, no, mod, yes
      <4> QED  BY <1>6, <4>2, <4>3, <4>5 DEF mod, yes
    <3>3. CASE tree[k].type # "bool" /\ f[MODULES] # no
      <4>1. s <= x
        BY <1>0, <1>1, <3>3, ClausesSay
      <4>2. r = mod /\ s = mod
        BY <1>3, <1>4, <1>8, <3>3
      <4>3. raised = Or(And(A, vis), mod)
        BY <1>5, <1>6, <1>8, <3>3, <4>2
      <4>4. A = yes <=> Taken(k, f) # {}
        <5> DEFINE S == {f[m] : m \in Members(k)}
        <5>1. \A m \in Members(k) : m \in Syms
          BY <1>0, SymbolFacts DEF Choice
        <5>2. S \in SUBSET Tristate
          BY <1>0, <5>1
        <5>3. A = AnyOf(S)
          BY <1>1 DEF AskedFor
        <5>4. Taken(k, f) # {} <=> yes \in S
          BY DEF Taken
        <5> HIDE DEF S
        <5>5. AnyOf(S) \in Tristate /\ (\A w \in S : w <= AnyOf(S)) /\ AnyOf(S) \in S \cup {no}
          BY <5>2, AnyOfIs
        <5>6. AnyOf(S) = yes => yes \in S
          BY <5>5 DEF no, yes
        <5>7. yes \in S => AnyOf(S) = yes
          <6>1. yes \in S => yes <= AnyOf(S)
            BY <5>5
          <6> QED  BY <5>5, <6>1 DEF Tristate, no, mod, yes
        <5> QED  BY <5>3, <5>4, <5>6, <5>7
      <4>5. Taken(k, f) # {} <=> x = yes
        <5>1. ASSUME x = yes PROVE Taken(k, f) # {}
          <6>1. PICK m : Taken(k, f) = {m}
            BY <1>1, <5>1, SolutionList
          <6> QED  BY <6>1
        <5>2. ASSUME NEW m \in Taken(k, f) PROVE x = yes
          <6>1. m \in Members(k) /\ f[m] = yes
            BY DEF Taken
          <6>2. m \in Syms /\ tree[m].choice = k /\ k # 0
            BY <1>0, <6>1, SymbolFacts DEF Choice
          <6> QED  BY <1>1, <3>3, <6>1, <6>2, SolutionBelow
        <5> QED  BY <5>1, <5>2
      <4> QED  BY <1>3, <1>8, <4>1, <4>2, <4>3, <4>4, <4>5 DEF And, Or, Tristate, no, mod, yes
    <3> QED  BY <3>1, <3>2, <3>3
  <2>2. ASSUME x = yes PROVE Chosen(k, Picked(f), z) # 0
    <3>1. z = f
      BY <1>0, <1>1, <2>2
    <3>2. Offered(k, f) # {}
      <4>1. ~NothingToChoose(f)
        BY DEF Solution, Excepted
      <4> QED  BY <1>1, <1>8, <4>1 DEF NothingToChoose, Offered
    <3> QED  BY <1>0, <3>1, <3>2, ChosenIs
  <2> QED  BY <1>1, <1>2, <2>1, <2>2
<1> QED  BY <1>7, <1>8

\* Given the values of a solution, the solution is what the tool may calculate.
LEMMA SolutionSettles ==
    ASSUME TreeBuilt, NEW f, Solution(f)
    PROVE  Settles(f, Syms, AskedFor(f), Picked(f))
<1>1. f \in [Syms -> Tristate]
  BY DEF Solution, Assignments
<1>2. ASSUME NEW i \in Syms PROVE f[i] = Answer(i, Syms, AskedFor(f), Picked(f), f)
  <2>1. CASE IsChoice(i)  BY <2>1, ChoiceAnswer
  <2>2. CASE ~IsChoice(i) /\ tree[i].choice = 0
    <3>1. i \in Named
      BY <2>2 DEF Named
    <3> QED  BY <2>2, <3>1, PlainAnswer
  <2>3. CASE ~IsChoice(i) /\ tree[i].choice # 0  BY <2>3, MemberAnswer
  <2> QED  BY <2>1, <2>2, <2>3
<1> QED  BY <1>1, <1>2 DEF Settles

-----------------------------------------------------------------------------
(***************************************************************************)
(* What the user asks for has one answer.                                  *)
(***************************************************************************)
\* An answer is decided by the values before its symbol.
LEMMA AnswerSame ==
    ASSUME TreeOK, NEW i \in Syms, NEW h, NEW u, NEW p,
           NEW v \in [Syms -> Tristate], NEW w \in [Syms -> Tristate], \A j \in 1 .. i - 1 : v[j] = w[j]
    PROVE  Answer(i, h, u, p, v) = Answer(i, h, u, p, w)
<1>1. i \in Nat /\ i >= 1 /\ Upto(i) \in 0 .. i - 1
  BY SymbolFacts
<1>2. SameTo(i, v, w)
  BY <1>1 DEF SameTo
<1>3. Raised(i, h, u, v) = Raised(i, h, u, w) /\ Visible(i, v) = Visible(i, w)
  BY <1>2, SameAlike, RaisedSame, AlikeVisible
<1>4. ASSUME IsChoice(i)
      PROVE  Chosen(i, p, [v EXCEPT ![i] = yes]) = Chosen(i, p, [w EXCEPT ![i] = yes])
  <2>1. PICK y, z : y = [v EXCEPT ![i] = yes] /\ z = [w EXCEPT ![i] = yes]
    OBVIOUS
  <2>2. \A j \in 1 .. i : j \in Syms /\ (j # i => j \in 1 .. i - 1)
    <3>1. Syms = 1 .. Len(tree) /\ Len(tree) \in Nat
      BY DEF TreeOK
    <3> QED  BY <1>1, <3>1
  <2>3. \A j \in 1 .. i : y[j] = z[j]
    BY <2>1, <2>2
  <2>4. Chosen(i, p, y) = Chosen(i, p, z)
    BY <1>4, <2>3, ChosenUpto
  <2> QED  BY <2>1, <2>4
<1>5. ASSUME IsChoiceValue(i) PROVE Chosen(tree[i].choice, p, v) = Chosen(tree[i].choice, p, w)
  <2>1. tree[i].choice \in Syms /\ tree[i].choice \in 1 .. i - 1 /\ IsChoice(tree[i].choice)
    BY <1>5, SymbolFacts DEF IsChoiceValue, Member
  <2>2. \A j \in 1 .. tree[i].choice : v[j] = w[j]
    BY <1>1, <2>1
  <2> QED  BY <2>1, <2>2, ChosenUpto
<1> QED  BY <1>3, <1>4, <1>5 DEF Answer

\* sym_calc_value of all symbols is the only solution there is.
LEMMA OneAnswer ==
    ASSUME TreeOK, NEW h, NEW u, NEW p, NEW v, NEW w, Settles(v, h, u, p), Settles(w, h, u, p)
    PROVE  v = w
<1>1. v \in [Syms -> Tristate] /\ w \in [Syms -> Tristate]
  BY DEF Settles
<1>2. Syms = 1 .. Len(tree) /\ Len(tree) \in Nat
  BY DEF TreeOK
<1> DEFINE Differ == {i \in Syms : v[i] # w[i]}
<1>3. Differ = {}
  <2>1. SUFFICES ASSUME Differ # {} PROVE FALSE
    OBVIOUS
  <2>2. PICK i \in Differ : \A j \in Differ : i <= j
    <3>1. Differ \in SUBSET Nat
      BY <1>2
    <3> HIDE DEF Differ
    <3> QED  BY <2>1, <3>1, FirstExists
  <2>3. i \in Syms /\ v[i] # w[i]
    OBVIOUS
  <2>4. \A j \in 1 .. i - 1 : j \in Syms /\ ~(i <= j)
    BY <1>2, <2>3
  <2>5. \A j \in 1 .. i - 1 : v[j] = w[j]
    BY <2>2, <2>4
  <2>6. Answer(i, h, u, p, v) = Answer(i, h, u, p, w)
    BY <1>1, <2>3, <2>5, AnswerSame
  <2> QED  BY <2>3, <2>6 DEF Settles
<1> QED  BY <1>1, <1>3

\* A configuration is one that settles what it asks for itself.
LEMMA LegalIs ==
    ASSUME TreeOK, NEW f \in Assignments
    PROVE  Legal(f) <=> Settles(f, Syms, AskedFor(f), Picked(f))
<1>1. PICK h, u, p : h = Syms /\ u = AskedFor(f) /\ p = Picked(f)
  OBVIOUS
<1>2. u \in [Syms -> Tristate]
  BY <1>1, AskedForKnown
<1>3. PICK v : v = Values(h, u, p)
  OBVIOUS
<1>4. Settles(v, h, u, p)
  BY <1>2, <1>3, ValuesSettle
<1>5. Legal(f) <=> v = f
  BY <1>1, <1>3, SettledIs DEF Legal
<1>6. Settles(f, h, u, p) => v = f
  BY <1>4, OneAnswer
<1> QED  BY <1>1, <1>4, <1>5, <1>6

\* A value the tool calculates is not m for a bool.
LEMMA BoolSettled ==
    ASSUME TreeOK, NEW h, NEW u, NEW p, NEW v, Settles(v, h, u, p)
    PROVE  v \in Assignments
<1>1. v \in [Syms -> Tristate]
  BY DEF Settles
<1>2. ASSUME NEW i \in Syms, tree[i].type = "bool" PROVE v[i] # mod
  <2>1. Raised(i, h, u, v) # mod
    <3>1. IsBool(i, Visible(i, v), v)
      BY <1>2 DEF IsBool
    <3>2. PICK t : t = Or(Asked(i, h, u, v), RevDep(i, v))
      OBVIOUS
    <3>3. Raised(i, h, u, v) = IF t = mod THEN yes ELSE t
      BY <3>1, <3>2 DEF Raised
    <3> QED  BY <3>3 DEF mod, yes
  <2>2. v[i] = Answer(i, h, u, p, v)
    BY DEF Settles
  <2>3. Answer(i, h, u, p, v) \in {no, yes, Raised(i, h, u, v)}
    BY DEF Answer
  <2> QED  BY <2>1, <2>2, <2>3 DEF no, mod, yes
<1> QED  BY <1>1, <1>2 DEF Assignments

\* Away from the exceptions, the solutions of the formula are the configurations.
LEMMA SolutionsAreLegal ==
    ASSUME TreeBuilt, NEW f \in Assignments, ~Excepted(f)
    PROVE  Formula(f) <=> Legal(f)
<1>1. TreeOK /\ AskedFor(f) \in [Syms -> Tristate]
  BY AskedForKnown DEF TreeBuilt
<1>2. Harmless(f)
  BY DEF Harmless, Excepted
<1>3. ASSUME Legal(f) PROVE Formula(f)
  <2>1. Settles(f, Syms, AskedFor(f), Picked(f))
    BY <1>1, <1>3, LegalIs
  <2> QED  BY <1>1, <1>2, <2>1, SettledSolves
<1>4. ASSUME Formula(f) PROVE Legal(f)
  <2>1. Settles(f, Syms, AskedFor(f), Picked(f))
    BY <1>4, SolutionSettles DEF Solution
  <2> QED  BY <1>1, <2>1, LegalIs
<1> QED  BY <1>3, <1>4

-----------------------------------------------------------------------------
(***************************************************************************)
(* satyr and the configuration tool.                                       *)
(***************************************************************************)
\* The tree is built by menu_finalize and stays.
LEMMA TreeIsBuilt == ToolSpec => []TreeBuilt
<1>1. ToolInit => TreeBuilt
  <2> SUFFICES ASSUME ToolInit PROVE TreeBuilt
    OBVIOUS
  <2>1. PICK in \in Inputs : tree = Finalized(in[1])
    BY DEF ToolInit
  <2>2. WellFormed(in[1])
    BY InputsAssumption
  <2> QED  BY <2>1, <2>2, FinalizedBuilt
<1>2. TreeBuilt /\ [ToolNext]_toolVars => TreeBuilt'
  <2> SUFFICES ASSUME TreeBuilt, [ToolNext]_toolVars PROVE TreeBuilt'
    OBVIOUS
  <2>1. tree' = tree
    BY DEF ToolNext, Read, Set, Write, toolVars
  <2>2. (TreeOK' <=> TreeOK) /\ Syms' = Syms
    BY <2>1, TreeStays
  <2>3. \A i : (Built(i)' <=> Built(i))
    <3>1. \A i : /\ IsChoice(i)' = IsChoice(i) /\ Members(i)' = Members(i)
                 /\ Conditions(i)' = Conditions(i)
      BY <2>1 DEF IsChoice, Members, Conditions
    <3> QED  BY <2>1, <3>1 DEF Built
  <2> QED  BY <2>2, <2>3 DEF TreeBuilt
<1> QED  BY <1>1, <1>2, PTL DEF ToolSpec

\* SatyrTranslation: for every Kconfig file, the assignments that solve the formula are
\* those sym_calc_value leaves as they are, but for the named exceptions.
THEOREM FormulaIsExact == ToolSpec => []FormulaExact
<1>1. TreeBuilt => FormulaExact
  BY SolutionsAreLegal DEF FormulaExact
<1> QED  BY <1>1, TreeIsBuilt, PTL

\* Whatever the user does, the values the tool has solve the formula, but for an imply, an
\* empty choice, tristates without modules and defaults that shine through.
THEOREM ValuesSolve == ToolSpec => [](phase # "new" /\ Harmless(curr) => Formula(curr))
<1>1. TreeBuilt /\ ToolInv => (phase # "new" /\ Harmless(curr) => Formula(curr))
  <2> SUFFICES ASSUME TreeBuilt, ToolInv, phase # "new", Harmless(curr) PROVE Formula(curr)
    OBVIOUS
  <2>1. PICK v, h, p, u : v = curr /\ u \in [Syms -> Tristate] /\ Settles(v, h, u, p)
    BY DEF ToolInv
  <2>2. v \in Assignments
    BY <2>1, BoolSettled DEF TreeBuilt
  <2>3. Formula(v)
    BY <2>1, <2>2, SettledSolves
  <2> QED  BY <2>1, <2>3
<1> QED  BY <1>1, TreeIsBuilt, ToolKept, PTL

\* A .config conf_write has written is one satyr accepts, but for the same exceptions.
THEOREM SavedIsAccepted == ToolSpec => []SavedAccepted
<1>1. TreeBuilt /\ ToolInv => SavedAccepted
  <2> SUFFICES ASSUME TreeBuilt, ToolInv, phase = "saved", Harmless(curr) PROVE Accepted
    BY DEF SavedAccepted, Harmless
  <2>1. PICK v, h, p, u : v = curr /\ u \in [Syms -> Tristate] /\ Settles(v, h, u, p) /\ Saved(v)
    BY DEF ToolInv
  <2>2. v \in Assignments
    BY <2>1, BoolSettled DEF TreeBuilt
  <2>3. Formula(v)
    BY <2>1, <2>2, SettledSolves
  <2>4. \A i \in Syms : file[i] # Absent => v[i] = file[i]
    BY <2>1 DEF Saved
  <2> QED  BY <2>2, <2>3, <2>4 DEF Accepted
<1> QED  BY <1>1, TreeIsBuilt, ToolKept, PTL
=============================================================================
