------------------------------- MODULE DeadRun -------------------------------
(* A batch run of the dead analysis and the files it leaves on disk: each      *)
(* child of the pool runs process_file_dead_helper, which first deletes what   *)
(* matches "<file>*.*dead" and then writes a report for each defect, and what  *)
(* picomus says of it.  All the children share one directory tree.             *)
EXTENDS JobPool

CONSTANTS
    Candidates,     \* how many blocks of each file may have a defect
    ExtensionOf,    \* <<f, g>>: the name of g starts with the name of f
    Titles,         \* what a report's name says of a defect: its type, on how
                    \* many architectures, dead or undead
    DeadTitles,     \* those of dead blocks
    SkippedTitles,  \* those that no report is written for
    MusAnalysis     \* do_mus_analysis

ASSUME CandidatesAssumption == Candidates \in [Files -> Nat]
ASSUME ExtensionAssumption ==
    /\ ExtensionOf \subseteq Files \X Files
    /\ \A f \in Files : <<f, f>> \in ExtensionOf
ASSUME TitlesAssumption ==
    /\ DeadTitles \subseteq Titles
    /\ MusAnalysis \in BOOLEAN

Blocks(f) == 1..Candidates[f]

\* "<file>.B<block>.<title>", and the same name with ".mus" at its end.
Reports(f) == {f} \X Blocks(f) \X Titles \X {"report"}
MusFiles(f) == {f} \X Blocks(f) \X DeadTitles \X {"mus"}
ReportNames == UNION {Reports(f) : f \in Files}
Names == ReportNames \cup UNION {MusFiles(f) : f \in Files}

Defects == UNION {{f} \X Blocks(f) \X Titles : f \in Files}

CONSTANTS
    Leftovers,      \* what previous runs may have left: a set of sets of names
    MayFind         \* what this run may find: a set of sets of defects

ASSUME LeftoversAssumption == Leftovers \subseteq SUBSET Names
ASSUME MayFindAssumption ==
    \A F \in MayFind :
        /\ F \subseteq Defects
        /\ \A d, e \in F : d[1] = e[1] /\ d[2] = e[2] => d = e

VARIABLES
    found,      \* the defects this run finds, at most one in a block
    disk,       \* name -> "none", "old" (from a previous run) or "new"
    step,       \* where the worker of each file is
    globbed,    \* the names its glob() found and it did not try to unlink yet
    at,         \* the block it gets to next
    logged      \* the reports that could not be removed or not be opened

workVars == <<found, disk, step, globbed, at, logged>>

\* Mutation of Matching: the pattern is "<file>.B*.old*", so nothing is found.
MatchingNothing(f) == {}

\* The names that match "<file>*.*dead": the reports, not the ".mus" files.
Matching(f) == {n \in ReportNames : <<f, n[1]>> \in ExtensionOf /\ disk[n] # "none"}

DeadInit ==
    /\ Init
    /\ found \in MayFind
    /\ \E files \in Leftovers : disk = [n \in Names |-> IF n \in files THEN "old" ELSE "none"]
    /\ step = [f \in Files |-> "glob"]
    /\ globbed = [f \in Files |-> {}]
    /\ at = [f \in Files |-> 1]
    /\ logged = {}

\* rm_pattern: glob() collects the names, then each of them is unlinked.
Glob(f) ==
    /\ child[f] = "running"
    /\ step[f] = "glob"
    /\ globbed' = [globbed EXCEPT ![f] = Matching(f)]
    /\ step' = [step EXCEPT ![f] = "unlink"]
    /\ UNCHANGED <<vars, found, disk, at, logged>>

\* unlink() fails if another worker removed the name, and may fail for reasons of
\* the file system; the error is logged and the next name is tried.
Unlink(f, n) ==
    /\ child[f] = "running"
    /\ step[f] = "unlink"
    /\ n \in globbed[f]
    /\ globbed' = [globbed EXCEPT ![f] = @ \ {n}]
    /\ \/ disk[n] # "none" /\ disk' = [disk EXCEPT ![n] = "none"] /\ UNCHANGED logged
       \/ logged' = logged \cup {n} /\ UNCHANGED disk
    /\ UNCHANGED <<vars, found, step, at>>

Cleaned(f) ==
    /\ child[f] = "running"
    /\ step[f] = "unlink"
    /\ globbed[f] = {}
    /\ step' = [step EXCEPT ![f] = "analyse"]
    /\ UNCHANGED <<vars, found, disk, globbed, at, logged>>

HasBlock(f) == at[f] <= Candidates[f]

\* The report of the defect in b that is to be written, if any: none for what
\* skip_non_configuration_based_defects leaves out.
ReportOf(f, b) ==
    {n \in Reports(f) : n[2] = b /\ n[3] \notin SkippedTitles /\ <<f, b, n[3]>> \in found}

\* reportMUS does not ask whether the report was skipped.
MusOf(f, b) ==
    {n \in MusFiles(f) : MusAnalysis /\ n[2] = b /\ <<f, b, n[3]>> \in found}

\* processBlock: writeReportToFile truncates the name, or cannot open it and logs
\* that; reportMUS writes its file unless it cannot read what picomus says or open
\* the file.  Either way the worker goes on.
ProcessBlock(f) ==
    /\ child[f] = "running"
    /\ step[f] = "analyse"
    /\ HasBlock(f)
    /\ at' = [at EXCEPT ![f] = @ + 1]
    /\ \E written \in SUBSET (ReportOf(f, at[f]) \cup MusOf(f, at[f])) :
        /\ disk' = [n \in Names |-> IF n \in written THEN "new" ELSE disk[n]]
        /\ logged' = logged \cup (ReportOf(f, at[f]) \ written)
    /\ UNCHANGED <<vars, found, step, globbed>>

\* Mutation of CanSucceed: the thread is not joined.
CanSucceedEarly(f) == step[f] = "analyse"

\* process_file_dead returns when its thread was joined.
CanSucceed(f) == step[f] = "analyse" /\ ~HasBlock(f)

\* A timeout or a signal ends the worker wherever it is.
WorkerEnds(f, o) ==
    /\ o = "ok" => CanSucceed(f)
    /\ ChildEnds(f, o)
    /\ UNCHANGED workVars

Worker(f) ==
    \/ Glob(f)
    \/ Cleaned(f)
    \/ ProcessBlock(f)
    \/ \E n \in Names : Unlink(f, n)
    \/ \E o \in Outcomes : WorkerEnds(f, o)

DeadNext ==
    \/ (Parent \/ Terminated) /\ UNCHANGED workVars
    \/ \E f \in Files : Worker(f)

\* As in FairSpec: a worker that does not get on is ended by its timeout.
DeadSpec ==
    /\ DeadInit /\ [][DeadNext]_<<vars, workVars>>
    /\ WF_<<vars, workVars>>(Parent /\ UNCHANGED workVars)
    /\ \A f \in Files : WF_<<vars, workVars>>(\E o \in Outcomes : WorkerEnds(f, o))
-----------------------------------------------------------------------------
\* The glob of no other file of the worklist finds reports of f.
Alone(f) == \A g \in Files : <<g, f>> \in ExtensionOf => g = f

\* What lies on disk for a file that was processed successfully is this run's
\* result, a report for each of its defects and no other, but for the names an
\* error was logged about: success itself says nothing of these.  It takes that
\* no other file of the worklist has a name this file's name starts with.
SuccessIsComplete ==
    \A f \in Files :
        outcome[f] = "ok" /\ Alone(f) =>
            \A n \in Reports(f) \ logged :
                disk[n] = IF n \in ReportOf(f, n[2]) THEN "new" ELSE "none"

\* Once a file's worker wrote its first report, a report of an earlier run is left
\* for that file only where its removal failed, even if the worker then times out
\* and whatever the workers of other files remove.
NoMixture ==
    \A f \in Files :
        (\E n \in Reports(f) : disk[n] = "new") =>
            \A n \in Reports(f) : disk[n] = "old" => n \in logged
=============================================================================
