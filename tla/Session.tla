------------------------------- MODULE Session -------------------------------
(***************************************************************************)
(* A run of undertaker from the command line to its end: the models are    *)
(* loaded and get the white- and blacklists, the main model is chosen, and *)
(* the files are processed: one in this process, several in a child each   *)
(* (JobPool), or those named at the prompt of the interactive mode, whose  *)
(* commands load models, switch the main model and change the job.         *)
(*                                                                         *)
(* What a job answers is left out; what it works with is kept: the model,  *)
(* and the static variables that outlive a job of the prompt.  Whether a   *)
(* file can be opened, a symbol exists or an analysis finishes in time is  *)
(* open in every job.                                                      *)
(***************************************************************************)
EXTENDS Naturals, Sequences

CONSTANTS
    ArchOrder,  \* the names of the models, as std::map<string, ...> sorts them
    Empty,      \* the empty string: no model, no line
    Models,     \* the paths of model files
    Stem,       \* Stem[f]: the file name without its extension, which names the model
    Cnf,        \* the model files in CNF format
    Broken,     \* those whose reader throws
    Directory,  \* path of a directory |-> its model files; other paths are files of Models
    Sources,    \* the other arguments: files of the program, symbols, worklists
    Rule,       \* the architecture the map file gives to an argument, or Empty
    Segments,   \* the names after arch/ or plat/ in an argument's path
    Fallback,   \* the name after its last /arch/, or Empty
    Jobs,       \* the jobs -j and the prompt may name
    Options     \* command lines: [main, unikraft, lists, decision, jobs, input, models]

Archs == {ArchOrder[i] : i \in DOMAIN ArchOrder}

Paths == Models \cup DOMAIN Directory

Args == Paths \cup Sources

\* The jobs parse_job_argument knows, by what they do with their argument.
FileJobs == {"dead", "coverage", "cpppc", "cpppc_decision", "cppsym", "blockpc",
             "blockrange", "blockconf"}
QueryJobs == {"interesting", "checkexpr", "symbolpc"}

ASSUME JobsAssumption ==
    Jobs \subseteq FileJobs \cup QueryJobs \cup {"mergeblockconf"} /\ "dead" \in Jobs

ASSUME OrderAssumption == ArchOrder \in Seq(Archs)

ASSUME ArchAssumption == Empty \notin Archs /\ {"x86", "x86_64"} \subseteq Archs

ASSUME ModelsAssumption ==
    /\ Stem \in [Models -> Archs] /\ Cnf \subseteq Models /\ Broken \subseteq Cnf
    /\ \A p \in DOMAIN Directory : Directory[p] \subseteq Models

ASSUME PlacesAssumption ==
    /\ Rule \in [Args -> Archs \cup {Empty}] /\ Fallback \in [Args -> Archs \cup {Empty}]
    /\ Segments \in [Args -> Seq(Archs)]

ASSUME OptionsAssumption ==
    \A o \in Options :
      /\ o.main \in Archs \cup {"default"} /\ o.jobs \in Seq(Jobs)
      /\ {o.unikraft, o.lists, o.decision} \subseteq BOOLEAN
      /\ o.input \in {"prompt", "file", "files"} /\ o.models \in Seq(Paths)

VARIABLES
    opts,               \* the command line
    pc,                 \* models, start, prompt, process, files, ok, failure, crash, thrown
    at,                 \* the -m argument to load next
    container,          \* ModelContainer: arch |-> [file, listed]
    main_model,
    started,            \* history: the models there were when main_model was chosen
    process_mode,
    decision_coverage,  \* static, never reset
    useBlockWithFilename, \* static, never reset
    timeout,            \* static, of process_file_dead: 150 or 3600
    line,               \* the argument process_file is called with
    job                 \* history: what the last job worked with, in a run without prompt

vars == <<opts, pc, at, container, main_model, started, process_mode, decision_coverage,
          useBlockWithFilename, timeout, line, job>>

statics == <<decision_coverage, useBlockWithFilename, timeout>>

Loaded == DOMAIN container

\* size() == 1
Single(S) == \E a \in S : S = {a}

NoJob == [mode |-> "none", model |-> Empty, decision |-> FALSE, extended |-> FALSE]

TypeOK ==
    /\ opts \in Options
    /\ pc \in {"models", "start", "prompt", "process", "files", "ok", "failure", "crash",
              "thrown"}
    /\ at \in 1 .. Len(opts.models) + 1
    /\ container \in UNION {[A -> [file : Models, listed : BOOLEAN]] : A \in SUBSET Archs}
    /\ main_model \in Loaded \cup {Empty}
    /\ started \in SUBSET Loaded
    /\ process_mode \in Jobs
    /\ decision_coverage \in BOOLEAN /\ useBlockWithFilename \in BOOLEAN
    /\ timeout \in {150, 3600}
    /\ line \in Args \cup {Empty}
    /\ job \in [mode : Jobs \cup {"none"}, model : Archs \cup {Empty},
                decision : BOOLEAN, extended : BOOLEAN]

\* The last -j is the job.
JobAsked == IF opts.jobs = <<>> THEN "dead" ELSE opts.jobs[Len(opts.jobs)]

\* Each -j cpppc_decision sets decision_coverage as -C does, and a later -j leaves it set.
DecisionAsked ==
    opts.decision \/ \E i \in DOMAIN opts.jobs : opts.jobs[i] = "cpppc_decision"

Init ==
    /\ opts \in Options
    /\ pc = "models" /\ at = 1
    /\ container = <<>>
    /\ main_model = Empty /\ started = {}
    /\ process_mode = JobAsked
    /\ decision_coverage = DecisionAsked
    /\ useBlockWithFilename = FALSE
    /\ timeout = 150
    /\ IF opts.input = "file" THEN line \in Args ELSE line = Empty
    /\ job = NoJob

-----------------------------------------------------------------------------
(* ModelContainer *)

\* The file that is loaded for each architecture of a path. Of two files of a directory
\* for the same one, it is the one the directory iterator finds first.
Choices(p) ==
    LET files == IF p \in DOMAIN Directory THEN Directory[p] ELSE {p} IN
    {c \in [{Stem[f] : f \in files} -> files] : \A a \in DOMAIN c : Stem[c[a]] = a}

Fresh(c) == DOMAIN c \ Loaded

\* A directory is parsed as a whole, a single file only if its model is new.
Parsed(p, c) == IF p \in DOMAIN Directory THEN DOMAIN c ELSE Fresh(c)

Throws(p, c) == \E a \in Parsed(p, c) : c[a] \in Broken

Entry(c, a) == IF a \in Loaded THEN container[a] ELSE [file |-> c[a], listed |-> FALSE]

\* Mutation of Emplaced: the container is assigned to, not emplaced into.
EmplacedOver(c) ==
    [a \in Loaded \cup DOMAIN c |->
        IF a \in DOMAIN c THEN [file |-> c[a], listed |-> FALSE] ELSE container[a]]

\* find() before emplace(): the first model of a name stays.
Emplaced(c) == [a \in Loaded \cup DOMAIN c |-> Entry(c, a)]

\* loadModels' result, the last model that is new, in the order of the map; nullptr if
\* none is.
LastNew(c) ==
    IF Fresh(c) = {} THEN Empty
    ELSE LET i == CHOOSE n \in DOMAIN ArchOrder :
                    /\ ArchOrder[n] \in Fresh(c)
                    /\ \A m \in DOMAIN ArchOrder : ArchOrder[m] \in Fresh(c) => m <= n
         IN  ArchOrder[i]

\* setMainModel for a name that may not be loaded
MainSet(loaded, a, old) == IF a \in loaded THEN a ELSE old

FirstLoaded ==
    LET i == CHOOSE n \in DOMAIN ArchOrder :
               /\ ArchOrder[n] \in Loaded
               /\ \A m \in DOMAIN ArchOrder : ArchOrder[m] \in Loaded => n <= m
    IN  ArchOrder[i]

\* findMappedArch: the map file, the first loaded model in the path, the arch/ directory.
SpecificArch(x) ==
    LET hits == {i \in DOMAIN Segments[x] : Segments[x][i] \in Loaded} IN
    IF Rule[x] # Empty THEN Rule[x]
    ELSE IF hits = {} THEN Fallback[x]
    ELSE Segments[x][CHOOSE i \in hits : \A j \in hits : i <= j]

\* lookupModel and lookupMainModel for a file
ModelFor(x) ==
    LET arch == IF SpecificArch(x) = Empty THEN main_model ELSE SpecificArch(x) IN
    IF arch \in Loaded THEN arch ELSE Empty

-----------------------------------------------------------------------------
(* Start-up *)

End(verdict) ==
    /\ pc' = verdict
    /\ UNCHANGED <<opts, at, container, main_model, started, process_mode, statics, line, job>>

\* "please specify a model to use white- or blacklists"
UsageError ==
    /\ pc = "models" /\ at = 1 /\ opts.models = <<>> /\ opts.lists
    /\ End("failure")

\* One -m argument; a file that is not there, or holds nothing new, is only logged.
LoadModel ==
    /\ pc = "models" /\ at <= Len(opts.models)
    /\ \E c \in Choices(opts.models[at]) :
         IF Throws(opts.models[at], c)
           THEN pc' = "thrown" /\ UNCHANGED <<container, at>>
           ELSE pc' = pc /\ container' = Emplaced(c) /\ at' = at + 1
    /\ UNCHANGED <<opts, main_model, started, process_mode, statics, line, job>>

\* Mutation of Listed: only the first model gets the lists.
ListedFirst ==
    [a \in Loaded |-> [file |-> container[a].file, listed |-> opts.lists /\ a = FirstLoaded]]

\* The lists are added to all models.
Listed == [a \in Loaded |-> [file |-> container[a].file, listed |-> opts.lists]]

\* A single model is the main model whatever -M says; of several, the one -M names, if it
\* is loaded, and by default x86_64 (with -k), x86 or the first.
Preferred == IF opts.unikraft THEN <<"x86_64", "x86">> ELSE <<"x86">>

\* Mutation of DefaultMain: without the fallback to the first model.
DefaultMainOnlyX86 == IF "x86" \in Loaded THEN "x86" ELSE Empty

DefaultMain ==
    LET hits == {i \in DOMAIN Preferred : Preferred[i] \in Loaded} IN
    IF hits = {} THEN FirstLoaded ELSE Preferred[CHOOSE i \in hits : \A j \in hits : i <= j]

StartMain ==
    IF Loaded = {} THEN Empty
    ELSE IF Single(Loaded) THEN FirstLoaded
    ELSE IF opts.main = "default" THEN DefaultMain
    ELSE MainSet(Loaded, opts.main, Empty)

\* The files of a worklist are read in between: it may be missing.
Start ==
    /\ pc = "models" /\ at = Len(opts.models) + 1
    /\ ~(opts.models = <<>> /\ opts.lists)
    /\ container' = Listed
    /\ main_model' = StartMain
    /\ started' = Loaded
    /\ \/ opts.input = "prompt" /\ pc' = "prompt"
       \/ opts.input = "file" /\ pc' = "process"
       \/ opts.input = "files" /\ pc' \in {"files", "failure"}
    /\ UNCHANGED <<opts, at, process_mode, statics, line, job>>

-----------------------------------------------------------------------------
(* Jobs *)

MainIsCnf == main_model # Empty /\ container[main_model].file \in Cnf

\* What a job works with. mergeblockconf sets useBlockWithFilename before its blocks are
\* read.
Works(m, x) ==
    [mode |-> m,
     model |-> IF m \in FileJobs THEN ModelFor(x) ELSE main_model,
     decision |-> decision_coverage,
     extended |-> useBlockWithFilename \/ m = "mergeblockconf"]

\* cpppc takes a model for granted once any is loaded, mergeblockconf once there are lists.
NullModel(m, x) ==
    \/ m \in {"cpppc", "cpppc_decision"} /\ Loaded # {} /\ ModelFor(x) = Empty
    \/ m = "mergeblockconf" /\ opts.lists /\ main_model = Empty

\* The jobs that end the program without a main model, or without one read from rsf.
NeedsMain(m) ==
    \/ m \in QueryJobs /\ main_model = Empty
    \/ m = "interesting" /\ MainIsCnf

\* Every job exits when its argument cannot be opened or found, or its time is over.
Outcomes(m, x) ==
    {"failure"} \cup (IF NeedsMain(m) THEN {}
                      ELSE IF NullModel(m, x) THEN {"crash"} ELSE {"back"})

\* process_file in this process.
Process ==
    /\ pc = "process"
    /\ \E r \in Outcomes(process_mode, line) :
         IF r = "back" /\ opts.input = "prompt"
           THEN pc' = "prompt" /\ line' = Empty
           ELSE pc' = (IF r = "back" THEN "ok" ELSE r) /\ UNCHANGED line
    /\ job' = IF opts.input = "prompt" THEN job ELSE Works(process_mode, line)
    /\ useBlockWithFilename' = (useBlockWithFilename \/ process_mode = "mergeblockconf")
    /\ timeout' = IF process_mode = "dead" /\ MainIsCnf THEN 3600 ELSE timeout
    /\ UNCHANGED <<opts, at, container, main_model, started, process_mode,
                   decision_coverage>>

\* process_file in a forked child: its static variables are its own.
ProcessInChild ==
    /\ pc = "files"
    /\ \E x \in Args : job' = Works(process_mode, x)
    /\ UNCHANGED <<opts, pc, at, container, main_model, started, process_mode, statics, line>>

\* The last child is reaped; the exit code is wait_for_forked_child's (JobPool).
FilesDone == pc = "files" /\ \E verdict \in {"ok", "failure"} : End(verdict)

-----------------------------------------------------------------------------
(* The prompt *)

EndOfInput == pc = "prompt" /\ End("ok")

\* A line that is no command is processed in the current mode.
FileLine ==
    /\ pc = "prompt" /\ pc' = "process"
    /\ line' \in Args
    /\ UNCHANGED <<opts, at, container, main_model, started, process_mode, statics, job>>

\* ::<mode> and ::<mode> <file>; an unknown mode changes nothing.
ModeCommand ==
    /\ pc = "prompt"
    /\ process_mode' \in Jobs
    /\ decision_coverage' = (decision_coverage \/ process_mode' = "cpppc_decision")
    /\ \/ pc' = "prompt" /\ UNCHANGED line
       \/ pc' = "process" /\ line' \in Args
    /\ UNCHANGED <<opts, at, container, main_model, started, useBlockWithFilename, timeout, job>>

\* ::load and ::main-model; the path is then processed like a file of the program. The
\* lists are not added to what is loaded here, and a model that was loaded before does not
\* become the main model.
LoadCommand(switch) ==
    /\ pc = "prompt"
    /\ \E p \in Paths : \E c \in Choices(p) :
         IF Throws(p, c)
           THEN pc' = "thrown" /\ UNCHANGED <<container, main_model, line>>
           ELSE /\ container' = Emplaced(c)
                /\ main_model' = IF switch /\ LastNew(c) # Empty
                                   THEN MainSet(Loaded \cup Fresh(c), LastNew(c), main_model)
                                   ELSE main_model
                /\ pc' = "process" /\ line' = p
    /\ UNCHANGED <<opts, at, started, process_mode, statics, job>>

Ended == pc \in {"ok", "failure", "crash", "thrown"} /\ UNCHANGED vars

Next ==
    \/ UsageError \/ LoadModel \/ Start
    \/ Process \/ ProcessInChild \/ FilesDone
    \/ EndOfInput \/ FileLine \/ ModeCommand
    \/ \E switch \in BOOLEAN : LoadCommand(switch)
    \/ Ended

Spec == Init /\ [][Next]_vars

-----------------------------------------------------------------------------
(* Properties *)

\* The main model is missing because no model was there when it was chosen (a later ::load
\* does not choose one), or because -M names none of several.
NoMainChosen ==
    /\ main_model = Empty
    /\ \/ started = {}
       \/ opts.main \notin started \cup {"default"} /\ ~Single(started)

\* The jobs cpppc and mergeblockconf use a model they do not have (undertaker.cpp:472 and
\* :262) only for a file of an architecture that is not loaded, or when no main model was
\* chosen: by default, any model that is loaded is enough.
NullOnlyBy ==
    pc = "crash" =>
      \/ process_mode # "mergeblockconf" /\ SpecificArch(line) \notin Loaded \cup {Empty}
      \/ NoMainChosen

\* The models stay: a name keeps the model that was loaded for it first, and the prompt
\* switches the main model only to one it has just loaded. Other analyses of the same
\* session, and the architectures they were checked against, remain comparable.
ModelsStay ==
    [][/\ \A a \in Loaded : a \in DOMAIN container' /\ container'[a].file = container[a].file
       /\ pc = "prompt" /\ main_model' # main_model => main_model' \in DOMAIN container' \ Loaded
      ]_vars

\* In a run without a prompt every job works with what the command line says: the lists are
\* on all models there are (the comment at undertaker.cpp:1028), decision coverage is on if
\* one of its options asks for it, the last -j or not, and neither that nor the extended block
\* names are left over from another job.
JobsAsCommanded ==
    opts.input # "prompt" /\ job # NoJob =>
      /\ \A a \in Loaded : container[a].listed = opts.lists
      /\ job.decision = DecisionAsked
      /\ job.extended => job.mode = "mergeblockconf"

=============================================================================
