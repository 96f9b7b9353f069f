-------------------------------- MODULE Vampyr --------------------------------
(***************************************************************************)
(* vampyr compiles one file in each of the configurations that undertaker   *)
(* computes for it (bare framework, tool gcc).  undertaker -O combined runs *)
(* the coverage analysis, removes the files of earlier runs and writes      *)
(* three files for each configuration, all within a timeout of 120 seconds. *)
(* vampyr ignores how undertaker ended, and takes what it finds on disk.    *)
(*                                                                         *)
(* Coverage is undertaker's analysis; this module adds the files, the       *)
(* timeout, the errors of the file system, and vampyr.                      *)
(***************************************************************************)
EXTENDS Coverage, Integers

CONSTANTS
    Leftovers,  \* what earlier runs may have left on disk: a set of sets of files
    Faulty,     \* the files that may not be removed, opened or written
    OtherFlags, \* what gcc may compile with flags that are not of this run's list: a set of
                \* sets of blocks
    Warnings    \* the messages of gcc in its order: [loc, text, needs]; a message is
                \* given where the blocks in needs are compiled

\* A file's kind and number: what earlier runs, in any output mode and interrupted
\* anywhere, leave under the names .cppflags<n>, .source<n>, .config<n>, .config<n>.h and
\* .config<n>.report.gcc.
ASSUME LeftoversAssumption ==
    \A files \in Leftovers : files \subseteq {"cppflags", "source", "config", "h", "report"} \X Nat

ASSUME WarningsAssumption ==
    /\ Warnings \in Seq({Warnings[i] : i \in DOMAIN Warnings})
    /\ \A i \in DOMAIN Warnings : Warnings[i].needs \subseteq Names

VARIABLES
    phase,       \* analysis, remove, write; verify, check, end or crashed
    interrupted, \* the phase undertaker's process ended in, or "no"
    gcc,         \* gcc is found when it is called
    disk,        \* what each file of the source file holds
    stuck,       \* the leftovers whose unlink failed, which is printed
    lost,        \* the files that could not be opened or written
    current,     \* the solution being written, from 0
    step,        \* how far formatCombined is
    configs,     \* the numbers of the configurations vampyr found
    checked,     \* what was compiled: the number, and the blocks that were on
    errors       \* the MessageContainer

files == <<disk, stuck, lost>>

run == <<phase, interrupted, gcc, files, current, step, configs, checked, errors>>

all == <<vars, run>>

\* What a file holds: the text of the i-th solution, or one of these.
Old == -1
Partial == 0

Rank == [cppflags |-> 1, source |-> 2, config |-> 3, h |-> 4, report |-> 5]

Kinds == DOMAIN Rank

File(kind, n) == <<kind, n>>

Numbers(kind) == {f[2] : f \in {g \in DOMAIN disk : g[1] = kind}}

Put(f, c) == [g \in DOMAIN disk \cup {f} |-> IF g = f THEN c ELSE disk[g]]

Digits[n \in Nat] == IF n < 10 THEN <<n>> ELSE Append(Digits[n \div 10], n % 10)

\* The names are compared as strings: 1 comes before 10, and 10 before 2.
Earlier(m, n) ==
    \E k \in DOMAIN Digits[n] :
      /\ k <= Len(Digits[m]) + 1
      /\ \A j \in 1 .. k - 1 : Digits[m][j] = Digits[n][j]
      /\ k <= Len(Digits[m]) => Digits[m][k] < Digits[n][k]

-----------------------------------------------------------------------------
(* undertaker: process_file_coverage *)

Analyse ==
    /\ phase = "analysis"
    /\ Next
    /\ UNCHANGED run

Analysed ==
    /\ phase = "analysis" /\ pc \in {"done", "failed"}
    /\ phase' = "remove"
    /\ UNCHANGED <<interrupted, gcc, files, current, step, configs, checked, errors>>
    /\ UNCHANGED vars

\* Mutation of Patterns: what is called .config<n>.h and .config<n>.report.gcc stays.
PatternsExact == <<{"cppflags"}, {"source"}, {"config"}>>

\* .cppflags*, .source* and .config*.
Patterns == <<{"cppflags"}, {"source"}, {"config", "h", "report"}>>

\* What rm_pattern has still to get to, pattern by pattern.
Matching(k) == {f \in DOMAIN disk \ stuck : f[1] \in Patterns[k]}

\* glob sorts the names: .config0, .config0.h, .config0.report.gcc, .config1.
Before(f, g) ==
    \/ Earlier(f[2], g[2])
    \/ f[2] = g[2] /\ Rank[f[1]] < Rank[g[1]]

\* A file that cannot be unlinked stays; that is printed, and the next one is removed.
RemoveNext ==
    /\ phase = "remove"
    /\ \E k \in DOMAIN Patterns :
         /\ \A j \in 1 .. k - 1 : Matching(j) = {}
         /\ \E f \in Matching(k) :
              /\ \A g \in Matching(k) \ {f} : Before(f, g)
              /\ \/ disk' = [g \in DOMAIN disk \ {f} |-> disk[g]] /\ UNCHANGED stuck
                 \/ f \in Faulty /\ stuck' = stuck \cup {f} /\ UNCHANGED disk
    /\ UNCHANGED <<phase, interrupted, gcc, lost, current, step, configs, checked, errors>>
    /\ UNCHANGED vars

Removed ==
    /\ phase = "remove"
    /\ \A k \in DOMAIN Patterns : Matching(k) = {}
    /\ phase' = "write"
    /\ UNCHANGED <<interrupted, gcc, files, current, step, configs, checked, errors>>
    /\ UNCHANGED vars

\* Mutation of Opened: the list of configurations is written first.
OpenedConfigFirst == <<"config", "cppflags", "source">>

\* formatCombined opens the three streams in this order, and their destructors flush
\* them in the opposite one when it returns.
Opened == <<"cppflags", "source", "config">>

\* No stream is checked: one that does not open leaves the disk as it is.
Open ==
    /\ phase = "write" /\ current < Len(ret) /\ step < 3
    /\ LET f == File(Opened[step + 1], current)
       IN  \/ disk' = Put(f, Partial) /\ UNCHANGED lost
           \/ f \in Faulty /\ lost' = lost \cup {f} /\ UNCHANGED disk
    /\ step' = step + 1
    /\ UNCHANGED <<phase, interrupted, gcc, stuck, current, configs, checked, errors>>
    /\ UNCHANGED vars

\* What is written to a stream that did not open, or that fails, is lost as well.
Flush ==
    /\ phase = "write" /\ step >= 3
    /\ LET f == File(Opened[6 - step], current)
       IN  \/ f \notin lost /\ disk' = Put(f, current + 1) /\ UNCHANGED lost
           \/ f \in lost \cup Faulty /\ lost' = lost \cup {f} /\ UNCHANGED disk
    /\ step' = (step + 1) % 6
    /\ current' = IF step = 5 THEN current + 1 ELSE current
    /\ UNCHANGED <<phase, interrupted, gcc, stuck, configs, checked, errors>>
    /\ UNCHANGED vars

Written ==
    /\ phase = "write" /\ current = Len(ret) /\ step = 0
    /\ phase' = "verify"
    /\ UNCHANGED <<interrupted, gcc, files, current, step, configs, checked, errors>>
    /\ UNCHANGED vars

\* The join times out and the process exits, whatever the helper thread is doing; or the
\* process is killed, or cannot open the file. What an unfinished analysis knew is lost
\* with the process. vampyr logs the failure and goes on.
Interrupt ==
    /\ phase \in {"analysis", "remove", "write"}
    /\ interrupted' = phase
    /\ phase' = "verify"
    /\ IF phase = "analysis"
         THEN /\ pc' = "failed" /\ pos' = 1 /\ ret' = <<>>
              /\ blocks_set' = {} /\ configuration' = {} /\ found_solutions' = {}
         ELSE UNCHANGED <<pc, pos, ret, blocks_set, configuration, found_solutions>>
    /\ Input
    /\ UNCHANGED <<gcc, files, current, step, configs, checked, errors>>

-----------------------------------------------------------------------------
(* vampyr: calculate_configurations, handle_file and do_checks *)

\* find_configurations: the names that end in .config<n>.
Unverified == {n \in Numbers("config") : \A i \in DOMAIN configs : configs[i] # n}

\* Mutation of FirstUnverified: the configurations are sorted by their numbers.
LeastUnverified == {n \in Unverified : \A m \in Unverified : n <= m}

\* The names are sorted.
FirstUnverified == {n \in Unverified : \A m \in Unverified \ {n} : Earlier(n, m)}

\* The constructor opens .config<n>.h and copies the flags of .cppflags<n> to it.
MakeConfiguration ==
    /\ phase = "verify"
    /\ \E n \in FirstUnverified :
         /\ n \in Numbers("cppflags")
         /\ disk' = Put(File("h", n), disk[File("cppflags", n)])
         /\ configs' = Append(configs, n)
    /\ UNCHANGED <<phase, interrupted, gcc, stuck, lost, current, step, checked, errors>>
    /\ UNCHANGED vars

\* Without .cppflags<n>, or if .config<n>.h does not open, it raises an IOError, which
\* nobody catches.
CannotMake ==
    /\ phase = "verify"
    /\ \E n \in FirstUnverified :
         \/ n \notin Numbers("cppflags") /\ disk' = Put(File("h", n), Partial) /\ UNCHANGED lost
         \/ File("h", n) \in Faulty /\ lost' = lost \cup {File("h", n)} /\ UNCHANGED disk
    /\ phase' = "crashed"
    /\ UNCHANGED <<interrupted, gcc, stuck, current, step, configs, checked, errors>>
    /\ UNCHANGED vars

\* gcc is on the path or it is not.
Verified ==
    /\ phase = "verify" /\ Unverified = {}
    /\ phase' = "check"
    /\ gcc' \in BOOLEAN
    /\ UNCHANGED <<interrupted, files, current, step, configs, checked, errors>>
    /\ UNCHANGED vars

\* The blocks gcc compiles with these flags: those of the solution (its symbols decide
\* the blocks), others if the flags are incomplete or from an earlier version of the file.
Compiled(flags) ==
    IF flags > 0 THEN {ret[flags].on} ELSE OtherFlags

\* Mutation of Equal: two messages on the same line are the same.
EqualLine(r, c, m) == r.loc = m.loc

\* GccMessage.__eq__: equal texts, or one message for a line and a configuration.
Equal(r, c, m) == (r.loc = m.loc /\ r.text = m.text) \/ (r.conf = c /\ r.loc = m.loc)

\* MessageContainer.add_message: the first equal message the loop over the set meets.
Added(c, m, E) ==
    LET same == {r \in E : Equal(r, c, m)}
    IN  IF same = {}
          THEN {E \cup {[loc |-> m.loc, text |-> m.text, conf |-> c, in |-> {c}]}}
          ELSE {(E \ {r}) \cup {[r EXCEPT !.in = @ \cup {c}]} : r \in same}

\* What gcc says, in the order of Warnings.
Given(on) == {n \in DOMAIN Warnings : Warnings[n].needs \subseteq on}

\* The containers after what gcc says of the first n messages.
AddStep(c, on, E, A, n) ==
    IF n = 0 THEN {E}
    ELSE IF n \in Given(on) THEN UNION {Added(c, Warnings[n], F) : F \in A[n - 1]}
    ELSE A[n - 1]

AddAll(c, on, E) ==
    LET A[n \in 0 .. Len(Warnings)] == AddStep(c, on, E, A, n)
    IN  A[Len(Warnings)]

\* One configuration of the loop of do_checks, with its report.
Check ==
    /\ phase = "check" /\ gcc /\ Len(checked) < Len(configs)
    /\ LET c == configs[Len(checked) + 1]
           flags == disk[File("cppflags", c)]
       IN  /\ \E on \in Compiled(flags) :
                /\ checked' = Append(checked, [conf |-> c, on |-> on])
                /\ errors' \in AddAll(c, on, errors)
           /\ disk' = Put(File("report", c), flags)
    /\ UNCHANGED <<phase, interrupted, gcc, stuck, lost, current, step, configs>>
    /\ UNCHANGED vars

\* A report that does not open raises an IOError as well.
CannotReport ==
    /\ phase = "check" /\ gcc /\ Len(checked) < Len(configs)
    /\ LET f == File("report", configs[Len(checked) + 1])
       IN  f \in Faulty /\ lost' = lost \cup {f}
    /\ phase' = "crashed"
    /\ UNCHANGED <<interrupted, gcc, disk, stuck, current, step, configs, checked, errors>>
    /\ UNCHANGED vars

\* Without gcc the call of it raises a RuntimeError for each configuration, which is logged;
\* no report is written.
Report ==
    /\ phase = "check" /\ (gcc => Len(checked) = Len(configs))
    /\ phase' = "end"
    /\ UNCHANGED <<interrupted, gcc, files, current, step, configs, checked, errors>>
    /\ UNCHANGED vars

VampyrInit ==
    /\ Init
    /\ phase = "analysis" /\ interrupted = "no" /\ gcc = TRUE
    /\ \E found \in Leftovers : disk = [f \in found |-> Old]
    /\ stuck = {} /\ lost = {}
    /\ current = 0 /\ step = 0
    /\ configs = <<>> /\ checked = <<>> /\ errors = {}

VampyrNext ==
    \/ Analyse \/ Analysed \/ RemoveNext \/ Removed \/ Open \/ Flush \/ Written \/ Interrupt
    \/ MakeConfiguration \/ CannotMake \/ Verified \/ Check \/ CannotReport \/ Report

VampyrSpec == VampyrInit /\ [][VampyrNext]_all

\* Sequential programs, the second waiting for the first. A timeout is not assumed.
VampyrFairSpec == VampyrSpec /\ WF_all(VampyrNext)

-----------------------------------------------------------------------------
(* Properties. *)

\* No file of configuration n was kept or lost by an error of the file system.
Intact(n) == \A f \in stuck \cup lost : f[2] # n

\* After a run without interruption the directory shows the configurations of this run and
\* nothing else, and all of them were compiled, in the order of their names as strings. An
\* error of the file system affects the configuration of that number only. (undertaker.cpp
\* removes by three patterns what four programs write under five names.)
DiskIsThisRun ==
    phase = "end" /\ interrupted = "no" =>
      /\ \A f \in DOMAIN disk : Intact(f[2]) => f[2] < Len(ret) /\ disk[f] = f[2] + 1
      /\ \A n \in 0 .. Len(ret) - 1 : Intact(n) =>
           /\ \A k \in Kinds \ {"report"} : File(k, n) \in DOMAIN disk
           /\ File("report", n) \in DOMAIN disk <=> gcc
           /\ gcc => \E i \in DOMAIN checked : checked[i] = [conf |-> n, on |-> ret[n + 1].on]
      /\ \A i, j \in DOMAIN checked : i < j => Earlier(checked[i].conf, checked[j].conf)

\* The configuration whose constructor or report raised the IOError.
Culprit ==
    IF FirstUnverified # {} THEN FirstUnverified
    ELSE {configs[i] : i \in DOMAIN configs \cap {Len(checked) + 1}}

\* The numbers under which an earlier run may have left a .config<n> without its flags.
Orphans ==
    {f[2] : f \in UNION {{g \in found : /\ g[1] = "config"
                                       /\ File("cppflags", g[2]) \notin found} : found \in Leftovers}}

\* vampyr ends with a traceback only about a configuration one of whose own files could not
\* be removed, opened or written, or because undertaker was interrupted while it removed
\* leftovers, or earlier, with a leftover without flags there. An interruption while it
\* writes is survived, since .cppflags<n> exists before .config<n> does.
CrashExplained ==
    phase = "crashed" =>
      \E n \in Culprit :
        \/ ~Intact(n)
        \/ interrupted = "remove"
        \/ interrupted = "analysis" /\ n \in Orphans

\* What gcc says first about a line in a configuration is reported word for word with that
\* configuration, although messages are merged within and across configurations and the
\* equality this rests on is not transitive.
FirstMessageReported ==
    \A i \in DOMAIN checked : \A n \in Given(checked[i].on) :
      (\A k \in Given(checked[i].on) : k < n => Warnings[k].loc # Warnings[n].loc)
        => \E r \in errors :
             r.loc = Warnings[n].loc /\ r.text = Warnings[n].text /\ checked[i].conf \in r.in
===============================================================================
