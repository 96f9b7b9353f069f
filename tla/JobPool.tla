------------------------------- MODULE JobPool -------------------------------
(* The batch mode of undertaker: main() forks one child per worklist entry   *)
(* and wait_for_forked_child() keeps at most Threads of them alive, counts    *)
(* how they ended and lists the files that failed.  The kernel's part (pids,  *)
(* zombies, waitpid) is modelled from how the two functions use it.           *)
EXTENDS Integers, FiniteSets, Functions

CONSTANTS
    NFiles,     \* length of the worklist; the batch branch needs two entries
    Threads,    \* -t, at least 1 after option parsing
    Pids        \* the pids the kernel hands out

ASSUME WorklistAssumption == NFiles \in Nat /\ NFiles > 1
ASSUME ThreadsAssumption == Threads \in Nat \ {0}
ASSUME PidsAssumption == Pids \subseteq Nat \ {0}

Files == 1..NFiles

VARIABLES
    next,       \* main: the index of the next file to fork for
    pc,         \* main: "dispatch", "wait" after a fork, "drain", "done"
    running,    \* running_processes
    args,       \* the map arguments, pid -> file
    stats,      \* process_stats
    child,      \* kernel: the life of each file's child
    pidOf,      \* kernel: the pid each file's child was given
    outcome,    \* kernel: the status each child ended with
    listed,     \* the files printed as "Failed file"
    exit        \* main's exit status

vars == <<next, pc, running, args, stats, child, pidOf, outcome, listed, exit>>

Outcomes == {"ok", "failed", "signaled"}

\* fork() returns 0 only in the child: no child has this pid.
NoPid == 0

Unreaped == {f \in Files : child[f] \in {"running", "zombie"}}

UsedPids == {pidOf[f] : f \in Unreaped}

Ended(o) == {f \in Files : child[f] = "reaped" /\ outcome[f] = o}
-----------------------------------------------------------------------------
Init ==
    /\ next = 1
    /\ pc = "dispatch"
    /\ running = 0
    /\ args = << >>
    /\ stats = [o \in Outcomes |-> 0]
    /\ child = [f \in Files |-> "unborn"]
    /\ pidOf = [f \in Files |-> NoPid]
    /\ outcome = [f \in Files |-> "none"]
    /\ listed = {}
    /\ exit = "none"

\* Mutation of Remember: the file is not passed on and the entry stays null.
RememberNothing(p, f) == [q \in DOMAIN args \cup {p} |-> IF q = p THEN 0 ELSE args[q]]

\* arguments[new_pid] = argument: an entry left by an earlier child that had
\* the same pid is overwritten.
Remember(p, f) == [q \in DOMAIN args \cup {p} |-> IF q = p THEN f ELSE args[q]]

\* The parent's side of fork(): the loop over workfiles calls
\* wait_for_forked_child(pid, threads, file).
Fork(p) ==
    /\ pc = "dispatch"
    /\ next <= NFiles
    /\ p \notin UsedPids
    /\ child' = [child EXCEPT ![next] = "running"]
    /\ pidOf' = [pidOf EXCEPT ![next] = p]
    /\ running' = running + 1
    /\ args' = Remember(p, next)
    /\ next' = next + 1
    /\ pc' = "wait"
    /\ UNCHANGED <<stats, outcome, listed, exit>>

\* fork() returned -1: main leaves at once, whatever is still running.
ForkFails ==
    /\ pc = "dispatch"
    /\ next <= NFiles
    /\ pc' = "done"
    /\ exit' = "failure"
    /\ UNCHANGED <<next, running, args, stats, child, pidOf, outcome, listed>>

\* A child returns EXIT_SUCCESS, calls std::exit(EXIT_FAILURE) (a file that
\* cannot be opened, a timeout) or dies from a signal (an assert, the OOM killer).
ChildEnds(f, o) ==
    /\ child[f] = "running"
    /\ child' = [child EXCEPT ![f] = "zombie"]
    /\ outcome' = [outcome EXCEPT ![f] = o]
    /\ UNCHANGED <<next, pc, running, args, stats, pidOf, listed, exit>>

\* The argument threads of the current call of wait_for_forked_child.
Limit == IF pc = "drain" THEN 0 ELSE Threads

MustWait == pc \in {"wait", "drain"} /\ running >= Limit

\* Mutation of NoChildLeft: waitpid is called with WNOHANG.
NoZombieLeft == \A f \in Files : child[f] # "zombie"

\* waitpid(-1) fails with ECHILD.
NoChildLeft == Unreaped = {}

\* process_stats after the status of f was looked at.
Counted(f) == [stats EXCEPT ![outcome[f]] = @ + 1]

\* Mutations of Forget: the entry is erased for every child, or for none.
ForgetAlways(f) == Restrict(args, DOMAIN args \ {pidOf[f]})
ForgetNever(f) == args

\* Only a child that exited with 0 has its entry erased.
Forget(f) ==
    IF outcome[f] = "ok" THEN Restrict(args, DOMAIN args \ {pidOf[f]}) ELSE args

\* Mutation of RunningLess: a child that died from a signal is not counted down.
RunningLessExited(f) == IF outcome[f] = "signaled" THEN running ELSE running - 1

\* running_processes--, however the child ended.
RunningLess(f) == running - 1

\* waitpid(-1) returned the child of f.
Reap(f) ==
    /\ MustWait
    /\ child[f] = "zombie"
    /\ child' = [child EXCEPT ![f] = "reaped"]
    /\ stats' = Counted(f)
    /\ args' = Forget(f)
    /\ running' = RunningLess(f)
    /\ UNCHANGED <<next, pc, pidOf, outcome, listed, exit>>

\* wait_for_forked_child returns to the loop over workfiles: a slot is free, or
\* waitpid found no child.
WaitReturns ==
    /\ pc = "wait"
    /\ MustWait => NoChildLeft
    /\ pc' = "dispatch"
    /\ UNCHANGED <<next, running, args, stats, child, pidOf, outcome, listed, exit>>

\* The loop over workfiles is over: wait_for_forked_child(0, 0, nullptr, ...).
StartDrain ==
    /\ pc = "dispatch"
    /\ next > NFiles
    /\ pc' = "drain"
    /\ UNCHANGED <<next, running, args, stats, child, pidOf, outcome, listed, exit>>

\* Mutation of Verdict: one success is enough.
VerdictBySuccess == IF stats["ok"] = 0 THEN "failure" ELSE "success"

\* What the last call returns.
Verdict == IF stats["failed"] > 0 THEN "failure" ELSE "success"

\* The last call never leaves its loop by the counter (running >= 0 always
\* holds), only by waitpid's ECHILD; it prints the statistics if threads > 1.
Shutdown ==
    /\ pc = "drain"
    /\ MustWait
    /\ NoChildLeft
    /\ listed' = IF Threads > 1 THEN Range(args) ELSE {}
    /\ exit' = Verdict
    /\ pc' = "done"
    /\ UNCHANGED <<next, running, args, stats, child, pidOf, outcome>>

\* main has returned; children it left behind may still run.
Terminated ==
    /\ pc = "done"
    /\ UNCHANGED vars

Parent ==
    \/ \E p \in Pids : Fork(p)
    \/ ForkFails
    \/ \E f \in Files : Reap(f)
    \/ WaitReturns
    \/ StartDrain
    \/ Shutdown

Next ==
    \/ Parent
    \/ \E f \in Files, o \in Outcomes : ChildEnds(f, o)
    \/ Terminated

Spec == Init /\ [][Next]_vars

\* The parent is scheduled; every job ends (the jobs with a thread by their
\* try_join_for, the others because they are loops over a finite file).
FairSpec ==
    /\ Spec
    /\ WF_vars(Parent)
    /\ \A f \in Files : WF_vars(\E o \in Outcomes : ChildEnds(f, o))
-----------------------------------------------------------------------------
TypeOK ==
    /\ next \in 1..(NFiles + 1)
    /\ pc \in {"dispatch", "wait", "drain", "done"}
    /\ running \in 0..NFiles
    /\ DOMAIN args \subseteq Pids
    /\ \A p \in DOMAIN args : args[p] \in Files
    /\ stats \in [Outcomes -> 0..NFiles]
    /\ child \in [Files -> {"unborn", "running", "zombie", "reaped"}]
    /\ pidOf \in [Files -> Pids \cup {NoPid}]
    /\ outcome \in [Files -> Outcomes \cup {"none"}]
    /\ listed \subseteq Files
    /\ exit \in {"none", "success", "failure"}

\* -t bounds the children alive or waiting to be reaped, and the counter the
\* bound is kept by never drifts from the kernel's count.
BoundedParallelism ==
    /\ running = Cardinality(Unreaped)
    /\ running <= Threads

\* The three numbers printed at shutdown count each reaped child once, under
\* the way it really ended.
StatsExact == \A o \in Outcomes : stats[o] = Cardinality(Ended(o))

\* A file that failed is still in the map, unless the kernel gave its pid to a
\* later file: then the later file's entry replaced it.  A child that was not
\* reaped is always found under its pid, so the error message names its file.
LostOnlyByReuse ==
    \A f \in Files :
        /\ child[f] \in {"running", "zombie"} =>
               pidOf[f] \in DOMAIN args /\ args[pidOf[f]] = f
        /\ child[f] = "reaped" /\ outcome[f] # "ok" =>
               \/ pidOf[f] \in DOMAIN args /\ args[pidOf[f]] = f
               \/ \E g \in Files : g > f /\ pidOf[g] = pidOf[f]

\* No file that was processed successfully is printed as a failed one.
ListedFailed == \A f \in listed : outcome[f] \in {"failed", "signaled"}

\* The run ends, whatever the children do as long as each of them ends, and it
\* ends with every child reaped unless a fork failed.
RunEnds == <>(pc = "done" /\ (exit = "success" => Unreaped = {}))

\* wait_for_forked_child and main's loop implement the abstract pool: an active
\* file is one whose child was not reaped.
Pool ==
    INSTANCE WorkPool WITH
        pending <- {f \in Files : child[f] = "unborn"},
        active <- Unreaped,
        result <- [f \in Files |-> IF child[f] = "reaped" THEN outcome[f] ELSE "none"],
        verdict <- exit

ImplementsPool == Pool!PoolSpec
=============================================================================
