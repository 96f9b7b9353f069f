------------------------------ MODULE WorkPool ------------------------------
(* What the batch mode of undertaker promises of a worklist, without its     *)
(* processes, pids and counters: every file is started at most once, at most *)
(* Threads files are in progress, and the verdict is given once.             *)
EXTENDS Integers, FiniteSets

CONSTANTS
    Files,      \* the entries of the worklist
    Threads     \* the argument of -t

VARIABLES
    pending,    \* the files not started yet
    active,     \* the files started and not settled
    result,     \* how a settled file ended, "none" before that
    verdict     \* the exit status of the run, "none" before that

poolVars == <<pending, active, result, verdict>>

Outcomes == {"ok", "failed", "signaled"}

PoolInit ==
    /\ pending = Files
    /\ active = {}
    /\ result = [f \in Files |-> "none"]
    /\ verdict = "none"

\* A free slot takes a file.
Start(f) ==
    /\ verdict = "none"
    /\ Cardinality(active) < Threads
    /\ f \in pending
    /\ pending' = pending \ {f}
    /\ active' = active \cup {f}
    /\ UNCHANGED <<result, verdict>>

\* A file's result is taken, once.
Settle(f, o) ==
    /\ verdict = "none"
    /\ f \in active
    /\ active' = active \ {f}
    /\ result' = [result EXCEPT ![f] = o]
    /\ UNCHANGED <<pending, verdict>>

\* Only a run that settled every file can give a verdict of its own; it is a
\* success exactly when no file ended with an exit code.
Conclude ==
    /\ verdict = "none"
    /\ pending = {}
    /\ active = {}
    /\ verdict' = IF \E f \in Files : result[f] = "failed"
                  THEN "failure" ELSE "success"
    /\ UNCHANGED <<pending, active, result>>

\* The run may give up while files are left; it then says failure.
GiveUp ==
    /\ verdict = "none"
    /\ pending # {}
    /\ verdict' = "failure"
    /\ UNCHANGED <<pending, active, result>>

PoolNext ==
    \/ \E f \in Files : Start(f)
    \/ \E f \in Files, o \in Outcomes : Settle(f, o)
    \/ Conclude
    \/ GiveUp

PoolSpec == PoolInit /\ [][PoolNext]_poolVars
=============================================================================
