---------------------------- MODULE JobPoolProofs ----------------------------
(* Proofs about JobPool, and about DeadRun on top of it, for every length of  *)
(* the worklist, every number of processes and every set of pids.             *)
EXTENDS DeadRun, FiniteSetTheorems, TLAPS

\* What the kernel and the loop agree on, whatever the counters say.
Lives ==
    /\ \A f \in Files : child[f] = "unborn" <=> f >= next
    /\ \A f \in Files : pidOf[f] = NoPid <=> child[f] = "unborn"
    /\ \A f \in Files : child[f] \in {"unborn", "running"} <=> outcome[f] = "none"
    /\ \A f, g \in Unreaped : pidOf[f] = pidOf[g] => f = g

\* The control of main: where it may be relative to the worklist and the limit.
Control ==
    /\ pc = "dispatch" => running < Threads
    /\ pc = "drain" => next = NFiles + 1
    /\ pc = "done" <=> exit # "none"
    /\ exit = "success" => Unreaped = {} /\ next = NFiles + 1

\* An entry of the map belongs to a child with that pid that was not seen to
\* succeed.
Entries ==
    \A p \in DOMAIN args :
        /\ pidOf[args[p]] = p
        /\ child[args[p]] = "reaped" => outcome[args[p]] # "ok"
        /\ child[args[p]] # "unborn"

\* The inductive invariant: the properties of JobPool and the three facts above.
IInv ==
    /\ TypeOK
    /\ Lives
    /\ Control
    /\ Entries
    /\ BoundedParallelism
    /\ StatsExact
    /\ LostOnlyByReuse
    /\ ListedFailed
-----------------------------------------------------------------------------
LEMMA FilesFinite == IsFiniteSet(Files) /\ Cardinality(Files) = NFiles
  BY FS_Interval, WorklistAssumption DEF Files

LEMMA SubsetOfFiles ==
  ASSUME NEW S \in SUBSET Files
  PROVE  IsFiniteSet(S) /\ Cardinality(S) \in 0..NFiles
<1>1. IsFiniteSet(S) /\ Cardinality(S) <= NFiles
  BY FilesFinite, FS_Subset
<1>2. Cardinality(S) \in Nat
  BY <1>1, FS_CardinalityType
<1>. QED
  BY <1>1, <1>2, WorklistAssumption

\* What fork() and a reap do to the sets the counters are about.
LEMMA ForkSets ==
  ASSUME TypeOK, Lives, NEW p \in Pids, Fork(p)
  PROVE  /\ next \in Files /\ next \notin Unreaped
         /\ Unreaped' = Unreaped \cup {next}
         /\ \A o \in Outcomes : Ended(o)' = Ended(o)
<1>1. next \in Files
  BY WorklistAssumption DEF TypeOK, Fork, Files
<1>2. child[next] = "unborn"
  BY <1>1, WorklistAssumption DEF TypeOK, Lives, Files
<1>. QED
  BY <1>1, <1>2 DEF TypeOK, Fork, Unreaped, Ended

LEMMA ReapSets ==
  ASSUME TypeOK, Lives, NEW f \in Files, Reap(f)
  PROVE  /\ f \in Unreaped /\ outcome[f] \in Outcomes
         /\ Unreaped' = Unreaped \ {f}
         /\ f \notin Ended(outcome[f])
         /\ \A o \in Outcomes :
                Ended(o)' = IF o = outcome[f] THEN Ended(o) \cup {f} ELSE Ended(o)
<1>1. f \in Unreaped /\ outcome[f] \in Outcomes /\ f \notin Ended(outcome[f])
  BY DEF TypeOK, Lives, Reap, RunningLess, Unreaped, Ended
<1>. QED
  BY <1>1 DEF TypeOK, Reap, RunningLess, Unreaped, Ended

LEMMA ChildEndsSets ==
  ASSUME TypeOK, NEW f \in Files, NEW o \in Outcomes, ChildEnds(f, o)
  PROVE  Unreaped' = Unreaped /\ \A q \in Outcomes : Ended(q)' = Ended(q)
  BY DEF TypeOK, ChildEnds, Unreaped, Ended

LEMMA SameSets ==
  ASSUME UNCHANGED <<child, outcome>>
  PROVE  Unreaped' = Unreaped /\ \A o \in Outcomes : Ended(o)' = Ended(o)
  BY DEF Unreaped, Ended
-----------------------------------------------------------------------------
LEMMA InitIInv == Init => IInv
<1>. SUFFICES ASSUME Init PROVE IInv
  OBVIOUS
<1>1. Unreaped = {} /\ \A o \in Outcomes : Ended(o) = {}
  BY DEF Init, Unreaped, Ended
<1>2. TypeOK
  BY WorklistAssumption DEF Init, TypeOK
<1>3. Lives /\ Entries /\ LostOnlyByReuse /\ ListedFailed
  BY <1>1, WorklistAssumption
  DEF Init, Lives, Entries, LostOnlyByReuse, ListedFailed, Files, Outcomes
<1>4. Control /\ BoundedParallelism /\ StatsExact
  BY <1>1, FS_EmptySet, ThreadsAssumption, WorklistAssumption
  DEF Init, Control, BoundedParallelism, StatsExact
<1>. QED
  BY <1>2, <1>3, <1>4 DEF IInv

LEMMA ForkIInv ==
  ASSUME IInv, NEW p \in Pids, Fork(p)
  PROVE  IInv'
<1>. USE DEF IInv
<1>1. /\ next \in Files /\ next \notin Unreaped
      /\ Unreaped' = Unreaped \cup {next}
      /\ \A o \in Outcomes : Ended(o)' = Ended(o)
  BY ForkSets
<1>2. child[next] = "unborn"
  BY <1>1, WorklistAssumption DEF TypeOK, Lives, Files
<1>3. BoundedParallelism' /\ StatsExact' /\ running' \in 0..NFiles
  <2>1. Cardinality(Unreaped') = Cardinality(Unreaped) + 1
    BY <1>1, FS_AddElement, SubsetOfFiles DEF Unreaped
  <2>2. Cardinality(Unreaped') \in 0..NFiles
    BY SubsetOfFiles, <1>1 DEF Unreaped
  <2>. QED
    BY <1>1, <2>1, <2>2, ThreadsAssumption
    DEF Fork, Control, TypeOK, BoundedParallelism, StatsExact
<1>4. TypeOK'
  BY <1>1, <1>3, WorklistAssumption DEF TypeOK, Fork, Remember, Files
<1>5. \A f \in Unreaped : pidOf[f] # p
  BY DEF Fork, UsedPids
<1>6. Lives'
  BY <1>1, <1>2, <1>5, WorklistAssumption, PidsAssumption
  DEF TypeOK, Fork, Lives, Files, NoPid
<1>7. Control'
  BY DEF Fork, Control, TypeOK
<1>8. \A f \in Files \ {next} :
        child'[f] = child[f] /\ pidOf'[f] = pidOf[f] /\ outcome'[f] = outcome[f]
  BY DEF Fork, TypeOK
<1>9. pidOf'[next] = p /\ child'[next] = "running"
  BY <1>1 DEF Fork, TypeOK
<1>10. \A q \in DOMAIN args' :
         args'[q] = IF q = p THEN next ELSE args[q]
  BY DEF Fork, Remember
<1>11. DOMAIN args' = DOMAIN args \cup {p}
  BY DEF Fork, Remember
<1>12. Entries'
  BY <1>2, <1>8, <1>9, <1>10, <1>11 DEF Entries, TypeOK
<1>13. LostOnlyByReuse'
  <2>. SUFFICES ASSUME NEW f \in Files
       PROVE  /\ child'[f] \in {"running", "zombie"} =>
                    pidOf'[f] \in DOMAIN args' /\ args'[pidOf'[f]] = f
              /\ child'[f] = "reaped" /\ outcome'[f] # "ok" =>
                    \/ pidOf'[f] \in DOMAIN args' /\ args'[pidOf'[f]] = f
                    \/ \E g \in Files : g > f /\ pidOf'[g] = pidOf'[f]
    BY DEF LostOnlyByReuse
  <2>1. CASE f = next
    BY <2>1, <1>9, <1>10, <1>11
  <2>2. CASE f # next /\ child[f] \in {"running", "zombie"}
    BY <2>2, <1>5, <1>8, <1>10, <1>11 DEF LostOnlyByReuse, Unreaped
  <2>3. CASE f # next /\ child[f] = "reaped" /\ outcome[f] # "ok"
    <3>1. next > f
      BY <2>3, <1>1 DEF Lives, TypeOK, Files
    <3>2. CASE pidOf[f] = p
      BY <2>3, <3>1, <3>2, <1>1, <1>8, <1>9
    <3>3. CASE pidOf[f] # p /\ pidOf[f] \in DOMAIN args /\ args[pidOf[f]] = f
      BY <2>3, <3>3, <1>8, <1>10, <1>11
    <3>4. ASSUME NEW g \in Files, g > f, pidOf[g] = pidOf[f]
          PROVE  \E h \in Files : h > f /\ pidOf'[h] = pidOf'[f]
      <4>1. CASE g = next
        BY <4>1, <3>4, <1>1, <1>2, <2>3 DEF Lives
      <4>2. CASE g # next
        BY <4>2, <3>4, <2>3, <1>8
      <4>. QED BY <4>1, <4>2
    <3>. QED
      BY <2>3, <3>2, <3>3, <3>4, <1>8 DEF LostOnlyByReuse
  <2>. QED
    BY <2>1, <2>2, <2>3, <1>8
<1>14. ListedFailed'
  BY DEF Fork, ListedFailed
<1>. QED
  BY <1>3, <1>4, <1>6, <1>7, <1>12, <1>13, <1>14

LEMMA ForkFailsIInv ==
  ASSUME IInv, ForkFails
  PROVE  IInv'
<1>. USE DEF IInv
<1>1. Unreaped' = Unreaped /\ \A o \in Outcomes : Ended(o)' = Ended(o)
  BY SameSets DEF ForkFails
<1>2. TypeOK' /\ Lives' /\ Control' /\ Entries'
  BY <1>1 DEF ForkFails, TypeOK, Lives, Control, Entries
<1>3. BoundedParallelism' /\ StatsExact' /\ LostOnlyByReuse' /\ ListedFailed'
  BY <1>1 DEF ForkFails, BoundedParallelism, StatsExact, LostOnlyByReuse, ListedFailed
<1>. QED
  BY <1>2, <1>3

LEMMA ChildEndsIInv ==
  ASSUME IInv, NEW f \in Files, NEW o \in Outcomes, ChildEnds(f, o)
  PROVE  IInv'
<1>. USE DEF IInv
<1>1. Unreaped' = Unreaped /\ \A q \in Outcomes : Ended(q)' = Ended(q)
  BY ChildEndsSets
<1>2. TypeOK'
  BY DEF TypeOK, ChildEnds
<1>3. Lives' /\ Control'
  BY <1>1 DEF TypeOK, ChildEnds, Lives, Control, Outcomes
<1>4. Entries'
  BY DEF TypeOK, ChildEnds, Entries
<1>5. BoundedParallelism' /\ StatsExact'
  BY <1>1 DEF ChildEnds, BoundedParallelism, StatsExact
<1>6. LostOnlyByReuse'
  BY DEF TypeOK, ChildEnds, LostOnlyByReuse
<1>7. ListedFailed'
  BY DEF TypeOK, ChildEnds, ListedFailed, Lives
<1>. QED
  BY <1>2, <1>3, <1>4, <1>5, <1>6, <1>7

LEMMA ReapIInv ==
  ASSUME IInv, NEW f \in Files, Reap(f)
  PROVE  IInv'
<1>. USE DEF IInv
<1>1. /\ f \in Unreaped /\ outcome[f] \in Outcomes
      /\ Unreaped' = Unreaped \ {f}
      /\ f \notin Ended(outcome[f])
      /\ \A o \in Outcomes :
             Ended(o)' = IF o = outcome[f] THEN Ended(o) \cup {f} ELSE Ended(o)
  BY ReapSets
<1>2. BoundedParallelism' /\ running' \in 0..NFiles
  <2>1. Cardinality(Unreaped') = Cardinality(Unreaped) - 1
    BY <1>1, FS_RemoveElement, SubsetOfFiles DEF Unreaped
  <2>2. Cardinality(Unreaped') \in 0..NFiles
    BY SubsetOfFiles, <1>1 DEF Unreaped
  <2>. QED
    BY <2>1, <2>2, ThreadsAssumption DEF Reap, RunningLess, TypeOK, BoundedParallelism
<1>3. StatsExact' /\ stats' \in [Outcomes -> 0..NFiles]
  <2>1. \A o \in Outcomes : IsFiniteSet(Ended(o)) /\ Cardinality(Ended(o)) \in 0..NFiles
    <3>1. \A o \in Outcomes : Ended(o) \in SUBSET Files
      BY DEF Ended
    <3>. QED
      BY <3>1, SubsetOfFiles
  <2>2. \A o \in Outcomes : Ended(o)' \in SUBSET Files
    BY <1>1 DEF Ended
  <2>3. \A o \in Outcomes : Cardinality(Ended(o)') \in 0..NFiles
    BY <2>2, SubsetOfFiles
  <2>4. Cardinality(Ended(outcome[f]) \cup {f}) = Cardinality(Ended(outcome[f])) + 1
    BY <1>1, <2>1, FS_AddElement
  <2>5. \A o \in Outcomes :
          stats'[o] = IF o = outcome[f] THEN stats[o] + 1 ELSE stats[o]
    BY <1>1 DEF Reap, RunningLess, Counted, TypeOK
  <2>6. StatsExact'
    BY <1>1, <2>1, <2>4, <2>5 DEF StatsExact
  <2>7. stats' = [stats EXCEPT ![outcome[f]] = @ + 1]
    BY DEF Reap, RunningLess, Counted
  <2>. QED
    BY ZenonT(30), <2>3, <2>6, <2>7 DEF TypeOK, StatsExact
<1>4. TypeOK'
  BY <1>2, <1>3 DEF TypeOK, Reap, RunningLess, Forget, Restrict
<1>5. \A g \in Files \ {f} : child'[g] = child[g]
  BY DEF Reap, RunningLess, TypeOK
<1>6. child'[f] = "reaped" /\ child[f] = "zombie" /\ UNCHANGED <<pidOf, outcome>>
  BY DEF Reap, RunningLess, TypeOK
<1>7. Lives' /\ Control'
  BY <1>1, <1>5, <1>6 DEF Reap, RunningLess, MustWait, Lives, Control, TypeOK, Unreaped
<1>8. /\ DOMAIN args' = IF outcome[f] = "ok" THEN DOMAIN args \ {pidOf[f]} ELSE DOMAIN args
      /\ \A p \in DOMAIN args' : args'[p] = args[p]
  BY DEF Reap, RunningLess, Forget, Restrict
<1>9. Entries'
  BY <1>5, <1>6, <1>8 DEF Entries, TypeOK
<1>10. pidOf[f] \in DOMAIN args /\ args[pidOf[f]] = f
  BY <1>6 DEF LostOnlyByReuse
<1>11. LostOnlyByReuse'
  <2>. SUFFICES ASSUME NEW g \in Files
       PROVE  /\ child'[g] \in {"running", "zombie"} =>
                    pidOf[g] \in DOMAIN args' /\ args'[pidOf[g]] = g
              /\ child'[g] = "reaped" /\ outcome[g] # "ok" =>
                    \/ pidOf[g] \in DOMAIN args' /\ args'[pidOf[g]] = g
                    \/ \E h \in Files : h > g /\ pidOf[h] = pidOf[g]
    BY <1>6 DEF LostOnlyByReuse
  <2>1. CASE g = f
    BY <2>1, <1>6, <1>8, <1>10
  <2>2. CASE g # f
    BY <2>2, <1>5, <1>8, <1>10 DEF LostOnlyByReuse
  <2>. QED
    BY <2>1, <2>2
<1>12. ListedFailed'
  BY DEF Reap, RunningLess, ListedFailed
<1>. QED
  BY <1>2, <1>3, <1>4, <1>7, <1>9, <1>11, <1>12

LEMMA LoopIInv ==
  ASSUME IInv, WaitReturns \/ StartDrain \/ Terminated
  PROVE  IInv'
<1>. USE DEF IInv
<1>1. UNCHANGED <<next, running, args, stats, child, pidOf, outcome, listed, exit>>
  BY DEF WaitReturns, StartDrain, Terminated, vars
<1>2. Unreaped' = Unreaped /\ \A o \in Outcomes : Ended(o)' = Ended(o)
  BY <1>1, SameSets
<1>3. TypeOK' /\ Lives' /\ Entries'
  BY <1>1, <1>2
  DEF TypeOK, Lives, Entries, WaitReturns, StartDrain, Terminated, vars
<1>4. BoundedParallelism' /\ StatsExact' /\ LostOnlyByReuse' /\ ListedFailed'
  BY <1>1, <1>2 DEF BoundedParallelism, StatsExact, LostOnlyByReuse, ListedFailed
<1>5. Control'
  <2>1. CASE WaitReturns
    <3>1. Unreaped = {} => running = 0
      BY FS_EmptySet DEF BoundedParallelism
    <3>2. running < Threads
      BY <2>1, <3>1, ThreadsAssumption DEF WaitReturns, MustWait, NoChildLeft, Limit, TypeOK
    <3>. QED
      BY <2>1, <1>1, <1>2, <3>2 DEF Control, WaitReturns
  <2>2. CASE StartDrain
    BY <2>2, <1>1, <1>2, WorklistAssumption DEF Control, StartDrain, TypeOK
  <2>3. CASE Terminated
    BY <2>3, <1>2 DEF Control, Terminated, vars
  <2>. QED
    BY <2>1, <2>2, <2>3
<1>. QED
  BY <1>3, <1>4, <1>5

LEMMA ShutdownIInv ==
  ASSUME IInv, Shutdown
  PROVE  IInv'
<1>. USE DEF IInv
<1>1. UNCHANGED <<next, running, args, stats, child, pidOf, outcome>>
  BY DEF Shutdown
<1>2. Unreaped' = Unreaped /\ \A o \in Outcomes : Ended(o)' = Ended(o)
  BY <1>1, SameSets
<1>3. \A p \in DOMAIN args : outcome[args[p]] \in {"failed", "signaled"}
  <2>. SUFFICES ASSUME NEW p \in DOMAIN args
       PROVE  outcome[args[p]] \in {"failed", "signaled"}
    OBVIOUS
  <2>1. args[p] \in Files /\ child[args[p]] = "reaped"
    BY DEF Shutdown, NoChildLeft, Unreaped, Entries, TypeOK
  <2>. QED
    BY <2>1 DEF Entries, TypeOK, Lives, Outcomes
<1>4. listed' \subseteq Files /\ ListedFailed'
  BY <1>1, <1>3 DEF Shutdown, ListedFailed, Range, TypeOK
<1>5. TypeOK' /\ Lives' /\ Control' /\ Entries'
  BY <1>1, <1>2, <1>4
  DEF Shutdown, NoChildLeft, Verdict, TypeOK, Lives, Control, Entries
<1>6. BoundedParallelism' /\ StatsExact' /\ LostOnlyByReuse'
  BY <1>1, <1>2 DEF BoundedParallelism, StatsExact, LostOnlyByReuse
<1>. QED
  BY <1>4, <1>5, <1>6

LEMMA StutterIInv ==
  ASSUME IInv, UNCHANGED vars
  PROVE  IInv'
<1>1. Unreaped' = Unreaped /\ \A o \in Outcomes : Ended(o)' = Ended(o)
  BY SameSets DEF vars
<1>. QED
  BY <1>1
  DEF IInv, vars, TypeOK, Lives, Control, Entries, BoundedParallelism,
      StatsExact, LostOnlyByReuse, ListedFailed
-----------------------------------------------------------------------------
\* The inductive invariant holds of every run of the batch mode.
THEOREM Invariance == Spec => []IInv
<1>1. IInv /\ [Next]_vars => IInv'
  <2>. SUFFICES ASSUME IInv, [Next]_vars PROVE IInv'
    OBVIOUS
  <2>1. CASE \E p \in Pids : Fork(p)
    BY <2>1, ForkIInv
  <2>2. CASE ForkFails
    BY <2>2, ForkFailsIInv
  <2>3. CASE \E f \in Files : Reap(f)
    BY <2>3, ReapIInv
  <2>4. CASE WaitReturns \/ StartDrain \/ Terminated
    BY <2>4, LoopIInv
  <2>5. CASE Shutdown
    BY <2>5, ShutdownIInv
  <2>6. CASE \E f \in Files, o \in Outcomes : ChildEnds(f, o)
    BY <2>6, ChildEndsIInv
  <2>7. CASE UNCHANGED vars
    BY <2>7, StutterIInv
  <2>. QED
    BY <2>1, <2>2, <2>3, <2>4, <2>5, <2>6, <2>7 DEF Next, Parent
<1>. QED
  BY InitIInv, <1>1, PTL DEF Spec

\* The option -t bounds the children, and process_stats counts what happened:
\* for every worklist, number of processes and set of pids.
THEOREM CountersExact == Spec => [](BoundedParallelism /\ StatsExact)
  BY Invariance, PTL DEF IInv

\* A failed file leaves the list of failed files only when its pid comes back,
\* and nothing else gets on that list.
THEOREM FailedFilesKept == Spec => [](LostOnlyByReuse /\ ListedFailed)
  BY Invariance, PTL DEF IInv
-----------------------------------------------------------------------------
\* wait_for_forked_child and main's loop implement the abstract pool: each of
\* their steps starts a file in a free slot, settles one, concludes, gives up,
\* or changes nothing the pool can see.
THEOREM PoolImplemented == Spec => ImplementsPool
<1>. DEFINE Res == [f \in Files |-> IF child[f] = "reaped" THEN outcome[f] ELSE "none"]
            Pend == {f \in Files : child[f] = "unborn"}
<1>1. Init => Pool!PoolInit
  BY DEF Init, Pool!PoolInit, Unreaped
<1>2. IInv /\ [Next]_vars => [Pool!PoolNext]_(Pool!poolVars)
  <2>. SUFFICES ASSUME IInv, [Next]_vars
       PROVE  Pool!PoolNext \/ UNCHANGED <<Pend, Unreaped, Res, exit>>
    BY DEF Pool!poolVars
  <2>. USE DEF IInv
  <2>1. ASSUME NEW p \in Pids, Fork(p)
        PROVE  Pool!PoolNext
    <3>1. /\ next \in Files /\ next \notin Unreaped
          /\ Unreaped' = Unreaped \cup {next}
      BY <2>1, ForkSets
    <3>2. child[next] = "unborn"
      BY <3>1, WorklistAssumption DEF TypeOK, Lives, Files
    <3>3. Cardinality(Unreaped) < Threads /\ exit = "none"
      BY <2>1 DEF Fork, Control, BoundedParallelism
    <3>4. child' = [child EXCEPT ![next] = "running"] /\ UNCHANGED outcome
      BY <2>1 DEF Fork
    <3>5. Pend' = Pend \ {next}
      BY <3>1, <3>2, <3>4 DEF TypeOK
    <3>6. Res' = Res
      BY <3>1, <3>2, <3>4 DEF TypeOK
    <3>7. Pool!Cardinality(Unreaped) = Cardinality(Unreaped)
      BY DEF Pool!Cardinality, Cardinality, Pool!IsFiniteSet, IsFiniteSet
    <3>. QED
      BY <2>1, <3>1, <3>2, <3>3, <3>5, <3>6, <3>7 DEF Pool!PoolNext, Pool!Start, Fork
  <2>2. ASSUME NEW f \in Files, Reap(f)
        PROVE  Pool!PoolNext
    <3>1. f \in Unreaped /\ outcome[f] \in Outcomes /\ Unreaped' = Unreaped \ {f}
      BY <2>2, ReapSets
    <3>2. Pend' = Pend /\ Res' = [Res EXCEPT ![f] = outcome[f]]
      BY <2>2 DEF Reap, RunningLess, TypeOK
    <3>. QED
      BY <2>2, <3>1, <3>2
      DEF Pool!PoolNext, Pool!Settle, Pool!Outcomes, Outcomes, Reap, RunningLess, MustWait, Control
  <2>3. ASSUME ForkFails
        PROVE  Pool!GiveUp
    <3>1. next \in Pend
      BY <2>3, WorklistAssumption DEF ForkFails, TypeOK, Lives, Files
    <3>. QED
      BY <2>3, <3>1 DEF ForkFails, Control, Pool!GiveUp, Unreaped
  <2>4. ASSUME Shutdown
        PROVE  Pool!Conclude
    <3>1. Pend = {} /\ exit = "none"
      BY <2>4, WorklistAssumption DEF Shutdown, Control, Lives, TypeOK, Files
    <3>2. stats["failed"] > 0 <=> Ended("failed") # {}
      <4>1. Ended("failed") \in SUBSET Files /\ "failed" \in Outcomes
        BY DEF Ended, Outcomes
      <4>2. IsFiniteSet(Ended("failed")) /\ Cardinality(Ended("failed")) \in Nat
        BY <4>1, SubsetOfFiles
      <4>. QED
        BY <4>1, <4>2, FS_EmptySet DEF StatsExact
    <3>3. Ended("failed") # {} <=> \E f \in Files : Res[f] = "failed"
      BY DEF Ended
    <3>4. UNCHANGED <<Pend, Unreaped, Res>>
      BY <2>4 DEF Shutdown, Unreaped
    <3>. QED
      BY <2>4, <3>1, <3>2, <3>3, <3>4 DEF Shutdown, NoChildLeft, Verdict, Pool!Conclude
  <2>5. ASSUME NEW f \in Files, NEW o \in Outcomes, ChildEnds(f, o)
        PROVE  UNCHANGED <<Pend, Unreaped, Res, exit>>
    <3>1. Unreaped' = Unreaped
      BY <2>5, ChildEndsSets
    <3>. QED
      BY <2>5, <3>1 DEF ChildEnds, TypeOK
  <2>6. CASE WaitReturns \/ StartDrain \/ Terminated \/ UNCHANGED vars
    BY <2>6 DEF WaitReturns, StartDrain, Terminated, vars, Unreaped
  <2>7. CASE ForkFails \/ Shutdown
    BY <2>7, <2>3, <2>4 DEF Pool!PoolNext
  <2>. QED
    BY <2>1, <2>2, <2>5, <2>6, <2>7 DEF Next, Parent
<1>. QED
  BY <1>1, <1>2, Invariance, PTL DEF Spec, ImplementsPool, Pool!PoolSpec
-----------------------------------------------------------------------------
(* The dead run on the pool (DeadRun).                                        *)

\* What is known of the report n of f: an old one is still to be removed or was
\* logged, a new one belongs to this run, and where no other worker removes
\* anything, what f got past is there.
Settled(f, n) ==
    /\ step[f] \in {"glob", "unlink"} => disk[n] # "new"
    /\ step[f] = "unlink" /\ disk[n] = "old" => n \in globbed[f] \cup logged
    /\ step[f] = "analyse" /\ disk[n] = "old" => n \in logged
    /\ disk[n] = "new" => n \in ReportOf(f, n[2])
    /\ step[f] = "analyse" /\ Alone(f) /\ n \in ReportOf(f, n[2]) /\ n[2] < at[f] =>
           n \in logged \/ disk[n] = "new"

\* How far the worker of f got.
Worked(f) ==
    /\ step[f] \in {"glob", "unlink"} => at[f] = 1
    /\ outcome[f] = "ok" => step[f] = "analyse" /\ at[f] > Candidates[f]
    /\ \A n \in globbed[f] : n \in ReportNames /\ <<f, n[1]>> \in ExtensionOf
    /\ \A n \in Reports(f) : Settled(f, n)

\* The shape of the worker's state and, of the pool's, that a child that ended
\* does not run.
WorkTyped ==
    /\ disk \in [Names -> {"none", "old", "new"}]
    /\ step \in [Files -> {"glob", "unlink", "analyse"}]
    /\ globbed \in [Files -> SUBSET Names]
    /\ at \in [Files -> Nat]
    /\ DOMAIN child = Files
    /\ \A f \in Files : child[f] = "running" => outcome[f] = "none"
    /\ outcome \in [Files -> Outcomes \cup {"none"}]

DiskInv == WorkTyped /\ \A f \in Files : Worked(f)

LEMMA ReportsOf ==
  /\ \A f \in Files : \A n \in Reports(f) :
        n \in Names /\ n \in ReportNames /\ n[1] = f /\ n[2] \in Blocks(f)
  /\ \A n \in ReportNames : n[1] \in Files /\ n \in Reports(n[1]) /\ n \in Names
  BY DEF Names, ReportNames, Reports

\* What a block writes belongs to its file.
LEMMA WritesOwn ==
  ASSUME NEW f \in Files, NEW b
  PROVE  /\ \A n \in ReportOf(f, b) \cup MusOf(f, b) : n[1] = f
         /\ \A n \in ReportOf(f, b) : n[2] = b
         /\ \A g \in Files : \A n \in Reports(g) : n \notin MusOf(f, b)
<1>1. \A n \in ReportOf(f, b) : n[1] = f /\ n[2] = b BY DEF ReportOf, Reports
<1>2. \A n \in MusOf(f, b) : n[1] = f /\ n[4] = "mus" BY DEF MusOf, MusFiles
<1>3. \A g \in Files : \A n \in Reports(g) : n[4] = "report" BY DEF Reports
<1>. QED BY <1>1, <1>2, <1>3

\* Every step of a worker is a child's end or a stutter of the pool, so a dead run is
\* a run of the pool.
LEMMA DeadRunIsPool == DeadSpec => Spec
<1>1. DeadInit => Init BY DEF DeadInit
<1>2. [DeadNext]_<<vars, workVars>> => [Next]_vars
  BY DEF DeadNext, Worker, Glob, Unlink, Cleaned, ProcessBlock, WorkerEnds, Next
<1>. QED BY <1>1, <1>2, PTL DEF DeadSpec, Spec

LEMMA InitDisk == DeadInit => DiskInv
<1>. SUFFICES ASSUME DeadInit PROVE DiskInv OBVIOUS
<1>1. WorkTyped BY DEF DeadInit, Init, WorkTyped
<1>2. \A f \in Files : \A n \in Reports(f) : Settled(f, n)
  BY ReportsOf DEF DeadInit, Settled
<1>3. \A f \in Files : Worked(f) BY <1>2 DEF DeadInit, Init, Worked
<1>. QED BY <1>1, <1>3 DEF DiskInv

\* The worker of one file disturbs what is known of another only by removing one of
\* its reports, or trying to, and then the other is not alone.
LEMMA OtherFiles ==
  ASSUME DiskInv, NEW f \in Files, NEW g \in Files, g # f,
         step'[g] = step[g], at'[g] = at[g], globbed'[g] = globbed[g],
         found' = found, outcome'[g] = outcome[g], logged \subseteq logged',
         \A n \in Reports(g) :
             \/ disk'[n] = disk[n]
             \/ disk'[n] = "none" /\ ~Alone(g)
  PROVE  Worked(g)'
<1>1. ReportOf(g, 0)' = ReportOf(g, 0) /\ \A n : ReportOf(g, n[2])' = ReportOf(g, n[2])
  BY DEF ReportOf
<1>2. \A n \in Reports(g) : Settled(g, n) BY DEF DiskInv, Worked
<1>3. ASSUME NEW n \in Reports(g) PROVE Settled(g, n)'
  <2>1. CASE disk'[n] = disk[n] BY <1>1, <1>2, <1>3, <2>1 DEF Settled
  <2>2. CASE disk'[n] = "none" /\ ~Alone(g) BY <1>1, <1>2, <1>3, <2>2 DEF Settled, Alone
  <2>. QED BY <1>3, <2>1, <2>2
<1>. QED BY <1>3 DEF DiskInv, Worked

\* A step of the parent is none of a worker's.
LEMMA ParentDisk ==
  ASSUME IInv, DiskInv, ((Parent \/ Terminated) /\ UNCHANGED workVars) \/ UNCHANGED <<vars, workVars>>
  PROVE  DiskInv'
<1>1. UNCHANGED workVars /\ outcome' = outcome
  BY DEF Parent, Terminated, Fork, ForkFails, Reap, WaitReturns, StartDrain, Shutdown, vars
<1>2. \A f \in Files : child'[f] = "running" => outcome'[f] = "none"
  <2>1. CASE \E p \in Pids : Fork(p)
    <3>1. child' = [child EXCEPT ![next] = "running"] /\ child[next] = "unborn" /\ next \in Files
      BY <2>1, WorklistAssumption DEF Fork, IInv, TypeOK, Lives, Files
    <3>. QED BY <1>1, <3>1 DEF IInv, Lives, TypeOK
  <2>2. CASE \E f \in Files : Reap(f)
    BY <1>1, <2>2 DEF Reap, IInv, Lives, TypeOK
  <2>3. CASE child' = child
    BY <1>1, <2>3 DEF IInv, Lives
  <2>. QED
    BY <2>1, <2>2, <2>3 DEF Parent, Terminated, ForkFails, WaitReturns, StartDrain, Shutdown, vars
<1>5. DOMAIN child' = DOMAIN child
  BY DEF Parent, Terminated, Fork, ForkFails, Reap, WaitReturns, StartDrain, Shutdown, vars
<1>3. WorkTyped' BY <1>1, <1>2, <1>5 DEF DiskInv, WorkTyped, workVars
<1>4. \A f \in Files : Worked(f)'
  BY <1>1 DEF DiskInv, Worked, Settled, ReportOf, Alone, workVars
<1>. QED BY <1>3, <1>4 DEF DiskInv

LEMMA GlobDisk ==
  ASSUME DiskInv, NEW f \in Files, Glob(f)
  PROVE  DiskInv'
<1>1. UNCHANGED <<child, outcome, found, disk, at, logged>> /\ step[f] = "glob"
  BY DEF Glob, vars
<1>2. globbed' = [globbed EXCEPT ![f] = Matching(f)] /\ step' = [step EXCEPT ![f] = "unlink"]
  BY DEF Glob
<1>3. Matching(f) \in SUBSET Names BY ReportsOf DEF Matching
<1>4. WorkTyped' BY <1>1, <1>2, <1>3 DEF DiskInv, WorkTyped
<1>5. globbed'[f] = Matching(f) /\ step'[f] = "unlink"
  BY <1>2 DEF DiskInv, WorkTyped
<1>6. ASSUME NEW n \in Reports(f) PROVE Settled(f, n)'
  <2>1. disk[n] = "old" => n \in Matching(f)
    BY <1>6, ReportsOf, ExtensionAssumption DEF Matching
  <2>2. Settled(f, n) BY <1>6 DEF DiskInv, Worked
  <2>. QED BY <1>1, <1>5, <2>1, <2>2 DEF Settled, ReportOf
<1>7. Worked(f)'
  BY <1>1, <1>5, <1>6 DEF DiskInv, Worked, Matching
<1>8. \A g \in Files : g # f => Worked(g)'
  BY <1>1, <1>2, OtherFiles DEF DiskInv, WorkTyped
<1>. QED BY <1>4, <1>7, <1>8 DEF DiskInv

LEMMA UnlinkDisk ==
  ASSUME DiskInv, NEW f \in Files, NEW n \in Names, Unlink(f, n)
  PROVE  DiskInv'
<1>1. UNCHANGED <<child, outcome, found, step, at>> /\ step[f] = "unlink" /\ n \in globbed[f]
  BY DEF Unlink, vars
<1>2. /\ globbed' = [globbed EXCEPT ![f] = @ \ {n}]
      /\ \/ disk' = [disk EXCEPT ![n] = "none"] /\ logged' = logged
         \/ disk' = disk /\ logged' = logged \cup {n}
  BY DEF Unlink
<1>3. n \in ReportNames /\ <<f, n[1]>> \in ExtensionOf BY <1>1 DEF DiskInv, Worked
<1>4. WorkTyped' BY <1>1, <1>2 DEF DiskInv, WorkTyped
<1>5. globbed'[f] = globbed[f] \ {n} /\ \A m \in Names : disk'[m] \in {disk[m], "none"}
  BY <1>2 DEF DiskInv, WorkTyped
<1>6. ASSUME NEW m \in Reports(f) PROVE Settled(f, m)'
  <2>1. Settled(f, m) /\ m \in Names BY <1>6, ReportsOf DEF DiskInv, Worked
  <2>2. CASE m # n
    <3>1. disk'[m] = disk[m] BY <1>2, <2>1, <2>2 DEF DiskInv, WorkTyped
    <3>. QED BY <1>1, <1>2, <1>5, <2>1, <2>2, <3>1 DEF Settled, ReportOf
  <2>3. CASE m = n
    <3>1. disk'[m] = "none" \/ (disk'[m] = disk[m] /\ m \in logged')
      BY <1>2, <2>3 DEF DiskInv, WorkTyped
    <3>. QED BY <1>1, <1>2, <2>1, <3>1 DEF Settled, ReportOf
  <2>. QED BY <2>2, <2>3
<1>7. Worked(f)' BY <1>1, <1>5, <1>6 DEF DiskInv, Worked
<1>8. ASSUME NEW g \in Files, g # f PROVE Worked(g)'
  <2>1. ASSUME NEW m \in Reports(g)
        PROVE  disk'[m] = disk[m] \/ (disk'[m] = "none" /\ ~Alone(g))
    <3>1. m \in Names /\ m[1] = g BY <2>1, ReportsOf
    <3>2. CASE m = n BY <1>2, <1>3, <1>8, <3>1, <3>2 DEF Alone, DiskInv, WorkTyped
    <3>3. CASE m # n BY <1>2, <3>1, <3>3 DEF DiskInv, WorkTyped
    <3>. QED BY <3>2, <3>3
  <2>2. globbed'[g] = globbed[g] BY <1>2, <1>8 DEF DiskInv, WorkTyped
  <2>. QED BY <1>1, <1>2, <1>8, <2>1, <2>2, OtherFiles
<1>. QED BY <1>4, <1>7, <1>8 DEF DiskInv

LEMMA CleanedDisk ==
  ASSUME DiskInv, NEW f \in Files, Cleaned(f)
  PROVE  DiskInv'
<1>1. UNCHANGED <<child, outcome, found, disk, globbed, at, logged>>
      /\ step[f] = "unlink" /\ globbed[f] = {} /\ step' = [step EXCEPT ![f] = "analyse"]
  BY DEF Cleaned, vars
<1>2. WorkTyped' BY <1>1 DEF DiskInv, WorkTyped
<1>3. step'[f] = "analyse" /\ outcome[f] # "ok" /\ at[f] = 1
  BY <1>1 DEF DiskInv, WorkTyped, Worked
<1>4. ASSUME NEW n \in Reports(f) PROVE Settled(f, n)'
  <2>1. ~(n[2] < at[f]) BY <1>3, <1>4, ReportsOf, CandidatesAssumption DEF Blocks
  <2>2. Settled(f, n) BY <1>4 DEF DiskInv, Worked
  <2>. QED BY <1>1, <1>3, <2>1, <2>2 DEF Settled, ReportOf
<1>5. Worked(f)' BY <1>1, <1>3, <1>4 DEF DiskInv, Worked
<1>6. \A g \in Files : g # f => Worked(g)'
  BY <1>1, OtherFiles DEF DiskInv, WorkTyped
<1>. QED BY <1>2, <1>5, <1>6 DEF DiskInv

LEMMA ProcessBlockDisk ==
  ASSUME DiskInv, NEW f \in Files, ProcessBlock(f)
  PROVE  DiskInv'
<1>1. /\ UNCHANGED <<child, outcome, found, step, globbed>>
      /\ step[f] = "analyse" /\ outcome[f] = "none" /\ outcome[f] # "ok"
      /\ at' = [at EXCEPT ![f] = @ + 1] /\ at[f] \in Nat /\ at'[f] = at[f] + 1
  BY DEF ProcessBlock, vars, DiskInv, WorkTyped
<1>2. PICK written \in SUBSET (ReportOf(f, at[f]) \cup MusOf(f, at[f])) :
        /\ disk' = [n \in Names |-> IF n \in written THEN "new" ELSE disk[n]]
        /\ logged' = logged \cup (ReportOf(f, at[f]) \ written)
  BY DEF ProcessBlock
<1>3. WorkTyped'
  <2>1. disk' \in [Names -> {"none", "old", "new"}] BY <1>2 DEF DiskInv, WorkTyped
  <2>2. at' \in [Files -> Nat] BY <1>1 DEF DiskInv, WorkTyped
  <2>. QED BY <1>1, <2>1, <2>2 DEF DiskInv, WorkTyped
<1>4. ASSUME NEW n \in Reports(f) PROVE Settled(f, n)'
  <2>1. Settled(f, n) /\ n \in Names /\ n[2] \in Nat /\ n \notin MusOf(f, at[f])
    BY <1>4, ReportsOf, WritesOwn, CandidatesAssumption DEF DiskInv, Worked, Blocks
  <2>2. /\ n \in written => n \in ReportOf(f, n[2])
        /\ n \in ReportOf(f, at[f]) => n[2] = at[f]
        /\ ReportOf(f, n[2])' = ReportOf(f, n[2])
    <3>1. n \in ReportOf(f, at[f]) => n[2] = at[f] BY WritesOwn
    <3>2. n \in written => n \in ReportOf(f, at[f]) BY <1>2, <2>1
    <3>. QED BY <1>1, <3>1, <3>2 DEF ReportOf
  <2>3. n[2] < at[f] + 1 => n[2] < at[f] \/ n[2] = at[f] BY <1>1, <2>1
  <2>4. CASE n \in written
    <3>1. disk'[n] = "new" BY <1>2, <2>1, <2>4
    <3>. QED BY <1>1, <2>2, <2>4, <3>1 DEF Settled
  <2>5. CASE n \notin written
    <3>1. disk'[n] = disk[n] BY <1>2, <2>1, <2>5
    <3>2. n \in ReportOf(f, n[2]) /\ n[2] = at[f] => n \in logged'
      BY <1>2, <2>5
    <3>. QED BY <1>1, <1>2, <2>1, <2>2, <2>3, <3>1, <3>2 DEF Settled, Alone
  <2>. QED BY <2>4, <2>5
<1>5. Worked(f)' BY <1>1, <1>4 DEF DiskInv, Worked
<1>6. ASSUME NEW g \in Files, g # f PROVE Worked(g)'
  <2>1. \A n \in Reports(g) : disk'[n] = disk[n]
    BY <1>2, <1>6, ReportsOf, WritesOwn
  <2>2. at'[g] = at[g] BY <1>1, <1>6 DEF DiskInv, WorkTyped
  <2>. QED BY <1>1, <1>2, <1>6, <2>1, <2>2, OtherFiles
<1>. QED BY <1>3, <1>5, <1>6 DEF DiskInv

LEMMA WorkerEndsDisk ==
  ASSUME DiskInv, NEW f \in Files, NEW o \in Outcomes, WorkerEnds(f, o)
  PROVE  DiskInv'
<1>1. /\ UNCHANGED workVars
      /\ child' = [child EXCEPT ![f] = "zombie"] /\ outcome' = [outcome EXCEPT ![f] = o]
      /\ o = "ok" => CanSucceed(f)
  BY DEF WorkerEnds, ChildEnds
<1>2. UNCHANGED <<found, disk, step, globbed, at, logged>> BY <1>1 DEF workVars
<1>3. WorkTyped'
  <2>1. outcome' \in [Files -> Outcomes \cup {"none"}] BY <1>1 DEF DiskInv, WorkTyped
  <2>2. ASSUME NEW g \in Files, child'[g] = "running" PROVE outcome'[g] = "none"
    BY <1>1, <2>2 DEF DiskInv, WorkTyped
  <2>3. DOMAIN child' = Files BY <1>1 DEF DiskInv, WorkTyped
  <2>. QED BY <1>2, <2>1, <2>2, <2>3 DEF DiskInv, WorkTyped
<1>4. Worked(f)'
  <2>1. o = "ok" => step[f] = "analyse" /\ at[f] > Candidates[f]
    <3>1. at[f] \in Nat /\ Candidates[f] \in Nat BY CandidatesAssumption DEF DiskInv, WorkTyped
    <3>. QED BY <1>1, <3>1 DEF CanSucceed, HasBlock
  <2>2. outcome'[f] = o BY <1>1 DEF DiskInv, WorkTyped
  <2>3. \A n \in Reports(f) : Settled(f, n)'
    BY <1>2 DEF DiskInv, Worked, Settled, ReportOf, Alone
  <2>. QED BY <1>2, <2>1, <2>2, <2>3 DEF DiskInv, Worked
<1>5. \A g \in Files : g # f => Worked(g)'
  BY <1>1, <1>2, OtherFiles DEF DiskInv, WorkTyped
<1>. QED BY <1>3, <1>4, <1>5 DEF DiskInv

LEMMA DiskHolds == DeadSpec => []DiskInv
<1>1. IInv /\ DiskInv /\ [DeadNext]_<<vars, workVars>> => DiskInv'
  BY ParentDisk, GlobDisk, UnlinkDisk, CleanedDisk, ProcessBlockDisk, WorkerEndsDisk
  DEF DeadNext, Worker
<1>2. DeadSpec => []IInv BY DeadRunIsPool, Invariance, PTL
<1>. QED BY InitDisk, <1>1, <1>2, PTL DEF DeadSpec

\* The children of a dead run change nothing about the pool: whatever they leave on
\* disk, the counter, the map of arguments and the abstract pool are as in JobPool.
THEOREM DeadRunKeepsPool ==
  DeadSpec => [](BoundedParallelism /\ LostOnlyByReuse) /\ ImplementsPool
  BY DeadRunIsPool, CountersExact, FailedFilesKept, PoolImplemented, PTL

\* The reports on disk for a file that was processed successfully, and that no other
\* worker's glob reaches, are this run's, but for the names an error was logged about:
\* for every worklist, interleaving, and failure of unlink and open.
THEOREM ResultsComplete == DeadSpec => []SuccessIsComplete
<1>1. DiskInv => SuccessIsComplete
  <2>. SUFFICES ASSUME DiskInv, NEW f \in Files, outcome[f] = "ok", Alone(f),
                       NEW n \in Reports(f), n \notin logged
       PROVE  disk[n] = IF n \in ReportOf(f, n[2]) THEN "new" ELSE "none"
    BY DEF SuccessIsComplete
  <2>1. n[2] < at[f]
    BY ReportsOf, CandidatesAssumption DEF DiskInv, Worked, WorkTyped, Blocks
  <2>2. disk[n] \in {"none", "old", "new"} BY ReportsOf DEF DiskInv, WorkTyped
  <2>. QED BY <2>1, <2>2 DEF DiskInv, Worked, Settled
<1>. QED BY <1>1, DiskHolds, PTL

\* Nor does a file that got as far as a report of this run have one of an earlier, but
\* where its removal failed, and whatever the names of the other files.
THEOREM NoOldReports == DeadSpec => []NoMixture
<1>1. DiskInv => NoMixture
  <2>. SUFFICES ASSUME DiskInv, NEW f \in Files, NEW m \in Reports(f), disk[m] = "new",
                       NEW n \in Reports(f), disk[n] = "old"
       PROVE  n \in logged
    BY DEF NoMixture
  <2>1. step[f] \in {"glob", "unlink", "analyse"} BY DEF DiskInv, WorkTyped
  <2>. QED BY <2>1 DEF DiskInv, Worked, Settled
<1>. QED BY <1>1, DiskHolds, PTL
=============================================================================
